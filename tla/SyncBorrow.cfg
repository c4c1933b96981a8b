SPECIFICATION Spec
CONSTANTS
    Null = Null
    Apps = {a1, a2}
    Async = async
    Workers = {w1}
    Cb = cb
    Connectors = {a1}
    UserCalls = {"subscribe", "publish"}
    Tokens = {t1, t2}
    MaxEvents = 2
INVARIANT LentWhileUsed

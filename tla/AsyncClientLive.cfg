CONSTANTS
    a1 = a1
    t1 = t1
    t2 = t2
    Cb = Cb
    Null = Null
    Apps = {a1}
    Connectors = {}
    Tokens = {t1, t2}
    MaxReconnects = 0
    MaxDepth = 2
SPECIFICATION Spec
PROPERTIES
    CallsReturn
    DeliveryIsReported
CHECK_DEADLOCK FALSE

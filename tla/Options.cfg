SPECIFICATION Spec
CONSTANTS
    o1 = o1
    o2 = o2
    o3 = o3
    b1 = b1
    b2 = b2
    b3 = b3
    b4 = b4
    Null = Null
    Objects = {o1, o2, o3}
    Buffers = {b1, b2, b3, b4}
    Values = {0, 1}
    Fields = {"userName", "password", "token", "serverURIs", "httpProxy",
              "connectProperties", "will", "ssl", "trustStore", "errHandler",
              "protos", "topic", "payload", "responseToken", "responseProperties",
              "subscribeOptionsList", "disconnectToken",
              "disconnectProperties", "messagePayload", "messageProperties",
              "cArr", "propertyData"}
SYMMETRY AddressSymmetry
INVARIANTS OneOwner OwnData MatchesMembers
PROPERTIES Independent Faithful

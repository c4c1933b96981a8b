CONSTANTS
    c1 = c1
    c2 = c2
    Consumers = {c1, c2}
    Calls = {"consume_message", "try_consume_message_for"}
    Handlers = {"disconnected"}
    MaxEvents = 2
    MaxQueues = 1
SPECIFICATION Spec
INVARIANTS
    NothingSwallowed
    ShutdownIsLast
PROPERTIES
    StopWakesConsumers

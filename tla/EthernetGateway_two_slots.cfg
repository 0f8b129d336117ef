CONSTANTS
    Conns = {1, 2, 3}
    Closing = {1, 2}
    Breaking = {2}
    Slow = {}
    NoConn = 0
    MaxFile = 3
    max_clients = 2
    Script <- Typed
    MY_GATEWAY_MAX_RECEIVE_LENGTH = 3
SPECIFICATION Spec
INVARIANT OneSlot

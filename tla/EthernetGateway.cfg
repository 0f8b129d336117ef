CONSTANTS
    Conns = {1, 2, 3}
    Closing = {1}
    Breaking = {2}
    Slow = {1}
    NoConn = 0
    MaxFile = 3
    max_clients = 2
    Script <- Typed
    MY_GATEWAY_MAX_RECEIVE_LENGTH = 3
SPECIFICATION FairSpec
INVARIANTS TypeOK BufferIsOwn HolderIsServed
PROPERTIES EverythingRead InclusionEnds

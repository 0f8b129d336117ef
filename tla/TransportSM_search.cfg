\* A sensor node with a dynamic ID and a preferred parent looks for its place.
CONSTANTS
  Peers <- TwoNeighbours
  MY_NODE_ID = 255
  MY_PARENT_NODE_ID = 7
  ParentIsStatic = FALSE
  Repeater = FALSE
  SanityCheck = FALSE
  IdOffers = {20, 21, 255}
  Hops = {0, 1}
  Traffic = {"ID_RESPONSE", "FPAR_RESPONSE", "PONG"}
  MAX_TX_FAILURES = 1
  TX_COUNTER_MOD = 4
  MAX_TSM_FAILURES = 2
  STATE_RETRIES = 1
  MAX_SUBSEQ_MSGS = 2
  STATE_TIMEOUT = 0
  PING_TIMEOUT = 1
  CHKUPL_INTERVAL = 0
  TIMEOUT_FAILURE = 0
  TIMEOUT_EXT_FAILURE = 1
  HandlersWait = FALSE
  RxMax = 1
  MaxNest = 1
  MaxDepth = 0
SPECIFICATION Spec
INVARIANTS TypeOK ReadyIsAttached PreferredParentKept
PROPERTIES ImplementsLife NoHastySearch

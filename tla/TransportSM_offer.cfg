\* A repeater whose sanity check fails while it pings the gateway for another node.
CONSTANTS
  Peers <- OneNeighbour
  MY_NODE_ID = 20
  MY_PARENT_NODE_ID = 255
  ParentIsStatic = FALSE
  Repeater = TRUE
  SanityCheck = TRUE
  IdOffers = {}
  Hops = {1}
  Traffic = {"FPAR_REQUEST", "FPAR_RESPONSE", "PONG", "APP"}
  MAX_TX_FAILURES = 0
  TX_COUNTER_MOD = 3
  MAX_TSM_FAILURES = 1
  STATE_RETRIES = 0
  MAX_SUBSEQ_MSGS = 1
  STATE_TIMEOUT = 0
  PING_TIMEOUT = 1
  CHKUPL_INTERVAL = 1
  TIMEOUT_FAILURE = 0
  TIMEOUT_EXT_FAILURE = 0
  HandlersWait = FALSE
  RxMax = 1
  MaxNest = 1
  MaxDepth = 0
SPECIFICATION Spec
PROPERTIES OffersWhenOperational

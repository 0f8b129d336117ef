\* Traffic of a repeater with a static parent: find-parent requests, whose pings
\* nest, pings, discovery, messages to it and through it; every one of them may
\* be an uplink transmission that fails.
CONSTANTS
  Peers <- OneNeighbour
  MY_NODE_ID = 20
  MY_PARENT_NODE_ID = 7
  ParentIsStatic = TRUE
  Repeater = TRUE
  SanityCheck = TRUE
  IdOffers = {}
  Hops = {0, 2}
  Traffic = {"FPAR_REQUEST", "FPAR_RESPONSE", "PONG", "PING", "DISCOVER", "APP"}
  MAX_TX_FAILURES = 1
  TX_COUNTER_MOD = 4
  MAX_TSM_FAILURES = 1
  STATE_RETRIES = 0
  MAX_SUBSEQ_MSGS = 2
  STATE_TIMEOUT = 0
  PING_TIMEOUT = 1
  CHKUPL_INTERVAL = 1
  TIMEOUT_FAILURE = 0
  TIMEOUT_EXT_FAILURE = 0
  HandlersWait = FALSE
  RxMax = 1
  MaxNest = 2
  MaxDepth = 0
SPECIFICATION FairSpec
INVARIANTS PingSlotFreed
PROPERTIES MainLoopTurns

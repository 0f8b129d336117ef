\* Liveness of a dynamic repeater when messages make the core or the sketch wait:
\* the main loop runs nested in those waits and in that of the ready callback, a
\* find-parent request pings, and a sanity check may fail at any time. Pings and
\* discovery requests of other nodes are left to the traffic run.
CONSTANTS
  Peers <- OneNeighbour
  MY_NODE_ID = 20
  MY_PARENT_NODE_ID = 255
  ParentIsStatic = FALSE
  Repeater = TRUE
  SanityCheck = TRUE
  IdOffers = {}
  Hops = {1}
  Traffic = {"FPAR_REQUEST", "FPAR_RESPONSE", "PONG", "APP"}
  MAX_TX_FAILURES = 0
  TX_COUNTER_MOD = 3
  MAX_TSM_FAILURES = 1
  STATE_RETRIES = 0
  MAX_SUBSEQ_MSGS = 1
  STATE_TIMEOUT = 0
  PING_TIMEOUT = 1
  CHKUPL_INTERVAL = 1
  TIMEOUT_FAILURE = 0
  TIMEOUT_EXT_FAILURE = 0
  HandlersWait = TRUE
  RxMax = 1
  MaxNest = 1
  MaxDepth = 1
SPECIFICATION FairSpec
PROPERTIES StatesEnd OffersAreUsable

\* Two nodes: an acknowledgement that comes late confirms the next message.
CONSTANTS
    Nodes = {a, b}
    Broadcast = all
    None = none
    Retries = 1
    MaxCalls = 2
    Resetting = {}
SPECIFICATION Spec
PROPERTY TrueMeansSent

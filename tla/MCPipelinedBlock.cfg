SPECIFICATION Spec
CONSTANTS
    Client = {c1, c2}
    NoClient = NoClient
    Ops = {"unpause", "bpop"}
    Pipelined = {"bpop"}
    MaxClients = 2
    InputCap = 2
    MaxRequests = 2
    MaxAccepts = 2
INVARIANTS NothingCarriedOutTwice
CHECK_DEADLOCK FALSE

SPECIFICATION FairSpec
CONSTANTS
    Client = {c1, c2}
    NoClient = NoClient
    Ops = {"push", "pop", "bpop", "kill", "unblock", "pause", "pause_write", "unpause"}
    Pipelined = {"push"}
    MaxClients = 2
    InputCap = 2
    MaxRequests = 3
    MaxAccepts = 2
INVARIANTS TypeOK CountersAgree RequestsInOrder CarriedOutOnce
PROPERTIES PauseHolds RequestsAnswered BlockedClientsServed
CHECK_DEADLOCK FALSE

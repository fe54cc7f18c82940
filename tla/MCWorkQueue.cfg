SPECIFICATION FairSpec
CONSTANTS
    Requests = {r1, r2, r3}
    Stoppers = {r3}
    Leavers = {r3}
    Commands <- MCCommands
    StopCommands <- MCStopCommands
    Command <- MCCommand
    Workers = {w1, w2}
    WQ_LENGTH = 2
    Garbage = Garbage
CONSTRAINT FewLeave
INVARIANTS
    TypeOK
    ListsWellFormed
    OneOwner
    ServesWhatWasSent
    NoLostWakeup
PROPERTIES
    ImplementsRequestQueue
    EveryClientIsAnswered
    StopSaves

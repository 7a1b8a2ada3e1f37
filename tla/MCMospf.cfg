CONSTANTS
    Routers <- Three
    Nets <- RingNets
    Members <- RingMembers
    Crashing <- SecondRouter
    Breaking <- RingCuts
    MaxSeq <- TwoSend
    MaxFaults = 1
    MaxMsgs = 0
SPECIFICATION SettledSpec
CHECK_DEADLOCK FALSE
INVARIANT TypeOK
INVARIANT Agreement
INVARIANT OneEntryEach
INVARIANT HostsReached
PROPERTY FloodEnds

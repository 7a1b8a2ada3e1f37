CONSTANTS
    Routers <- Square
    Nets <- SquareNets
    Members <- SquareMembers
    Crashing <- SecondRouter
    Breaking <- NoNet
    MaxSeq <- ThirdSends
    MaxFaults = 1
    MaxMsgs = 0
SPECIFICATION AwaySpec
CHECK_DEADLOCK FALSE
INVARIANT NetsReached

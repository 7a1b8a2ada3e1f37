CONSTANTS
    Switches <- MCSwitches
    Hubs <- MCHubs
    Hosts <- MCHosts
    Wire <- MCWire
    Blocked <- MCBlocked
    hash8 <- MChash8
    chars <- MCchars
    ended <- MCended
    Types <- MCTypes
    Timeout = 0
    Frames = {1, 2}
    Flows <- MCFlows
SPECIFICATION Spec
INVARIANT Towards
INVARIANT OnceEach
PROPERTY Delivered

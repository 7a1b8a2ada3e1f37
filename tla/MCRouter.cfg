CONSTANTS
    p1 = p1
    p2 = p2
    Width <- MCWidth
    Ifaces <- MCIfaces
    Addrs <- Addr
    Packets <- MCPackets
    Slots = 2
    EntryTimeout = 1
    MaxRetries = 2
    rtable <- MCrtable
    IfaceIp <- MCIfaceIp
    Arrivals <- MCArrivals
    Hosts <- MCHosts
SPECIFICATION Spec
INVARIANT TypeOK
INVARIANT OnePerAddress
PROPERTY FateSpec
PROPERTY Answered

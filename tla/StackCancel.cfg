CONSTANTS
    Len <- MC_Len
    SplitArgs <- MC_SplitArgs
    MaxArgs <- MC_MaxArgs
    RxContents <- MC_RxContents
    TxContents = {}
    Addr = own
    Broadcast = bcast
    Macs <- MC_Macs
    Dsts <- MC_Dsts
    V6 = {d6}
    IpOf <- MC_IpOf
    AddrBits = 2
    Capacity = 1
    Keys <- MC_Keys
    Gateways = {gw}
    Times = {0, 1}
    Forever = Forever
    None = None
    MacOf <- MC_MacOf
    Payloads <- MC_Payloads
    U16Max = 7
    UsizeMax = 11
    UdpHdr = 2
    Ip4Hdr = 2
    Ip6Hdr = 3
    EthHdr = 1
    Cap <- MC_Cap
    own = own
    other = other
    bcast = bcast
    d4 = d4
    d6 = d6
    gw = gw
SPECIFICATION CancelSpec
PROPERTY CancelLeavesNoState

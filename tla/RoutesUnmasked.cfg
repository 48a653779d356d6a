CONSTANTS
    AddrBits <- MC_AddrBits
    Capacity <- MC_Capacity
    Keys <- MC_UnmaskedKeys
    Times <- MC_Times
    Gateways = {g1, g2}
    Forever = Forever
    None = None
SPECIFICATION Spec
INVARIANT LookupIsLongestMatch

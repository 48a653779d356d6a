CONSTANTS
    Len <- MC_Len
    SplitArgs <- MC_SplitArgs
    MaxArgs <- MC_MaxArgs
    RxContents = {rxA}
    TxContents = {txA}
SPECIFICATION Spec
INVARIANT TypeOK
INVARIANT NoIndexPanic
PROPERTY QueuesRefined

SPECIFICATION SchedulerSpec
CONSTANTS
    SIZE = 3
    NoPointer = NoPointer
    s1 = s1
    b1 = b1
    b2 = b2
    b3 = b3
    b4 = b4
    Schedulers <- MCSchedulers
    Buffers <- MCBuffers
SYMMETRY BufferSymmetry
CHECK_DEADLOCK FALSE
INVARIANTS
    SchedulerTypeOK
    LinkPartition
    ThreadNeverThrows
    ConsumedBufferIsReady
PROPERTIES
    ReadyOrderIsKept

SPECIFICATION Spec
CONSTANTS
    s1 = s1
    s2 = s2
    b1 = b1
    b2 = b2
    w1 = w1
    w2 = w2
    SIZE = 2
    NoPointer = NoPointer
    RING_BUFFER_SIZE = 2
    MaxWrites = 3
    Schedulers <- TwoSchedulers
    Buffers <- OneBuffer
    Writers <- OneWriter
    WritesTo <- OneWrites
    Links <- SharedLinks
    Closers <- OneWriter
SYMMETRY SchedulerSymmetry
CHECK_DEADLOCK FALSE
INVARIANTS
    InOrder
    DataLeavesBufferReady
    MapsAgreeWithLists
PROPERTIES
    SchedulerSpec
    JoinedSchedulerIsQuiet

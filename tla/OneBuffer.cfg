SPECIFICATION FairSpec
CONSTANTS
    s1 = s1
    s2 = s2
    b1 = b1
    b2 = b2
    w1 = w1
    w2 = w2
    SIZE = 1
    NoPointer = NoPointer
    RING_BUFFER_SIZE = 3
    MaxWrites = 5
    Schedulers <- OneScheduler
    Buffers <- OneBuffer
    Writers <- OneWriter
    WritesTo <- OneWrites
    Links <- OneLink
    Closers <- NoClosers
CHECK_DEADLOCK FALSE
INVARIANTS
    DataFlowTypeOK
    InOrder
    DataLeavesBufferReady
    RepeatsBoundedByWrites
    ConsumerStaysBehindWriter
PROPERTIES
    JoinedSchedulerIsQuiet
    LinksAreQueues
    SeenEmptyIsDrained
    TerminationIsObeyed
    ReadyDataAreConsumed
    DrainsBeforeFinishing

SPECIFICATION FairSpec
CONSTANTS
    t1 = t1
    t2 = t2
    t3 = t3
    i1 = i1
    i2 = i2
    Threads <- MCThreads
    Instances <- MCInstances
    InstanceOf <- MCInstanceOf
    Fields = {decisions}
    MaxCalls = 2
    MaxCrashes = 1
    NoFile = NoFile
    Corrupt = Corrupt
    None = None
INVARIANTS
    TypeOK
    AckedRetainedOnce
    SnapshotsArePrefixes
PROPERTIES
    CorruptionPreserved
    ImplementsLog
    OperationsReturn
CHECK_DEADLOCK FALSE

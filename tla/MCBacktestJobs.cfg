CONSTANTS
    j1 = j1
    j2 = j2
    Jobs <- MCJobs
    MaxWorkers = 1
    MaxCrashes = 1
    MaxFaults = 1
SPECIFICATION FairSpec
INVARIANTS
    QuiescentWhenTerminal
    CompletedHasResult
    EveryWriterIsRegistered
PROPERTIES
    SealedFailsOnlyInShutdown
    LifecycleSpec
    QueuedIsServed
    StoppedIsSettled

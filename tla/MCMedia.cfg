\* The engine: two threads, two chain ids, three added chains: a start
\* overlaps an add_chain, a remove_chain or a stop, and a removed id is used
\* again.  The generator: two callers that start and stop at the same time,
\* three threads, so that an old thread, its successor and a later one can
\* overlap, and two sinks that come and go during deliveries.
CONSTANTS
    EngineCallers = {c1, c2}
    Ids = {a, b}
    NoChain = NoChain
    MaxAdds = 3
    Callers = {c1, c2}
    NoOne = NoOne
    MaxThreads = 3
    MaxSinks = 2
SPECIFICATION MediaSpec
CHECK_DEADLOCK FALSE
INVARIANTS TaskIsReachable NoTwinTasks ThreadIsTracked StoppedIsStopped RemovedSinkIsQuiet
PROPERTIES ShutdownDrains StopReturns

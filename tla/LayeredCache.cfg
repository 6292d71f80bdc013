\* One key, an API process that listens and a worker that does not.
SPECIFICATION FairSpec
CONSTANTS
    Keys = {k1}
    Procs = {api, worker}
    Listeners = {api}
    Tasks = {reader, consumer}
    Consumer = consumer
    ConsumerProc = worker
    RemoteTtl = 2
    LocalTtl = 1
    MaxLatency = 1
    MaxQueueLag = 3
    MaxVersion = 2
    MaxInbox = 1
    MaxFailures = 1
INVARIANTS
    RedisStalenessBounded
    LocalStalenessBounded
PROPERTIES
    EventuallyFresh

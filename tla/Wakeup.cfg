\* One sender and two receivers; room for one waiter and one kept wakeup, one
\* disturbance.
SPECIFICATION FairSpec
CONSTANTS
    s1 = s1
    r1 = r1
    r2 = r2
    job1 = job1
    job2 = job2
    Sender = {s1}
    Receiver = {r1, r2}
    Job = {job1, job2}
    JobOf <- Jobs
    Insecure = {r2}
    MaxWaitersPerJob = 1
    MaxPendingJobs = 1
    MaxHardFails = 2
    MaxTroubles = 1
    NoFile = NoFile
    Empty = Empty
    Earlier <- Leftovers
    EarlierPending <- OneKept
INVARIANTS
    TypeOK
    NoWaiterForgotten
    FoundIsPublished
    OneCertificate
PROPERTIES
    FindsJob
    WaitEnds
CHECK_DEADLOCK FALSE

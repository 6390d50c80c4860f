SPECIFICATION Spec
CONSTANTS
    m1 = m1  m2 = m2
    read1 = read1  read2 = read2  write2 = write2  near1 = near1  near2 = near2
    NULL = NULL
    MaxInFlight = 3
    Sender = {m1, m2}
    Pkt = {read1, read2, write2, near1}
    Posted = {write2}
    from <- MCfrom
    to <- MCto
    reqQueueLimit = 1
    respQueueLimit = 1
INVARIANTS TypeOK NoAssertFails WakeUpOwed ResponsesReserved OnePlace DrainCounted
PROPERTIES ImplementsRequests DrainEnds

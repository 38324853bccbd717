SPECIFICATION FairSpec
CONSTANTS
    single1 = single1
    single2 = single2
    both = both
    query = query
    batchQuery = batchQuery
    Messages = {single1, single2, both}
    Subjects = {query, batchQuery}
    SubjectOf <- MCSubjectOf
    Queries <- MCQueries
    MaxWorkers = 2
    BatchSlots = 2
INVARIANTS
    TypeOK
    SlotsConserved
    RejectedNeverHandled
PROPERTIES
    MessagesAnswered
    ShutdownCompletes
CHECK_DEADLOCK FALSE

SPECIFICATION FairSpec
CONSTANTS
    an = an
    l1 = l1
    l2 = l2
    trong = trong
    dot1 = dot1
    Students = {an}
    Sections = {l1, l2}
    Filters = {trong, dot1}
    Rong = trong
    Nil = Nil
    Readers = {r1}
    Writers = {w1}
    Pods = {p1}
    Posts <- MCPosts
    AskedKeys <- MCAskedKeys
    OnFile <- MCOnFile
    NoRow = NoRow
    MaxPosts = 1
    MaxErrors = 1
INVARIANTS
    TypeOK
PROPERTIES
    BatchOwesItsChanges
    DebtsArePaid
    EventuallyCurrent

SPECIFICATION Spec
CONSTANTS
    an = an
    binh = binh
    l1 = l1
    click1 = click1
    click2 = click2
    rival = rival
    cancel = cancel
    Students = {an, binh}
    Sections = {l1}
    SoLuongToiDa <- MCSoLuongToiDa
    Pods = {p1, p2}
    Posts = {click1, click2, rival, cancel}
    Ask <- MCAsk
    NoId = NoId
    MaxFaults = 1
INVARIANTS
    TypeOK
    LedgerDrift
    OversellBounded
    SuccessOnFile
    IdentifierOnFile
SYMMETRY MCSymmetry
CHECK_DEADLOCK FALSE

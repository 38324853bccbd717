SPECIFICATION Spec
CONSTANTS
    A = A
    B = B
    C = C
    s1 = s1
    s2 = s2
    s3 = s3
    Students = {s1, s2}
    Courses = {A, B}
    Sections = {1, 2, 3}
    NoCourse = NoCourse
    NoSection = 0
    CourseOf <- TwoOfAOneOfB
    SoLuongToiDa <- Seats111
    Replicas = {r1}
    BatchSlots = 1
    Requests <- Indecision
    CarefulClient = FALSE
    MaxFailures = 0
    MaxCrashes = 0
INVARIANTS
    TypeOK
    NoOversell
    OneSectionPerCourse
PROPERTY
    OutcomeKept
CHECK_DEADLOCK FALSE

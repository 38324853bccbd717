SPECIFICATION Spec
CONSTANTS
    A = A
    B = B
    C = C
    s1 = s1
    s2 = s2
    s3 = s3
    Students = {s1, s2, s3}
    Courses = {A, B}
    Sections = {1, 2}
    NoCourse = NoCourse
    NoSection = 0
    CourseOf <- TwoOfA
    SoLuongToiDa <- Seats11
    Replicas = {r1}
    BatchSlots = 2
    Requests <- Crowd
    CarefulClient = FALSE
    MaxFailures = 0
    MaxCrashes = 0
INVARIANTS
    SeatsAccounted
    OversellLimited
CHECK_DEADLOCK FALSE

SPECIFICATION Spec
CONSTANTS
    A = A
    B = B
    Students <- MCStudents
    Courses <- MCCourses
    Sections <- MCSections
    NoCourse = NoCourse
    NoSection = NoSection
    Tolerance = 1
    Populations <- MCPopulations
INVARIANTS
    TypeOK
    HybridServesAtLeast
    SeatsGoByCloseness
    DisplacedFairly
    TieBreakKept
CHECK_DEADLOCK FALSE

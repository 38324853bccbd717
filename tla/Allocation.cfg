SPECIFICATION Spec
CONSTANTS
    A = A
    B = B
    Students <- MCStudents
    Courses <- MCCourses
    Sections <- MCSections
    NoCourse = NoCourse
    Inputs <- MCInputs
    MaxIter = 5
INVARIANTS
    TypeOK
    CapacityExact
    NoJustifiedEnvy
    OneSectionPerCourse
    LocalOptimum
PROPERTIES
    NeverSwaps
CHECK_DEADLOCK FALSE

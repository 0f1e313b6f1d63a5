SPECIFICATION FairSpec
CONSTANTS
    r1 = r1
    r2 = r2
    p1 = p1
    p2 = p2
    f1 = f1
    f2 = f2
    Reports <- MCReports
    Papers <- MCOnePaper
    Faculties <- MCFaculties
    FacultyOf <- MCFacultyOf
    Nothing = Nothing
    Requests <- MCRequests
    MaxSeconds = 1
    MaxEdits = 2
    MaxFaults = 1
INVARIANT AdminGateHeld CompletedIsBacked VerifiableUnlessSameSecond GateHeld
PROPERTY EventuallyFinal
CHECK_DEADLOCK FALSE

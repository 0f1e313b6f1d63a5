SPECIFICATION FairSpec
CONSTANTS
    r1 = r1
    r2 = r2
    p1 = p1
    p2 = p2
    f1 = f1
    f2 = f2
    Reports <- MCReports
    Papers <- MCOnePaper
    Faculties <- MCFaculties
    FacultyOf <- MCFacultyOf
    Nothing = Nothing
    Requests <- MCOneRequest
    MaxSeconds = 0
    MaxEdits = 0
    MaxFaults = 0
PROPERTY NeverStuck
CHECK_DEADLOCK FALSE

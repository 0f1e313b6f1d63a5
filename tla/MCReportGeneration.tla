------------------------- MODULE MCReportGeneration -------------------------
EXTENDS ReportGeneration

CONSTANTS r1, r2, p1, p2, f1, f2

MCReports   == {r1, r2}
MCPapers    == {p1, p2}
MCOnePaper  == {p1}
MCFaculties == {f1, f2}
MCFacultyOf == [p \in Papers |-> IF p = p1 THEN f1 ELSE f2]

\* A department's report by a coordinator, a faculty profile by an admin.
MCRequests ==
    {[file |-> "criteria_iii.pdf", faculty |-> Nothing, admin |-> FALSE],
     [file |-> "faculty_profile.pdf", faculty |-> f1, admin |-> TRUE]}
MCOneRequest ==
    {[file |-> "criteria_iii.pdf", faculty |-> Nothing, admin |-> FALSE]}
=============================================================================

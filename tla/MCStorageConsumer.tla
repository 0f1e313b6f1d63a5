-------------------------- MODULE MCStorageConsumer --------------------------
EXTENDS StorageConsumer

CONSTANTS k1, k2, d1, d2, p1, p2, c1, c2

MCKeys        == {k1, k2}
MCDepartments == {d1, d2}
MCDepartment  == {d1}
MCPartitions  == {p1, p2}
MCOne         == {c1}
MCGroup       == {c1, c2}
=============================================================================

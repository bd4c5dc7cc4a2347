------------------------------ MODULE MCConsole ------------------------------
EXTENDS Console

CONSTANTS c1, c2, r1, r2

HomeOf == [r \in Reports |-> IF r = r1 THEN c1 ELSE c2]
=============================================================================

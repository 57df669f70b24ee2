----------------------------- MODULE MCLegacyWal -----------------------------
EXTENDS LegacyWal

CONSTANTS p1, p2, v1, v2

MCPages == {p1, p2}
MCVals == {v1, v2}

=============================================================================

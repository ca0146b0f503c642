-------------------------------- MODULE MCSd --------------------------------
EXTENDS SdCard
\* Neighbours that fill more than a chunk, a gap, a table that is not whole, and
\* one that names a sector twice.
MCTables == {<<4, 1, 2, 3>>, <<2, 0>>, <<3, 4, 3>>}
=============================================================================

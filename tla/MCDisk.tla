------------------------------- MODULE MCDisk -------------------------------
EXTENDS DiskDrive
\* A whole track and a single block on another track, and a track to write.
MCJobs == {[read |-> TRUE,  full |-> TRUE,  track |-> 1, blk |-> 0],
           [read |-> TRUE,  full |-> FALSE, track |-> 0, blk |-> 1],
           [read |-> FALSE, full |-> TRUE,  track |-> 1, blk |-> 1]}
=============================================================================

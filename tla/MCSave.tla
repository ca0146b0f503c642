------------------------------- MODULE MCSave -------------------------------
\* One sector, which the game writes before and after it is copied, and a
\* counter of one bit, which wraps around at every other write.
EXTENDS SaveWriteback
=============================================================================

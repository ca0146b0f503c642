----------------------------- MODULE MCIsv -----------------------------
\* The text goes around a buffer of four units twice, and the link may be reset
\* twice, while others use the packet slot.
EXTENDS Isv
=============================================================================

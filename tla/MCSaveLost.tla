----------------------------- MODULE MCSaveLost -----------------------------
\* One sector is enough to lose it.
EXTENDS SaveWriteback
=============================================================================

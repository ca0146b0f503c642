------------------------------ MODULE MCRtcFeb ------------------------------
EXTENDS Rtc
\* A week before the end of February 2025, set by command.
MCDates == {[c |-> 1, y |-> 25, m |-> 2, d |-> 26]}
MCDefault == [c |-> 1, y |-> 24, m |-> 6, d |-> 1]
=============================================================================

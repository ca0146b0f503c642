------------------------------- MODULE MCRtc -------------------------------
EXTENDS Rtc
\* The days around each end of a year, of a century and of February, in all
\* centuries; 2699 is left out, as its days run into 2700.
MCDates ==
  ({[c |-> c, y |-> y, m |-> 2, d |-> d] : c \in 0..7, y \in {0, 1, 4, 99}, d \in {26, 28}}
     \ {[c |-> 7, y |-> 99, m |-> 2, d |-> d] : d \in {26, 28}})
  \cup {[c |-> c, y |-> y, m |-> 12, d |-> 30] : c \in 0..6, y \in {0, 3, 99}}
MCJoyDates == {[c |-> 1, y |-> 0, m |-> 2, d |-> 28], [c |-> 0, y |-> 99, m |-> 12, d |-> 31]}
MCDefault == [c |-> 1, y |-> 24, m |-> 6, d |-> 1]
=============================================================================

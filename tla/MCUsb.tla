------------------------------- MODULE MCUsb -------------------------------
\* A read, a write, a refused write and a debug write, against a producer of
\* packets that waits for its callback and events that have none, with resets
\* and suspensions of the link at any time.
EXTENDS UsbController

Command(op, len, bad, typed) == [op |-> op, len |-> len, bad |-> bad, typed |-> typed]

MCCommands ==
  {Command("m", 1, FALSE, FALSE), Command("M", 1, FALSE, FALSE),
   Command("M", 1, TRUE, FALSE), Command("U", 2, FALSE, TRUE)}

MCLengths == {1}
=============================================================================

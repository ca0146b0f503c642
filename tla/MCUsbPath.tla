----------------------------- MODULE MCUsbPath -----------------------------
\* One command, with a byte of header and a transfer that starts or ends in the
\* middle of a word, and one reset or one access of the N64 at any step.
EXTENDS UsbPath

MCJobs == {[write |-> TRUE, address |-> 1, length |-> 2],
           [write |-> TRUE, address |-> 0, length |-> 3],
           [write |-> FALSE, address |-> 1, length |-> 3]}
=============================================================================

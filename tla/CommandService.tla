--------------------------- MODULE CommandService ---------------------------
(***************************************************************************)
(* What the command registers promise to the N64, without saying how: one  *)
(* call is open at a time, it takes effect at most once and only while it  *)
(* is open, and when it ends the error flag tells whether it did.          *)
(***************************************************************************)
EXTENDS Naturals

CONSTANT Calls              \* the calls a program may make, never 0

VARIABLES
  open,                     \* the call that is executed, or 0
  effects,                  \* how often each call took effect
  failed                    \* CMD_ERROR

vars == <<open, effects, failed>>

Init == open = 0 /\ effects = [n \in Calls |-> 0] /\ failed = FALSE

\* Only a call that was never made before is opened.
Submit(n) ==
  /\ open = 0 /\ effects[n] = 0
  /\ open' = n /\ failed' = FALSE /\ UNCHANGED effects

TakeEffect ==
  /\ open \in Calls /\ effects[open] = 0
  /\ effects' = [effects EXCEPT ![open] = 1]
  /\ UNCHANGED <<open, failed>>

Finish ==
  /\ open \in Calls
  /\ open' = 0 /\ failed' = (effects[open] = 0) /\ UNCHANGED effects

Next == (\E n \in Calls : Submit(n)) \/ TakeEffect \/ Finish

Spec == Init /\ [][Next]_vars
=============================================================================

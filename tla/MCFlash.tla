----------------------------- MODULE MCFlash -----------------------------
\* The N64's bus, and the FlashRAM emulation behind its registers: two accesses
\* of two words, a switch that is set and a reset at any clock; or the commands
\* of a game to a FlashRAM of two sectors of two pages, with the timing of the
\* real chip and without.  A behaviour has one or the other: they meet in the
\* switch of read mode, which N64Pi has as a setting, and in the memory.
EXTENDS FlashRam, N64Pi

MCSettings == {{"sram", "unlock"}, {"flashram", "romWrite"}}

NoBus == con = NotStarted /\ resets = 0 /\ scb = {"sram", "unlock"}
NoGame ==
  /\ ~full /\ gameVars = <<"status", "status", FALSE, {}>> /\ status = {}
  /\ reqVars = <<FALSE, FALSE, FALSE, 0>> /\ workVars = <<"idle", {}, {}>>
  /\ waitVars = <<FALSE, "elapsed">> /\ ghostVars = <<mem, FALSE>>
  /\ mem = [p \in Pages |-> {}]

MCInit == Init /\ PiInit
MCNext ==
  \/ NoBus /\ Next /\ UNCHANGED piVars
  \/ NoGame /\ PiNext /\ UNCHANGED vars
MCSpec ==
  /\ MCInit /\ [][MCNext]_<<vars, piVars>>
  /\ WF_vars(FlashramProcess) /\ WF_vars(TimerElapses)
=============================================================================

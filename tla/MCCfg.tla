----------------------------- MODULE MCCfg -----------------------------
\* The commands of the N64 and the firmware update of the host.  Three calls, of
\* programs that look at CMD_BUSY first, and two resets of the console; or two
\* updates, one operation of a chip that fails and one write of the game to the
\* file.  A behaviour has calls or updates, not both: they meet only in a call
\* that sets ROM_WRITE_ENABLE, which Update has as GameOpens.
EXTENDS CfgCommand, Update

MCChunk(p, v, s) == [id |-> p, sum |-> v, img |-> v, size |-> s]
MCFile(c)        == [token |-> TRUE, chunks |-> c]
MCFiles == {
  MCFile(<<MCChunk("info", "v2", "fine"), MCChunk("mcu", "v2", "fine"),
           MCChunk("fpga", "v2", "fine"), MCChunk("bootloader", "v2", "fine")>>),
  MCFile(<<MCChunk("bootloader", "v2", "fine"), MCChunk("mcu", "v1", "fine"),
           MCChunk("fpga", "v2", "ragged"), MCChunk("mcu", "v2", "fine")>>),
  MCFile(<<MCChunk("mcu", "v2", "fine"), MCChunk("fpga", "v2", "long")>>),
  MCFile(<<MCChunk("unknown", "v2", "fine")>>)}

NoCalls   == call = 0 /\ prog = "start" /\ resets = 0 /\ others = 0
NoUpdates == at = "app" /\ file = NoFile /\ updates = 0 /\ faults = 0 /\ ~disturbed /\ ~gone

MCInit == Init /\ UpdInit
MCNext ==
  \/ NoUpdates /\ Next /\ UNCHANGED updVars
  \/ NoCalls /\ UpdNext /\ UNCHANGED vars
MCSpec ==
  /\ MCInit /\ [][MCNext]_<<vars, updVars>>
  /\ WF_vars(CfgProcess) /\ WF_vars(ReadAnswer) /\ UpdFairness
=============================================================================

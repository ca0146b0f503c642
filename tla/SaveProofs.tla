----------------------------- MODULE SaveProofs -----------------------------
(***************************************************************************)
(* Proofs about the way of a save, from the console to the card: first     *)
(* that SaveWriteback.tla forgets none, for saves of any size and a        *)
(* counter of any width, and then that N64Pi.tla reads and writes the      *)
(* words the console means and reports its writes, for any times that      *)
(* leave a memory the clocks it needs.                                     *)
(*                                                                         *)
(* The invariant of the first is the conjunction of what the runs check    *)
(* and of PendingEnabled, which writeback.c relies on when it tests        *)
(* p.pending alone (writeback.c:178).  That of the second is in            *)
(* PiInvariant.  Its proof goes through the parts of the clock edge, what  *)
(* the console does (ConsoleSteps) and what each block of n64_pi.sv makes  *)
(* of it (the lemmas called Edge), and then through the invariant, part by *)
(* part (those called Step).                                               *)
(***************************************************************************)
EXTENDS SaveWriteback, PiInvariant, SequenceTheorems, TLAPS

PendingEnabled == pending => enabled

Inv == TypeOK /\ PendingEnabled /\ NothingForgotten /\ SaveHoldsLock

\* Nothing is written, pending or being saved when the controller starts.
LEMMA InitInv == Init => Inv
<1> SUFFICES ASSUME Init PROVE Inv
  OBVIOUS
<1> USE DEF Init
<1>0. 0 \in Counts       BY CountAssumption DEF Counts
<1>1. N64Type           BY <1>0 DEF N64Type, Commands
<1>2. SdType            BY DEF SdType
<1>3. WbType            BY <1>0 DEF WbType
<1>4. LoopType          BY SectorsAssumption DEF LoopType, Sectors
<1>5. PendingEnabled    BY DEF PendingEnabled
<1>6. NothingForgotten  BY DEF NothingForgotten
<1>7. SaveHoldsLock     BY DEF SaveHoldsLock
<1>8. QED BY <1>1, <1>2, <1>3, <1>4, <1>5, <1>6, <1>7 DEF Inv, TypeOK

\* Every step of the controller and of its environment keeps the invariant.
LEMMA NextInv == Inv /\ [Next]_vars => Inv'
<1> SUFFICES ASSUME Inv, [Next]_vars PROVE Inv'
  OBVIOUS
<1> USE DEF n64Vars, sdVars, usbVars, wbVars, vars
<1>1. ASSUME CmdCheck PROVE Inv'
  <2>1. N64Type'
    BY <1>1, CountAssumption DEF CmdCheck, ReleaseLock, Inv, TypeOK, N64Type, SdType, WbType,
       LoopType, Counts
  <2>2. SdType'
    BY <1>1 DEF CmdCheck, ReleaseLock, Inv, TypeOK, N64Type, SdType, WbType, LoopType
  <2>3. WbType'
    BY <1>1, CountAssumption DEF CmdCheck, ReleaseLock, Inv, TypeOK, N64Type, SdType, WbType,
       LoopType, Counts
  <2>4. LoopType'
    BY <1>1, SectorsAssumption DEF CmdCheck, ReleaseLock, Inv, TypeOK, N64Type, SdType, WbType,
       LoopType, Sectors
  <2>5. PendingEnabled'
    BY <1>1 DEF CmdCheck, ReleaseLock, Inv, PendingEnabled
  <2>6. NothingForgotten'
    BY <1>1 DEF CmdCheck, ReleaseLock, Inv, TypeOK, N64Type, SdType, WbType, LoopType,
       PendingEnabled, SaveHoldsLock, NothingForgotten, Unseen, WritebackPending, Sectors
  <2>7. SaveHoldsLock'
    BY <1>1 DEF CmdCheck, ReleaseLock, Inv, TypeOK, N64Type, SdType, WbType, LoopType,
       PendingEnabled, SaveHoldsLock, WritebackPending
  <2>8. QED BY <2>1, <2>2, <2>3, <2>4, <2>5, <2>6, <2>7 DEF Inv, TypeOK
<1>2. ASSUME N64Command PROVE Inv'
  <2>1. N64Type'
    BY <1>2, CountAssumption DEF N64Command, Execute, SdInit, SdDeinit, CanLock, Enable,
       SetSaveType, Disable, Commands, Inv, TypeOK, N64Type, SdType, WbType, LoopType, Counts
  <2>2. SdType'
    BY <1>2 DEF N64Command, Execute, SdInit, SdDeinit, CanLock, Enable, SetSaveType, Disable,
       Commands, Inv, TypeOK, N64Type, SdType, WbType, LoopType
  <2>3. WbType'
    BY <1>2, CountAssumption DEF N64Command, Execute, SdInit, SdDeinit, CanLock, Enable,
       SetSaveType, Disable, Commands, Inv, TypeOK, N64Type, SdType, WbType, LoopType, Counts
  <2>4. LoopType'
    BY <1>2, SectorsAssumption DEF N64Command, Execute, SdInit, SdDeinit, CanLock, Enable,
       SetSaveType, Disable, Commands, Inv, TypeOK, N64Type, SdType, WbType, LoopType, Sectors
  <2>5. PendingEnabled'
    BY <1>2 DEF N64Command, Execute, SdInit, SdDeinit, CanLock, Enable, SetSaveType, Disable,
       Commands, Inv, PendingEnabled
  <2>6. NothingForgotten'
    BY <1>2 DEF N64Command, Execute, SdInit, SdDeinit, CanLock, Enable, SetSaveType, Disable,
       Commands, Inv, TypeOK, N64Type, SdType, WbType, LoopType, PendingEnabled, SaveHoldsLock,
       NothingForgotten, Unseen, WritebackPending, Sectors
  <2>7. SaveHoldsLock'
    BY <1>2 DEF N64Command, Execute, SdInit, SdDeinit, CanLock, Enable, SetSaveType, Disable,
       Commands, Inv, TypeOK, N64Type, SdType, WbType, LoopType, PendingEnabled, SaveHoldsLock,
       WritebackPending
  <2>8. QED BY <2>1, <2>2, <2>3, <2>4, <2>5, <2>6, <2>7 DEF Inv, TypeOK
<1>3. ASSUME SdProcess PROVE Inv'
  <2>1. N64Type'
    BY <1>3, CountAssumption DEF SdProcess, Inv, TypeOK, N64Type, SdType, WbType, LoopType, Counts
  <2>2. SdType'
    BY <1>3 DEF SdProcess, Inv, TypeOK, N64Type, SdType, WbType, LoopType
  <2>3. WbType'
    BY <1>3, CountAssumption DEF SdProcess, Inv, TypeOK, N64Type, SdType, WbType, LoopType, Counts
  <2>4. LoopType'
    BY <1>3, SectorsAssumption DEF SdProcess, Inv, TypeOK, N64Type, SdType, WbType, LoopType,
       Sectors
  <2>5. PendingEnabled'
    BY <1>3 DEF SdProcess, Inv, PendingEnabled
  <2>6. NothingForgotten'
    BY <1>3 DEF SdProcess, Inv, TypeOK, N64Type, SdType, WbType, LoopType, PendingEnabled,
       SaveHoldsLock, NothingForgotten, Unseen, WritebackPending, Sectors
  <2>7. SaveHoldsLock'
    BY <1>3 DEF SdProcess, Inv, TypeOK, N64Type, SdType, WbType, LoopType, PendingEnabled,
       SaveHoldsLock, WritebackPending
  <2>8. QED BY <2>1, <2>2, <2>3, <2>4, <2>5, <2>6, <2>7 DEF Inv, TypeOK
<1>4. ASSUME UsbInactive PROVE Inv'
  <2>1. N64Type'
    BY <1>4, CountAssumption DEF UsbInactive, ReleaseLock, Inv, TypeOK, N64Type, SdType, WbType,
       LoopType, Counts
  <2>2. SdType'
    BY <1>4 DEF UsbInactive, ReleaseLock, Inv, TypeOK, N64Type, SdType, WbType, LoopType
  <2>3. WbType'
    BY <1>4, CountAssumption DEF UsbInactive, ReleaseLock, Inv, TypeOK, N64Type, SdType, WbType,
       LoopType, Counts
  <2>4. LoopType'
    BY <1>4, SectorsAssumption DEF UsbInactive, ReleaseLock, Inv, TypeOK, N64Type, SdType, WbType,
       LoopType, Sectors
  <2>5. PendingEnabled'
    BY <1>4 DEF UsbInactive, ReleaseLock, Inv, PendingEnabled
  <2>6. NothingForgotten'
    BY <1>4 DEF UsbInactive, ReleaseLock, Inv, TypeOK, N64Type, SdType, WbType, LoopType,
       PendingEnabled, SaveHoldsLock, NothingForgotten, Unseen, WritebackPending, Sectors
  <2>7. SaveHoldsLock'
    BY <1>4 DEF UsbInactive, ReleaseLock, Inv, TypeOK, N64Type, SdType, WbType, LoopType,
       PendingEnabled, SaveHoldsLock, WritebackPending
  <2>8. QED BY <2>1, <2>2, <2>3, <2>4, <2>5, <2>6, <2>7 DEF Inv, TypeOK
<1>5. ASSUME UsbActive PROVE Inv'
  <2>1. N64Type'
    BY <1>5, CountAssumption DEF UsbActive, Execute, SdInit, SdDeinit, CanLock, Enable,
       SetSaveType, Disable, StateReset, ReleaseLock, Commands, Inv, TypeOK, N64Type, SdType,
       WbType, LoopType, Counts
  <2>2. SdType'
    BY <1>5 DEF UsbActive, Execute, SdInit, SdDeinit, CanLock, Enable, SetSaveType, Disable,
       StateReset, ReleaseLock, Commands, Inv, TypeOK, N64Type, SdType, WbType, LoopType
  <2>3. WbType'
    BY <1>5, CountAssumption DEF UsbActive, Execute, SdInit, SdDeinit, CanLock, Enable,
       SetSaveType, Disable, StateReset, ReleaseLock, Commands, Inv, TypeOK, N64Type, SdType,
       WbType, LoopType, Counts
  <2>4. LoopType'
    BY <1>5, SectorsAssumption DEF UsbActive, Execute, SdInit, SdDeinit, CanLock, Enable,
       SetSaveType, Disable, StateReset, ReleaseLock, Commands, Inv, TypeOK, N64Type, SdType,
       WbType, LoopType, Sectors
  <2>5. PendingEnabled'
    <3>1. CASE UNCHANGED <<saveType, lock, cardReady, wbVars, promised>>
      BY <3>1 DEF Inv, PendingEnabled
    <3>2. CASE \E c \in Commands : Execute("usb", c)
      <4>1. CASE UNCHANGED wbVars
        BY <4>1 DEF Inv, PendingEnabled
      <4>2. CASE enabled' = TRUE
        BY <4>2 DEF PendingEnabled
      <4>3. CASE pending' = FALSE
        BY <4>3 DEF PendingEnabled
      <4>4. QED BY <3>2, <4>1, <4>2, <4>3 DEF Execute, Enable, SetSaveType, Disable
    <3>3. CASE StateReset
      BY <3>3 DEF StateReset, SetSaveType, Disable, PendingEnabled
    <3>4. QED BY <1>5, <3>1, <3>2, <3>3 DEF UsbActive
  <2>6. NothingForgotten'
    BY <1>5 DEF UsbActive, Execute, SdInit, SdDeinit, CanLock, Enable, SetSaveType, Disable,
       StateReset, ReleaseLock, Commands, Inv, TypeOK, N64Type, SdType, WbType, LoopType,
       PendingEnabled, SaveHoldsLock, NothingForgotten, Unseen, WritebackPending, Sectors
  <2>7. SaveHoldsLock'
    BY <1>5 DEF UsbActive, Execute, SdInit, SdDeinit, CanLock, Enable, SetSaveType, Disable,
       StateReset, ReleaseLock, Commands, Inv, TypeOK, N64Type, SdType, WbType, LoopType,
       PendingEnabled, SaveHoldsLock, WritebackPending
  <2>8. QED BY <2>1, <2>2, <2>3, <2>4, <2>5, <2>6, <2>7 DEF Inv, TypeOK
<1>6. ASSUME CheckCard PROVE Inv'
  <2>1. N64Type'
    BY <1>6, CountAssumption DEF CheckCard, Disable, Inv, TypeOK, N64Type, SdType, WbType,
       LoopType, Counts
  <2>2. SdType'
    BY <1>6 DEF CheckCard, Disable, Inv, TypeOK, N64Type, SdType, WbType, LoopType
  <2>3. WbType'
    BY <1>6, CountAssumption DEF CheckCard, Disable, Inv, TypeOK, N64Type, SdType, WbType,
       LoopType, Counts
  <2>4. LoopType'
    BY <1>6, SectorsAssumption DEF CheckCard, Disable, Inv, TypeOK, N64Type, SdType, WbType,
       LoopType, Sectors
  <2>5. PendingEnabled'
    BY <1>6 DEF CheckCard, Disable, Inv, PendingEnabled
  <2>6. NothingForgotten'
    BY <1>6 DEF CheckCard, Disable, Inv, TypeOK, N64Type, SdType, WbType, LoopType,
       PendingEnabled, SaveHoldsLock, NothingForgotten, Unseen, WritebackPending, Sectors
  <2>7. SaveHoldsLock'
    BY <1>6 DEF CheckCard, Disable, Inv, TypeOK, N64Type, SdType, WbType, LoopType,
       PendingEnabled, SaveHoldsLock, WritebackPending
  <2>8. QED BY <2>1, <2>2, <2>3, <2>4, <2>5, <2>6, <2>7 DEF Inv, TypeOK
<1>7. ASSUME CheckCount PROVE Inv'
  <2>1. N64Type'
    BY <1>7, CountAssumption DEF CheckCount, Inv, TypeOK, N64Type, SdType, WbType, LoopType, Counts
  <2>2. SdType'
    BY <1>7 DEF CheckCount, Inv, TypeOK, N64Type, SdType, WbType, LoopType
  <2>3. WbType'
    BY <1>7, CountAssumption DEF CheckCount, Inv, TypeOK, N64Type, SdType, WbType, LoopType, Counts
  <2>4. LoopType'
    BY <1>7, SectorsAssumption DEF CheckCount, Inv, TypeOK, N64Type, SdType, WbType, LoopType,
       Sectors
  <2>5. PendingEnabled'
    BY <1>7 DEF CheckCount, Unseen, Inv, PendingEnabled
  <2>6. NothingForgotten'
    BY <1>7 DEF CheckCount, Inv, TypeOK, N64Type, SdType, WbType, LoopType, PendingEnabled,
       SaveHoldsLock, NothingForgotten, Unseen, WritebackPending, Sectors
  <2>7. SaveHoldsLock'
    BY <1>7 DEF CheckCount, Inv, TypeOK, N64Type, SdType, WbType, LoopType, PendingEnabled,
       SaveHoldsLock, WritebackPending
  <2>8. QED BY <2>1, <2>2, <2>3, <2>4, <2>5, <2>6, <2>7 DEF Inv, TypeOK
<1>8. ASSUME NotDue PROVE Inv'
  <2>1. N64Type'
    BY <1>8, CountAssumption DEF NotDue, Inv, TypeOK, N64Type, SdType, WbType, LoopType, Counts
  <2>2. SdType'
    BY <1>8 DEF NotDue, Inv, TypeOK, N64Type, SdType, WbType, LoopType
  <2>3. WbType'
    BY <1>8, CountAssumption DEF NotDue, Inv, TypeOK, N64Type, SdType, WbType, LoopType, Counts
  <2>4. LoopType'
    BY <1>8, SectorsAssumption DEF NotDue, Inv, TypeOK, N64Type, SdType, WbType, LoopType, Sectors
  <2>5. PendingEnabled'
    BY <1>8 DEF NotDue, Inv, PendingEnabled
  <2>6. NothingForgotten'
    BY <1>8 DEF NotDue, Inv, TypeOK, N64Type, SdType, WbType, LoopType, PendingEnabled,
       SaveHoldsLock, NothingForgotten, Unseen, WritebackPending, Sectors
  <2>7. SaveHoldsLock'
    BY <1>8 DEF NotDue, Inv, TypeOK, N64Type, SdType, WbType, LoopType, PendingEnabled,
       SaveHoldsLock, WritebackPending
  <2>8. QED BY <2>1, <2>2, <2>3, <2>4, <2>5, <2>6, <2>7 DEF Inv, TypeOK
<1>9. ASSUME SaveRefused PROVE Inv'
  <2>1. N64Type'
    BY <1>9, CountAssumption DEF SaveRefused, Due, Disable, Inv, TypeOK, N64Type, SdType, WbType,
       LoopType, Counts
  <2>2. SdType'
    BY <1>9 DEF SaveRefused, Due, Disable, Inv, TypeOK, N64Type, SdType, WbType, LoopType
  <2>3. WbType'
    BY <1>9, CountAssumption DEF SaveRefused, Due, Disable, Inv, TypeOK, N64Type, SdType, WbType,
       LoopType, Counts
  <2>4. LoopType'
    BY <1>9, SectorsAssumption DEF SaveRefused, Due, Disable, Inv, TypeOK, N64Type, SdType,
       WbType, LoopType, Sectors
  <2>5. PendingEnabled'
    BY <1>9 DEF SaveRefused, Due, Disable, Inv, PendingEnabled
  <2>6. NothingForgotten'
    BY <1>9 DEF SaveRefused, Due, Disable, Inv, TypeOK, N64Type, SdType, WbType, LoopType,
       PendingEnabled, SaveHoldsLock, NothingForgotten, Unseen, WritebackPending, Sectors
  <2>7. SaveHoldsLock'
    BY <1>9 DEF SaveRefused, Due, Disable, Inv, TypeOK, N64Type, SdType, WbType, LoopType,
       PendingEnabled, SaveHoldsLock, WritebackPending
  <2>8. QED BY <2>1, <2>2, <2>3, <2>4, <2>5, <2>6, <2>7 DEF Inv, TypeOK
<1>10. ASSUME SaveStart PROVE Inv'
  <2>1. N64Type'
    BY <1>10, CountAssumption DEF SaveStart, Due, Inv, TypeOK, N64Type, SdType, WbType, LoopType,
       Counts
  <2>2. SdType'
    BY <1>10 DEF SaveStart, Due, Inv, TypeOK, N64Type, SdType, WbType, LoopType
  <2>3. WbType'
    BY <1>10, CountAssumption DEF SaveStart, Due, Inv, TypeOK, N64Type, SdType, WbType, LoopType,
       Counts
  <2>4. LoopType'
    BY <1>10, SectorsAssumption DEF SaveStart, Due, Inv, TypeOK, N64Type, SdType, WbType,
       LoopType, Sectors
  <2>5. PendingEnabled'
    BY <1>10 DEF SaveStart, Due, Inv, PendingEnabled
  <2>6. NothingForgotten'
    BY <1>10 DEF SaveStart, Due, Inv, TypeOK, N64Type, SdType, WbType, LoopType, PendingEnabled,
       SaveHoldsLock, NothingForgotten, Unseen, WritebackPending, Sectors
  <2>7. SaveHoldsLock'
    BY <1>10 DEF SaveStart, Due, Inv, TypeOK, N64Type, SdType, WbType, LoopType, PendingEnabled,
       SaveHoldsLock, WritebackPending
  <2>8. QED BY <2>1, <2>2, <2>3, <2>4, <2>5, <2>6, <2>7 DEF Inv, TypeOK
<1>11. ASSUME SaveSector PROVE Inv'
  <2>1. N64Type'
    BY <1>11, CountAssumption DEF SaveSector, Inv, TypeOK, N64Type, SdType, WbType, LoopType, Counts
  <2>2. SdType'
    BY <1>11 DEF SaveSector, Inv, TypeOK, N64Type, SdType, WbType, LoopType
  <2>3. WbType'
    BY <1>11, CountAssumption DEF SaveSector, Inv, TypeOK, N64Type, SdType, WbType, LoopType, Counts
  <2>4. LoopType'
    BY <1>11, SectorsAssumption DEF SaveSector, Inv, TypeOK, N64Type, SdType, WbType, LoopType,
       Sectors
  <2>5. PendingEnabled'
    BY <1>11 DEF SaveSector, Inv, PendingEnabled
  <2>6. NothingForgotten'
    BY <1>11 DEF SaveSector, Inv, TypeOK, N64Type, SdType, WbType, LoopType, PendingEnabled,
       SaveHoldsLock, NothingForgotten, Unseen, WritebackPending, Sectors
  <2>7. SaveHoldsLock'
    BY <1>11 DEF SaveSector, Inv, TypeOK, N64Type, SdType, WbType, LoopType, PendingEnabled,
       SaveHoldsLock, WritebackPending
  <2>8. QED BY <2>1, <2>2, <2>3, <2>4, <2>5, <2>6, <2>7 DEF Inv, TypeOK
<1>12. ASSUME SaveFailed PROVE Inv'
  <2>1. N64Type'
    BY <1>12, CountAssumption DEF SaveFailed, Disable, Inv, TypeOK, N64Type, SdType, WbType,
       LoopType, Counts
  <2>2. SdType'
    BY <1>12 DEF SaveFailed, Disable, Inv, TypeOK, N64Type, SdType, WbType, LoopType
  <2>3. WbType'
    BY <1>12, CountAssumption DEF SaveFailed, Disable, Inv, TypeOK, N64Type, SdType, WbType,
       LoopType, Counts
  <2>4. LoopType'
    BY <1>12, SectorsAssumption DEF SaveFailed, Disable, Inv, TypeOK, N64Type, SdType, WbType,
       LoopType, Sectors
  <2>5. PendingEnabled'
    BY <1>12 DEF SaveFailed, Disable, Inv, PendingEnabled
  <2>6. NothingForgotten'
    BY <1>12 DEF SaveFailed, Disable, Inv, TypeOK, N64Type, SdType, WbType, LoopType,
       PendingEnabled, SaveHoldsLock, NothingForgotten, Unseen, WritebackPending, Sectors
  <2>7. SaveHoldsLock'
    BY <1>12 DEF SaveFailed, Disable, Inv, TypeOK, N64Type, SdType, WbType, LoopType,
       PendingEnabled, SaveHoldsLock, WritebackPending
  <2>8. QED BY <2>1, <2>2, <2>3, <2>4, <2>5, <2>6, <2>7 DEF Inv, TypeOK
<1>13. ASSUME SaveDone PROVE Inv'
  <2>1. N64Type'
    BY <1>13, CountAssumption DEF SaveDone, Inv, TypeOK, N64Type, SdType, WbType, LoopType, Counts
  <2>2. SdType'
    BY <1>13 DEF SaveDone, Inv, TypeOK, N64Type, SdType, WbType, LoopType
  <2>3. WbType'
    BY <1>13, CountAssumption DEF SaveDone, Inv, TypeOK, N64Type, SdType, WbType, LoopType, Counts
  <2>4. LoopType'
    BY <1>13, SectorsAssumption DEF SaveDone, Inv, TypeOK, N64Type, SdType, WbType, LoopType,
       Sectors
  <2>5. PendingEnabled'
    BY <1>13 DEF SaveDone, Inv, PendingEnabled
  <2>6. NothingForgotten'
    <3>1. next \in Nat /\ next > NSectors
      BY <1>13, SectorsAssumption DEF SaveDone, Inv, TypeOK, LoopType
    <3>2. next..NSectors = {}
      BY <3>1, SectorsAssumption
    <3>3. promised # {} => Unseen /\ mode = "sd"
      BY <1>13, <3>2 DEF SaveDone, Inv, NothingForgotten
    <3>4. QED BY <1>13, <3>3 DEF SaveDone, NothingForgotten, Unseen
  <2>7. SaveHoldsLock'
    BY <1>13 DEF SaveDone, Inv, TypeOK, N64Type, SdType, WbType, LoopType, PendingEnabled,
       SaveHoldsLock, WritebackPending
  <2>8. QED BY <2>1, <2>2, <2>3, <2>4, <2>5, <2>6, <2>7 DEF Inv, TypeOK
<1>14. ASSUME SaveToUsb PROVE Inv'
  <2>1. N64Type'
    BY <1>14, CountAssumption DEF SaveToUsb, Due, Inv, TypeOK, N64Type, SdType, WbType, LoopType,
       Counts
  <2>2. SdType'
    BY <1>14 DEF SaveToUsb, Due, Inv, TypeOK, N64Type, SdType, WbType, LoopType
  <2>3. WbType'
    BY <1>14, CountAssumption DEF SaveToUsb, Due, Inv, TypeOK, N64Type, SdType, WbType, LoopType,
       Counts
  <2>4. LoopType'
    BY <1>14, SectorsAssumption DEF SaveToUsb, Due, Inv, TypeOK, N64Type, SdType, WbType,
       LoopType, Sectors
  <2>5. PendingEnabled'
    BY <1>14 DEF SaveToUsb, Due, Inv, PendingEnabled
  <2>6. NothingForgotten'
    BY <1>14 DEF SaveToUsb, Due, Inv, TypeOK, N64Type, SdType, WbType, LoopType, PendingEnabled,
       SaveHoldsLock, NothingForgotten, Unseen, WritebackPending, Sectors
  <2>7. SaveHoldsLock'
    BY <1>14 DEF SaveToUsb, Due, Inv, TypeOK, N64Type, SdType, WbType, LoopType, PendingEnabled,
       SaveHoldsLock, WritebackPending
  <2>8. QED BY <2>1, <2>2, <2>3, <2>4, <2>5, <2>6, <2>7 DEF Inv, TypeOK
<1>15. ASSUME OtherPacket PROVE Inv'
  <2>1. N64Type'
    BY <1>15, CountAssumption DEF OtherPacket, Inv, TypeOK, N64Type, SdType, WbType, LoopType,
       Counts
  <2>2. SdType'
    BY <1>15 DEF OtherPacket, Inv, TypeOK, N64Type, SdType, WbType, LoopType
  <2>3. WbType'
    BY <1>15, CountAssumption DEF OtherPacket, Inv, TypeOK, N64Type, SdType, WbType, LoopType,
       Counts
  <2>4. LoopType'
    BY <1>15, SectorsAssumption DEF OtherPacket, Inv, TypeOK, N64Type, SdType, WbType, LoopType,
       Sectors
  <2>5. PendingEnabled'
    BY <1>15 DEF OtherPacket, Inv, PendingEnabled
  <2>6. NothingForgotten'
    BY <1>15 DEF OtherPacket, Inv, TypeOK, N64Type, SdType, WbType, LoopType, PendingEnabled,
       SaveHoldsLock, NothingForgotten, Unseen, WritebackPending, Sectors
  <2>7. SaveHoldsLock'
    BY <1>15 DEF OtherPacket, Inv, TypeOK, N64Type, SdType, WbType, LoopType, PendingEnabled,
       SaveHoldsLock, WritebackPending
  <2>8. QED BY <2>1, <2>2, <2>3, <2>4, <2>5, <2>6, <2>7 DEF Inv, TypeOK
<1>16. ASSUME NEW s \in Sectors, N64Write(s) PROVE Inv'
  <2>1. N64Type'
    BY <1>16, CountAssumption DEF N64Write, Bump, Inv, TypeOK, N64Type, SdType, WbType, LoopType,
       Counts
  <2>2. SdType'
    BY <1>16 DEF N64Write, Bump, Inv, TypeOK, N64Type, SdType, WbType, LoopType
  <2>3. WbType'
    BY <1>16, CountAssumption DEF N64Write, Bump, Inv, TypeOK, N64Type, SdType, WbType, LoopType,
       Counts
  <2>4. LoopType'
    BY <1>16, SectorsAssumption DEF N64Write, Bump, Inv, TypeOK, N64Type, SdType, WbType,
       LoopType, Sectors
  <2>5. PendingEnabled'
    BY <1>16 DEF N64Write, Bump, Inv, PendingEnabled
  <2>6. NothingForgotten'
    BY <1>16 DEF N64Write, Bump, Inv, TypeOK, N64Type, SdType, WbType, LoopType, PendingEnabled,
       SaveHoldsLock, NothingForgotten, Unseen, WritebackPending, Sectors
  <2>7. SaveHoldsLock'
    BY <1>16 DEF N64Write, Bump, Inv, TypeOK, N64Type, SdType, WbType, LoopType, PendingEnabled,
       SaveHoldsLock, WritebackPending
  <2>8. QED BY <2>1, <2>2, <2>3, <2>4, <2>5, <2>6, <2>7 DEF Inv, TypeOK
<1>17. ASSUME NEW c \in Commands, N64Request(c) PROVE Inv'
  <2>1. N64Type'
    BY <1>17, CountAssumption DEF N64Request, Commands, Inv, TypeOK, N64Type, SdType, WbType,
       LoopType, Counts
  <2>2. SdType'
    BY <1>17 DEF N64Request, Commands, Inv, TypeOK, N64Type, SdType, WbType, LoopType
  <2>3. WbType'
    BY <1>17, CountAssumption DEF N64Request, Commands, Inv, TypeOK, N64Type, SdType, WbType,
       LoopType, Counts
  <2>4. LoopType'
    BY <1>17, SectorsAssumption DEF N64Request, Commands, Inv, TypeOK, N64Type, SdType, WbType,
       LoopType, Sectors
  <2>5. PendingEnabled'
    BY <1>17 DEF N64Request, Commands, Inv, PendingEnabled
  <2>6. NothingForgotten'
    BY <1>17 DEF N64Request, Commands, Inv, TypeOK, N64Type, SdType, WbType, LoopType,
       PendingEnabled, SaveHoldsLock, NothingForgotten, Unseen, WritebackPending, Sectors
  <2>7. SaveHoldsLock'
    BY <1>17 DEF N64Request, Commands, Inv, TypeOK, N64Type, SdType, WbType, LoopType,
       PendingEnabled, SaveHoldsLock, WritebackPending
  <2>8. QED BY <2>1, <2>2, <2>3, <2>4, <2>5, <2>6, <2>7 DEF Inv, TypeOK
<1>18. ASSUME PowerSwitch PROVE Inv'
  <2>1. N64Type'
    BY <1>18, CountAssumption DEF PowerSwitch, Inv, TypeOK, N64Type, SdType, WbType, LoopType,
       Counts
  <2>2. SdType'
    BY <1>18 DEF PowerSwitch, Inv, TypeOK, N64Type, SdType, WbType, LoopType
  <2>3. WbType'
    BY <1>18, CountAssumption DEF PowerSwitch, Inv, TypeOK, N64Type, SdType, WbType, LoopType,
       Counts
  <2>4. LoopType'
    BY <1>18, SectorsAssumption DEF PowerSwitch, Inv, TypeOK, N64Type, SdType, WbType, LoopType,
       Sectors
  <2>5. PendingEnabled'
    BY <1>18 DEF PowerSwitch, Inv, PendingEnabled
  <2>6. NothingForgotten'
    BY <1>18 DEF PowerSwitch, Inv, TypeOK, N64Type, SdType, WbType, LoopType, PendingEnabled,
       SaveHoldsLock, NothingForgotten, Unseen, WritebackPending, Sectors
  <2>7. SaveHoldsLock'
    BY <1>18 DEF PowerSwitch, Inv, TypeOK, N64Type, SdType, WbType, LoopType, PendingEnabled,
       SaveHoldsLock, WritebackPending
  <2>8. QED BY <2>1, <2>2, <2>3, <2>4, <2>5, <2>6, <2>7 DEF Inv, TypeOK
<1>19. ASSUME CardMoves PROVE Inv'
  <2>1. N64Type'
    BY <1>19, CountAssumption DEF CardMoves, Inv, TypeOK, N64Type, SdType, WbType, LoopType, Counts
  <2>2. SdType'
    BY <1>19 DEF CardMoves, Inv, TypeOK, N64Type, SdType, WbType, LoopType
  <2>3. WbType'
    BY <1>19, CountAssumption DEF CardMoves, Inv, TypeOK, N64Type, SdType, WbType, LoopType, Counts
  <2>4. LoopType'
    BY <1>19, SectorsAssumption DEF CardMoves, Inv, TypeOK, N64Type, SdType, WbType, LoopType,
       Sectors
  <2>5. PendingEnabled'
    BY <1>19 DEF CardMoves, Inv, PendingEnabled
  <2>6. NothingForgotten'
    BY <1>19 DEF CardMoves, Inv, TypeOK, N64Type, SdType, WbType, LoopType, PendingEnabled,
       SaveHoldsLock, NothingForgotten, Unseen, WritebackPending, Sectors
  <2>7. SaveHoldsLock'
    BY <1>19 DEF CardMoves, Inv, TypeOK, N64Type, SdType, WbType, LoopType, PendingEnabled,
       SaveHoldsLock, WritebackPending
  <2>8. QED BY <2>1, <2>2, <2>3, <2>4, <2>5, <2>6, <2>7 DEF Inv, TypeOK
<1>20. ASSUME LinkMoves PROVE Inv'
  <2>1. N64Type'
    BY <1>20, CountAssumption DEF LinkMoves, Inv, TypeOK, N64Type, SdType, WbType, LoopType, Counts
  <2>2. SdType'
    BY <1>20 DEF LinkMoves, Inv, TypeOK, N64Type, SdType, WbType, LoopType
  <2>3. WbType'
    BY <1>20, CountAssumption DEF LinkMoves, Inv, TypeOK, N64Type, SdType, WbType, LoopType, Counts
  <2>4. LoopType'
    BY <1>20, SectorsAssumption DEF LinkMoves, Inv, TypeOK, N64Type, SdType, WbType, LoopType,
       Sectors
  <2>5. PendingEnabled'
    BY <1>20 DEF LinkMoves, Inv, PendingEnabled
  <2>6. NothingForgotten'
    BY <1>20 DEF LinkMoves, Inv, TypeOK, N64Type, SdType, WbType, LoopType, PendingEnabled,
       SaveHoldsLock, NothingForgotten, Unseen, WritebackPending, Sectors
  <2>7. SaveHoldsLock'
    BY <1>20 DEF LinkMoves, Inv, TypeOK, N64Type, SdType, WbType, LoopType, PendingEnabled,
       SaveHoldsLock, WritebackPending
  <2>8. QED BY <2>1, <2>2, <2>3, <2>4, <2>5, <2>6, <2>7 DEF Inv, TypeOK
<1>21. ASSUME TimerElapses PROVE Inv'
  <2>1. N64Type'
    BY <1>21, CountAssumption DEF TimerElapses, Inv, TypeOK, N64Type, SdType, WbType, LoopType,
       Counts
  <2>2. SdType'
    BY <1>21 DEF TimerElapses, Inv, TypeOK, N64Type, SdType, WbType, LoopType
  <2>3. WbType'
    BY <1>21, CountAssumption DEF TimerElapses, Inv, TypeOK, N64Type, SdType, WbType, LoopType,
       Counts
  <2>4. LoopType'
    BY <1>21, SectorsAssumption DEF TimerElapses, Inv, TypeOK, N64Type, SdType, WbType, LoopType,
       Sectors
  <2>5. PendingEnabled'
    BY <1>21 DEF TimerElapses, Inv, PendingEnabled
  <2>6. NothingForgotten'
    BY <1>21 DEF TimerElapses, Inv, TypeOK, N64Type, SdType, WbType, LoopType, PendingEnabled,
       SaveHoldsLock, NothingForgotten, Unseen, WritebackPending, Sectors
  <2>7. SaveHoldsLock'
    BY <1>21 DEF TimerElapses, Inv, TypeOK, N64Type, SdType, WbType, LoopType, PendingEnabled,
       SaveHoldsLock, WritebackPending
  <2>8. QED BY <2>1, <2>2, <2>3, <2>4, <2>5, <2>6, <2>7 DEF Inv, TypeOK
<1>22. CASE UNCHANGED vars
  <2>1. TypeOK' BY <1>22 DEF Inv, TypeOK, N64Type, SdType, WbType, LoopType
  <2>2. PendingEnabled' BY <1>22 DEF Inv, PendingEnabled
  <2>3. NothingForgotten' BY <1>22 DEF Inv, NothingForgotten, Unseen
  <2>4. SaveHoldsLock' BY <1>22 DEF Inv, SaveHoldsLock
  <2>5. QED BY <2>1, <2>2, <2>3, <2>4 DEF Inv
<1>23. QED
  BY <1>1, <1>2, <1>3, <1>4, <1>5, <1>6, <1>7, <1>8, <1>9, <1>10, <1>11, <1>12, <1>13, <1>14,
     <1>15, <1>16, <1>17, <1>18, <1>19, <1>20, <1>21, <1>22
  DEF Next, Controller, WritebackProcess, Environment

\* The invariant, by one lemma per group of actions.
LEMMA SaveInvariant == Spec => []Inv
BY InitInv, NextInv, PTL DEF Spec

\* A sector that the game wrote and the card lacks is still known to the
\* writeback, for saves of any size, written at any moment of a save
\* (writeback.c:163-196).
THEOREM NoSaveForgotten == Spec => []NothingForgotten
BY SaveInvariant, PTL DEF Inv

\* The PC cannot have the card while a save is being written to it
\* (writeback.c:78-98, sd.c:632-651).
THEOREM SaveIsExclusive == Spec => []SaveHoldsLock
BY SaveInvariant, PTL DEF Inv

\* A pending save keeps the lock for the N64.
LEMMA PendingKeepsLock ==
  ASSUME [Next]_vars, WritebackPending, lock = "n64", lock' # "n64"
  PROVE  pc = "cmd" /\ request \in {"init", "deinit"}
<1> USE DEF n64Vars, sdVars, usbVars, wbVars, vars
<1>1. CASE N64Command
  BY <1>1 DEF N64Command, Execute, SdInit, SdDeinit, CanLock, Enable, SetSaveType, Commands
<1>2. CASE CmdCheck \/ SdProcess \/ UsbInactive
  BY <1>2 DEF CmdCheck, SdProcess, UsbInactive, ReleaseLock
<1>3. CASE UsbActive
  BY <1>3 DEF UsbActive, Execute, SdInit, SdDeinit, CanLock, StateReset, ReleaseLock
<1>4. CASE WritebackProcess
  BY <1>4 DEF WritebackProcess, CheckCard, CheckCount, NotDue, SaveRefused, SaveStart,
              SaveSector, SaveFailed, SaveDone, SaveToUsb
<1>5. CASE OtherPacket \/ Environment
  BY <1>5 DEF OtherPacket, Environment, N64Write, N64Request, PowerSwitch, CardMoves,
              LinkMoves, TimerElapses
<1>6. CASE UNCHANGED vars
  BY <1>6
<1>7. QED BY <1>1, <1>2, <1>3, <1>4, <1>5, <1>6 DEF Next, Controller

\* Neither the power switch nor the PC takes the card from a pending save
\* (cfg.c:134-137, sd.c:632-651).
THEOREM LockKept == Spec => LockKeptWhilePending
BY PendingKeepsLock, PTL DEF Spec, LockKeptWhilePending

\* The counter, the sectors and the places of the main loop stay in range.
THEOREM SaveTyped == Spec => []TypeOK
BY SaveInvariant, PTL DEF Inv

-----------------------------------------------------------------------------
(* The constants, and the address decoder.                                  *)

\* The times are naturals, and a console leaves a memory the time it needs.
LEMMA Times ==
  /\ PageWords \in Nat /\ PageWords > 0 /\ FifoWords \in Nat /\ FifoWords > 0
  /\ Latency \in Nat /\ Latency > 0 /\ Gap \in Nat /\ Gap > 0 /\ Pulse \in Nat /\ Pulse > 0
  /\ Rest \in Nat /\ Rest > 0 /\ MaxAccesses \in Nat /\ MaxBurst \in Nat /\ MaxResets \in Nat
  /\ Foreign \in {0, Latency + 1} /\ Serve \in Nat /\ Serve = Latency + 2 + Foreign
  /\ Latency <= Gap + 1 /\ Serve + 2 <= Gap + Pulse /\ Serve <= Rest
<1>1. Foreign \in {0, Latency + 1}
  BY DEF Foreign
<1>2. /\ PageWords \in Nat /\ PageWords > 0 /\ FifoWords \in Nat /\ FifoWords > 0
      /\ Latency \in Nat /\ Latency > 0 /\ Gap \in Nat /\ Gap > 0 /\ Pulse \in Nat /\ Pulse > 0
      /\ Rest \in Nat /\ Rest > 0 /\ MaxAccesses \in Nat /\ MaxBurst \in Nat /\ MaxResets \in Nat
  BY PiAssumption
<1>3. Serve = Latency + 2 + Foreign
  BY DEF Serve
<1>4. Serve \in Nat
  BY <1>1, <1>2, <1>3
<1> QED BY <1>1, <1>2, <1>3, <1>4, TimesAssumption

PortRecords == [read : {"mem", "reg", "none"}, write : {"mem", "reg", "none"},
                space : Spaces, sram : BOOLEAN]

\* What the decoder makes of a window: only memory that the console may write
\* is written, and it can be read as well.
LEMMA Decoded ==
  ASSUME NEW w, NEW s
  PROVE  /\ Decode(w, s) \in PortRecords
         /\ Decode(w, s).write = "mem" <=> Writable(w, s)
         /\ Decode(w, s).write = "mem" => Decode(w, s).read = "mem" /\ Decode(w, s).space = Place(w)
         /\ Decode(w, s).sram <=> w = "save" /\ Writable("save", s)
<1>1. CASE w = "dd"
  BY <1>1 DEF Decode, NoPort, Mapped, Rom, PortRecords, Spaces, Writable, Place
<1>2. CASE w = "ddipl"
  BY <1>2 DEF Decode, NoPort, Mapped, Rom, PortRecords, Spaces, Writable, Place
<1>3. CASE w = "save"
  BY <1>3 DEF Decode, NoPort, Mapped, Rom, PortRecords, Spaces, Writable, Place
<1>4. CASE w = "rom"
  BY <1>4 DEF Decode, NoPort, Mapped, Rom, PortRecords, Spaces, Writable, Place
<1>5. CASE w = "romEnd"
  BY <1>5 DEF Decode, NoPort, Mapped, Rom, PortRecords, Spaces, Writable, Place
<1>6. CASE w \in {"extended", "flash"}
  BY <1>6 DEF Decode, NoPort, Mapped, Rom, PortRecords, Spaces, Writable, Place
<1>7. CASE w \in {"buffer", "cfg"}
  BY <1>7 DEF Decode, NoPort, Mapped, Rom, PortRecords, Spaces, Writable, Place
<1>8. CASE w \notin {"dd", "ddipl", "save", "rom", "romEnd", "extended", "flash", "buffer", "cfg"}
  BY <1>8 DEF Decode, NoPort, Mapped, Rom, PortRecords, Spaces, Writable, Place
<1> QED BY <1>1, <1>2, <1>3, <1>4, <1>5, <1>6, <1>7, <1>8

-----------------------------------------------------------------------------
(* What the console does at a clock edge, field by field.                   *)

\* The fields of the console that time does not touch.
Stays == con'.window = con.window /\ con'.word = con.word /\ con'.n = con.n

\* The console waits.
LEMMA WaitMoves ==
  ASSUME PiTyped, Waits
  PROVE  /\ Stays /\ con'.phase = con.phase /\ con'.k = con.k /\ con'.dir = con.dir
         /\ con'.since = (IF con.since < Rest THEN con.since + 1 ELSE con.since)
         /\ line'.op = "none" /\ line'.data = (IF con.phase = "strobe" THEN line.data ELSE 0)
         /\ up' = up /\ shadow' = shadow /\ before' = before /\ torn' = torn
BY DEF Waits, PiTyped, Later, Silent, Event, piHist, Stays

\* It puts an address there.
LEMMA HighMoves ==
  ASSUME PiTyped, PutHigh
  PROVE  /\ con.phase = "idle" /\ con.since >= Rest
         /\ con'.window \in Windows /\ con'.word = con.word /\ con'.n = con.n + 1
         /\ con'.phase = "high" /\ con'.since = 0 /\ con'.k = 0 /\ con'.dir = "none"
         /\ line'.op = "aleh" /\ line'.data = 0 /\ up' = up
         /\ shadow' = (IF torn THEN cells ELSE shadow) /\ before' = shadow' /\ torn' = FALSE
BY DEF PutHigh, PiTyped, Settled, Event

\* The lower half follows.
LEMMA LowMoves ==
  ASSUME PiTyped, PutLow
  PROVE  /\ con.phase = "high" /\ con.since >= Gap
         /\ con'.window = con.window /\ con'.word \in Words /\ con'.n = con.n
         /\ con'.phase = "low" /\ con'.since = 0 /\ con'.k = con.k /\ con'.dir = con.dir
         /\ line'.op = "alel" /\ line'.data = con'.word
         /\ up' = up /\ shadow' = shadow /\ before' = before /\ torn' = torn
BY DEF PutLow, PiTyped, Event, piHist

\* What the lines say of a strobe.
StrobeOp(d) == IF (IF d = "read" THEN port.read ELSE port.write) = "none" THEN "none" ELSE d

\* The console strobes.
LEMMA StrobeMoves ==
  ASSUME PiTyped, NEW d \in {"read", "write"}, Strobe(d)
  PROVE  /\ con.phase = "low" /\ con.since >= Gap /\ con.dir \in {"none", d}
         /\ con.k < MaxBurst /\ Here < PageWords
         /\ Stays /\ con'.phase = "strobe" /\ con'.since = 0 /\ con'.k = con.k /\ con'.dir = d
         /\ line'.op = StrobeOp(d)
         /\ line'.data = (IF d = "write" THEN MaxBurst * con.n + con.k ELSE 0)
         /\ up' = up /\ before' = before /\ torn' = torn
         /\ shadow' = IF d = "write" /\ Writable(con.window, rights)
                      THEN [shadow EXCEPT ![Place(con.window)][Here] = line'.data] ELSE shadow
<1>1. line' = [op |-> StrobeOp(d), data |-> IF d = "write" THEN MaxBurst * con.n + con.k ELSE 0]
  BY DEF Strobe, Event, StrobeOp
<1>2. con' = [con EXCEPT !.phase = "strobe", !.since = 0, !.dir = d]
  BY DEF Strobe
<1>3. Stays /\ con'.phase = "strobe" /\ con'.since = 0 /\ con'.k = con.k /\ con'.dir = d
  BY <1>2 DEF PiTyped, Stays
<1> QED BY <1>1, <1>3 DEF Strobe

\* The strobe ends.
LEMMA ReleaseMoves ==
  ASSUME PiTyped, Release
  PROVE  /\ con.phase = "strobe" /\ con.since >= Pulse
         /\ Stays /\ con'.phase = "low" /\ con'.since = 0 /\ con'.k = con.k + 1
         /\ con'.dir = con.dir
         /\ line'.op = "none" /\ line'.data = 0
         /\ up' = up /\ shadow' = shadow /\ before' = before /\ torn' = torn
BY DEF Release, PiTyped, Event, piHist, Stays

\* The access ends.
LEMMA EndMoves ==
  ASSUME PiTyped, End
  PROVE  /\ con.phase = "low" /\ con.since >= Gap
         /\ Stays /\ con'.phase = "idle" /\ con'.since = 0 /\ con'.k = con.k
         /\ con'.dir = con.dir
         /\ line'.op = "end" /\ line'.data = 0
         /\ up' = up /\ shadow' = shadow /\ before' = before /\ torn' = torn
BY DEF End, PiTyped, Event, Moves, piHist, Stays

\* It is switched off ...
LEMMA ResetMoves ==
  ASSUME PiTyped, Reset
  PROVE  /\ con.phase # "off"
         /\ Stays /\ con'.phase = "off" /\ con'.since = 0 /\ con'.k = con.k
         /\ con'.dir = con.dir
         /\ line'.op = "none" /\ line'.data = 0
         /\ up' = FALSE /\ shadow' = shadow /\ before' = before
         /\ torn' = (torn \/ ~Settled)
BY DEF Reset, PiTyped, Event, Moves, Stays

\* ... and on.
LEMMA PowerMoves ==
  ASSUME PiTyped, PowerOn
  PROVE  /\ con.phase = "off" /\ con.since >= Rest
         /\ Stays /\ con'.phase = "idle" /\ con'.since = 0 - Rest /\ con'.k = con.k
         /\ con'.dir = con.dir
         /\ line'.op = "none" /\ line'.data = 0
         /\ up' = TRUE /\ shadow' = shadow /\ before' = before /\ torn' = torn
BY DEF PowerOn, PiTyped, Event, piHist, Stays

\* A clock edge has one of these.
LEMMA ConsoleSteps ==
  PiTick => \/ Waits \/ PutHigh \/ PutLow \/ Release \/ End \/ Reset \/ PowerOn
            \/ Strobe("read") \/ Strobe("write")
BY DEF PiTick, Console

-----------------------------------------------------------------------------
(* The steps keep what is known of the console and its lines.               *)

\* The console stays in its protocol.
LEMMA ConsoleStep ==
  ASSUME PiInv, PiTick
  PROVE  ConsoleOk'
<1>1. PiTyped /\ ConsoleOk /\ LineOk
  BY DEF PiInv
<1>2. /\ PageWords \in Nat /\ PageWords > 0 /\ Gap \in Nat /\ Gap > 0 /\ Pulse \in Nat /\ Pulse > 0
      /\ Rest \in Nat /\ Rest > 0 /\ MaxBurst \in Nat
  BY Times
<1>3. /\ con.since \in Int /\ con.k \in Nat /\ con.n \in Nat /\ con.word \in Nat /\ con.word < PageWords
      /\ con.dir \in {"none", "read", "write"}
      /\ con.phase \in {"idle", "high", "low", "strobe", "off"}
  BY <1>1, <1>2 DEF PiTyped, Words
<1> USE DEF Here
<1>4. CASE Waits
  BY <1>1, <1>2, <1>3, <1>4, WaitMoves DEF ConsoleOk, Stays
<1>5. CASE PutHigh
  BY <1>1, <1>2, <1>3, <1>5, HighMoves DEF ConsoleOk
<1>6. CASE PutLow
  <2>1. con'.word \in Nat /\ con'.word < PageWords
    BY <1>1, <1>2, <1>6, LowMoves DEF Words
  <2> QED BY <1>1, <1>2, <1>3, <1>6, <2>1, LowMoves DEF ConsoleOk
<1>7. CASE Release
  BY <1>1, <1>2, <1>3, <1>7, ReleaseMoves DEF ConsoleOk, Stays
<1>8. CASE End
  BY <1>1, <1>2, <1>3, <1>8, EndMoves DEF ConsoleOk, Stays
<1>9. CASE Reset
  BY <1>1, <1>2, <1>3, <1>9, ResetMoves DEF ConsoleOk, Stays
<1>10. CASE PowerOn
  BY <1>1, <1>2, <1>3, <1>10, PowerMoves DEF ConsoleOk, Stays
<1>11. ASSUME NEW d \in {"read", "write"}, Strobe(d) PROVE ConsoleOk'
  BY <1>1, <1>2, <1>3, <1>11, StrobeMoves DEF ConsoleOk, Stays
<1> QED BY <1>4, <1>5, <1>6, <1>7, <1>8, <1>9, <1>10, <1>11, ConsoleSteps

\* The decoder sees the new window when the address has come.
LEMMA DecoderEdge ==
  ASSUME PiInv, PiTick
  PROVE  /\ line.op = "aleh" => port' = Decode(con.window, scb) /\ rights' = scb
         /\ line.op # "aleh" => port' = port /\ rights' = rights
         /\ \A m \in Memory :
              active'[m] = IF line.op = "aleh"
                           THEN active[m] \/ (port'.read = "mem" /\ m = MemoryOf(port'.space) /\ m # "bram")
                           ELSE up /\ line.op # "end" /\ active[m]
<1>1. Decoder /\ Watch /\ active \in [Memory -> BOOLEAN]
  BY DEF PiTick, Fpga, PiInv, PiTyped
<1> QED BY <1>1 DEF Decoder, Watch

\* The port is the one of the window that is on the bus.
LEMMA PortStep ==
  ASSUME PiInv, PiTick
  PROVE  PortOk'
<1>1. PiTyped /\ ConsoleOk /\ LineOk /\ PortOk
  BY DEF PiInv
<1>2. con.n \in Nat
  BY <1>1 DEF PiTyped
<1>3. CASE PutHigh
  BY <1>1, <1>2, <1>3, HighMoves DEF PortOk
<1>4. CASE PutLow
  <2>1. con.n # 0 /\ con'.n = con.n /\ con'.window = con.window
    BY <1>1, <1>4, LowMoves DEF ConsoleOk
  <2> QED BY <1>1, <2>1, DecoderEdge DEF PortOk
<1>5. ASSUME con'.n = con.n /\ con'.window = con.window PROVE PortOk'
  <2>1. con.n = 0 => line.op # "aleh"
    BY <1>1 DEF ConsoleOk, LineOk
  <2> QED BY <1>1, <1>5, <2>1, DecoderEdge DEF PortOk, NoPort
<1> QED BY <1>1, <1>3, <1>4, <1>5, ConsoleSteps, WaitMoves, ReleaseMoves, EndMoves, ResetMoves,
           PowerMoves, StrobeMoves DEF Stays

\* While the address is in use the port stays.
LEMMA PortStays ==
  ASSUME PiInv, PiTick, con.phase # "high" \/ line.op # "aleh"
  PROVE  port' = port /\ rights' = rights
<1>1. line.op # "aleh"
  BY DEF PiInv, LineOk
<1> QED BY <1>1, DecoderEdge

\* The lines tell what the console does.
LEMMA LineStep ==
  ASSUME PiInv, PiTick
  PROVE  LineOk'
<1>1. PiTyped /\ ConsoleOk /\ LineOk
  BY DEF PiInv
<1>2. Gap \in Nat /\ Gap > 0 /\ Pulse \in Nat /\ Pulse > 0 /\ Rest \in Nat /\ Rest > 0
  BY Times
<1>3. con.since \in Int /\ con.k \in Nat /\ con.n \in Nat
  BY <1>1 DEF PiTyped
<1>4. CASE Waits
  <2>1. con'.since # 0 \/ con'.phase = "idle"
    BY <1>1, <1>2, <1>3, <1>4, WaitMoves DEF ConsoleOk
  <2> QED BY <1>1, <1>4, <2>1, WaitMoves DEF LineOk, Stays
<1>5. CASE PutHigh
  BY <1>1, <1>5, HighMoves DEF LineOk
<1>6. CASE PutLow
  BY <1>1, <1>6, LowMoves DEF LineOk, ConsoleOk
<1>7. CASE Release
  BY <1>1, <1>7, ReleaseMoves DEF LineOk, ConsoleOk
<1>8. CASE End
  BY <1>1, <1>8, EndMoves DEF LineOk
<1>9. CASE Reset
  BY <1>1, <1>9, ResetMoves DEF LineOk
<1>10. CASE PowerOn
  BY <1>1, <1>10, PowerMoves DEF LineOk
<1>11. ASSUME NEW d \in {"read", "write"}, Strobe(d) PROVE LineOk'
  <2>1. port' = port
    BY <1>1, <1>11, StrobeMoves, PortStays
  <2> QED BY <1>1, <1>11, <2>1, StrobeMoves DEF LineOk, Stays, StrobeOp, Way
<1> QED BY <1>4, <1>5, <1>6, <1>7, <1>8, <1>9, <1>10, <1>11, ConsoleSteps

-----------------------------------------------------------------------------
(* The memories at a clock edge.                                            *)

\* The memory that the address on the bus belongs to.
Asked == MemoryOf(bus.at.space)

\* What a memory can be at.
Works == [who : {"none", "n64", "other"}, left : 0 .. Latency,
          write : BOOLEAN, at : Places, data : Int]

\* One of the others takes a memory for a while.
LEMMA TakenWork ==
  ASSUME NEW r \in Works, NEW n \in 0 .. Latency
  PROVE  /\ [r EXCEPT !.who = "other", !.left = n] \in Works
         /\ [r EXCEPT !.who = "other", !.left = n].who = "other"
         /\ [r EXCEPT !.who = "other", !.left = n].left = n
<1>1. [r EXCEPT !.who = "other", !.left = n] \in Works
  BY Times DEF Works
<1>2. [r EXCEPT !.who = "other", !.left = n].who = "other"
  BY DEF Works
<1>3. [r EXCEPT !.who = "other", !.left = n].left = n
  BY DEF Works
<1> QED BY <1>1, <1>2, <1>3

\* What a memory does next.
LEMMA WorkEdge ==
  ASSUME PiInv, PiTick, NEW m \in Memory
  PROVE  /\ work'[m] \in [who : {"none", "n64", "other"}, left : 0 .. Latency,
                          write : BOOLEAN, at : Places, data : Int]
         /\ work[m].left > 0 =>
              /\ work'[m].who = work[m].who /\ work'[m].left = work[m].left - 1
              /\ work'[m].write = work[m].write /\ work'[m].at = work[m].at
              /\ work'[m].data = work[m].data
         /\ work[m].left = 0 /\ work[m].who # "none" => work'[m].who = "none" /\ work'[m].left = 0
         /\ work[m].left = 0 /\ work[m].who = "none" /\ Asks(m) =>
              /\ work'[m].who = "n64" /\ work'[m].left \in 1 .. Latency
              /\ work'[m].write = bus.write /\ work'[m].at = bus.at /\ work'[m].data = bus.data
         /\ work[m].left = 0 /\ work[m].who = "none" /\ ~Asks(m) =>
              \/ work'[m].who = "none" /\ work'[m].left = 0
              \/ work'[m].who = "other" /\ work'[m].left \in 1 .. Latency /\ m \in Busy /\ ~active[m]
<1>1. Latency \in Nat /\ Latency > 0 /\ PageWords \in Nat /\ PageWords > 0
  BY Times
<1>2. /\ work[m] \in [who : {"none", "n64", "other"}, left : 0 .. Latency,
                      write : BOOLEAN, at : Places, data : Int]
      /\ bus.at \in Places /\ bus.write \in BOOLEAN /\ bus.data \in Int
  BY DEF PiInv, PiTyped
<1>3. work'[m] \in MemoryTurn(m)
  BY DEF PiTick, Fpga, MemoryWork, Memory
<1>4. [space |-> "rom", word |-> 0] \in Places
  BY <1>1 DEF Places, Spaces, Words
<1>5. CASE work[m].left > 0
  <2>1. work'[m] = [work[m] EXCEPT !.left = work[m].left - 1]
    BY <1>3, <1>5 DEF MemoryTurn
  <2> QED BY <1>1, <1>2, <1>5, <2>1
<1>6. CASE work[m].left = 0 /\ work[m].who # "none"
  <2>1. work'[m] = Idle
    BY <1>3, <1>6 DEF MemoryTurn
  <2> QED BY <1>1, <1>4, <1>6, <2>1 DEF Idle
<1>7. CASE work[m].left = 0 /\ work[m].who = "none" /\ Asks(m)
  <2>1. PICK n \in 1 .. Latency :
          work'[m] = [who |-> "n64", left |-> n, write |-> bus.write, at |-> bus.at, data |-> bus.data]
    BY <1>3, <1>7 DEF MemoryTurn
  <2> QED BY <1>1, <1>2, <1>7, <2>1
<1>8. CASE work[m].left = 0 /\ work[m].who = "none" /\ ~Asks(m)
  <2>1. Idle \in Works /\ Idle.who = "none" /\ Idle.left = 0
    BY <1>1, <1>4 DEF Idle, Works
  <2>2. MemoryTurn(m) = {Idle} \cup {[Idle EXCEPT !.who = "other", !.left = n] :
                                     n \in {x \in 1 .. Latency : m \in Busy /\ ~active[m]}}
    BY <1>8 DEF MemoryTurn
  <2>3. CASE work'[m] = Idle
    BY <1>8, <2>1, <2>3 DEF Works
  <2>4. CASE work'[m] # Idle
    <3>1. PICK n \in {x \in 1 .. Latency : m \in Busy /\ ~active[m]} :
            work'[m] = [Idle EXCEPT !.who = "other", !.left = n]
      BY <1>3, <2>2, <2>4
    <3>2. n \in 0 .. Latency /\ n \in 1 .. Latency /\ m \in Busy /\ ~active[m]
      BY <1>1, <3>1
    <3> DEFINE r == [Idle EXCEPT !.who = "other", !.left = n]
    <3>3. r \in Works /\ r.who = "other" /\ r.left = n
      BY <2>1, <3>2, TakenWork
    <3> HIDE DEF r
    <3>4. work'[m] = r
      BY <3>1 DEF r
    <3>5. work'[m] \in Works /\ work'[m].who = "other" /\ work'[m].left = n
      BY <3>3, <3>4
    <3> QED BY <1>8, <3>2, <3>5 DEF Works
  <2> QED BY <2>3, <2>4
<1> QED BY <1>1, <1>2, <1>5, <1>6, <1>7, <1>8

\* The acknowledgement is for what is on the bus.
LEMMA Acked ==
  ASSUME PiInv
  PROVE  /\ Asked \in Memory
         /\ \A m \in Memory : AckOf(m) => m = Asked /\ work[m].at = bus.at
                                          /\ work[m].write = bus.write /\ work[m].data = bus.data
         /\ Ack <=> work[Asked].who = "n64" /\ work[Asked].left = 0
         /\ Ack => AckData = At(cells, bus.at)
         /\ Ack /\ up => bus.request
         /\ Ack /\ bus.request => Remaining = 1
<1>1. Held /\ PiTyped /\ ConsoleOk
  BY DEF PiInv
<1>2. Asked \in Memory
  BY DEF Asked, MemoryOf, Memory
<1>3. \A m \in Memory : AckOf(m) => m = Asked /\ work[m].at = bus.at
                                          /\ work[m].write = bus.write /\ work[m].data = bus.data
  BY <1>1 DEF Held, AckOf, Asked
<1>4. Ack <=> work[Asked].who = "n64" /\ work[Asked].left = 0
  BY <1>2, <1>3 DEF Ack, AckOf
<1>5. Ack => AckData = At(cells, bus.at)
  <2> SUFFICES ASSUME Ack PROVE AckData = At(cells, bus.at)
    OBVIOUS
  <2>1. (CHOOSE m \in Memory : AckOf(m)) \in Memory /\ AckOf(CHOOSE m \in Memory : AckOf(m))
    BY DEF Ack
  <2>2. work[CHOOSE m \in Memory : AckOf(m)].at = bus.at
    BY <1>3, <2>1
  <2> QED BY <2>2 DEF AckData, At
<1>6. Ack /\ up => bus.request
  BY <1>1, <1>2, <1>4 DEF Held, ConsoleOk
<1>7. Ack /\ bus.request => Remaining = 1
  BY <1>4 DEF Remaining, Asked
<1> QED BY <1>2, <1>3, <1>4, <1>5, <1>6, <1>7

\* A word gets to its place with the acknowledgement, and no other changes.
LEMMA CellsEdge ==
  ASSUME PiInv, PiTick, NEW p \in Places
  PROVE  At(cells, p)' = IF Ack /\ bus.write /\ p = bus.at THEN bus.data ELSE At(cells, p)
<1>1. MemoryWork /\ bus.at \in Places
  BY DEF PiTick, Fpga, PiInv, PiTyped
<1>2. p = [space |-> p.space, word |-> p.word] /\ p.space \in Spaces /\ p.word \in Words
  BY DEF Places
<1> DEFINE m == MemoryOf(p.space)
           w == work[m]
<1>3. cells'[p.space][p.word] =
        IF AckOf(m) /\ w.write /\ w.at = [space |-> p.space, word |-> p.word]
        THEN w.data ELSE cells[p.space][p.word]
  BY <1>1, <1>2 DEF MemoryWork
<1>4. m \in Memory
  BY DEF MemoryOf, Memory
<1>5. CASE AckOf(m)
  <2>1. Ack /\ w.at = bus.at /\ w.write = bus.write /\ w.data = bus.data
    BY <1>4, <1>5, Acked DEF Ack
  <2> QED BY <1>2, <1>3, <1>5, <2>1 DEF At
<1>6. CASE ~AckOf(m)
  <2>1. p = bus.at => ~Ack
    BY <1>4, <1>6, Acked DEF Asked, AckOf
  <2> QED BY <1>3, <1>6, <2>1 DEF At
<1> QED BY <1>5, <1>6

\* The memories keep their type.
LEMMA CellsTyped ==
  ASSUME PiInv, PiTick
  PROVE  cells' \in [Spaces -> [Words -> Int]]
<1>1. MemoryWork /\ cells \in [Spaces -> [Words -> Int]]
      /\ \A m \in Memory : work[m].data \in Int
  BY DEF PiTick, Fpga, PiInv, PiTyped
<1>2. \A s \in Spaces : MemoryOf(s) \in Memory
  BY DEF MemoryOf, Memory
<1>3. \A s \in Spaces, a \in Words : cells[s][a] \in Int /\ work[MemoryOf(s)].data \in Int
  BY <1>1, <1>2
<1> QED BY <1>1, <1>3 DEF MemoryWork

-----------------------------------------------------------------------------
(* The bus at a clock edge.                                                 *)

\* The registers of the bus and of its controller.
LEMMA BusEdge ==
  ASSUME PiInv, PiTick
  PROVE  /\ bus'.request <=> up /\ ~Ack /\ (bus.request \/ Writes \/ Reads)
         /\ bus'.write <=> Writes \/ (bus.write /\ ~Reads)
         /\ bus'.data = (IF Writes THEN Head(wf.q) ELSE bus.data)
         /\ bus'.at = (IF up THEN NextAddress ELSE bus.at)
         /\ ctl'.start = (IF up /\ line.op = "alel" THEN Starting ELSE ctl.start)
         /\ ctl'.load <=> up /\ line.op = "alel"
         /\ ctl'.enabled <=> up /\ ~Writes /\ line.op # "end" /\ (line.op = "alel" \/ ctl.enabled)
         /\ ctl'.first <=> ~(Writes /\ ctl.first) /\ (ctl.first \/ (up /\ line.op = "alel"))
         /\ done' <=> up /\ line.op = "end" /\ port.sram /\ ~ctl.first
<1>1. BusController
  BY DEF PiTick, Fpga
<1> QED BY <1>1 DEF BusController

\* The place that follows.
After(p) == [p EXCEPT !.word = (p.word + 1) % PageWords]

\* It is on the same page, and is the next word but at the end.
LEMMA AfterPlace ==
  ASSUME NEW p \in Places
  PROVE  /\ After(p) \in Places /\ After(p).space = p.space
         /\ p.word + 1 < PageWords => After(p).word = p.word + 1
<1>1. PageWords \in Nat /\ PageWords > 0 /\ p.word \in 0 .. PageWords - 1 /\ p.space \in Spaces
  BY Times DEF Places, Words
<1>2. (p.word + 1) % PageWords \in 0 .. PageWords - 1
  BY <1>1
<1>3. p.word + 1 < PageWords => (p.word + 1) % PageWords = p.word + 1
  BY <1>1
<1>4. After(p).word = (p.word + 1) % PageWords /\ After(p).space = p.space /\ After(p) \in Places
  BY <1>1, <1>2 DEF After, Places, Words
<1> QED BY <1>3, <1>4

\* A request stays on the bus until it has been served.
LEMMA RequestEdge ==
  ASSUME PiInv, PiTick, up, bus.request
  PROVE  /\ ~Writes /\ ~Reads /\ ~ctl.load
         /\ (bus'.write <=> bus.write) /\ bus'.data = bus.data
         /\ ~Ack => bus'.request /\ bus'.at = bus.at
         /\ Ack  => ~bus'.request /\ bus'.at = After(bus.at)
<1>1. ~Writes /\ ~Reads
  BY DEF Writes, Reads
<1>2. ~ctl.load
  <2>1. ControlOk /\ Prompt /\ FetchOk /\ ConsoleOk
    BY DEF PiInv
  <2>2. CASE Open
    BY <2>1, <2>2 DEF ControlOk, Prompt, FetchOk, Reading
  <2>3. CASE ~Open
    BY <2>1, <2>3 DEF ControlOk
  <2> QED BY <2>2, <2>3
<1>3. NextAddress = IF Ack THEN After(bus.at) ELSE bus.at
  BY <1>1, <1>2 DEF NextAddress, After
<1> QED BY <1>1, <1>2, <1>3, BusEdge DEF PiInv, PiTyped

\* What the bus does when nothing is on it.
LEMMA NoRequestEdge ==
  ASSUME PiInv, PiTick, up, ~bus.request
  PROVE  /\ ~Ack
         /\ bus'.request <=> Writes \/ Reads
         /\ bus'.at = (IF ctl.load \/ (Writes /\ ctl.first) THEN ctl.start ELSE bus.at)
<1>1. ~Ack
  BY Acked
<1> QED BY <1>1, BusEdge DEF NextAddress

-----------------------------------------------------------------------------
(* The FIFOs and the registers at a clock edge.                             *)

\* The console gets a word out of the FIFO.
TakesWord == port.read = "mem" /\ rf.q # <<>> /\ Untaken

\* The FIFO of the words ahead at a clock edge.
LEMMA ReadEdge ==
  ASSUME PiInv, PiTick
  PROVE  /\ rf'.q = (IF ReadFlush THEN <<>>
                     ELSE IF Ack /\ ~bus.write THEN Append(Ahead, At(cells, bus.at)) ELSE Ahead)
         /\ rf'.pop <=> TakesWord
         /\ rf'.wait <=> \/ port.read = "mem" /\ line.op = "read" /\ rf.q = <<>>
                         \/ rf.wait /\ ~ReadFlush /\ ~(port.read = "mem" /\ rf.q # <<>>)
         /\ dq' = (IF TakesWord THEN Head(rf.q)
                   ELSE IF port.read = "reg" /\ line.op = "read" THEN Register(reg.word)
                   ELSE dq)
<1>1. ReadFifo
  BY DEF PiTick, Fpga
<1>2. Ack => AckData = At(cells, bus.at)
  BY Acked
<1>3. port.read = "mem" /\ rf.q # <<>> /\ (line.op = "read" \/ rf.wait) <=> TakesWord
  BY DEF TakesWord, Untaken
<1>4. rf.wait \in BOOLEAN
  BY DEF PiInv, PiTyped
<1> QED BY <1>1, <1>2, <1>3, <1>4 DEF ReadFifo, Ahead

\* The words ahead while the console is on.
LEMMA AheadFacts ==
  ASSUME PiInv, up
  PROVE  /\ rf.pop => rf.q # <<>> /\ Ahead = Tail(rf.q) /\ Len(rf.q) = Len(Ahead) + 1
         /\ ~rf.pop => Ahead = rf.q
         /\ Ahead \in Seq(Int) /\ Len(Ahead) \in Nat /\ Len(rf.q) \in Nat
         /\ \A i \in 1 .. Len(Ahead) : Ahead[i] = rf.q[IF rf.pop THEN i + 1 ELSE i]
         /\ rf.q = <<>> <=> Len(rf.q) = 0
         /\ Ahead = <<>> <=> Len(Ahead) = 0
<1>1. rf.q \in Seq(Int) /\ (rf.pop => rf.q # <<>>) /\ rf.pop \in BOOLEAN
  BY DEF PiInv, PiTyped, FetchOk, ConsoleOk
<1>2. CASE rf.pop
  <2>1. Ahead = Tail(rf.q)
    BY <1>2 DEF Ahead, Popped
  <2>2. rf.q # <<>>
    BY <1>1, <1>2
  <2>3. /\ Tail(rf.q) \in Seq(Int) /\ Len(Tail(rf.q)) = Len(rf.q) - 1
        /\ Len(rf.q) \in Nat /\ Len(rf.q) > 0
    BY <1>1, <2>2
  <2>4. \A i \in 1 .. Len(Tail(rf.q)) : Tail(rf.q)[i] = rf.q[i + 1]
    BY <1>1, <2>2
  <2>5. Len(Tail(rf.q)) = 0 <=> Tail(rf.q) = <<>>
    BY <2>3, EmptySeq
  <2> HIDE DEF Ahead
  <2> QED BY <1>1, <1>2, <2>1, <2>2, <2>3, <2>4, <2>5
<1>3. CASE ~rf.pop
  <2>1. Ahead = rf.q
    BY <1>3 DEF Ahead, Popped
  <2> QED BY <1>1, <1>3, <2>1, EmptySeq
<1> QED BY <1>1, <1>2, <1>3

\* No more than one word waits to be written.
LEMMA WriteEdge ==
  ASSUME PiInv, PiTick
  PROVE  /\ wf'.q = (IF wf.push THEN <<wf.data>> ELSE IF wf.pop THEN <<>> ELSE wf.q)
         /\ wf'.push <=> OnLine
         /\ wf'.data = (IF OnLine THEN line.data ELSE wf.data)
         /\ ~wf'.wait
         /\ wf'.pop <=> Writes
<1>1. WriteFifo
  BY DEF PiTick, Fpga
<1>2. FifoWords \in Nat /\ FifoWords > 0
  BY Times
<1>3. /\ wf \in [q : Seq(Int), push : BOOLEAN, data : Int, wait : BOOLEAN, pop : BOOLEAN]
      /\ ~wf.wait /\ Len(wf.q) + (IF wf.push THEN 1 ELSE 0) <= 1
      /\ wf.pop => wf.q # <<>>
      /\ OnLine => wf.q = <<>> /\ ~wf.push
  BY DEF PiInv, PiTyped, QueueOk
<1>4. wf.q \in Seq(Int) /\ Len(wf.q) \in Nat /\ wf.push \in BOOLEAN /\ wf.pop \in BOOLEAN
  BY <1>3
<1>5. OnLine => Len(wf.q) = 0
  BY <1>3
<1>6. wf.push => Len(wf.q) = 0 /\ wf.q = <<>> /\ ~wf.pop
  BY <1>3, <1>4, EmptySeq
<1>7. wf.pop => Len(wf.q) = 1 /\ Tail(wf.q) = <<>>
  <2>1. wf.pop => Len(wf.q) = 1
    <3>1. wf.pop => Len(wf.q) # 0
      BY <1>3, <1>4, EmptySeq
    <3>2. Len(wf.q) <= 1
      BY <1>3, <1>4
    <3>3. wf.pop => Len(wf.q) # 0 /\ Len(wf.q) \in Nat /\ Len(wf.q) <= 1
      BY <1>4, <3>1, <3>2
    <3> DEFINE n == Len(wf.q)
    <3> HIDE DEF n
    <3>4. wf.pop => n # 0 /\ n \in Nat /\ n <= 1
      BY <3>3 DEF n
    <3>5. wf.pop => n = 1
      BY <3>4
    <3> QED BY <3>5 DEF n
  <2>2. wf.pop => Tail(wf.q) \in Seq(Int) /\ Len(Tail(wf.q)) = 0
    BY <1>3, <1>4, <2>1
  <2> QED BY <2>1, <2>2, EmptySeq
<1>8. Popped(wf) = IF wf.pop THEN <<>> ELSE wf.q
  BY <1>7 DEF Popped
<1>9. wf.push => Append(Popped(wf), wf.data) = <<wf.data>>
  <2>1. wf.data \in Int
    BY <1>3
  <2>2. Append(<<>>, wf.data) = <<wf.data>>
    BY <2>1
  <2> QED BY <1>6, <1>8, <2>2
<1>10. port.write = "mem" /\ ~(Len(wf.q) = FifoWords) /\ (line.op = "write" \/ wf.wait) <=> OnLine
  BY <1>2, <1>3, <1>5 DEF OnLine
<1>11. wf' = [q    |-> IF wf.push THEN Append(Popped(wf), wf.data) ELSE Popped(wf),
              push |-> port.write = "mem" /\ ~(Len(wf.q) = FifoWords) /\ (line.op = "write" \/ wf.wait),
              data |-> IF port.write = "mem" /\ ~(Len(wf.q) = FifoWords) /\ (line.op = "write" \/ wf.wait)
                       THEN line.data ELSE wf.data,
              wait |-> IF port.write = "mem" THEN Len(wf.q) = FifoWords /\ (line.op = "write" \/ wf.wait)
                       ELSE wf.wait,
              pop  |-> up /\ ~bus.request /\ port.write = "mem" /\ wf.q # <<>>]
  BY <1>1 DEF WriteFifo
<1>12. /\ wf'.q = IF wf.push THEN Append(Popped(wf), wf.data) ELSE Popped(wf)
       /\ wf'.push <=> OnLine
       /\ wf'.data = IF OnLine THEN line.data ELSE wf.data
       /\ wf'.pop <=> Writes
  BY <1>10, <1>11 DEF Writes
<1>13. ~wf'.wait
  <2>1. wf'.wait <=> IF port.write = "mem" THEN Len(wf.q) = FifoWords /\ (line.op = "write" \/ wf.wait)
                     ELSE wf.wait
    BY <1>11
  <2> QED BY <1>2, <1>3, <1>5, <2>1 DEF OnLine
<1> QED BY <1>8, <1>9, <1>12, <1>13

\* The register bus counts the words that have been strobed.
LEMMA RegEdge ==
  ASSUME PiInv, PiTick
  PROVE  /\ reg'.word = (IF line.op = "alel" THEN line.data
                         ELSE IF reg.inc THEN reg.word + 1 ELSE reg.word)
         /\ reg'.inc <=> line.op \in {"read", "write"}
         /\ reg'.write <=> line.op = "write" /\ port.write = "reg"
         /\ reg'.data = line.data
<1>1. RegBus
  BY DEF PiTick, Fpga
<1> QED BY <1>1 DEF RegBus

\* The history counts the reports of a save.
LEMMA WatchEdge ==
  ASSUME PiInv, PiTick
  PROVE  counted' = IF line.op = "aleh" THEN 0 ELSE IF done THEN counted + 1 ELSE counted
BY DEF PiTick, Watch

-----------------------------------------------------------------------------
(* The registers keep their types.                                          *)

Phases == {"idle", "high", "low", "strobe", "off"}
Dirs == {"none", "read", "write"}
Frames == Windows \cup {"rom"}
Consoles == [phase : Phases, since : Int,
             window : Frames, word : Words, k : Nat, n : Nat, dir : Dirs]

\* A console with other fields is a console.
LEMMA NextConsole ==
  ASSUME NEW r \in Consoles, NEW p \in Phases, NEW s \in Int, NEW d \in Dirs, NEW w \in Frames,
         NEW a \in Words, NEW k \in Nat, NEW n \in Nat
  PROVE  /\ [r EXCEPT !.since = s] \in Consoles
         /\ [r EXCEPT !.phase = p, !.since = s] \in Consoles
         /\ [r EXCEPT !.phase = p, !.since = s, !.word = a] \in Consoles
         /\ [r EXCEPT !.phase = p, !.since = s, !.k = k] \in Consoles
         /\ [r EXCEPT !.phase = p, !.since = s, !.dir = d] \in Consoles
         /\ [r EXCEPT !.phase = p, !.since = s, !.n = n, !.k = k, !.window = w, !.dir = d] \in Consoles
<1>1. [r EXCEPT !.since = s] \in Consoles
  BY DEF Consoles
<1>2. [r EXCEPT !.phase = p, !.since = s] \in Consoles
  BY DEF Consoles
<1>3. [r EXCEPT !.phase = p, !.since = s, !.word = a] \in Consoles
  BY DEF Consoles
<1>4. [r EXCEPT !.phase = p, !.since = s, !.k = k] \in Consoles
  BY DEF Consoles
<1>5. [r EXCEPT !.phase = p, !.since = s, !.dir = d] \in Consoles
  BY DEF Consoles
<1>6. [r EXCEPT !.phase = p, !.since = s, !.n = n, !.k = k, !.window = w, !.dir = d] \in Consoles
  BY DEF Consoles
<1> QED BY <1>1, <1>2, <1>3, <1>4, <1>5, <1>6

\* The console keeps its type.
LEMMA ConsoleTyped ==
  ASSUME con \in Consoles, PiTick PROVE  con' \in Consoles
<1>1. /\ "idle" \in Phases /\ "high" \in Phases /\ "low" \in Phases /\ "strobe" \in Phases
      /\ "off" \in Phases /\ "none" \in Dirs /\ "read" \in Dirs /\ "write" \in Dirs
  BY DEF Phases, Dirs
<1>2. /\ con.since \in Int /\ con.since + 1 \in Int /\ 0 - Rest \in Int
      /\ con.n + 1 \in Nat /\ con.k + 1 \in Nat
      /\ con.window \in Frames /\ con.word \in Words /\ 0 \in Nat /\ 0 \in Int
  BY Times DEF Consoles
<1>3. CASE Waits
  <2>1. con' = [con EXCEPT !.since = IF con.since < Rest THEN con.since + 1 ELSE con.since]
    BY <1>3 DEF Waits, Later
  <2>2. (IF con.since < Rest THEN con.since + 1 ELSE con.since) \in Int
    BY <1>2
  <2> QED BY <1>1, <1>2, <2>1, <2>2, NextConsole
<1>4. CASE PutHigh
  <2>1. PICK w \in Windows : con' = [con EXCEPT !.phase = "high", !.since = 0, !.n = con.n + 1, !.k = 0,
                                               !.window = w, !.dir = "none"]
    BY <1>4 DEF PutHigh
  <2>2. w \in Frames
    BY DEF Frames
  <2> QED BY <1>1, <1>2, <2>1, <2>2, NextConsole
<1>5. CASE PutLow
  <2>1. PICK a \in Words : con' = [con EXCEPT !.phase = "low", !.since = 0, !.word = a]
    BY <1>5 DEF PutLow
  <2> QED BY <1>1, <1>2, <2>1, NextConsole
<1>6. CASE Release
  <2>1. con' = [con EXCEPT !.phase = "low", !.since = 0, !.k = con.k + 1]
    BY <1>6 DEF Release
  <2> QED BY <1>1, <1>2, <2>1, NextConsole
<1>7. CASE End
  <2>1. con' = [con EXCEPT !.phase = "idle", !.since = 0]
    BY <1>7 DEF End, Moves
  <2> QED BY <1>1, <1>2, <2>1, NextConsole
<1>8. CASE Reset
  <2>1. con' = [con EXCEPT !.phase = "off", !.since = 0]
    BY <1>8 DEF Reset, Moves
  <2> QED BY <1>1, <1>2, <2>1, NextConsole
<1>9. CASE PowerOn
  <2>1. con' = [con EXCEPT !.phase = "idle", !.since = 0 - Rest]
    BY <1>9 DEF PowerOn
  <2> QED BY <1>1, <1>2, <2>1, NextConsole
<1>10. CASE Strobe("read")
  <2>1. con' = [con EXCEPT !.phase = "strobe", !.since = 0, !.dir = "read"]
    BY <1>10 DEF Strobe
  <2> QED BY <1>1, <1>2, <2>1, NextConsole
<1>11. CASE Strobe("write")
  <2>1. con' = [con EXCEPT !.phase = "strobe", !.since = 0, !.dir = "write"]
    BY <1>11 DEF Strobe
  <2> QED BY <1>1, <1>2, <2>1, NextConsole
<1> QED BY <1>3, <1>4, <1>5, <1>6, <1>7, <1>8, <1>9, <1>10, <1>11, ConsoleSteps

\* All registers keep their types.
LEMMA TypedStep ==
  ASSUME PiInv, PiTick
  PROVE  PiTyped'
<1>1. PiTyped /\ ConsoleOk
  BY DEF PiInv
<1>2. PageWords \in Nat /\ PageWords > 0 /\ MaxBurst \in Nat /\ Rest \in Nat
  BY Times
<1>3. /\ up' \in BOOLEAN /\ torn' \in BOOLEAN
      /\ con' \in [phase : {"idle", "high", "low", "strobe", "off"}, since : Int,
                   window : Windows \cup {"rom"}, word : Words, k : Nat, n : Nat,
                   dir : {"none", "read", "write"}]
  <2>1. con' \in Consoles
    BY <1>1, ConsoleTyped DEF PiTyped, Consoles, Phases, Frames, Dirs
  <2>2. up' \in BOOLEAN
    BY <1>1, ConsoleSteps, WaitMoves, HighMoves, LowMoves, StrobeMoves, ReleaseMoves, EndMoves,
       ResetMoves, PowerMoves DEF PiTyped
  <2>3. torn' \in BOOLEAN
    <3>1. CASE Reset
      BY <1>1, <3>1, ResetMoves DEF PiTyped
    <3> QED BY <1>1, <3>1, ConsoleSteps, WaitMoves, HighMoves, LowMoves, StrobeMoves, ReleaseMoves,
               EndMoves, PowerMoves DEF PiTyped
  <2> QED BY <2>1, <2>2, <2>3 DEF Consoles, Phases, Frames, Dirs
<1>4. line' \in [op : {"none", "aleh", "alel", "read", "write", "end"}, data : Int]
  <2>1. line.data \in Int /\ con.k \in Nat /\ con.n \in Nat /\ MaxBurst * con.n + con.k \in Int
    BY <1>1, <1>2 DEF PiTyped
  <2>2. line'.op \in {"none", "aleh", "alel", "read", "write", "end"} /\ line'.data \in Int
    <3>1. con'.word \in Int
      BY <1>2, <1>3 DEF Words
    <3>2. ASSUME NEW d \in {"read", "write"}, Strobe(d)
          PROVE  line'.op \in {"none", "aleh", "alel", "read", "write", "end"} /\ line'.data \in Int
      BY <1>1, <2>1, <3>2, StrobeMoves DEF StrobeOp
    <3>3. CASE Waits
      BY <1>1, <2>1, <3>3, WaitMoves
    <3>4. CASE PutHigh
      BY <1>1, <3>4, HighMoves
    <3>5. CASE PutLow
      BY <1>1, <3>1, <3>5, LowMoves
    <3>6. CASE Release
      BY <1>1, <3>6, ReleaseMoves
    <3>7. CASE End
      BY <1>1, <3>7, EndMoves
    <3>8. CASE Reset
      BY <1>1, <3>8, ResetMoves
    <3>9. CASE PowerOn
      BY <1>1, <3>9, PowerMoves
    <3> QED BY <3>2, <3>3, <3>4, <3>5, <3>6, <3>7, <3>8, <3>9, ConsoleSteps
  <2>3. line' = [op |-> line'.op, data |-> line'.data]
    BY DEF PiTick, Console, Waits, PutHigh, PutLow, Release, End, Reset, PowerOn, Strobe, Silent,
       Event
  <2> QED BY <2>2, <2>3
<1>5. shadow' \in [Spaces -> [Words -> Int]] /\ before' \in [Spaces -> [Words -> Int]]
  <2>1. /\ shadow \in [Spaces -> [Words -> Int]] /\ before \in [Spaces -> [Words -> Int]]
        /\ cells \in [Spaces -> [Words -> Int]]
    BY <1>1 DEF PiTyped
  <2>2. ASSUME NEW d \in {"read", "write"}, Strobe(d)
        PROVE  shadow' \in [Spaces -> [Words -> Int]]
    <3>1. line'.data \in Int /\ Here \in Words
      <4>1. con.word \in Nat /\ con.k \in Nat
        BY <1>1, <1>2 DEF PiTyped, Words
      <4>2. Here < PageWords
        BY <1>1, <2>2, StrobeMoves
      <4> QED BY <1>2, <1>4, <4>1, <4>2 DEF Words, Here
    <3>2. Place(con.window) \in Spaces
      BY DEF Place, Spaces
    <3>3. CASE d = "write" /\ Writable(con.window, rights)
      <4>1. shadow' = [shadow EXCEPT ![Place(con.window)][Here] = line'.data]
        BY <1>1, <2>2, <3>3, StrobeMoves
      <4> QED BY <2>1, <3>1, <3>2, <4>1
    <3>4. CASE ~(d = "write" /\ Writable(con.window, rights))
      BY <1>1, <2>1, <2>2, <3>4, StrobeMoves
    <3> QED BY <3>3, <3>4
  <2> QED BY <1>1, <2>1, <2>2, ConsoleSteps, WaitMoves, HighMoves, LowMoves, StrobeMoves,
             ReleaseMoves, EndMoves, ResetMoves, PowerMoves
<1>6. done' \in BOOLEAN /\ counted' \in Nat
  BY <1>1, WatchEdge DEF PiTick, Fpga, BusController, PiTyped
<1>7. port' \in PortRecords /\ active' \in [Memory -> BOOLEAN]
  <2>1. port \in PortRecords /\ active \in [Memory -> BOOLEAN] /\ up \in BOOLEAN
    BY <1>1 DEF PiTyped, PortRecords
  <2>2. port' \in PortRecords
    BY <2>1, DecoderEdge, Decoded
  <2>3. Decoder
    BY DEF PiTick, Fpga
  <2> QED BY <2>1, <2>2, <2>3 DEF Decoder
<1>8. rf' \in [q : Seq(Int), pop : BOOLEAN, wait : BOOLEAN]
  <2>1. rf'.q \in Seq(Int)
    <3>1. CASE up
      <4>1. At(cells, bus.at) \in Int
        <5>1. bus.at \in Places /\ cells \in [Spaces -> [Words -> Int]]
          BY <1>1 DEF PiTyped
        <5>2. bus.at.space \in Spaces /\ bus.at.word \in Words
          BY <5>1 DEF Places
        <5> QED BY <5>1, <5>2 DEF At
      <4>2. Ahead \in Seq(Int)
        BY <3>1, AheadFacts
      <4>3. Append(Ahead, At(cells, bus.at)) \in Seq(Int)
        BY <4>1, <4>2
      <4>4. <<>> \in Seq(Int)
        OBVIOUS
      <4> QED BY <4>2, <4>3, <4>4, ReadEdge
    <3>2. CASE ~up
      <4>1. rf'.q = <<>>
        BY <3>2, ReadEdge DEF ReadFlush
      <4> QED BY <4>1
    <3> QED BY <3>1, <3>2
  <2>2. rf.wait \in BOOLEAN
    BY <1>1 DEF PiTyped
  <2>3. PICK q, t, w : rf' = [q |-> q, pop |-> t, wait |-> w] /\ t \in BOOLEAN /\ w \in BOOLEAN
    BY <2>2 DEF PiTick, Fpga, ReadFifo
  <2> QED BY <2>1, <2>3
<1>9. wf' \in [q : Seq(Int), push : BOOLEAN, data : Int, wait : BOOLEAN, pop : BOOLEAN]
  <2>1. wf \in [q : Seq(Int), push : BOOLEAN, data : Int, wait : BOOLEAN, pop : BOOLEAN] /\ line.data \in Int
        /\ up \in BOOLEAN
    BY <1>1 DEF PiTyped
  <2>2. <<wf.data>> \in Seq(Int) /\ <<>> \in Seq(Int)
    BY <2>1
  <2>3. wf'.q \in Seq(Int) /\ wf'.data \in Int
    BY <2>1, <2>2, WriteEdge
  <2>4. /\ wf' = [q |-> wf'.q, push |-> wf'.push, data |-> wf'.data, wait |-> wf'.wait, pop |-> wf'.pop]
        /\ wf'.push \in BOOLEAN /\ wf'.pop \in BOOLEAN
    BY <2>1 DEF PiTick, Fpga, WriteFifo
  <2>5. wf'.wait \in BOOLEAN
    <3>1. wf'.wait = IF port.write = "mem" THEN Len(wf.q) = FifoWords /\ (line.op = "write" \/ wf.wait)
                     ELSE wf.wait
      BY DEF PiTick, Fpga, WriteFifo
    <3>2. wf.wait \in BOOLEAN
      BY <2>1
    <3> QED BY <3>1, <3>2
  <2> QED BY <2>3, <2>4, <2>5
<1>10. /\ ctl' \in [start : Places, load : BOOLEAN, enabled : BOOLEAN, first : BOOLEAN]
       /\ bus' \in [request : BOOLEAN, write : BOOLEAN, data : Int, at : Places]
  <2>1. /\ ctl \in [start : Places, load : BOOLEAN, enabled : BOOLEAN, first : BOOLEAN]
        /\ bus \in [request : BOOLEAN, write : BOOLEAN, data : Int, at : Places]
        /\ wf.q \in Seq(Int) /\ port.space \in Spaces /\ up \in BOOLEAN
    BY <1>1 DEF PiTyped
  <2>2. line.op = "alel" => Starting \in Places
    BY <1>1 DEF PiInv, PiTyped, LineOk, Starting, Places
  <2>3. Writes => Head(wf.q) \in Int
    BY <2>1 DEF Writes
  <2>4. NextAddress \in Places
    <3>1. (bus.at.word + 1) % PageWords \in Words
      BY <1>2, <2>1 DEF Places, Words
    <3> QED BY <2>1, <3>1 DEF NextAddress, Places
  <2>5. BusController
    BY DEF PiTick, Fpga
  <2>6. ctl' \in [start : Places, load : BOOLEAN, enabled : BOOLEAN, first : BOOLEAN]
    BY <2>1, <2>2, <2>5 DEF BusController
  <2>7. bus' \in [request : BOOLEAN, write : BOOLEAN, data : Int, at : Places]
    BY <2>1, <2>3, <2>4, <2>5 DEF BusController
  <2> QED BY <2>6, <2>7
<1>11. reg' \in [word : Int, inc : BOOLEAN, write : BOOLEAN, data : Int]
  <2>1. reg \in [word : Int, inc : BOOLEAN, write : BOOLEAN, data : Int] /\ line.data \in Int
    BY <1>1 DEF PiTyped
  <2> QED BY <2>1 DEF PiTick, Fpga, RegBus
<1>12. work' \in [Memory -> [who : {"none", "n64", "other"}, left : 0 .. Latency,
                             write : BOOLEAN, at : Places, data : Int]]
  <2>1. PICK s, f, b : work' = [sdram |-> s, flash |-> f, bram |-> b]
    BY DEF PiTick, Fpga, MemoryWork
  <2>2. work'["sdram"] = s /\ work'["flash"] = f /\ work'["bram"] = b
    BY <2>1
  <2>3. s \in Works /\ f \in Works /\ b \in Works
    BY <2>2, WorkEdge DEF Memory, Works
  <2>4. [sdram |-> s, flash |-> f, bram |-> b] \in [Memory -> Works]
    BY <2>3 DEF Memory
  <2> QED BY <2>1, <2>4 DEF Works
<1>13. cells' \in [Spaces -> [Words -> Int]]
  BY CellsTyped
<1> QED BY <1>3, <1>4, <1>5, <1>6, <1>7, <1>8, <1>9, <1>10, <1>11, <1>12, <1>13
        DEF PiTyped, PortRecords

-----------------------------------------------------------------------------
(* The memories and the requests of the N64.                                *)

\* The numbers and switches that the steps are about.
LEMMA Kinds ==
  ASSUME PiInv
  PROVE  /\ con.since \in Int /\ con.k \in Nat /\ con.n \in Nat /\ con.word \in Nat
         /\ con.word < PageWords /\ Here \in Nat
         /\ con.phase \in {"idle", "high", "low", "strobe", "off"}
         /\ con.dir \in {"none", "read", "write"}
         /\ up \in BOOLEAN /\ bus.request \in BOOLEAN /\ bus.write \in BOOLEAN
         /\ bus.at \in Places /\ bus.at.space \in Spaces /\ bus.at.word \in Nat
         /\ bus.at.word < PageWords /\ bus.data \in Int
         /\ port.space \in Spaces /\ port.read \in {"mem", "reg", "none"}
         /\ port.write \in {"mem", "reg", "none"}
         /\ wf.data \in Int /\ wf.push \in BOOLEAN /\ wf.pop \in BOOLEAN
         /\ ctl.first \in BOOLEAN /\ ctl.enabled \in BOOLEAN /\ ctl.load \in BOOLEAN
         /\ line.op \in {"none", "aleh", "alel", "read", "write", "end"} /\ line.data \in Int
         /\ up <=> con.phase # "off"
<1>1. PiTyped /\ ConsoleOk /\ PageWords \in Nat /\ PageWords > 0
  BY Times DEF PiInv
<1>2. /\ con.since \in Int /\ con.k \in Nat /\ con.n \in Nat /\ con.word \in Words
      /\ con.phase \in {"idle", "high", "low", "strobe", "off"}
      /\ con.dir \in {"none", "read", "write"}
      /\ up \in BOOLEAN
  BY <1>1 DEF PiTyped
<1>3. con.word \in Nat /\ con.word < PageWords /\ Here \in Nat
  BY <1>1, <1>2 DEF Words, Here
<1>4. /\ bus.request \in BOOLEAN /\ bus.write \in BOOLEAN /\ bus.at \in Places /\ bus.data \in Int
  BY <1>1 DEF PiTyped
<1>5. bus.at.space \in Spaces /\ bus.at.word \in Nat /\ bus.at.word < PageWords
  BY <1>1, <1>4 DEF Places, Words
<1>6. /\ port.space \in Spaces /\ port.read \in {"mem", "reg", "none"}
      /\ port.write \in {"mem", "reg", "none"}
      /\ wf.data \in Int /\ wf.push \in BOOLEAN /\ wf.pop \in BOOLEAN
  BY <1>1 DEF PiTyped
<1>7. /\ ctl.first \in BOOLEAN /\ ctl.enabled \in BOOLEAN /\ ctl.load \in BOOLEAN
      /\ line.op \in {"none", "aleh", "alel", "read", "write", "end"} /\ line.data \in Int
  BY <1>1 DEF PiTyped
<1> QED BY <1>1, <1>2, <1>3, <1>4, <1>5, <1>6, <1>7 DEF ConsoleOk

\* A console that is off waits, or starts.
LEMMA OffMoves ==
  ASSUME PiInv, PiTick, ~up
  PROVE  /\ con.phase = "off" /\ con.since >= 0 /\ line.op = "none"
         /\ Stays /\ con'.k = con.k /\ con'.dir = con.dir /\ line'.op = "none"
         /\ shadow' = shadow /\ before' = before /\ torn' = torn
         /\ \/ /\ con'.phase = "off" /\ ~up'
               /\ con'.since = (IF con.since < Rest THEN con.since + 1 ELSE con.since)
            \/ con.since >= Rest /\ con'.phase = "idle" /\ con'.since = 0 - Rest
<1>1. PiTyped /\ ConsoleOk /\ LineOk
  BY DEF PiInv
<1>2. con.phase = "off" /\ con.since >= 0
  BY <1>1 DEF ConsoleOk
<1>3. line.op = "none"
  BY <1>1, <1>2, Kinds DEF LineOk
<1>4. Waits \/ PowerOn
  BY <1>1, <1>2, ConsoleSteps, HighMoves, LowMoves, StrobeMoves, ReleaseMoves, EndMoves, ResetMoves
<1>5. CASE Waits
  <2>1. /\ Stays /\ con'.phase = con.phase /\ con'.k = con.k /\ con'.dir = con.dir
        /\ con'.since = (IF con.since < Rest THEN con.since + 1 ELSE con.since)
        /\ line'.op = "none"
        /\ up' = up /\ shadow' = shadow /\ before' = before /\ torn' = torn
    BY <1>1, <1>5, WaitMoves
  <2> QED BY <1>2, <1>3, <2>1
<1>6. CASE PowerOn
  BY <1>1, <1>2, <1>3, <1>6, PowerMoves
<1> QED BY <1>4, <1>5, <1>6

\* One that is on is switched off in a single step.
LEMMA OnMoves ==
  ASSUME PiInv, PiTick, up
  PROVE  con'.phase = "off" => Reset /\ con'.since = 0
<1>1. PiTyped /\ con.phase # "off"
  BY DEF PiInv, ConsoleOk
<1> QED BY <1>1, ConsoleSteps, WaitMoves, HighMoves, LowMoves, StrobeMoves, ReleaseMoves, EndMoves,
           ResetMoves, PowerMoves

\* Nothing happens on the bus while the console is off.
LEMMA OffEdge ==
  ASSUME PiInv, PiTick, ~up
  PROVE  /\ ~Writes /\ ~Reads
         /\ ~bus'.request /\ (bus'.write <=> bus.write) /\ bus'.data = bus.data /\ bus'.at = bus.at
         /\ ctl'.start = ctl.start /\ ~ctl'.load /\ ~ctl'.enabled /\ (ctl'.first <=> ctl.first) /\ ~done'
<1>1. ~Writes /\ ~Reads
  BY DEF Writes, Reads
<1> QED BY <1>1, BusEdge, Kinds

\* A memory serves what is asked of it.
LEMMA HeldStep ==
  ASSUME PiInv, PiTick
  PROVE  Held'
<1>1. Held /\ Prompt /\ ConsoleOk
  BY DEF PiInv
<1>2. Latency \in Nat /\ Latency > 0 /\ Rest \in Nat /\ Rest >= Latency + 2
  BY Times
<1> SUFFICES ASSUME NEW m \in Memory
             PROVE  /\ work'[m].who = "n64" =>
                         /\ m = MemoryOf(bus'.at.space) /\ work'[m].at = bus'.at
                         /\ (work'[m].write <=> bus'.write) /\ work'[m].data = bus'.data
                         /\ bus'.request \/ con'.phase = "off"
                         /\ con'.phase = "off" => work'[m].left + con'.since <= Latency + 1
                    /\ work'[m].who = "other" => m \in Busy
                    /\ work'[m].who = "none" => work'[m].left = 0
  <2>1. \A x \in Memory : work'[x].write \in BOOLEAN
    BY TypedStep DEF PiTyped
  <2>2. bus'.write \in BOOLEAN
    BY TypedStep DEF PiTyped
  <2>3. \A x \in Memory : (work'[x].write <=> bus'.write) => work'[x].write = bus'.write
    BY <2>1, <2>2
  <2> QED BY <2>3 DEF Held
<1>3. /\ work[m].left \in 0 .. Latency /\ work[m].who \in {"none", "n64", "other"}
      /\ work[m].write \in BOOLEAN
  BY DEF PiInv, PiTyped
<1>4. /\ work[m].who = "n64" =>
           /\ m = Asked /\ work[m].at = bus.at
           /\ (work[m].write <=> bus.write) /\ work[m].data = bus.data
           /\ bus.request \/ con.phase = "off"
           /\ con.phase = "off" => work[m].left + con.since <= Latency + 1
      /\ work[m].who = "other" => m \in Busy
      /\ work[m].who = "none" => work[m].left = 0
  BY <1>1 DEF Held, Asked
<1>5. CASE work[m].left > 0 /\ work[m].who = "n64"
  <2>1. /\ work'[m].who = "n64" /\ work'[m].left = work[m].left - 1
        /\ (work'[m].write <=> work[m].write) /\ work'[m].at = work[m].at
        /\ work'[m].data = work[m].data
    BY <1>5, WorkEdge
  <2>2. CASE up
    <3>1. bus.request /\ ~Ack
      BY <1>1, <1>3, <1>4, <1>5, <2>2, Acked DEF ConsoleOk
    <3>2. (bus'.write <=> bus.write) /\ bus'.data = bus.data /\ bus'.request /\ bus'.at = bus.at
      BY <2>2, <3>1, RequestEdge
    <3> QED BY <1>2, <1>3, <1>4, <1>5, <2>1, <2>2, <3>2, OnMoves DEF Asked
  <2>3. CASE ~up
    <3>1. con.phase = "off" /\ con.since >= 0 /\ con.since < Rest
      BY <1>2, <1>3, <1>4, <1>5, <2>3, OffMoves, Kinds
    <3>2. con'.phase = "off" /\ con'.since = con.since + 1
      BY <1>2, <2>3, <3>1, OffMoves, Kinds
    <3> QED BY <1>2, <1>3, <1>4, <1>5, <2>1, <2>3, <3>1, <3>2, OffEdge, Kinds DEF Asked
  <2> QED BY <2>2, <2>3
<1>6. CASE work[m].left = 0 /\ work[m].who = "none" /\ Asks(m)
  <2>1. /\ work'[m].who = "n64" /\ work'[m].left \in 1 .. Latency
        /\ (work'[m].write <=> bus.write) /\ work'[m].at = bus.at /\ work'[m].data = bus.data
    BY <1>6, WorkEdge
  <2>2. bus.request /\ m = Asked /\ ~Ack
    BY <1>6, Acked DEF Asks, Asked
  <2>3. CASE up
    <3>1. (bus'.write <=> bus.write) /\ bus'.data = bus.data /\ bus'.request /\ bus'.at = bus.at
      BY <2>2, <2>3, RequestEdge
    <3>2. con'.phase = "off" => con'.since = 0
      BY <2>3, OnMoves
    <3> QED BY <1>2, <2>1, <2>2, <3>1, <3>2 DEF Asked
  <2>4. CASE ~up
    <3>1. con.phase = "off" /\ con.since = 0
      BY <1>1, <2>2, <2>4, OffMoves, Kinds DEF Prompt
    <3>2. con'.phase = "off" /\ con'.since = 1
      BY <1>2, <2>4, <3>1, OffMoves
    <3> QED BY <1>2, <2>1, <2>2, <2>4, <3>2, OffEdge DEF Asked
  <2> QED BY <2>3, <2>4
<1>7. CASE work[m].left > 0 /\ work[m].who = "other"
  BY <1>4, <1>7, WorkEdge
<1>8. CASE work[m].left = 0 /\ work[m].who # "none"
  BY <1>8, WorkEdge
<1>9. CASE work[m].left = 0 /\ work[m].who = "none" /\ ~Asks(m)
  BY <1>9, WorkEdge
<1> QED BY <1>3, <1>4, <1>5, <1>6, <1>7, <1>8, <1>9

\* Other clients go on, and come only to a memory that the N64 has left.
LEMMA TakenEdge ==
  ASSUME PiInv, PiTick, NEW m \in Memory
  PROVE  /\ Keeps(work[m]) \in 0 .. Latency + 1 /\ Keeps(work'[m]) \in 0 .. Latency + 1
         /\ Keeps(work[m]) > 0 => Keeps(work'[m]) = Keeps(work[m]) - 1
         /\ Keeps(work[m]) = 0 /\ active[m] => Keeps(work'[m]) = 0
         /\ m \notin Busy => Keeps(work[m]) = 0 /\ Keeps(work'[m]) = 0
         /\ Keeps(work[m]) = 0 /\ Asks(m) => Keeps(work'[m]) = 0
<1>1. Latency \in Nat /\ Held /\ Held'
  BY Times, HeldStep DEF PiInv
<1>2. /\ work[m].left \in 0 .. Latency /\ work[m].who \in {"none", "n64", "other"}
      /\ work'[m].left \in 0 .. Latency /\ work'[m].who \in {"none", "n64", "other"}
  BY TypedStep DEF PiInv, PiTyped
<1>3. /\ work[m].who = "other" => m \in Busy
      /\ work'[m].who = "other" => m \in Busy
      /\ work[m].who = "none" => work[m].left = 0
  BY <1>1 DEF Held
<1> USE DEF Keeps
<1>4. CASE work[m].left > 0
  BY <1>1, <1>2, <1>3, <1>4, WorkEdge
<1>5. CASE work[m].left = 0 /\ work[m].who # "none"
  BY <1>1, <1>2, <1>3, <1>5, WorkEdge
<1>6. CASE work[m].left = 0 /\ work[m].who = "none"
  BY <1>1, <1>2, <1>3, <1>6, WorkEdge
<1> QED BY <1>2, <1>4, <1>5, <1>6

\* The others leave the memory that the N64 has an address of, in time.
LEMMA AloneStep ==
  ASSUME PiInv, PiTick
  PROVE  Alone'
<1>1. PiTyped /\ ConsoleOk /\ LineOk /\ Alone
  BY DEF PiInv
<1>2. /\ Latency \in Nat /\ Gap \in Nat /\ Gap > 0 /\ Rest \in Nat /\ Rest > 0 /\ Latency <= Gap + 1
      /\ Pulse \in Nat /\ Pulse > 0
  BY Times
<1> SUFFICES ASSUME port'.read = "mem", MemoryOf(port'.space) # "bram"
             PROVE  LET m == MemoryOf(port'.space)
                    IN  /\ con'.phase = "high" /\ line'.op # "aleh" =>
                             active'[m] /\ (Keeps(work'[m]) = 0 \/ Keeps(work'[m]) + con'.since <= Latency + 2)
                        /\ con'.phase = "low" =>
                             active'[m] /\ (Keeps(work'[m]) = 0 \/ (con'.k = 0 /\ Keeps(work'[m]) + con'.since <= 2))
                        /\ con'.phase = "strobe" \/ line'.op = "end" => active'[m] /\ Keeps(work'[m]) = 0
  BY DEF Alone, Taken
<1> DEFINE m == MemoryOf(port'.space)
<1>3. m \in Memory /\ m # "bram"
  BY DEF MemoryOf, Memory
<1>4. /\ Keeps(work[m]) \in 0 .. Latency + 1 /\ Keeps(work'[m]) \in 0 .. Latency + 1
      /\ Keeps(work[m]) > 0 => Keeps(work'[m]) = Keeps(work[m]) - 1
      /\ Keeps(work[m]) = 0 /\ active[m] => Keeps(work'[m]) = 0
  BY <1>3, TakenEdge
<1>5. CASE line.op = "aleh"
  <2>1. con.phase = "high" /\ con.since = 0 /\ active'[m]
    BY <1>1, <1>3, <1>5, DecoderEdge DEF LineOk
  <2>2. Waits \/ Reset
    BY <1>1, <1>2, <2>1, ConsoleSteps, HighMoves, LowMoves, StrobeMoves, ReleaseMoves, EndMoves,
       PowerMoves
  <2>3. CASE Waits
    BY <1>1, <1>2, <1>4, <2>1, <2>3, WaitMoves
  <2>4. CASE Reset
    BY <1>1, <2>4, ResetMoves
  <2> QED BY <2>2, <2>3, <2>4
<1>6. CASE line.op # "aleh"
  <2>1. port' = port /\ (active'[m] <=> up /\ line.op # "end" /\ active[m])
    <3>1. active[m] \in BOOLEAN /\ active'[m] \in BOOLEAN
      BY <1>1, <1>3, TypedStep DEF PiTyped
    <3> QED BY <1>3, <1>6, <3>1, DecoderEdge
  <2>2. /\ con.phase = "high" =>
             active[m] /\ (Keeps(work[m]) = 0 \/ Keeps(work[m]) + con.since <= Latency + 2)
        /\ con.phase = "low" => active[m] /\ (Keeps(work[m]) = 0 \/ (con.k = 0 /\ Keeps(work[m]) + con.since <= 2))
        /\ con.phase = "strobe" => active[m] /\ Keeps(work[m]) = 0
    BY <1>1, <1>3, <1>6, <2>1 DEF Alone, Taken
  <2>3. con.phase \in {"high", "low", "strobe"} => up /\ line.op # "end"
    BY <1>1 DEF ConsoleOk, LineOk
  <2>4. con.since \in Int /\ con.k \in Nat
    BY <1>1 DEF PiTyped
  <2> HIDE DEF m
  <2>5. CASE Waits
    <3>1. con'.phase = con.phase /\ con'.k = con.k /\ line'.op = "none" /\ con'.since <= con.since + 1
          /\ con'.since \in Int
      BY <1>1, <2>4, <2>5, WaitMoves
    <3> QED BY <1>2, <1>4, <2>1, <2>2, <2>3, <2>4, <3>1 DEF m
  <2>6. CASE PutHigh
    BY <1>1, <2>6, HighMoves DEF m
  <2>7. CASE PutLow
    <3>1. con.phase = "high" /\ con.since >= Gap /\ con'.phase = "low" /\ con'.since = 0 /\ con'.k = 0
          /\ line'.op = "alel"
      BY <1>1, <2>7, LowMoves DEF ConsoleOk
    <3> QED BY <1>2, <1>4, <2>1, <2>2, <2>3, <2>4, <3>1 DEF m
  <2>8. CASE Release
    <3>1. con.phase = "strobe" /\ con'.phase = "low" /\ line'.op = "none"
      BY <1>1, <2>8, ReleaseMoves
    <3> QED BY <1>4, <2>1, <2>2, <2>3, <3>1 DEF m
  <2>9. CASE End
    <3>1. con.phase = "low" /\ con.since >= Gap /\ con'.phase = "idle"
      BY <1>1, <2>9, EndMoves
    <3> QED BY <1>2, <1>4, <2>1, <2>2, <2>3, <2>4, <3>1 DEF m
  <2>10. CASE Reset
    BY <1>1, <2>10, ResetMoves DEF m
  <2>11. CASE PowerOn
    BY <1>1, <2>11, PowerMoves DEF m
  <2>12. ASSUME NEW d \in {"read", "write"}, Strobe(d)
         PROVE  active'[m] /\ Keeps(work'[m]) = 0 /\ con'.phase = "strobe" /\ line'.op # "aleh"
    <3>1. con.phase = "low" /\ con.since >= Gap /\ con'.phase = "strobe" /\ line'.op # "aleh"
      BY <1>1, <2>12, StrobeMoves DEF StrobeOp
    <3> QED BY <1>2, <1>4, <2>1, <2>2, <2>3, <2>4, <3>1
  <2> QED BY <2>5, <2>6, <2>7, <2>8, <2>9, <2>10, <2>11, <2>12, ConsoleSteps DEF m
<1> QED BY <1>5, <1>6

\* The clocks that a request takes yet.
LEMMA RemainingNow ==
  ASSUME PiInv
  PROVE  /\ Remaining \in Nat
         /\ bus.request => Remaining >= 1
         /\ bus.request /\ Remaining = 1 => Ack
<1>1. Latency \in Nat
  BY Times
<1>2. \A m \in Memory : work[m].left \in 0 .. Latency
  BY DEF PiInv, PiTyped
<1>3. Asked \in Memory
  BY DEF Asked, MemoryOf, Memory
<1>4. Keeps(work[Asked]) \in Nat
  BY <1>1, <1>2, <1>3 DEF Keeps
<1>5. Remaining = IF ~bus.request THEN 0
                  ELSE IF work[Asked].who = "n64" THEN work[Asked].left + 1
                  ELSE Keeps(work[Asked]) + Latency + 2
  BY DEF Remaining, Asked, Taken
<1>6. Remaining \in Nat /\ (bus.request => Remaining >= 1)
  BY <1>1, <1>2, <1>3, <1>4, <1>5
<1>7. bus.request /\ Remaining = 1 => Ack
  BY <1>1, <1>2, <1>3, <1>4, <1>5, Acked
<1> QED BY <1>6, <1>7

\* A request that is not acknowledged comes nearer to it.
LEMMA RemainingEdge ==
  ASSUME PiInv, PiTick, up
  PROVE  /\ Remaining \in Nat /\ Remaining' \in Nat
         /\ bus.request => Remaining >= 1
         /\ bus.request /\ Remaining = 1 => Ack
         /\ bus.request /\ ~Ack => bus'.request /\ Remaining' <= Remaining - 1
         /\ ~bus.request /\ bus'.request =>
              LET m == MemoryOf(bus'.at.space) IN Remaining' = Keeps(work'[m]) + Latency + 2
<1>1. Latency \in Nat /\ Held
  BY Times DEF PiInv
<1>2. /\ \A m \in Memory : work[m].left \in 0 .. Latency /\ work[m].who \in {"none", "n64", "other"}
      /\ \A m \in Memory : work'[m].left \in 0 .. Latency /\ work'[m].who \in {"none", "n64", "other"}
  BY TypedStep DEF PiInv, PiTyped
<1>3. Asked \in Memory /\ MemoryOf(bus'.at.space) \in Memory
  BY DEF Asked, MemoryOf, Memory
<1>4. \A m \in Memory : Keeps(work[m]) \in 0 .. Latency + 1 /\ Keeps(work'[m]) \in 0 .. Latency + 1
  BY TakenEdge
<1>5. Remaining = IF ~bus.request THEN 0
                  ELSE IF work[Asked].who = "n64" THEN work[Asked].left + 1
                  ELSE Keeps(work[Asked]) + Latency + 2
  BY DEF Remaining, Asked, Taken
<1>6. Remaining' = LET m == MemoryOf(bus'.at.space)
                   IN  IF ~bus'.request THEN 0
                       ELSE IF work'[m].who = "n64" THEN work'[m].left + 1
                       ELSE Keeps(work'[m]) + Latency + 2
  BY DEF Remaining, Taken
<1>7. Remaining \in Nat /\ (bus.request => Remaining >= 1)
  BY RemainingNow
<1>8. Remaining' \in Nat
  BY <1>1, <1>2, <1>3, <1>4, <1>6
<1>9. bus.request /\ Remaining = 1 => Ack
  BY RemainingNow
<1>10. ASSUME bus.request, ~Ack PROVE bus'.request /\ Remaining' <= Remaining - 1
  <2>1. bus'.request /\ bus'.at = bus.at
    BY <1>10, RequestEdge
  <2>2. MemoryOf(bus'.at.space) = Asked
    BY <2>1 DEF Asked
  <2>3. work[Asked].who = "none" => Asks(Asked) /\ work[Asked].left = 0
    BY <1>1, <1>3, <1>10 DEF Asks, Asked, Held
  <2>4. work[Asked].who = "n64" => work[Asked].left > 0
    BY <1>2, <1>3, <1>10, Acked
  <2>5. CASE work[Asked].who = "n64"
    <3>1. work'[Asked].who = "n64" /\ work'[Asked].left = work[Asked].left - 1
      BY <1>3, <2>4, <2>5, WorkEdge
    <3> QED BY <1>2, <1>3, <1>5, <1>6, <1>10, <2>1, <2>2, <2>5, <3>1
  <2>6. CASE work[Asked].who = "none"
    <3>1. work'[Asked].who = "n64" /\ work'[Asked].left \in 1 .. Latency
      BY <1>3, <2>3, <2>6, WorkEdge
    <3>2. Remaining = Keeps(work[Asked]) + Latency + 2 /\ Keeps(work[Asked]) \in Nat
      BY <1>1, <1>3, <1>4, <1>5, <1>10, <2>6
    <3>3. Remaining' = work'[Asked].left + 1
      BY <1>6, <2>1, <2>2, <3>1
    <3> QED BY <1>1, <2>1, <3>1, <3>2, <3>3
  <2>7. CASE work[Asked].who = "other"
    <3>1. Keeps(work[Asked]) = work[Asked].left + 1 /\ Keeps(work'[Asked]) = Keeps(work[Asked]) - 1
      BY <1>1, <1>2, <1>3, <2>7, TakenEdge DEF Keeps
    <3>2. work'[Asked].who # "n64"
      BY <1>2, <1>3, <2>7, WorkEdge
    <3> QED BY <1>1, <1>2, <1>3, <1>5, <1>6, <1>10, <2>1, <2>2, <2>7, <3>1, <3>2
  <2> QED BY <1>2, <1>3, <2>5, <2>6, <2>7
<1>11. ASSUME ~bus.request, bus'.request
       PROVE  LET m == MemoryOf(bus'.at.space) IN Remaining' = Keeps(work'[m]) + Latency + 2
  <2>1. \A m \in Memory : work[m].who # "n64"
    BY <1>1, <1>11, Kinds DEF Held
  <2>2. \A m \in Memory : work'[m].who # "n64"
    <3> SUFFICES ASSUME NEW m \in Memory PROVE work'[m].who # "n64"
      OBVIOUS
    <3> QED BY <1>2, <1>11, <2>1, WorkEdge DEF Asks
  <2> QED BY <1>3, <1>6, <1>11, <2>2
<1> QED BY <1>7, <1>8, <1>9, <1>10, <1>11

-----------------------------------------------------------------------------
(* When words are written and fetched.                                      *)

\* A word that goes on the bus was waiting, and no other is.
LEMMA WritesFacts ==
  ASSUME PiInv, Writes
  PROVE  /\ up /\ ~bus.request /\ port.write = "mem" /\ wf.q # <<>>
         /\ ~wf.pop /\ ~wf.push /\ ~OnLine /\ Queued /\ ~InFlight
         /\ Writing \/ (con.phase = "idle" /\ con.since = 0 - Rest)
<1>1. QueueOk /\ ConsoleOk
  BY DEF PiInv
<1>2. up /\ ~bus.request /\ port.write = "mem" /\ wf.q # <<>>
  BY DEF Writes
<1>3. ~wf.pop /\ ~InFlight
  BY <1>1, <1>2 DEF QueueOk, InFlight
<1>4. ~wf.push
  <2>1. wf.q \in Seq(Int) /\ wf.push \in BOOLEAN /\ Len(wf.q) + (IF wf.push THEN 1 ELSE 0) <= 1
    BY <1>1 DEF PiInv, PiTyped, QueueOk
  <2>2. Len(wf.q) \in Nat /\ Len(wf.q) > 0
    BY <1>2, <2>1, EmptySeq
  <2> DEFINE n == Len(wf.q)
  <2>3. n \in Nat /\ n > 0 /\ n + (IF wf.push THEN 1 ELSE 0) <= 1
    BY <2>1, <2>2
  <2> HIDE DEF n
  <2> QED BY <2>1, <2>3
<1>5. ~OnLine
  BY <1>1, <1>2 DEF QueueOk
<1>6. Queued
  BY <1>2, <1>3 DEF Queued
<1> QED BY <1>1, <1>2, <1>3, <1>4, <1>5, <1>6 DEF QueueOk, ConsoleOk

\* When the console may strobe again, or ends its access, the word before is on its way.
LEMMA Clear ==
  ASSUME PiInv, con.phase = "low", con.since >= Gap
  PROVE  /\ ~wf.push /\ (wf.q # <<>> => wf.pop) /\ ~Queued /\ ~OnLine /\ ~Writes
         /\ Open /\ (Writing => ~ctl.first)
<1>1. QueueOk /\ LineOk /\ PlaceOk
  BY DEF PiInv
<1>2. /\ Gap \in Nat /\ Gap > 0 /\ Pulse \in Nat /\ Serve \in Nat /\ Serve + 2 <= Gap + Pulse
      /\ Remaining \in Nat /\ con.since \in Int
  BY Times, RemainingNow, Kinds
<1>3. line.op # "alel" /\ Open /\ ~OnLine
  BY <1>1, <1>2 DEF LineOk, Open, OnLine
<1>4. wf.q # <<>> \/ wf.push => Writing
  <2>1. wf.q # <<>> \/ wf.push =>
          Writing \/ con.phase = "off" \/ (wf.pop /\ con.phase = "idle")
          \/ (con.phase = "idle" /\ con.since = 0 - Rest /\ ~bus.request /\ ~wf.push)
    BY <1>1 DEF QueueOk
  <2> QED BY <2>1
<1>5. ~wf.push
  BY <1>1, <1>4 DEF QueueOk
<1>6. wf.q # <<>> => wf.pop
  <2> SUFFICES ASSUME wf.q # <<>>, ~wf.pop PROVE FALSE
    OBVIOUS
  <2>1. WaitLeft + con.since + Pulse <= Serve + 2
    BY <1>1, <1>4 DEF QueueOk
  <2>2. WaitLeft \in Nat /\ WaitLeft >= 1
    BY <1>2 DEF WaitLeft
  <2> QED BY <1>2, <2>1, <2>2
<1>7. ~Queued
  BY <1>5, <1>6 DEF Queued
<1>8. ~Writes
  BY <1>7, WritesFacts
<1>9. Writing => ~ctl.first
  BY <1>1, <1>3, <1>7 DEF PlaceOk
<1> QED BY <1>3, <1>5, <1>6, <1>7, <1>8, <1>9

\* A while after an access all words are in their places, and none is fetched.
LEMMA Rested ==
  ASSUME PiInv, Settled
  PROVE  /\ con.phase = "idle" /\ up /\ line.op # "end" /\ ~done
         /\ wf.q = <<>> /\ ~wf.push /\ ~Queued /\ ~OnLine /\ ~InFlight /\ ~Writes /\ ~Reads
         /\ bus.request => Ack
         /\ \A m \in Memory : work[m].who = "n64" => ~work[m].write
<1>1. con.phase = "idle" /\ con.since >= Rest
  BY DEF Settled
<1>2. /\ Rest \in Nat /\ Rest > 1 /\ con.since \in Int
      /\ Remaining \in Nat /\ (bus.request => Remaining >= 1)
      /\ bus.request \in BOOLEAN /\ bus.write \in BOOLEAN
  BY Times, RemainingNow, Kinds
<1>3. ConsoleOk /\ LineOk /\ QueueOk /\ Prompt /\ ControlOk /\ Held /\ CountOk
  BY DEF PiInv
<1>4. up /\ line.op # "end" /\ ~OnLine
  BY <1>1, <1>2, <1>3 DEF ConsoleOk, LineOk, OnLine
<1>5. bus.request => Remaining + con.since <= Rest + IF bus.write THEN 0 ELSE 1
  BY <1>1, <1>3 DEF Prompt
<1>6. ~InFlight /\ (bus.request => Remaining = 1)
  BY <1>1, <1>2, <1>5 DEF InFlight
<1>7. wf.q = <<>> /\ ~wf.push
  <2> SUFFICES ASSUME wf.q # <<>> \/ wf.push PROVE FALSE
    OBVIOUS
  <2>1. \/ Writing \/ con.phase = "off" \/ (wf.pop /\ con.phase = "idle")
        \/ (con.phase = "idle" /\ con.since = 0 - Rest /\ ~bus.request /\ ~wf.push)
    BY <1>3 DEF QueueOk
  <2>2. ~Writing
    BY <1>1 DEF Writing, Open
  <2>3. wf.pop => InFlight
    BY <1>3 DEF QueueOk
  <2> QED BY <1>1, <1>2, <1>6, <2>1, <2>2, <2>3
<1>8. ~Queued /\ ~Writes
  BY <1>7 DEF Queued, Writes
<1>9. ~Reads
  BY <1>1, <1>3, <1>4 DEF ControlOk, Reads, Open
<1>10. ~done
  BY <1>1, <1>2, <1>3 DEF CountOk
<1>11. ASSUME NEW m \in Memory, work[m].who = "n64" PROVE ~work[m].write
  BY <1>1, <1>3, <1>6, <1>11 DEF Held, InFlight
<1> QED BY <1>1, <1>4, <1>6, <1>7, <1>8, <1>9, <1>10, <1>11, RemainingNow

\* Before the whole address is there nothing is on the bus.
LEMMA NotYet ==
  ASSUME PiInv, con.phase = "high" \/ line.op = "alel"
  PROVE  /\ con.phase \in {"high", "low"} /\ up /\ line.op # "end" /\ ~bus.request
         /\ wf.q = <<>> /\ ~wf.push /\ ~Queued /\ ~OnLine /\ ~InFlight /\ ~Writes /\ ~Reads
         /\ ~ctl.enabled /\ ~ctl.load /\ ~Open
<1>1. ConsoleOk /\ LineOk /\ QueueOk /\ Prompt /\ ControlOk
  BY DEF PiInv
<1>2. con.phase \in {"high", "low"} /\ up /\ ~Open /\ ~OnLine /\ line.op # "end"
  BY <1>1 DEF ConsoleOk, LineOk, Open, OnLine
<1>3. ~bus.request /\ ~InFlight
  BY <1>1 DEF Prompt, InFlight
<1>4. ~ctl.enabled /\ ~ctl.load
  BY <1>1, <1>2 DEF ControlOk
<1>5. wf.q = <<>> /\ ~wf.push
  BY <1>1, <1>2 DEF QueueOk, Writing
<1>6. ~Queued /\ ~Writes /\ ~Reads
  BY <1>4, <1>5 DEF Queued, Writes, Reads
<1> QED BY <1>2, <1>3, <1>4, <1>5, <1>6

\* The steps of a console that has an address open.
LEMMA OpenMoves ==
  ASSUME PiInv, PiTick, Open
  PROVE  /\ up /\ line.op \notin {"aleh", "alel", "end"} /\ port' = port /\ rights' = rights
         /\ con.phase \in {"low", "strobe"}
         /\ con'.phase \in {"low", "strobe"} => Open' /\ up' /\ Stays /\ line'.op \notin {"aleh", "alel", "end"}
         /\ Open' => con'.phase \in {"low", "strobe"}
         /\ con'.phase \in {"low", "strobe", "idle", "off"}
<1>1. PiTyped /\ ConsoleOk /\ LineOk
  BY DEF PiInv
<1>2. up /\ line.op \notin {"aleh", "alel", "end"} /\ con.phase \in {"low", "strobe"}
  BY <1>1 DEF ConsoleOk, LineOk, Open
<1>3. port' = port /\ rights' = rights
  BY <1>2, PortStays
<1>4. Open' <=> con'.phase = "strobe" \/ (con'.phase = "low" /\ line'.op # "alel")
  BY DEF Open
<1>5. Waits \/ Release \/ End \/ Reset \/ Strobe("read") \/ Strobe("write")
  BY <1>1, <1>2, ConsoleSteps, HighMoves, LowMoves, PowerMoves
<1>6. CASE Waits
  BY <1>1, <1>2, <1>3, <1>4, <1>6, WaitMoves
<1>7. CASE Release
  BY <1>1, <1>2, <1>3, <1>4, <1>7, ReleaseMoves
<1>8. CASE End
  BY <1>1, <1>2, <1>3, <1>4, <1>8, EndMoves
<1>9. CASE Reset
  BY <1>1, <1>2, <1>3, <1>4, <1>9, ResetMoves
<1>10. ASSUME NEW d \in {"read", "write"}, Strobe(d)
       PROVE  con'.phase = "strobe" /\ up' /\ Stays /\ line'.op \in {"none", "read", "write"}
  BY <1>1, <1>2, <1>10, StrobeMoves DEF StrobeOp
<1> QED BY <1>2, <1>3, <1>4, <1>5, <1>6, <1>7, <1>8, <1>9, <1>10

\* How an address is opened.
LEMMA OpenedMoves ==
  ASSUME PiInv, PiTick, ~Open, Open'
  PROVE  /\ line.op = "alel" /\ Waits /\ con.phase = "low" /\ con.since = 0 /\ con.dir = "none"
         /\ con'.phase = "low" /\ con'.since = 1 /\ con'.dir = "none" /\ con'.k = con.k /\ Stays
         /\ line'.op = "none" /\ up' /\ port' = port /\ rights' = rights
         /\ con.k = 0
<1>1. PiTyped /\ ConsoleOk /\ LineOk
  BY DEF PiInv
<1>2. Gap \in Nat /\ Gap > 0 /\ Pulse \in Nat /\ Pulse > 0 /\ Rest \in Nat /\ Rest > 0
  BY Times
<1>3. con'.phase = "strobe" \/ (con'.phase = "low" /\ line'.op # "alel")
  BY DEF Open
<1>4. ~(con.phase = "strobe") /\ (con.phase = "low" => line.op = "alel")
  BY DEF Open
<1>5. line.op = "alel" => con.phase = "low" /\ con.since = 0 /\ con.dir = "none"
  BY <1>1 DEF LineOk
<1>6. ASSUME NEW d \in {"read", "write"} PROVE ~Strobe(d)
  BY <1>1, <1>2, <1>4, <1>5, StrobeMoves
<1>7. Waits
  BY <1>1, <1>3, <1>4, <1>6, ConsoleSteps, HighMoves, LowMoves, ReleaseMoves, EndMoves,
     ResetMoves, PowerMoves
<1>8. con.phase = "low" /\ line.op = "alel"
  BY <1>1, <1>3, <1>4, <1>7, WaitMoves
<1>9. port' = port /\ rights' = rights
  BY <1>8, PortStays
<1>10. con.k = 0 /\ up
  BY <1>1, <1>5, <1>8 DEF ConsoleOk
<1> QED BY <1>1, <1>2, <1>5, <1>7, <1>8, <1>9, <1>10, WaitMoves

\* Where the next access of the N64 goes.
LEMMA NextPlace ==
  ASSUME PiInv, PiTick, Open \/ line.op = "end"
  PROVE  /\ port' = port
         /\ port.read = "mem" /\ ~ctl.load => bus'.at.space = port.space
         /\ Open => ctl.start.space = port.space
         /\ port.read = "mem" /\ Open => bus'.at.space = port.space
<1>1. Prompt /\ ControlOk /\ ConsoleOk /\ LineOk
  BY DEF PiInv
<1>2. up /\ line.op # "aleh" /\ ~(line.op = "end" /\ Open)
  BY <1>1, Kinds DEF ConsoleOk, LineOk, Open
<1>3. port' = port
  BY <1>2, PortStays
<1>4. Open => ctl.start.space = port.space
  <2>1. Open => ctl.start = [space |-> port.space, word |-> con.word]
    BY <1>1 DEF ControlOk
  <2> QED BY <2>1
<1>5. port.read = "mem" /\ ~ctl.load => bus.at.space = port.space
  BY <1>1 DEF Prompt
<1>6. CASE bus.request
  <2>1. bus'.at.space = bus.at.space /\ ~ctl.load
    BY <1>2, <1>6, RequestEdge, AfterPlace, Kinds
  <2> QED BY <1>3, <1>4, <1>5, <2>1
<1>7. CASE ~bus.request
  <2>1. bus'.at = (IF ctl.load \/ (Writes /\ ctl.first) THEN ctl.start ELSE bus.at)
    BY <1>2, <1>7, NoRequestEdge
  <2>2. Writes => Open
    <3>1. line.op = "end" => con.since # 0 - Rest
      BY <1>1, Times DEF LineOk
    <3> QED BY <1>1, <3>1, WritesFacts DEF Writing, LineOk
  <2> QED BY <1>3, <1>4, <1>5, <2>1, <2>2
<1> QED BY <1>3, <1>4, <1>6, <1>7, Kinds

\* A request that is put on the bus for an open address finds the memory free,
\* but for others in the block RAM.
LEMMA Served ==
  ASSUME PiInv, PiTick, Open \/ line.op = "end", port.read = "mem", ~bus.request, bus'.request
  PROVE  bus'.at.space = port.space => Remaining' <= Serve
<1>1. Alone /\ ConsoleOk /\ LineOk
  BY DEF PiInv
<1>2. up
  BY <1>1, Kinds DEF ConsoleOk, LineOk, Open
<1> SUFFICES ASSUME NEW m \in Memory, m = MemoryOf(bus'.at.space), bus'.at.space = port.space
             PROVE  Keeps(work'[m]) <= Foreign
  <2>1. MemoryOf(bus'.at.space) \in Memory
    BY DEF MemoryOf, Memory
  <2>2. Remaining' = Keeps(work'[MemoryOf(bus'.at.space)]) + Latency + 2
    BY <1>2, RemainingEdge
  <2>3. Keeps(work'[MemoryOf(bus'.at.space)]) \in Nat
    BY <2>1, TakenEdge, Times
  <2> QED BY <2>1, <2>2, <2>3, Times
<1>3. /\ Keeps(work[m]) \in 0 .. Latency + 1 /\ Keeps(work'[m]) \in 0 .. Latency + 1
      /\ Keeps(work[m]) > 0 => Keeps(work'[m]) = Keeps(work[m]) - 1
      /\ Keeps(work[m]) = 0 /\ active[m] => Keeps(work'[m]) = 0
      /\ m \notin Busy => Keeps(work'[m]) = 0
  BY TakenEdge
<1>4. CASE m = "bram"
  BY <1>3, <1>4, Times DEF Foreign
<1>5. CASE m # "bram"
  <2>1. /\ con.phase = "low" => active[m] /\ (Keeps(work[m]) = 0 \/ (con.k = 0 /\ Keeps(work[m]) + con.since <= 2))
        /\ con.phase = "strobe" \/ line.op = "end" => active[m] /\ Keeps(work[m]) = 0
    BY <1>1, <1>5 DEF Alone, Taken
  <2>2. con.phase = "low" => con.since >= 1 \/ con.k # 0
    BY <1>1, Kinds DEF ConsoleOk, LineOk, Open
  <2>3. Keeps(work[m]) <= 1 /\ active[m]
    BY <1>3, <2>1, <2>2, Kinds, Times DEF Open
  <2>4. Keeps(work'[m]) = 0
    BY <1>3, <2>3, Times
  <2> QED BY <2>4, Times
<1> QED BY <1>4, <1>5

\* A request is served in time.
LEMMA PromptStep ==
  ASSUME PiInv, PiTick
  PROVE  Prompt'
<1>1. PiTyped /\ ConsoleOk /\ LineOk /\ PortOk /\ Prompt /\ ControlOk /\ QueueOk
  BY DEF PiInv
<1>2. /\ Latency \in Nat /\ Rest \in Nat /\ Rest > 0 /\ Gap \in Nat /\ Gap > 0 /\ Serve \in Nat
      /\ Serve <= Rest /\ Latency + 2 <= Serve /\ Pulse \in Nat /\ Pulse > 0
  BY Times
<1>3. con'.phase = "off" /\ con'.since > 0 => ~bus'.request
  BY OnMoves, OffEdge, Kinds
<1>4. con'.phase = "high" \/ line'.op = "alel" => ~bus'.request
  <2> SUFFICES ASSUME con'.phase = "high" \/ line'.op = "alel" PROVE ~bus'.request
    OBVIOUS
  <2>1. CASE PutHigh
    <3>1. Settled
      BY <2>1 DEF PutHigh
    <3>2. ~Writes /\ ~Reads /\ (bus.request => Ack)
      BY <3>1, Rested
    <3> QED BY <3>2, BusEdge
  <2>2. CASE ~PutHigh
    <3>1. ASSUME NEW d \in {"read", "write"} PROVE ~Strobe(d)
      BY <1>1, StrobeMoves DEF StrobeOp
    <3>2. Waits \/ PutLow
      BY <1>1, <2>2, <3>1, ConsoleSteps, ReleaseMoves, EndMoves, ResetMoves, PowerMoves
    <3>3. con.phase = "high"
      BY <1>1, <3>2, WaitMoves, LowMoves
    <3> QED BY <3>3, NotYet, BusEdge
  <2> QED BY <2>1, <2>2
<1>5. Open' /\ port'.read # "mem" => ~bus'.request
  <2> SUFFICES ASSUME Open', port'.read # "mem" PROVE ~bus'.request
    OBVIOUS
  <2>1. CASE Open
    <3>1. port' = port /\ ~bus.request /\ port.read # "mem"
      BY <1>1, <2>1, OpenMoves DEF Prompt
    <3>2. port.write = "mem" => port.read = "mem"
      <4>1. port = NoPort \/ port = Decode(con.window, rights)
        BY <1>1, <2>1, OpenMoves DEF PortOk
      <4> QED BY <4>1, Decoded DEF NoPort
    <3>3. ~Writes /\ ~Reads
      BY <3>1, <3>2 DEF Writes, Reads
    <3> QED BY <3>1, <3>3, BusEdge
  <2>2. CASE ~Open
    BY <2>2, OpenedMoves, NotYet, BusEdge
  <2> QED BY <2>1, <2>2
<1>6. ASSUME Open', bus'.request PROVE Remaining' <= Serve
  <2>1. Open
    BY <1>6, OpenedMoves, NotYet, BusEdge
  <2>2. up /\ port' = port /\ port.read = "mem"
    BY <1>5, <1>6, <2>1, OpenMoves
  <2>3. CASE bus.request
    <3>1. Remaining <= Serve /\ ~Ack
      BY <1>1, <1>6, <2>1, <2>2, <2>3, RequestEdge DEF Prompt
    <3> QED BY <1>2, <2>2, <2>3, <3>1, RemainingEdge
  <2>4. CASE ~bus.request
    <3>1. bus'.at.space = port.space
      BY <2>1, <2>2, NextPlace
    <3> QED BY <1>6, <2>1, <2>2, <2>4, <3>1, Served
  <2> QED BY <2>3, <2>4
<1>7. (Open' \/ line'.op = "end") /\ port'.read = "mem" /\ ~ctl'.load => bus'.at.space = port'.space
  <2> SUFFICES ASSUME Open' \/ line'.op = "end", port'.read = "mem", ~ctl'.load
               PROVE  bus'.at.space = port'.space
    OBVIOUS
  <2>1. CASE Open
    BY <2>1, NextPlace
  <2>2. CASE ~Open /\ Open'
    BY <2>2, OpenedMoves, BusEdge, Kinds DEF Open
  <2>3. CASE ~Open /\ ~Open'
    <3>1. line'.op = "end"
      BY <2>3
    <3>2. ASSUME NEW d \in {"read", "write"} PROVE ~Strobe(d)
      BY <1>1, <3>1, StrobeMoves DEF StrobeOp
    <3>3. End
      BY <1>1, <3>1, <3>2, ConsoleSteps, WaitMoves, HighMoves, LowMoves, ReleaseMoves, ResetMoves,
         PowerMoves
    <3>4. Open
      BY <1>1, <1>2, <3>3, EndMoves, Clear
    <3> QED BY <2>3, <3>4
  <2> QED BY <2>1, <2>2, <2>3
<1>8. ASSUME con'.phase = "idle", bus'.request
      PROVE  Remaining' + con'.since <= Rest + IF bus'.write THEN 0 ELSE 1
  <2>1. up
    BY <1>8, OffEdge, Kinds
  <2>2. Remaining \in Nat /\ Remaining' \in Nat /\ con.since \in Int
    BY <2>1, RemainingEdge, Kinds
  <2>3. bus.request => ~Ack
    BY <1>8, BusEdge
  <2>4. con'.since \in Int
    BY TypedStep DEF PiTyped
  <2> SUFFICES \/ Remaining' + con'.since <= Rest
               \/ ~bus'.write /\ Remaining' + con'.since <= Rest + 1
    BY <1>2, <2>2, <2>4
  <2>5. End \/ (Waits /\ con.phase = "idle")
    <3>1. ~PowerOn
      BY <1>1, <2>1, PowerMoves DEF ConsoleOk
    <3>2. ASSUME NEW d \in {"read", "write"} PROVE ~Strobe(d)
      BY <1>1, <1>8, StrobeMoves
    <3> QED BY <1>1, <1>8, <3>1, <3>2, ConsoleSteps, WaitMoves, HighMoves, LowMoves, ReleaseMoves,
               ResetMoves
  <2>6. CASE End
    <3>1. Open /\ con'.since = 0 /\ con.phase = "low" /\ con.since >= Gap /\ ~Writes
      BY <1>1, <2>6, EndMoves, Clear
    <3>2. CASE bus.request
      <4>1. Remaining <= Serve
        BY <1>1, <3>1, <3>2 DEF Prompt
      <4>2. Remaining' <= Remaining - 1
        BY <2>1, <2>3, <3>2, RemainingEdge
      <4>3. Remaining' <= Rest
        BY <1>2, <2>2, <4>1, <4>2
      <4>4. Remaining' + con'.since <= Rest
        <5>1. PICK r \in Nat : r = Remaining'
          BY <2>2
        <5>2. PICK s \in Int : s = con'.since
          BY <2>4
        <5>3. r \in Nat /\ s \in Int /\ r <= Rest /\ s = 0
          BY <3>1, <4>3, <5>1, <5>2
        <5>4. r + s <= Rest
          BY <1>2, <5>3
        <5> QED BY <5>1, <5>2, <5>4
      <4> QED BY <4>4
    <3>3. CASE ~bus.request
      <4>1. Reads
        BY <1>8, <3>1, <3>3, BusEdge
      <4>2. Remaining' <= Serve
        BY <1>8, <3>1, <3>3, <4>1, NextPlace, Served DEF Reads
      <4>3. Remaining' <= Rest /\ con'.since = 0
        BY <1>2, <2>2, <3>1, <4>2
      <4>4. Remaining' + con'.since <= Rest
        <5>1. PICK r \in Nat : r = Remaining'
          BY <2>2
        <5>2. PICK s \in Int : s = con'.since
          BY <2>4
        <5>3. r \in Nat /\ s \in Int /\ r <= Rest /\ s = 0
          BY <5>1, <5>2, <4>3
        <5>4. r + s <= Rest
          BY <1>2, <5>3
        <5> QED BY <5>1, <5>2, <5>4
      <4> QED BY <4>4
    <3> QED BY <3>2, <3>3, Kinds
  <2>7. CASE Waits /\ con.phase = "idle"
    <3>1. con'.since = (IF con.since < Rest THEN con.since + 1 ELSE con.since)
      BY <1>1, <2>7, WaitMoves
    <3>2. CASE bus.request
      <4>1. /\ Remaining + con.since <= Rest + IF bus.write THEN 0 ELSE 1
            /\ Remaining' <= Remaining - 1 /\ (bus'.write <=> bus.write)
        BY <1>1, <2>1, <2>3, <2>7, <3>2, RemainingEdge, RequestEdge DEF Prompt
      <4>2. \/ Remaining + con.since <= Rest
            \/ ~bus'.write /\ Remaining + con.since <= Rest + 1
        BY <1>2, <2>2, <4>1, Kinds
      <4> QED BY <1>2, <2>2, <2>4, <3>1, <4>1, <4>2
    <3>3. CASE ~bus.request /\ Writes
      <4>1. con.since = 0 - Rest
        BY <2>7, <3>3, WritesFacts DEF Writing, Open
      <4>2. Remaining' <= Latency + 1 + Latency + 2
        <5>1. MemoryOf(bus'.at.space) \in Memory
          BY DEF MemoryOf, Memory
        <5>2. Keeps(work'[MemoryOf(bus'.at.space)]) <= Latency + 1
              /\ Keeps(work'[MemoryOf(bus'.at.space)]) \in Nat
          BY <5>1, <1>2, TakenEdge
        <5>3. Remaining' = Keeps(work'[MemoryOf(bus'.at.space)]) + Latency + 2
          BY <1>8, <2>1, <3>3, RemainingEdge
        <5> QED BY <1>2, <5>2, <5>3
      <4>3. con'.since = 1 - Rest
        BY <1>2, <3>1, <4>1
      <4>4. Remaining' + con'.since <= Rest
        <5>1. PICK r \in Nat : r = Remaining'
          BY <2>2
        <5>2. PICK s \in Int : s = con'.since
          BY <2>4
        <5>3. r \in Nat /\ s \in Int /\ r <= Latency + 1 + Latency + 2 /\ s = 1 - Rest
          BY <5>1, <5>2, <4>2, <4>3
        <5>4. r + s <= Rest
          BY <1>2, <5>3, Times
        <5> QED BY <5>1, <5>2, <5>4
      <4> QED BY <4>4
    <3>4. CASE ~bus.request /\ ~Writes
      <4>1. Reads /\ ~bus'.write
        BY <1>8, <3>4, BusEdge
      <4>2. line.op = "end" /\ con.since = 0
        BY <1>1, <2>7, <4>1 DEF ControlOk, Reads, Open, LineOk
      <4>3. ~ctl.load
        BY <1>1, <2>7, <4>1 DEF ControlOk, Reads, Open
      <4>4. Remaining' <= Serve
        BY <1>8, <3>4, <4>1, <4>2, <4>3, NextPlace, Served DEF Reads
      <4>5. con'.since = 1
        BY <1>2, <3>1, <4>2
      <4>6. Remaining' + con'.since <= Rest + 1
        <5>1. PICK r \in Nat : r = Remaining'
          BY <2>2
        <5>2. PICK s \in Int : s = con'.since
          BY <2>4
        <5>3. r \in Nat /\ s \in Int /\ r <= Serve /\ s = 1
          BY <5>1, <5>2, <4>4, <4>5
        <5>4. r + s <= Rest + 1
          BY <1>2, <5>3
        <5> QED BY <5>1, <5>2, <5>4
      <4> QED BY <4>1, <4>6
    <3> QED BY <3>2, <3>3, <3>4, Kinds
  <2> QED BY <2>5, <2>6, <2>7
<1> QED BY <1>3, <1>4, <1>5, <1>6, <1>7, <1>8 DEF Prompt

\* The bus controller knows the address, and whether it fetches.
LEMMA ControlStep ==
  ASSUME PiInv, PiTick
  PROVE  ControlOk'
<1>1. PiTyped /\ ConsoleOk /\ LineOk /\ ControlOk
  BY DEF PiInv
<1>2. Gap \in Nat /\ Gap > 0 /\ Pulse \in Nat /\ Pulse > 0 /\ Rest \in Nat /\ Rest > 0
  BY Times
<1>3. ctl'.load \in BOOLEAN /\ ctl'.enabled \in BOOLEAN /\ ctl'.first \in BOOLEAN
  BY TypedStep DEF PiTyped
<1>4. ASSUME Open'
      PROVE  /\ ctl'.load <=> con'.phase = "low" /\ con'.dir = "none" /\ con'.since = 1
             /\ ctl'.start = [space |-> port'.space, word |-> con'.word]
             /\ IF Writing' THEN ctl'.enabled <=> ctl'.first ELSE ctl'.enabled /\ ctl'.first
  <2>1. CASE ~Open
    <3>1. line.op = "alel" /\ up /\ ~Writes
      BY <1>4, <2>1, OpenedMoves, NotYet
    <3>2. ctl'.load /\ ctl'.start = Starting /\ ctl'.enabled /\ ctl'.first
      BY <3>1, BusEdge
    <3>3. Starting = [space |-> port'.space, word |-> con'.word]
      BY <1>1, <1>4, <2>1, <3>1, OpenedMoves DEF LineOk, Starting, Stays
    <3> QED BY <1>4, <2>1, <3>2, <3>3, OpenedMoves
  <2>2. CASE Open
    <3>1. up /\ line.op # "alel" /\ line.op # "end" /\ port' = port /\ Stays
          /\ con'.phase \in {"low", "strobe"}
      BY <1>4, <2>2, OpenMoves
    <3>2. ~ctl'.load
      BY <3>1, BusEdge
    <3>3. ~(con'.phase = "low" /\ con'.dir = "none" /\ con'.since = 1)
      <4> SUFFICES ASSUME con'.phase = "low", con'.dir = "none", con'.since = 1 PROVE FALSE
        OBVIOUS
      <4>1. Waits
        BY <1>1, ConsoleSteps, HighMoves, LowMoves, StrobeMoves, ReleaseMoves, EndMoves,
           ResetMoves, PowerMoves
      <4>2. con.phase = "low" /\ con.dir = "none" /\ con.since = 0
        BY <1>1, <1>2, <4>1, WaitMoves, Kinds, Times
      <4> QED BY <1>1, <3>1, <4>2 DEF LineOk
    <3>4. ctl'.start = [space |-> port'.space, word |-> con'.word]
      BY <1>1, <2>2, <3>1, BusEdge DEF ControlOk, Stays
    <3>5. IF Writing' THEN ctl'.enabled <=> ctl'.first ELSE ctl'.enabled /\ ctl'.first
      <4>1. IF Writing THEN ctl.enabled <=> ctl.first ELSE ctl.enabled /\ ctl.first
        BY <1>1, <2>2 DEF ControlOk
      <4>2. Writing => Writing'
        <5> SUFFICES ASSUME Writing PROVE Writing'
          OBVIOUS
        <5>1. con'.dir = "write"
          <6>1. con.dir = "write"
            BY DEF Writing
          <6>2. Waits \/ Release \/ Strobe("write") \/ Strobe("read")
            BY <1>1, <3>1, ConsoleSteps, HighMoves, LowMoves, EndMoves, ResetMoves, PowerMoves,
               <2>2 DEF Open
          <6> QED BY <1>1, <6>1, <6>2, WaitMoves, ReleaseMoves, StrobeMoves
        <5> QED BY <1>4, <3>1, <5>1 DEF Writing
      <4>3. CASE Writes
        <5>1. Writing
          BY <2>2, <4>3, WritesFacts DEF Open
        <5> QED BY <3>1, <4>2, <4>3, <5>1, BusEdge
      <4>4. CASE ~Writes
        BY <3>1, <4>1, <4>2, <4>4, BusEdge
      <4> QED BY <4>3, <4>4
    <3> QED BY <3>2, <3>3, <3>4, <3>5
  <2> QED BY <2>1, <2>2
<1>5. /\ ~Open' /\ up' /\ line'.op # "end" => ~ctl'.enabled
      /\ ~Open' /\ up' => ~ctl'.load
  <2> SUFFICES ASSUME ~Open', up' PROVE ~ctl'.load /\ (line'.op # "end" => ~ctl'.enabled)
    OBVIOUS
  <2>1. CASE ~up
    BY <2>1, OffEdge
  <2>2. CASE up /\ Open
    <3>1. con'.phase \notin {"low", "strobe"} /\ line.op # "alel"
      BY <2>2, OpenMoves
    <3>2. con'.phase # "off"
      BY ConsoleStep DEF ConsoleOk
    <3>3. ASSUME NEW d \in {"read", "write"} PROVE ~Strobe(d)
      BY <1>1, <3>1, StrobeMoves
    <3>4. End
      BY <1>1, <2>2, <3>1, <3>2, <3>3, ConsoleSteps, WaitMoves, HighMoves, LowMoves, ReleaseMoves,
         ResetMoves, PowerMoves DEF Open
    <3> QED BY <1>1, <3>1, <3>4, EndMoves, BusEdge
  <2>3. CASE up /\ ~Open /\ line.op = "alel"
    <3>1. con.phase = "low" /\ con.since = 0
      BY <1>1, <2>3 DEF LineOk
    <3>2. ~Strobe("read") /\ ~Strobe("write")
      BY <1>2, <3>1, Kinds DEF Strobe
    <3>3. Waits \/ Reset
      BY <1>1, <1>2, <3>1, <3>2, Kinds, ConsoleSteps, HighMoves, LowMoves, ReleaseMoves, EndMoves,
         PowerMoves
    <3> QED BY <1>1, <3>1, <3>3, WaitMoves, ResetMoves DEF Open
  <2>4. CASE up /\ ~Open /\ line.op # "alel"
    <3>1. line.op # "end" => ~ctl.enabled
      BY <1>1, <2>4 DEF ControlOk
    <3> QED BY <2>4, <3>1, BusEdge
  <2> QED BY <2>1, <2>2, <2>3, <2>4, Kinds
<1>6. con'.phase = "off" /\ con'.since > 0 => ~ctl'.enabled /\ ~ctl'.load
  BY OnMoves, OffEdge, Kinds
<1>7. line'.op = "end" => (ctl'.first <=> ~(port'.write = "mem" /\ con'.dir = "write"))
  <2> SUFFICES ASSUME line'.op = "end"
               PROVE  ctl'.first <=> ~(port'.write = "mem" /\ con'.dir = "write")
    OBVIOUS
  <2>1. ASSUME NEW d \in {"read", "write"} PROVE ~Strobe(d)
    BY <1>1, StrobeMoves DEF StrobeOp
  <2>2. End
    BY <1>1, <2>1, ConsoleSteps, WaitMoves, HighMoves, LowMoves, ReleaseMoves, ResetMoves,
       PowerMoves
  <2>3. Open /\ ~Writes /\ (Writing => ~ctl.first) /\ con'.dir = con.dir
    BY <1>1, <2>2, EndMoves, Clear
  <2>4. port' = port /\ line.op # "alel"
    BY <2>3, OpenMoves
  <2>5. ctl'.first <=> ctl.first
    BY <2>3, <2>4, BusEdge
  <2>6. Writing <=> port'.write = "mem" /\ con'.dir = "write"
    BY <2>3, <2>4 DEF Writing
  <2>7. ~Writing => ctl.first
    BY <1>1, <2>3 DEF ControlOk
  <2> QED BY <2>3, <2>5, <2>6, <2>7
<1> QED BY <1>4, <1>5, <1>6, <1>7 DEF ControlOk

-----------------------------------------------------------------------------
(* The words fetched ahead.                                                 *)

\* Without a write the memories stay.
LEMMA CellsStay ==
  ASSUME PiInv, PiTick, ~(Ack /\ bus.write)
  PROVE  cells' = cells
<1>1. cells \in [Spaces -> [Words -> Int]] /\ cells' \in [Spaces -> [Words -> Int]]
  BY CellsTyped DEF PiInv, PiTyped
<1>2. ASSUME NEW s \in Spaces, NEW a \in Words PROVE cells'[s][a] = cells[s][a]
  <2>1. [space |-> s, word |-> a] \in Places
    BY DEF Places
  <2>2. At(cells, [space |-> s, word |-> a])' = At(cells, [space |-> s, word |-> a])
    BY <2>1, CellsEdge
  <2> QED BY <2>2 DEF At
<1>3. ASSUME NEW s \in Spaces PROVE cells'[s] = cells[s]
  BY <1>1, <1>2
<1> QED BY <1>1, <1>3

\* The steps of a console that reads.
LEMMA ReadingMoves ==
  ASSUME PiInv, PiTick, Open, Reading'
  PROVE  /\ Reading /\ up /\ up' /\ port' = port /\ Stays /\ ~ReadFlush
         /\ port.read = "mem" /\ con.dir # "write" /\ con'.dir # "write"
         /\ ~Writes /\ ~InFlight /\ ~(Ack /\ bus.write) /\ cells' = cells /\ ctl.enabled /\ ~ctl'.load
         /\ line'.op \notin {"aleh", "alel", "end"}
         /\ con.phase \in {"low", "strobe"} /\ con'.phase \in {"low", "strobe"}
         /\ Waits \/ Release \/ Strobe("read")
<1>1. PiTyped /\ ConsoleOk /\ LineOk /\ ControlOk /\ FetchOk
  BY DEF PiInv
<1>2. Open' /\ port'.read = "mem" /\ con'.dir # "write"
  BY DEF Reading
<1>3. /\ up /\ up' /\ port' = port /\ Stays /\ ~ReadFlush /\ line'.op \notin {"aleh", "alel", "end"}
      /\ con.phase \in {"low", "strobe"} /\ con'.phase \in {"low", "strobe"} /\ line.op # "alel"
  BY <1>2, OpenMoves DEF ReadFlush
<1>4. Waits \/ Release \/ Strobe("read")
  BY <1>1, <1>2, <1>3, ConsoleSteps, HighMoves, LowMoves, EndMoves, ResetMoves, PowerMoves,
     StrobeMoves
<1>5. con.dir # "write"
  BY <1>1, <1>2, <1>4, WaitMoves, ReleaseMoves, StrobeMoves
<1>6. Reading /\ ~Writing
  BY <1>2, <1>3, <1>5 DEF Reading, Writing
<1>7. ~Writes
  BY <1>3, <1>6, WritesFacts
<1>8. ~(bus.request /\ bus.write)
  BY <1>1, <1>3, <1>5 DEF FetchOk
<1>9. ~(Ack /\ bus.write)
  BY <1>3, <1>8, Acked
<1>10. ctl.enabled
  BY <1>1, <1>6 DEF ControlOk
<1>11. ~ctl'.load
  BY <1>3, BusEdge
<1> QED BY <1>2, <1>3, <1>4, <1>5, <1>6, <1>7, <1>8, <1>9, <1>10, <1>11, CellsStay DEF InFlight

\* A word that is strobed for is taken as soon as it is there.
LEMMA TakeEdge ==
  ASSUME PiInv, PiTick, Open, Reading'
  PROVE  /\ rf'.q = (IF Ack THEN Append(Ahead, At(cells, bus.at)) ELSE Ahead)
         /\ rf'.wait <=> Untaken /\ rf.q = <<>>
         /\ TakesWord => /\ Waits /\ con.phase = "strobe" /\ con'.phase = "strobe" /\ ~Untaken'
                         /\ ~rf.pop /\ Ahead = rf.q /\ rf.q # <<>>
         /\ Untaken' <=> (Untaken /\ rf.q = <<>>) \/ Strobe("read")
         /\ Untaken => Waits /\ con.phase = "strobe" /\ ~rf.pop
         /\ NextWord' = NextWord + (IF TakesWord THEN 1 ELSE 0)
<1>1. PiTyped /\ ConsoleOk /\ LineOk /\ FetchOk
  BY DEF PiInv
<1>2. /\ Reading /\ up /\ port' = port /\ Stays /\ ~ReadFlush /\ port.read = "mem"
      /\ con.dir # "write" /\ ~(Ack /\ bus.write)
      /\ con.phase \in {"low", "strobe"} /\ con'.phase \in {"low", "strobe"}
      /\ Waits \/ Release \/ Strobe("read")
  BY ReadingMoves
<1>3. rf'.q = (IF Ack THEN Append(Ahead, At(cells, bus.at)) ELSE Ahead)
  BY <1>2, ReadEdge
<1>4. rf'.wait <=> Untaken /\ rf.q = <<>>
  BY <1>2, ReadEdge DEF Untaken
<1>5. Untaken => con.phase = "strobe"
  BY <1>1, <1>2 DEF Untaken, LineOk, FetchOk, ConsoleOk
<1>6. Untaken => con.since < Pulse
  <2> SUFFICES ASSUME Untaken PROVE con.since < Pulse
    OBVIOUS
  <2>1. (IF rf.q = <<>> THEN Until ELSE 0) + con.since < Pulse
    BY <1>1, <1>2, <1>5 DEF FetchOk
  <2>2. Until \in Nat
    BY RemainingNow, Times DEF Until
  <2> QED BY <2>1, <2>2, Kinds, Times
<1>7. Untaken => Waits
  <2>1. ~(Untaken /\ Release)
    BY <1>1, <1>6, ReleaseMoves, Kinds, Times
  <2>2. ~(Untaken /\ Strobe("read"))
    BY <1>1, <1>5, StrobeMoves
  <2> QED BY <1>2, <2>1, <2>2
<1>8. Untaken => ~rf.pop
  BY <1>1, <1>2 DEF FetchOk, ConsoleOk
<1>9. line'.op = "read" <=> Strobe("read")
  <2>1. Strobe("read") => line'.op = "read"
    BY <1>1, <1>2, StrobeMoves DEF StrobeOp
  <2>2. ~Strobe("read") => line'.op # "read"
    BY <1>1, <1>2, WaitMoves, ReleaseMoves
  <2> QED BY <2>1, <2>2
<1>10. Untaken' <=> (Untaken /\ rf.q = <<>>) \/ Strobe("read")
  BY <1>4, <1>9 DEF Untaken
<1>11. TakesWord <=> Untaken /\ rf.q # <<>>
  BY <1>2 DEF TakesWord
<1>12. Strobe("read") => con.phase = "low" /\ con'.phase = "strobe" /\ con'.k = con.k
  BY <1>1, StrobeMoves
<1>13. Waits => con'.phase = con.phase /\ con'.k = con.k
  BY <1>1, WaitMoves
<1>14. Release => con.phase = "strobe" /\ con'.phase = "low" /\ con'.k = con.k + 1
  BY <1>1, ReleaseMoves
<1>15. TakesWord => /\ Waits /\ con.phase = "strobe" /\ con'.phase = "strobe" /\ ~Untaken'
                    /\ ~rf.pop /\ Ahead = rf.q /\ rf.q # <<>>
  BY <1>2, <1>5, <1>7, <1>8, <1>10, <1>11, <1>12, <1>13, AheadFacts
<1>16. NextWord' = NextWord + (IF TakesWord THEN 1 ELSE 0)
  <2>1. con'.word = con.word /\ con.word \in Nat /\ con.k \in Nat
    BY <1>2, Kinds DEF Stays
  <2>2. NextWord' = con'.word + con'.k + IF con'.phase = "strobe" /\ ~Untaken' THEN 1 ELSE 0
    BY DEF NextWord, Here
  <2>3. NextWord = con.word + con.k + IF con.phase = "strobe" /\ ~Untaken THEN 1 ELSE 0
    BY DEF NextWord, Here
  <2>4. CASE Waits
    BY <1>2, <1>5, <1>10, <1>11, <1>12, <1>13, <2>1, <2>2, <2>3, <2>4
  <2>5. CASE Strobe("read")
    BY <1>2, <1>5, <1>10, <1>11, <1>12, <2>1, <2>2, <2>3, <2>5
  <2>6. CASE Release
    <3>1. ~Untaken /\ ~TakesWord
      BY <1>7, <1>11, <1>14, <1>1, <2>6, WaitMoves
    <3> QED BY <1>14, <2>1, <2>2, <2>3, <2>6, <3>1
  <2> QED BY <1>2, <2>4, <2>5, <2>6
<1> QED BY <1>3, <1>4, <1>5, <1>7, <1>8, <1>10, <1>15, <1>16

\* The clocks until the first word ahead go by.
LEMMA UntilEdge ==
  ASSUME PiInv, PiTick, Open, Reading'
  PROVE  /\ Until \in Nat /\ Until' \in Nat /\ Until' <= Serve + 2
         /\ Ahead = <<>> /\ ~Ack => Until >= 1 /\ Until' <= Until - 1
         /\ bus.request /\ Ack => Until = 1
<1>1. /\ Reading /\ up /\ port.read = "mem" /\ ~Writes /\ ctl.enabled /\ ~ReadFlush
  BY ReadingMoves
<1>2. Remaining \in Nat /\ Remaining' \in Nat /\ Serve \in Nat /\ FifoWords \in Nat /\ FifoWords > 0
  BY <1>1, RemainingEdge, Times
<1>3. bus'.request => Remaining' <= Serve
  BY PromptStep DEF Prompt, Reading
<1>4. bus.request => Remaining >= 1 /\ Remaining <= Serve
  BY <1>1, RemainingNow DEF PiInv, Prompt, Reading
<1>5. Until = IF bus.request THEN Remaining
              ELSE IF Len(rf.q) < FifoWords THEN Serve + 1 ELSE Serve + 2
  BY DEF Until
<1>6. Until' = IF bus'.request THEN Remaining'
               ELSE IF Len(rf'.q) < FifoWords THEN Serve + 1 ELSE Serve + 2
  BY DEF Until
<1>7. PICK r \in Nat : r = Remaining'
  BY <1>2
<1>8. bus'.request => r <= Serve
  BY <1>3, <1>7
<1>9. /\ Until' = IF bus'.request THEN r
                  ELSE IF Len(rf'.q) < FifoWords THEN Serve + 1 ELSE Serve + 2
  BY <1>6, <1>7
<1>10. PICK u \in Nat : u = Until'
  BY <1>2, <1>9
<1>11. u <= Serve + 2
  BY <1>2, <1>8, <1>9, <1>10
<1>12. Until \in Nat /\ (~bus.request => Until >= 1) /\ (bus.request => Until >= 1)
  BY <1>2, <1>4, <1>5
<1>13. bus.request /\ Ack => Until = 1
  BY <1>5, Acked
<1>14. ASSUME Ahead = <<>>, ~Ack PROVE u <= Until - 1
  <2>1. CASE bus.request
    <3>1. bus'.request /\ Remaining' <= Remaining - 1
      BY <1>1, <1>14, <2>1, RemainingEdge
    <3>2. u = r /\ r <= Remaining - 1
      BY <1>7, <1>9, <1>10, <3>1
    <3> QED BY <1>2, <1>5, <2>1, <3>2
  <2>2. CASE ~bus.request /\ Len(rf.q) < FifoWords
    <3>1. Reads
      BY <1>1, <2>2 DEF Reads
    <3>2. bus'.request
      BY <1>1, <1>14, <3>1, BusEdge
    <3>3. u = r /\ r <= Serve
      BY <1>8, <1>9, <1>10, <3>2
    <3> QED BY <1>2, <1>5, <2>2, <3>3
  <2>3. CASE ~bus.request /\ ~(Len(rf.q) < FifoWords)
    <3>1. ~Reads /\ ~bus'.request
      BY <1>1, <2>3, BusEdge DEF Reads
    <3>2. rf'.q = <<>>
      BY <1>14, TakeEdge
    <3>3. Len(rf'.q) < FifoWords
      BY <1>2, <3>2, EmptySeq
    <3>4. u = Serve + 1
      BY <1>9, <1>10, <3>1, <3>3
    <3> QED BY <1>2, <1>5, <2>3, <3>4
  <2> QED BY <2>1, <2>2, <2>3, Kinds
<1> QED BY <1>10, <1>11, <1>12, <1>13, <1>14, Kinds

\* Two places with the same space and word are the same.
LEMMA SamePlace ==
  ASSUME NEW p \in Places, NEW q \in Places, p.space = q.space, p.word = q.word
  PROVE  p = q
BY DEF Places

\* The words ahead after a step: the one taken is gone, the one fetched is added.
LEMMA AheadEdge ==
  ASSUME PiInv, PiTick, Open, Reading'
  PROVE  /\ Ahead' = (IF TakesWord THEN Tail(rf'.q) ELSE rf'.q)
         /\ Ahead' \in Seq(Int) /\ Len(Ahead') \in Nat /\ Len(Ahead) \in Nat
         /\ NextWord \in Nat /\ NextWord' \in Nat
         /\ NextWord' + Len(Ahead') = NextWord + Len(Ahead) + (IF Ack THEN 1 ELSE 0)
         /\ \A i \in 1 .. Len(Ahead') :
              LET j == i + NextWord' - NextWord
              IN  /\ j \in 1 .. Len(Ahead) => Ahead'[i] = Ahead[j]
                  /\ j \notin 1 .. Len(Ahead) =>
                       Ack /\ j = Len(Ahead) + 1 /\ Ahead'[i] = At(cells, bus.at)
<1>1. up /\ up' /\ PiTyped
  BY ReadingMoves DEF PiInv
<1>2. /\ Ahead \in Seq(Int) /\ Len(Ahead) \in Nat /\ (Ahead = <<>> <=> Len(Ahead) = 0)
  BY <1>1, AheadFacts
<1>3. At(cells, bus.at) \in Int
  <2>1. cells \in [Spaces -> [Words -> Int]] /\ bus.at.space \in Spaces /\ bus.at.word \in Words
    BY <1>1 DEF PiTyped, Places
  <2> QED BY <2>1 DEF At
<1>4. rf'.q = (IF Ack THEN Append(Ahead, At(cells, bus.at)) ELSE Ahead)
  BY TakeEdge
<1>5. Ahead' = (IF TakesWord THEN Tail(rf'.q) ELSE rf'.q)
  BY ReadEdge DEF Ahead, Popped
<1>6. NextWord \in Nat
  BY Kinds DEF NextWord
<1>7. NextWord' = NextWord + (IF TakesWord THEN 1 ELSE 0)
  BY TakeEdge
<1> DEFINE Q == rf'.q
           N == Len(Ahead)
           M == Len(Ahead) + (IF Ack THEN 1 ELSE 0)
<1>8. /\ Q \in Seq(Int) /\ Len(Q) = M /\ M \in Nat
      /\ \A j \in 1 .. N : Q[j] = Ahead[j]
      /\ Ack => Q[N + 1] = At(cells, bus.at)
  <2>1. CASE Ack
    <3>1. Q = Append(Ahead, At(cells, bus.at))
      BY <1>4, <2>1
    <3> QED BY <1>2, <1>3, <2>1, <3>1
  <2>2. CASE ~Ack
    BY <1>2, <1>4, <2>2
  <2> QED BY <2>1, <2>2
<1>9. TakesWord => M > 0 /\ Q # <<>>
  <2>1. TakesWord => Ahead # <<>>
    BY TakeEdge
  <2>2. TakesWord => M > 0
    BY <1>2, <2>1
  <2> QED BY <1>8, <2>2, EmptySeq
<1> HIDE DEF Q
<1>10. CASE TakesWord
  <2>1. Ahead' = Tail(Q) /\ NextWord' = NextWord + 1
    BY <1>5, <1>7, <1>10 DEF Q
  <2>2. /\ Tail(Q) \in Seq(Int) /\ Len(Tail(Q)) = M - 1
        /\ \A i \in 1 .. M - 1 : Tail(Q)[i] = Q[i + 1]
    BY <1>8, <1>9, <1>10
  <2>3. Len(Ahead') = M - 1 /\ Ahead' \in Seq(Int)
    BY <2>1, <2>2
  <2>4. ASSUME NEW i \in 1 .. M - 1
        PROVE  /\ i + 1 \in 1 .. N => Ahead'[i] = Ahead[i + 1]
               /\ i + 1 \notin 1 .. N => Ack /\ i + 1 = N + 1 /\ Ahead'[i] = At(cells, bus.at)
    <3>1. Ahead'[i] = Q[i + 1]
      BY <2>1, <2>2
    <3>2. i + 1 \notin 1 .. N => Ack /\ i + 1 = N + 1
      BY <1>2
    <3> QED BY <1>8, <3>1, <3>2
  <2>5. \A i \in 1 .. M - 1 : i + NextWord' - NextWord = i + 1
    BY <1>2, <1>6, <2>1
  <2>6. NextWord' + Len(Ahead') = NextWord + Len(Ahead) + (IF Ack THEN 1 ELSE 0)
    <3> HIDE DEF M
    <3>1. NextWord + 1 + (M - 1) = NextWord + M
      BY <1>6, <1>8
    <3>2. NextWord' + Len(Ahead') = NextWord + M
      BY <2>1, <2>3, <3>1
    <3>3. NextWord + M = NextWord + Len(Ahead) + (IF Ack THEN 1 ELSE 0)
      BY <1>2, <1>6 DEF M
    <3> QED BY <3>2, <3>3
  <2>7. Len(Ahead') \in Nat /\ NextWord' \in Nat
    <3> HIDE DEF M
    <3>1. M - 1 \in Nat /\ NextWord + 1 \in Nat
      BY <1>6, <1>8, <1>9, <1>10
    <3>2. Len(Ahead') \in Nat
      BY <2>3, <3>1
    <3>3. NextWord' \in Nat
      BY <2>1, <3>1
    <3> QED BY <3>2, <3>3
  <2>8. ASSUME NEW i \in 1 .. Len(Ahead')
        PROVE  LET j == i + NextWord' - NextWord
               IN  /\ j \in 1 .. Len(Ahead) => Ahead'[i] = Ahead[j]
                   /\ j \notin 1 .. Len(Ahead) =>
                        Ack /\ j = Len(Ahead) + 1 /\ Ahead'[i] = At(cells, bus.at)
    <3>1. i \in 1 .. M - 1
      BY <2>3
    <3>2. i + NextWord' - NextWord = i + 1
      BY <2>5, <3>1
    <3>3. /\ i + 1 \in 1 .. N => Ahead'[i] = Ahead[i + 1]
          /\ i + 1 \notin 1 .. N => Ack /\ i + 1 = N + 1 /\ Ahead'[i] = At(cells, bus.at)
      BY <2>4, <3>1
    <3> QED BY <3>2, <3>3
  <2> QED BY <1>2, <1>5, <1>6, <2>3, <2>6, <2>7, <2>8
<1>11. CASE ~TakesWord
  <2>1. Ahead' = Q /\ NextWord' = NextWord
    BY <1>5, <1>6, <1>7, <1>11 DEF Q
  <2>2. Len(Ahead') = M /\ Ahead' \in Seq(Int)
    BY <1>8, <2>1
  <2>3. ASSUME NEW i \in 1 .. M
        PROVE  /\ i \in 1 .. N => Ahead'[i] = Ahead[i]
               /\ i \notin 1 .. N => Ack /\ i = N + 1 /\ Ahead'[i] = At(cells, bus.at)
    <3>1. i \notin 1 .. N => Ack /\ i = N + 1
      BY <1>2
    <3> QED BY <1>8, <2>1, <3>1
  <2>4. \A i \in 1 .. M : i + NextWord' - NextWord = i
    BY <1>2, <1>6, <2>1
  <2>5. NextWord' + Len(Ahead') = NextWord + Len(Ahead) + (IF Ack THEN 1 ELSE 0)
    BY SMTT(30), <1>2, <1>6, <2>1, <2>2
  <2> QED BY <1>2, <1>5, <1>6, <1>8, <2>1, <2>2, <2>3, <2>4, <2>5
<1> QED BY <1>10, <1>11

\* The words ahead are those at the addresses to come, and the next address follows.
LEMMA FetchedStep ==
  ASSUME PiInv, PiTick, Open, Reading'
  PROVE  /\ \A i \in 1 .. Len(Ahead') :
              NextWord' + i - 1 < PageWords =>
                Ahead'[i] = cells'[port'.space][NextWord' + i - 1]
         /\ NextWord' + Len(Ahead') < PageWords /\ ~ctl'.load =>
              bus'.at = [space |-> port'.space, word |-> NextWord' + Len(Ahead')]
<1>1. FetchOk /\ ControlOk /\ ConsoleOk
  BY DEF PiInv
<1>2. /\ Reading /\ up /\ port' = port /\ port.read = "mem" /\ ~Writes /\ cells' = cells
  BY ReadingMoves
<1>3. /\ \A i \in 1 .. Len(Ahead) :
           NextWord + i - 1 < PageWords => Ahead[i] = cells[port.space][NextWord + i - 1]
      /\ NextWord + Len(Ahead) < PageWords /\ ~ctl.load =>
           bus.at = [space |-> port.space, word |-> NextWord + Len(Ahead)]
      /\ ctl.load => rf.q = <<>> /\ ~bus.request
  BY <1>1, <1>2 DEF FetchOk
<1>4. /\ Len(Ahead') \in Nat /\ Len(Ahead) \in Nat /\ NextWord \in Nat /\ NextWord' \in Nat
      /\ NextWord' + Len(Ahead') = NextWord + Len(Ahead) + (IF Ack THEN 1 ELSE 0)
      /\ \A i \in 1 .. Len(Ahead') :
           LET j == i + NextWord' - NextWord
           IN  /\ j \in 1 .. Len(Ahead) => Ahead'[i] = Ahead[j]
               /\ j \notin 1 .. Len(Ahead) =>
                    Ack /\ j = Len(Ahead) + 1 /\ Ahead'[i] = At(cells, bus.at)
  BY AheadEdge
<1>5. PageWords \in Nat /\ (Ack => bus.request /\ ~ctl.load)
  BY <1>2, <1>3, Times, Acked
<1>6. ASSUME NEW i \in 1 .. Len(Ahead'), NextWord' + i - 1 < PageWords
      PROVE  Ahead'[i] = cells'[port'.space][NextWord' + i - 1]
  <2> DEFINE j == i + NextWord' - NextWord
  <2>1. j \in Int /\ NextWord + j - 1 = NextWord' + i - 1
    BY <1>4
  <2>2. /\ j \in 1 .. Len(Ahead) => Ahead'[i] = Ahead[j]
        /\ j \notin 1 .. Len(Ahead) => Ack /\ j = Len(Ahead) + 1 /\ Ahead'[i] = At(cells, bus.at)
    BY <1>4
  <2> HIDE DEF j
  <2>3. CASE j \in 1 .. Len(Ahead)
    <3>1. NextWord + j - 1 < PageWords
      BY <1>6, <2>1
    <3>2. Ahead[j] = cells[port.space][NextWord + j - 1]
      BY <1>3, <2>3, <3>1
    <3> QED BY <1>2, <2>1, <2>2, <2>3, <3>2
  <2>4. CASE j \notin 1 .. Len(Ahead)
    <3>1. Ack /\ j = Len(Ahead) + 1 /\ Ahead'[i] = At(cells, bus.at)
      BY <2>2, <2>4
    <3>2. NextWord + Len(Ahead) = NextWord + j - 1
      BY <1>4, <3>1
    <3>3. NextWord + Len(Ahead) < PageWords
      BY <1>6, <2>1, <3>2
    <3>4. bus.at = [space |-> port.space, word |-> NextWord + j - 1]
      BY <1>3, <1>5, <3>1, <3>2, <3>3
    <3> QED BY <1>2, <2>1, <3>1, <3>4 DEF At
  <2> QED BY <2>3, <2>4
<1>7. ASSUME NextWord' + Len(Ahead') < PageWords, ~ctl'.load
      PROVE  bus'.at = [space |-> port'.space, word |-> NextWord' + Len(Ahead')]
  <2>1. CASE Ack
    <3>1. NextWord + Len(Ahead) + 1 = NextWord' + Len(Ahead')
      BY <1>4, <2>1
    <3>2. NextWord + Len(Ahead) < PageWords
      BY <1>4, <1>5, <1>7, <3>1
    <3>3. bus.at = [space |-> port.space, word |-> NextWord + Len(Ahead)]
      BY <1>3, <1>5, <2>1, <3>2
    <3>4. bus.at.word + 1 < PageWords /\ bus.at.word + 1 = NextWord' + Len(Ahead') /\ bus.at.space = port.space
      BY <1>7, <3>1, <3>3
    <3>5. bus'.at = After(bus.at)
      BY <1>2, <1>5, <2>1, RequestEdge
    <3>6. /\ bus'.at \in Places /\ bus'.at.space = port.space
          /\ bus'.at.word = NextWord' + Len(Ahead')
      BY <3>4, <3>5, Kinds, AfterPlace
    <3> QED BY <1>2, <3>6 DEF Places
  <2>2. CASE ~Ack /\ bus.request
    <3>1. bus'.at = bus.at /\ ~ctl.load
      BY <1>2, <2>2, RequestEdge
    <3>2. NextWord + Len(Ahead) = NextWord' + Len(Ahead')
      BY <1>4, <2>2
    <3> QED BY <1>2, <1>3, <1>7, <3>1, <3>2
  <2>3. CASE ~bus.request
    <3>1. ~Ack /\ bus'.at = (IF ctl.load THEN ctl.start ELSE bus.at)
      BY <1>2, <2>3, NoRequestEdge
    <3>2. NextWord + Len(Ahead) = NextWord' + Len(Ahead')
      BY <1>4, <3>1
    <3>3. CASE ~ctl.load
      BY <1>2, <1>3, <1>7, <3>1, <3>2, <3>3
    <3>4. CASE ctl.load
      <4>1. Open /\ con.phase = "low" /\ con.dir = "none"
        BY <1>1, <1>2, <3>4 DEF ControlOk, Reading
      <4>2. con.k = 0 /\ ctl.start = [space |-> port.space, word |-> con.word]
        BY <1>1, <4>1 DEF ConsoleOk, ControlOk
      <4>3. rf.q = <<>>
        BY <1>3, <3>4
      <4>4. Len(Ahead) = 0
        BY <1>2, <4>3, AheadFacts
      <4>5. NextWord = con.word
        BY <4>1, <4>2, Kinds DEF NextWord, Here
      <4>6. NextWord' + Len(Ahead') = con.word
        BY <1>4, <3>2, <4>4, <4>5
      <4> QED BY <1>2, <3>1, <3>4, <4>2, <4>6
    <3> QED BY <3>3, <3>4
  <2> QED BY <2>1, <2>2, <2>3, Kinds
<1> QED BY <1>6, <1>7

\* The words fetched ahead are those of the addresses to come, and are in time.
LEMMA FetchStep ==
  ASSUME PiInv, PiTick
  PROVE  FetchOk'
<1>1. PiTyped /\ ConsoleOk /\ LineOk /\ FetchOk /\ Prompt
  BY DEF PiInv
<1>2. /\ FifoWords \in Nat /\ FifoWords > 0 /\ Rest \in Nat /\ Rest > 1 /\ Gap \in Nat /\ Gap > 0
      /\ Pulse \in Nat /\ Pulse > 0 /\ Serve \in Nat /\ Serve + 2 <= Gap + Pulse
  BY Times
  \* No word is fetched that there is no room for.
<1>3. Len(rf'.q) + (IF bus'.request /\ ~bus'.write THEN 1 ELSE 0) <= FifoWords
  <2>1. CASE ReadFlush
    <3>1. Len(rf'.q) = 0
      BY <2>1, ReadEdge, EmptySeq
    <3> QED BY <1>2, <3>1
  <2>2. CASE ~ReadFlush
    <3>1. up
      BY <2>2 DEF ReadFlush
    <3>2. Len(rf.q) + (IF bus.request /\ ~bus.write THEN 1 ELSE 0) <= FifoWords
      BY <1>1 DEF FetchOk
    <3>3. Len(Ahead) \in Nat /\ Len(rf.q) \in Nat /\ Ahead \in Seq(Int) /\ Len(Ahead) <= Len(rf.q)
      BY <3>1, AheadFacts, Kinds
    <3>4. CASE Ack /\ ~bus.write
      <4>1. bus.request /\ ~bus'.request
        BY <3>1, <3>4, Acked, BusEdge
      <4>2. rf'.q = Append(Ahead, At(cells, bus.at))
        BY <2>2, <3>4, ReadEdge
      <4>3. At(cells, bus.at) \in Int
        <5>1. cells \in [Spaces -> [Words -> Int]] /\ bus.at.space \in Spaces /\ bus.at.word \in Words
          BY <1>1 DEF PiTyped, Places
        <5> QED BY <5>1 DEF At
      <4>4. Len(rf'.q) = Len(Ahead) + 1
        BY <3>3, <4>2, <4>3
      <4> QED BY <1>2, <3>2, <3>3, <3>4, <4>1, <4>4
    <3>5. CASE ~(Ack /\ ~bus.write)
      <4>1. rf'.q = Ahead
        BY <2>2, <3>5, ReadEdge
      <4>2. bus'.request /\ ~bus'.write => (bus.request /\ ~bus.write) \/ Len(rf.q) < FifoWords
        <5>1. bus.request => (bus'.write <=> bus.write)
          BY <3>1, RequestEdge
        <5>2. ~bus.request /\ bus'.request /\ ~bus'.write => Reads
          BY BusEdge
        <5> QED BY <5>1, <5>2, Kinds DEF Reads
      <4>3. CASE bus'.request /\ ~bus'.write
        <5>1. Len(Ahead) + 1 <= FifoWords
          <6>1. CASE bus.request /\ ~bus.write
            <7>1. Len(rf.q) + 1 <= FifoWords
              BY <3>2, <6>1
            <7> QED BY <1>2, <3>3, <7>1
          <6>2. CASE Len(rf.q) < FifoWords
            BY <1>2, <3>3, <6>2
          <6> QED BY <4>2, <4>3, <6>1, <6>2
        <5> QED BY <4>1, <4>3, <5>1
      <4>4. CASE ~(bus'.request /\ ~bus'.write)
        <5>1. Len(rf.q) <= FifoWords
          <6>1. CASE bus.request /\ ~bus.write
            <7>1. Len(rf.q) + 1 <= FifoWords
              BY <3>2, <6>1
            <7> QED BY <1>2, <3>3, <7>1
          <6>2. CASE ~(bus.request /\ ~bus.write)
            <7>1. Len(rf.q) + 0 <= FifoWords
              BY <3>2, <6>2
            <7> QED BY <1>2, <3>3, <7>1
          <6> QED BY <6>1, <6>2
        <5>2. Len(Ahead) + 0 <= FifoWords
          BY <1>2, <3>3, <5>1
        <5> QED BY <4>1, <4>4, <5>2
      <4> QED BY <4>3, <4>4
    <3> QED BY <3>4, <3>5
  <2> QED BY <2>1, <2>2
  \* A word is taken for a strobe.
<1>4. Untaken => (con.phase = "strobe" /\ con.dir = "read") \/ (con.phase = "off" /\ con.since = 0)
  BY <1>1, Kinds DEF Untaken, LineOk, FetchOk, Reading, ConsoleOk
<1>5. ASSUME Untaken, port.read = "mem", con.phase = "strobe"
      PROVE  (Reading' /\ Waits /\ con'.phase = "strobe") \/ Reset
  <2>1. Reading /\ Open
    BY <1>1, <1>4, <1>5 DEF Reading, Open
  <2>2. con.since < Pulse
    <3>1. (IF rf.q = <<>> THEN Until ELSE 0) + con.since < Pulse
      BY <1>1, <1>5, <2>1 DEF FetchOk
    <3>2. Until \in Nat
      BY RemainingNow, Times DEF Until
    <3> QED BY <1>2, <3>1, <3>2, Kinds
  <2>3. ~Strobe("read") /\ ~Strobe("write")
    BY <1>1, <1>5, StrobeMoves
  <2>4. ~Release
    BY <1>1, <1>2, <2>2, Kinds, ReleaseMoves
  <2>5. ~Strobe("read") /\ ~Strobe("write") /\ ~Release
    BY <2>3, <2>4
  <2>6. Waits \/ Reset
    BY <1>1, <1>5, <2>5, ConsoleSteps, HighMoves, LowMoves, EndMoves, PowerMoves
  <2>7. Waits => con'.phase = "strobe" /\ con'.dir = con.dir
    BY <1>1, <1>5, WaitMoves
  <2>8. Waits => Reading'
    BY <1>5, <2>1, <2>7, OpenMoves DEF Reading
  <2> QED BY <2>6, <2>7, <2>8
<1>6. rf'.pop => \/ Reading' /\ con'.phase = "strobe" /\ ~Untaken' /\ rf'.q # <<>>
                 \/ con'.phase = "off" /\ con'.since <= 1
  <2> SUFFICES ASSUME TakesWord
               PROVE  \/ Reading' /\ con'.phase = "strobe" /\ ~Untaken' /\ rf'.q # <<>>
                      \/ con'.phase = "off" /\ con'.since <= 1
    BY ReadEdge
  <2>1. Untaken /\ port.read = "mem"
    BY DEF TakesWord
  <2>2. CASE con.phase = "off" /\ con.since = 0
    <3>1. ~up
      BY <1>1, <2>2 DEF ConsoleOk
    <3> QED BY <1>2, <2>2, <3>1, OffMoves
  <2>3. CASE con.phase = "strobe" /\ Reset
    BY <1>1, <2>3, ResetMoves
  <2>4. CASE con.phase = "strobe" /\ ~Reset
    <3>1. Reading' /\ con'.phase = "strobe" /\ Open
      BY <1>5, <2>1, <2>4 DEF Open
    <3>2. ~Untaken' /\ Ahead = rf.q /\ rf.q # <<>>
      BY <3>1, TakeEdge
    <3>3. up
      BY <3>1, ReadingMoves
    <3>4. rf'.q # <<>>
      <4>1. Ahead \in Seq(Int) /\ Ahead # <<>>
        BY <3>2, <3>3, AheadFacts
      <4>2. At(cells, bus.at) \in Int
        <5>1. cells \in [Spaces -> [Words -> Int]] /\ bus.at.space \in Spaces /\ bus.at.word \in Words
          BY <1>1 DEF PiTyped, Places
        <5> QED BY <5>1 DEF At
      <4>3. Append(Ahead, At(cells, bus.at)) # <<>>
        BY <4>1, <4>2
      <4> QED BY <3>1, <4>1, <4>3, TakeEdge
    <3> QED BY <3>1, <3>2, <3>4
  <2> QED BY <1>4, <2>1, <2>2, <2>3, <2>4
<1>7. rf'.wait => \/ Reading' /\ con'.phase = "strobe" /\ con'.since > 0
                  \/ con'.phase = "off" /\ con'.since = 0
  <2> SUFFICES ASSUME rf'.wait
               PROVE  \/ Reading' /\ con'.phase = "strobe" /\ con'.since > 0
                      \/ con'.phase = "off" /\ con'.since = 0
    OBVIOUS
  <2>1. Untaken /\ (port.read = "mem" \/ rf.wait) /\ (line.op = "read" \/ ~ReadFlush)
    BY ReadEdge DEF Untaken
  <2>2. con.phase = "strobe" /\ port.read = "mem"
    <3>1. ~(con.phase = "off" /\ con.since = 0)
      BY <1>1, <2>1 DEF ReadFlush, LineOk, ConsoleOk
    <3>2. con.phase = "strobe"
      BY <1>4, <2>1, <3>1
    <3>3. rf.wait => Reading
      BY <1>1, <3>2 DEF FetchOk
    <3> QED BY <2>1, <3>2, <3>3 DEF Reading
  <2>3. Reset \/ (Reading' /\ Waits /\ con'.phase = "strobe")
    BY <1>5, <2>1, <2>2
  <2>4. con.since >= 0
    BY <1>1, <2>2 DEF ConsoleOk
  <2>5. Waits => con'.since > 0
    BY <1>1, <1>2, <2>4, WaitMoves, Kinds
  <2>6. Reset => con'.phase = "off" /\ con'.since = 0
    BY <1>1, ResetMoves
  <2> QED BY <2>3, <2>5, <2>6
<1>8. con'.phase = "off" /\ con'.since > 0 => rf'.q = <<>>
  BY OnMoves, ReadEdge, Kinds DEF ReadFlush
  \* Nothing is written while the console may still read.
<1>9. up' /\ con'.phase # "idle" /\ con'.dir # "write" => ~(bus'.request /\ bus'.write)
  <2> SUFFICES ASSUME up', con'.phase # "idle", con'.dir # "write", bus'.request PROVE ~bus'.write
    OBVIOUS
  <2>1. up
    BY OffEdge, Kinds
  <2>2. con'.phase # "high" /\ line'.op # "alel" /\ con'.phase # "off"
    BY PromptStep, ConsoleStep DEF Prompt, ConsoleOk
  <2>3. Open'
    BY <2>2, TypedStep DEF Open, PiTyped
  <2>4. CASE ~Open
    BY <2>3, <2>4, OpenedMoves, NotYet, BusEdge
  <2>5. CASE Open
    <3>1. Waits \/ Release \/ Strobe("read")
      BY <1>1, <2>3, <2>5, OpenMoves, ConsoleSteps, HighMoves, LowMoves, EndMoves, ResetMoves,
         PowerMoves,
         StrobeMoves
    <3>2. con.dir # "write" /\ con.phase # "idle"
      BY <1>1, <2>5, <3>1, WaitMoves, ReleaseMoves, StrobeMoves DEF Open
    <3>3. ~(bus.request /\ bus.write)
      BY <1>1, <2>1, <3>2 DEF FetchOk
    <3>4. ~Writes
      BY <2>5, <3>2, WritesFacts DEF Writing, Open
    <3> QED BY <2>1, <3>3, <3>4, RequestEdge, BusEdge, Kinds
  <2> QED BY <2>4, <2>5
<1>10. ASSUME Reading'
       PROVE  /\ \A i \in 1 .. Len(Ahead') :
                   NextWord' + i - 1 < PageWords =>
                     Ahead'[i] = cells'[port'.space][NextWord' + i - 1]
              /\ NextWord' + Len(Ahead') < PageWords /\ ~ctl'.load =>
                   bus'.at = [space |-> port'.space, word |-> NextWord' + Len(Ahead')]
              /\ ctl'.load => rf'.q = <<>> /\ ~bus'.request
              /\ con'.phase = "low" /\ Ahead' = <<>> => Until' + con'.since <= Serve + 2
              /\ con'.phase = "strobe" /\ Untaken' =>
                   (IF rf'.q = <<>> THEN Until' ELSE 0) + con'.since < Pulse
  <2>1. CASE ~Open
    <3>1. /\ line.op = "alel" /\ Waits /\ con.phase = "low" /\ con'.phase = "low" /\ con'.since = 1
          /\ up' /\ line'.op = "none" /\ up
      BY <1>10, <2>1, OpenedMoves, NotYet DEF Reading
    <3>2. ~Writes /\ ~Reads /\ ~bus.request
      BY <3>1, NotYet
    <3>3. ~bus'.request /\ ctl'.load
      BY <3>1, <3>2, BusEdge
    <3>4. rf'.q = <<>>
      BY <3>1, ReadEdge DEF ReadFlush
    <3>5. ~Untaken
      BY <1>4, <3>1
    <3>6. ~rf'.pop /\ Ahead' = <<>>
      BY <3>4, <3>5, ReadEdge DEF TakesWord, Ahead, Popped
    <3>7. Until' = Serve + 1
      <4>1. Len(rf'.q) < FifoWords
        BY <1>2, <3>4, EmptySeq
      <4> QED BY <3>3, <4>1 DEF Until
    <3>8. Len(Ahead') = 0
      BY <3>6, EmptySeq
    <3>9. Until' + con'.since <= Serve + 2
      BY <1>2, <3>1, <3>7
    <3> QED BY <3>1, <3>3, <3>4, <3>8, <3>9
  <2>2. CASE Open
    <3>1. /\ Reading /\ up /\ ~ctl'.load /\ port.read = "mem" /\ con.dir # "write"
          /\ con.phase \in {"low", "strobe"}
          /\ Waits \/ Release \/ Strobe("read")
      BY <1>10, <2>2, ReadingMoves
    <3>2. /\ Until \in Nat /\ Until' \in Nat /\ Until' <= Serve + 2
          /\ Ahead = <<>> /\ ~Ack => Until >= 1 /\ Until' <= Until - 1
          /\ bus.request /\ Ack => Until = 1
      BY <1>10, <2>2, UntilEdge
    <3>3. PICK u \in Nat : u = Until'
      BY <3>2
    <3>4. PICK n \in Int : n = con'.since
      BY TypedStep DEF PiTyped
    <3>5. /\ rf'.q = (IF Ack THEN Append(Ahead, At(cells, bus.at)) ELSE Ahead)
          /\ Untaken' <=> (Untaken /\ rf.q = <<>>) \/ Strobe("read")
          /\ Untaken => Waits /\ con.phase = "strobe" /\ ~rf.pop
      BY <1>10, <2>2, TakeEdge
    <3>6. Ahead \in Seq(Int) /\ At(cells, bus.at) \in Int
      <4>1. cells \in [Spaces -> [Words -> Int]] /\ bus.at.space \in Spaces /\ bus.at.word \in Words
        BY <1>1 DEF PiTyped, Places
      <4> QED BY <3>1, <4>1, AheadFacts DEF At
    <3>7. rf'.q = <<>> => Ahead = <<>> /\ ~Ack
      <4>1. Append(Ahead, At(cells, bus.at)) # <<>>
        BY <3>6
      <4> QED BY <3>5, <4>1
    <3>8. con.since >= 0
      <4>1. con.phase # "idle"
        BY <3>1
      <4> QED BY <1>1, <4>1 DEF ConsoleOk
    <3>9. /\ con.phase = "low" /\ Ahead = <<>> => Until + con.since <= Serve + 2
          /\ con.phase = "strobe" /\ Untaken =>
               (IF rf.q = <<>> THEN Until ELSE 0) + con.since < Pulse
      BY <1>1, <3>1 DEF FetchOk
    <3>10. Waits => con'.phase = con.phase /\ n <= con.since + 1
      BY <1>1, <1>2, <3>4, <3>8, WaitMoves, Kinds
    <3>11. ASSUME con'.phase = "low", Ahead' = <<>> PROVE u + n <= Serve + 2
      <4>1. ~TakesWord
        BY <1>10, <2>2, <3>11, TakeEdge
      <4>2. rf'.q = <<>>
        BY <1>10, <2>2, <3>11, <4>1, AheadEdge
      <4>3. Ahead = <<>> /\ ~Ack
        BY <3>7, <4>2
      <4>4. u <= Until - 1 /\ u <= Serve + 2
        BY <3>2, <3>3, <4>3
      <4>5. CASE Waits
        BY <1>2, <3>2, <3>8, <3>9, <3>10, <3>11, <4>3, <4>4, <4>5, Kinds
      <4>6. CASE Release
        <5>1. n = 0
          BY <1>1, <3>4, <4>6, ReleaseMoves
        <5> QED BY <1>2, <4>4, <5>1
      <4>7. ~Strobe("read")
        BY <1>1, <3>11, StrobeMoves
      <4> QED BY <3>1, <4>5, <4>6, <4>7
    <3>12. ASSUME con'.phase = "strobe", Untaken'
           PROVE  /\ rf'.q = <<>> => u + n < Pulse
                  /\ n < Pulse
      <4>1. CASE Strobe("read")
        <5>1. n = 0 /\ con.phase = "low" /\ con.since >= Gap
          BY <1>1, <3>4, <4>1, StrobeMoves
        <5>2. ASSUME rf'.q = <<>> PROVE u + n < Pulse
          <6>1. Ahead = <<>> /\ ~Ack
            BY <3>7, <5>2
          <6>2. Until + con.since <= Serve + 2 /\ u <= Until - 1
            BY <3>2, <3>3, <3>9, <5>1, <6>1
          <6> QED BY <1>2, <3>2, <5>1, <6>2, Kinds
        <5> QED BY <1>2, <5>1, <5>2
      <4>2. CASE Untaken /\ rf.q = <<>>
        <5>1. Waits /\ con.phase = "strobe" /\ ~rf.pop /\ n <= con.since + 1
          BY <3>5, <3>10, <4>2
        <5>2. Ahead = <<>>
          BY <3>1, <4>2, <5>1, AheadFacts
        <5>3. Until + con.since < Pulse
          BY <3>9, <4>2, <5>1
        <5>4. CASE Ack
          <6>1. Until = 1 /\ rf'.q # <<>>
            BY <3>1, <3>2, <3>7, <5>4, Acked
          <6> QED BY <1>2, <5>1, <5>3, <6>1, Kinds
        <5>5. CASE ~Ack
          <6>1. u <= Until - 1 /\ Until >= 1
            BY <3>2, <3>3, <5>2, <5>5
          <6> QED BY <1>2, <3>2, <5>1, <5>3, <6>1, Kinds
        <5> QED BY <5>4, <5>5
      <4> QED BY <3>5, <3>12, <4>1, <4>2
    <3>13. con'.phase = "low" /\ Ahead' = <<>> => Until' + con'.since <= Serve + 2
      BY <3>3, <3>4, <3>11
    <3>14. con'.phase = "strobe" /\ Untaken' =>
             (IF rf'.q = <<>> THEN Until' ELSE 0) + con'.since < Pulse
      <4>1. 0 + n = n
        OBVIOUS
      <4> QED BY <3>3, <3>4, <3>12, <4>1
    <3> QED BY <1>10, <2>2, <3>1, <3>13, <3>14, FetchedStep
  <2> QED BY <2>1, <2>2
<1> QED BY <1>3, <1>6, <1>7, <1>8, <1>9, <1>10 DEF FetchOk

\* The console gets the word at its address.
LEMMA GotStep ==
  ASSUME PiInv, PiTick
  PROVE  Got'
<1>1. PiTyped /\ ConsoleOk /\ LineOk /\ FetchOk /\ Got /\ RegOk
  BY DEF PiInv
<1> SUFFICES ASSUME Open', con'.phase = "strobe", con'.dir = "read"
             PROVE  /\ port'.read = "mem" /\ ~Untaken' => dq' = cells'[port'.space][Here']
                    /\ port'.read = "reg" /\ line'.op # "read" => dq' = Register(Here')
  BY DEF Got
<1>2. Open
  BY OpenedMoves
<1>3. port' = port /\ Stays /\ up
  BY <1>2, OpenMoves
<1>4. Strobe("read") \/ (Waits /\ con.phase = "strobe" /\ con.dir = "read")
  <2>1. ~Strobe("write")
    BY <1>1, StrobeMoves
  <2> QED BY <1>1, <2>1, ConsoleSteps, WaitMoves, HighMoves, LowMoves, ReleaseMoves, EndMoves,
             ResetMoves, PowerMoves
<1>5. Waits => Here' = Here
  BY <1>1, WaitMoves DEF Stays, Here
<1>6. ASSUME port'.read = "mem", ~Untaken' PROVE dq' = cells'[port'.space][Here']
  <2>1. Reading'
    BY <1>6 DEF Reading
  <2>2. Reading /\ cells' = cells /\ port.read = "mem"
    BY <1>2, <2>1, ReadingMoves
  <2>3. /\ Waits /\ con.phase = "strobe" /\ con.dir = "read"
        /\ Untaken => TakesWord
        /\ TakesWord => Untaken /\ Ahead = rf.q /\ rf.q # <<>>
    <3>1. Untaken' <=> (Untaken /\ rf.q = <<>>) \/ Strobe("read")
      BY <1>2, <2>1, TakeEdge
    <3>2. TakesWord <=> Untaken /\ rf.q # <<>>
      BY <2>2 DEF TakesWord
    <3>3. TakesWord => Ahead = rf.q
      BY <1>2, <2>1, TakeEdge
    <3> QED BY <1>4, <1>6, <3>1, <3>2, <3>3
  <2>4. CASE TakesWord
    <3>1. rf.q \in Seq(Int) /\ Len(Ahead) \in Nat /\ (Ahead = <<>> <=> Len(Ahead) = 0)
      BY <1>1, <1>3, AheadFacts DEF PiTyped
    <3>2. 1 \in 1 .. Len(Ahead)
      BY <2>3, <2>4, <3>1
    <3>3. NextWord = Here /\ NextWord \in Nat /\ Here < PageWords
      BY <1>1, <2>3, <2>4, Kinds DEF NextWord, ConsoleOk
    <3>4. Ahead[1] = cells[port.space][NextWord + 1 - 1]
      BY <1>1, <2>2, <3>2, <3>3, Times DEF FetchOk
    <3>5. dq' = Head(rf.q) /\ Head(rf.q) = Ahead[1]
      BY <2>3, <2>4, <3>1, ReadEdge
    <3> QED BY <1>3, <1>5, <2>2, <2>3, <3>3, <3>4, <3>5
  <2>5. CASE ~TakesWord
    BY <1>1, <1>2, <1>3, <1>5, <2>2, <2>3, <2>5, ReadEdge DEF Got
  <2> QED BY <2>4, <2>5
<1>7. ASSUME port'.read = "reg", line'.op # "read" PROVE dq' = Register(Here')
  <2>1. ~Strobe("read") /\ ~TakesWord /\ port.read = "reg"
    BY <1>1, <1>3, <1>7, StrobeMoves DEF StrobeOp, TakesWord
  <2>2. Waits /\ con.phase = "strobe" /\ con.dir = "read"
    BY <1>4, <2>1
  <2>3. CASE line.op = "read"
    <3>1. reg.word + 1 = Here + 1
      BY <1>1, <1>2, <2>1, <2>2, <2>3 DEF RegOk, Way
    <3>2. reg.word = Here
      BY <1>1, <3>1, Kinds DEF PiTyped
    <3> QED BY <1>5, <2>1, <2>2, <2>3, <3>2, ReadEdge
  <2>4. CASE line.op # "read"
    BY <1>1, <1>2, <1>5, <2>1, <2>2, <2>4, ReadEdge DEF Got
  <2> QED BY <2>3, <2>4
<1> QED BY <1>6, <1>7

-----------------------------------------------------------------------------
(* The registers, and the report of a save.                                 *)

\* A register is written with the word of the strobe, at its address.
LEMMA RegStep ==
  ASSUME PiInv, PiTick
  PROVE  RegOk'
<1>1. PiTyped /\ ConsoleOk /\ LineOk /\ RegOk
  BY DEF PiInv
<1>2. Rest \in Nat /\ Rest > 1 /\ Pulse \in Nat /\ Pulse > 0 /\ reg.word \in Int /\ reg.inc \in BOOLEAN
  BY <1>1, Times DEF PiTyped
<1>3. ASSUME line.op \in {"read", "write"}
      PROVE  /\ con.phase = "strobe" /\ con.since = 0 /\ con.dir = line.op /\ Way # "none" /\ Open
             /\ ~reg.inc /\ reg.word = Here
             /\ (Waits /\ con'.phase = "strobe" /\ con'.since = 1 /\ Here' = Here
                 /\ line'.data = line.data /\ line'.op = "none" /\ con'.dir = con.dir)
                \/ con'.phase = "off"
  <2>1. con.phase = "strobe" /\ con.since = 0 /\ con.dir = line.op /\ Way # "none" /\ Open
    BY <1>1, <1>3 DEF LineOk, Open
  <2>2. ~reg.inc
    BY <1>1, <2>1 DEF RegOk
  <2>3. reg.word + 1 = Here + 1
    BY <1>1, <1>3, <2>1, <2>2 DEF RegOk
  <2>4. reg.word = Here
    BY <1>2, <2>3, Kinds
  <2>5. ~Strobe("read") /\ ~Strobe("write")
    BY <1>1, <2>1, StrobeMoves
  <2>6. Waits \/ Reset
    BY <1>1, <1>2, <2>1, <2>5, ConsoleSteps, HighMoves, LowMoves, ReleaseMoves, EndMoves, PowerMoves
  <2>7. Waits => /\ con'.phase = "strobe" /\ con'.since = 1 /\ Here' = Here
                 /\ line'.data = line.data /\ line'.op = "none" /\ con'.dir = con.dir
    BY <1>1, <1>2, <2>1, WaitMoves DEF Stays, Here
  <2> QED BY <1>1, <2>1, <2>2, <2>4, <2>6, <2>7, ResetMoves
<1>4. reg'.word = (IF line.op = "alel" THEN line.data
                   ELSE IF reg.inc THEN reg.word + 1 ELSE reg.word)
  BY RegEdge
<1>5. reg'.write => \/ con'.phase = "off"
                    \/ con'.phase = "strobe" /\ con'.since = 1 /\ reg'.word = Here' /\ reg'.data = line'.data
  <2> SUFFICES ASSUME reg'.write
               PROVE  \/ con'.phase = "off"
                      \/ con'.phase = "strobe" /\ con'.since = 1 /\ reg'.word = Here' /\ reg'.data = line'.data
    OBVIOUS
  <2>1. line.op = "write" /\ reg'.data = line.data
    BY RegEdge
  <2> QED BY <1>3, <1>4, <2>1
<1>6. ASSUME Open'
      PROVE  /\ reg'.inc => con'.phase = "strobe" /\ con'.since = 1 /\ Way' # "none"
             /\ IF con'.dir = "none" \/ Way' = "none" THEN reg'.word = con'.word
                ELSE reg'.word + (IF reg'.inc \/ line'.op \in {"read", "write"} THEN 1 ELSE 0)
                       = Here' + IF con'.phase = "strobe" THEN 1 ELSE 0
  <2>1. CASE ~Open
    <3>1. line.op = "alel" /\ con'.dir = "none" /\ con'.word = con.word
      BY <1>6, <2>1, OpenedMoves DEF Stays
    <3>2. reg'.word = con'.word /\ ~reg'.inc
      BY <1>1, <3>1, RegEdge DEF LineOk
    <3> QED BY <3>1, <3>2
  <2>2. CASE Open
    <3>1. /\ line.op # "alel" /\ port' = port /\ Stays /\ con'.phase \in {"low", "strobe"}
          /\ con.phase \in {"low", "strobe"}
      BY <1>6, <2>2, OpenMoves
    <3>2. Way' = (IF con'.dir = "read" THEN port.read ELSE port.write)
      BY <3>1 DEF Way
    <3>3. reg'.inc <=> line.op \in {"read", "write"}
      BY RegEdge
    <3>4. reg'.inc => con'.phase = "strobe" /\ con'.since = 1 /\ Way' # "none" /\ ~reg.inc /\ reg'.word = Here
                      /\ Here' = Here /\ line'.op = "none"
      BY <1>3, <1>4, <3>1, <3>2, <3>3 DEF Way
    <3>5. /\ reg.inc => con.phase = "strobe" /\ con.since = 1 /\ Way # "none"
          /\ IF con.dir = "none" \/ Way = "none" THEN reg.word = con.word
             ELSE reg.word + (IF reg.inc \/ line.op \in {"read", "write"} THEN 1 ELSE 0)
                    = Here + IF con.phase = "strobe" THEN 1 ELSE 0
      BY <1>1, <2>2 DEF RegOk
    <3>6. Waits \/ Release \/ Strobe("read") \/ Strobe("write")
      BY <1>1, <3>1, ConsoleSteps, HighMoves, LowMoves, EndMoves, ResetMoves, PowerMoves
    <3>7. con'.word = con.word /\ con.word \in Nat /\ con.k \in Nat /\ Here = con.word + con.k
          /\ Here' = con'.word + con'.k
      BY <3>1, Kinds DEF Stays, Here
    <3>8. CASE reg'.inc
      <4>1. con'.phase = "strobe" /\ Here' = Here /\ reg'.word = Here /\ Way' # "none" /\ con'.dir # "none"
        BY <3>4, <3>8, ConsoleStep DEF ConsoleOk
      <4> QED BY <3>4, <3>8, <4>1
    <3>9. CASE ~reg'.inc
      <4>1. line.op \notin {"read", "write"}
        BY <3>3, <3>9
      <4>2. CASE Waits
        <5>1. con'.phase = con.phase /\ con'.dir = con.dir /\ con'.k = con.k /\ line'.op = "none" /\ Way' = Way
          BY <1>1, <3>2, <4>2, WaitMoves DEF Way
        <5>2. reg.inc => con.dir # "none" /\ Way # "none"
          BY <1>1, <3>5 DEF ConsoleOk
        <5> QED BY <1>2, <1>4, <3>1, <3>5, <3>7, <3>9, <4>1, <5>1, <5>2
      <4>3. CASE Release
        <5>1. con'.phase = "low" /\ con.phase = "strobe" /\ con'.dir = con.dir /\ con'.k = con.k + 1
              /\ line'.op = "none" /\ Way' = Way /\ con.dir # "none"
          BY <1>1, <3>2, <4>3, ReleaseMoves DEF Way, ConsoleOk
        <5>2. reg.inc => Way # "none"
          BY <3>5
        <5>3. CASE Way = "none"
          BY <1>2, <1>4, <3>1, <3>5, <3>7, <3>9, <5>1, <5>2, <5>3
        <5>4. CASE Way # "none"
          <6>1. reg.word + (IF reg.inc THEN 1 ELSE 0) = con.word + con.k + 1
            BY <3>5, <3>7, <4>1, <5>1, <5>4
          <6>2. reg'.word = con.word + con.k + 1
            BY <1>2, <1>4, <3>1, <6>1
          <6>3. reg'.word + 0 = Here' + 0
            BY <3>7, <5>1, <6>2
          <6> QED BY <3>9, <5>1, <5>4, <6>3
        <5> QED BY <5>3, <5>4
      <4>4. ASSUME NEW d \in {"read", "write"}, Strobe(d)
            PROVE  IF con'.dir = "none" \/ Way' = "none" THEN reg'.word = con'.word
                   ELSE reg'.word + (IF reg'.inc \/ line'.op \in {"read", "write"} THEN 1 ELSE 0)
                          = Here' + IF con'.phase = "strobe" THEN 1 ELSE 0
        <5>1. con.phase = "low" /\ con'.phase = "strobe" /\ con'.dir = d /\ con'.k = con.k
              /\ con.dir \in {"none", d} /\ line'.op = StrobeOp(d)
          BY <1>1, <4>4, StrobeMoves
        <5>2. ~reg.inc /\ reg'.word = reg.word
          BY <1>4, <3>1, <3>5, <5>1
        <5>3. con.dir = "none" => con.k = 0
          BY <1>1, <3>1, <5>1 DEF ConsoleOk
        <5>4. Way' # "none" => line'.op = d
          BY <3>2, <5>1 DEF StrobeOp
        <5>5. con.dir = d => Way' = Way
          BY <3>2, <5>1 DEF Way
        <5>6. CASE Way' = "none"
          BY <3>5, <3>7, <5>1, <5>2, <5>5, <5>6
        <5>7. CASE Way' # "none"
          <6>1. reg.word = con.word + con.k
            <7>1. CASE con.dir = "none"
              BY <3>5, <3>7, <5>3, <7>1
            <7>2. CASE con.dir = d
              <8>1. reg.word + 0 = Here + 0
                BY <3>5, <4>1, <5>1, <5>2, <5>5, <5>7, <7>2
              <8> QED BY <1>2, <3>7, <8>1
            <7> QED BY <5>1, <7>1, <7>2
          <6>2. reg'.word + 1 = Here' + 1
            BY <3>7, <5>1, <5>2, <6>1
          <6> QED BY <5>1, <5>4, <5>7, <6>2
        <5> QED BY <5>6, <5>7
      <4> QED BY <3>6, <3>9, <4>2, <4>3, <4>4
    <3> QED BY <3>4, <3>8, <3>9
  <2> QED BY <2>1, <2>2
<1> QED BY <1>5, <1>6 DEF RegOk

\* A save is reported once, with the end of its access.
LEMMA CountStep ==
  ASSUME PiInv, PiTick
  PROVE  CountOk'
<1>1. PiTyped /\ ConsoleOk /\ LineOk /\ PortOk /\ ControlOk /\ CountOk
  BY DEF PiInv
<1>2. Rest \in Nat /\ Rest > 1 /\ counted \in Nat
  BY <1>1, Times DEF PiTyped
<1>3. counted' = IF line.op = "aleh" THEN 0 ELSE IF done THEN counted + 1 ELSE counted
  BY WatchEdge
<1>4. done' <=> up /\ line.op = "end" /\ port.sram /\ ~ctl.first
  BY BusEdge
<1>5. line.op = "aleh" => con.phase = "high"
  BY <1>1 DEF LineOk
<1>6. done => con.phase \in {"off", "idle"} /\ line.op # "end"
  BY <1>1 DEF CountOk
<1>7. done' => line'.op # "end" /\ (con'.phase = "off" \/ (con'.phase = "idle" /\ con'.since = 1))
  <2> SUFFICES ASSUME line.op = "end"
               PROVE  line'.op # "end" /\ (con'.phase = "off" \/ (con'.phase = "idle" /\ con'.since = 1))
    BY <1>4
  <2>1. con.phase = "idle" /\ con.since = 0
    BY <1>1 DEF LineOk
  <2>2. ~Strobe("read") /\ ~Strobe("write")
    BY <1>1, <2>1, StrobeMoves
  <2>3. ~PutHigh
    <3> SUFFICES ASSUME PutHigh PROVE FALSE
      OBVIOUS
    <3>1. con.since >= Rest
      BY <1>1, HighMoves
    <3>2. con.since = 0
      BY <2>1
    <3>3. Rest > 1 /\ Rest \in Nat
      BY <1>2
    <3> QED BY <3>1, <3>2, <3>3
  <2>4. Waits \/ Reset
    BY <1>1, <2>1, <2>2, <2>3, ConsoleSteps, LowMoves, ReleaseMoves, EndMoves, PowerMoves
  <2>5. Waits => line'.op = "none" /\ con'.phase = "idle" /\ con'.since = 1
    BY <1>1, <1>2, <2>1, WaitMoves
  <2>6. Reset => line'.op = "none" /\ con'.phase = "off"
    BY <1>1, ResetMoves
  <2> QED BY <2>4, <2>5, <2>6
<1>8. ASSUME Open' \/ line'.op = "alel" \/ (con'.phase = "high" /\ line'.op # "aleh")
      PROVE  counted' = 0
  <2>1. CASE Open
    BY <1>1, <1>3, <1>5, <1>6, <2>1 DEF CountOk, Open
  <2>2. CASE line.op = "alel"
    <3>1. con.phase = "low"
      BY <1>1, <2>2 DEF LineOk
    <3> QED BY <1>1, <1>3, <1>6, <2>2, <3>1 DEF CountOk
  <2>3. CASE con.phase = "high"
    BY <1>1, <1>3, <1>6, <2>3 DEF CountOk
  <2>4. CASE ~Open /\ line.op # "alel" /\ con.phase # "high"
    <3>1. ~Open'
      BY <2>4, OpenedMoves
    <3>2. ~Strobe("read") /\ ~Strobe("write")
      BY <1>1, <2>4, StrobeMoves DEF Open
    <3>3. line'.op # "alel"
      BY <1>1, <2>4, <3>2, ConsoleSteps, WaitMoves, HighMoves, LowMoves, ReleaseMoves, EndMoves,
         ResetMoves, PowerMoves
    <3>4. con'.phase = "high" => line'.op = "aleh"
      BY <1>1, <2>4, <3>2, ConsoleSteps, WaitMoves, HighMoves, LowMoves, ReleaseMoves, EndMoves,
         ResetMoves, PowerMoves
    <3> QED BY <1>8, <3>1, <3>3, <3>4
  <2> QED BY <2>1, <2>2, <2>3, <2>4
<1>9. ASSUME con'.phase \in {"off", "idle"}, ~torn'
      PROVE  IF line'.op = "end" THEN counted' = 0
             ELSE counted' + (IF done' THEN 1 ELSE 0) = (IF Saves' THEN 1 ELSE 0)
  <2>1. ~Strobe("read") /\ ~Strobe("write")
    BY <1>1, <1>9, StrobeMoves
  <2>2. End \/ Reset \/ PowerOn \/ (Waits /\ con.phase \in {"off", "idle"})
    BY <1>1, <1>9, <2>1, ConsoleSteps, WaitMoves, HighMoves, LowMoves, ReleaseMoves
  <2>3. CASE End
    <3>1. Open /\ line'.op = "end"
      BY <1>1, <2>3, EndMoves, Clear
    <3> QED BY <1>1, <1>3, <1>5, <1>6, <3>1 DEF CountOk, Open
  <2>4. CASE ~End
    <3>1. /\ con.phase \in {"off", "idle"} /\ ~torn /\ line'.op = "none"
          /\ Stays /\ con'.dir = con.dir
          /\ Reset => line.op # "end" /\ ~done
      <4>1. CASE Reset
        <5>1. ~torn /\ Settled
          BY <1>1, <1>9, <4>1, ResetMoves
        <5> QED BY <1>1, <4>1, <5>1, ResetMoves, Rested
      <4>2. CASE PowerOn
        <5>1. ~Reset
          BY <1>1, <4>2, PowerMoves, ResetMoves
        <5> QED BY <1>1, <1>9, <4>2, <5>1, PowerMoves
      <4>3. CASE Waits /\ con.phase \in {"off", "idle"} /\ ~Reset
        BY <1>1, <1>9, <4>3, WaitMoves
      <4> QED BY <2>2, <2>4, <4>1, <4>2, <4>3
    <3>2. rights' = rights /\ line.op # "aleh"
      BY <1>5, <3>1, PortStays
    <3>3. Saves' <=> Saves
      BY <3>1, <3>2 DEF Saves, Stays
    <3>4. CASE line.op = "end"
      <4>1. counted = 0 /\ ~done /\ con.phase = "idle" /\ up
        BY <1>1, <1>6, <3>1, <3>4, Kinds DEF CountOk, LineOk
      <4>2. counted' = 0
        BY <1>3, <3>2, <4>1
      <4>3. done' <=> port.sram /\ ~ctl.first
        BY <1>4, <3>4, <4>1
      <4>4. ctl.first <=> ~(port.write = "mem" /\ con.dir = "write")
        BY <1>1, <3>4 DEF ControlOk
      <4>5. CASE con.n = 0
        <5>1. ~port.sram
          BY <1>1, <4>5 DEF PortOk, NoPort
        <5>2. con.dir = "none"
          BY <1>1, <4>5 DEF ConsoleOk
        <5> QED BY <3>1, <3>3, <4>2, <4>3, <5>1, <5>2 DEF Saves
      <4>6. CASE con.n # 0
        <5>1. port = Decode(con.window, rights)
          BY <1>1, <3>2, <4>6 DEF PortOk
        <5>2. /\ port.write = "mem" <=> Writable(con.window, rights)
              /\ port.sram <=> con.window = "save" /\ Writable("save", rights)
          BY <5>1, Decoded
        <5>3. done' <=> Saves
          BY <4>3, <4>4, <5>2 DEF Saves
        <5> QED BY <3>1, <3>3, <4>2, <5>3
      <4> QED BY <4>5, <4>6
    <3>5. CASE line.op # "end"
      <4>1. ~done'
        BY <1>4, <3>5
      <4>2. counted + (IF done THEN 1 ELSE 0) = (IF Saves THEN 1 ELSE 0)
        BY <1>1, <3>1, <3>5 DEF CountOk
      <4>3. counted' = counted + (IF done THEN 1 ELSE 0)
        BY <1>2, <1>3, <3>2
      <4>4. PICK c \in Nat : c = counted'
        BY <1>2, <4>3
      <4>5. c = (IF Saves THEN 1 ELSE 0)
        BY <4>2, <4>3, <4>4
      <4>6. c + 0 = (IF Saves THEN 1 ELSE 0)
        BY <4>4, <4>5
      <4> QED BY <3>1, <3>3, <4>1, <4>4, <4>6
    <3> QED BY <3>4, <3>5
  <2> QED BY <2>3, <2>4
<1> QED BY <1>7, <1>8, <1>9 DEF CountOk

-----------------------------------------------------------------------------
(* The words to be written.                                                 *)

\* There is room for one word only.
LEMMA OneWord ==
  ASSUME PiInv
  PROVE  /\ wf.q # <<>> => ~wf.push
         /\ wf.pop => ~Queued
         /\ Len(wf.q) <= 1 /\ Len(wf.q) \in Nat
<1>1. /\ wf.q \in Seq(Int) /\ wf.push \in BOOLEAN /\ Len(wf.q) + (IF wf.push THEN 1 ELSE 0) <= 1
      /\ wf.pop => wf.q # <<>>
  BY DEF PiInv, PiTyped, QueueOk
<1> DEFINE n == Len(wf.q)
<1>2. n \in Nat /\ (wf.q # <<>> => n > 0)
  BY <1>1, EmptySeq
<1>3. n + (IF wf.push THEN 1 ELSE 0) <= 1
  BY <1>1
<1> HIDE DEF n
<1>4. wf.q # <<>> => ~wf.push
  BY <1>1, <1>2, <1>3
<1>5. n <= 1
  BY <1>1, <1>2, <1>3
<1> QED BY <1>1, <1>2, <1>4, <1>5 DEF Queued, n

\* What the console may do while a word waits.
LEMMA QueuedMoves ==
  ASSUME PiInv, PiTick, Queued \/ OnLine
  PROVE  /\ port.write = "mem" /\ con.n > 0 /\ port' = port /\ rights' = rights /\ Stays
         /\ \/ Writing /\ Writing' /\ up /\ (Waits \/ Release) /\ Open'
            \/ Writing /\ up /\ Reset
            \/ ~up
            \/ con.phase = "idle" /\ con.since = 0 - Rest /\ Writes /\ (Waits \/ Reset)
         /\ Writing \/ ~OnLine
<1>1. PiTyped /\ ConsoleOk /\ LineOk /\ QueueOk
  BY DEF PiInv
<1>2. OnLine => Writing /\ port.write = "mem" /\ con.phase = "strobe"
  BY <1>1 DEF OnLine, LineOk, Writing, Open
<1>3. Queued => /\ port.write = "mem" /\ con.n > 0
                /\ \/ Writing
                   \/ con.phase = "off"
                   \/ con.phase = "idle" /\ con.since = 0 - Rest /\ ~bus.request /\ ~wf.push
  <2> SUFFICES ASSUME Queued
               PROVE  /\ port.write = "mem" /\ con.n > 0
                      /\ \/ Writing
                         \/ con.phase = "off"
                         \/ con.phase = "idle" /\ con.since = 0 - Rest /\ ~bus.request /\ ~wf.push
    OBVIOUS
  <2>1. wf.q # <<>> \/ wf.push
    BY DEF Queued
  <2>2. ~wf.pop
    BY OneWord
  <2> QED BY <1>1, <2>1, <2>2 DEF QueueOk
<1>4. OnLine => con.n > 0
  BY <1>1, <1>2, Kinds DEF ConsoleOk
<1>5. ~(con.phase = "low" /\ con.since >= Gap) /\ ~Settled /\ con.phase # "high"
  BY Clear, Rested, NotYet
<1>6. line.op # "aleh"
  BY <1>1, <1>5 DEF LineOk
<1>7. port' = port /\ rights' = rights
  BY <1>6, PortStays
<1>8. ~Strobe("read") /\ ~Strobe("write") /\ ~PutHigh /\ ~PutLow /\ ~End
  BY <1>1, <1>5, StrobeMoves, LowMoves, EndMoves DEF PutHigh
<1>9. Waits \/ Release \/ Reset \/ PowerOn
  BY <1>8, ConsoleSteps
<1>10. Stays
  BY <1>1, <1>9, WaitMoves, ReleaseMoves, ResetMoves, PowerMoves
<1>11. CASE Writing
  <2>1. up /\ con.phase \in {"low", "strobe"} /\ Open
    BY <1>11, OpenMoves DEF Writing
  <2>2. ~PowerOn
    BY <1>1, <2>1, PowerMoves
  <2>3. Waits \/ Release => con'.phase \in {"low", "strobe"} /\ con'.dir = con.dir
    BY <1>1, <2>1, WaitMoves, ReleaseMoves
  <2>4. con'.phase \in {"low", "strobe"} => Open'
    BY <2>1, OpenMoves
  <2>5. Waits \/ Release => Writing'
    BY <1>11, <1>7, <2>3, <2>4 DEF Writing
  <2>6. Waits \/ Release => Open'
    BY <2>3, <2>4
  <2>7. Waits \/ Release \/ Reset
    BY <1>9, <2>2
  <2>8. port.write = "mem" /\ con.n > 0
    BY <1>2, <1>3, <1>4
  <2> QED BY <1>10, <1>11, <1>7, <2>1, <2>5, <2>6, <2>7, <2>8
<1>12. CASE con.phase = "off"
  BY <1>2, <1>3, <1>4, <1>10, <1>12, <1>7, Kinds DEF Writing, Open
<1>13. CASE ~Writing /\ con.phase = "idle"
  <2>1. ~OnLine /\ Queued /\ con.since = 0 - Rest /\ ~bus.request /\ ~wf.push /\ port.write = "mem" /\ up
    BY <1>2, <1>3, <1>13, Kinds
  <2>2. wf.q # <<>>
    BY <2>1 DEF Queued
  <2>3. Writes
    BY <2>1, <2>2 DEF Writes
  <2>4. Waits \/ Reset
    BY <1>1, <1>9, <1>13, ReleaseMoves, PowerMoves
  <2> QED BY <1>3, <1>10, <1>13, <1>7, <2>1, <2>3, <2>4
<1> QED BY <1>2, <1>3, <1>11, <1>12, <1>13

\* The word that waits comes nearer to the bus.
LEMMA WaitEdge ==
  ASSUME PiInv, PiTick, Writing, ~Writes
  PROVE  /\ WaitLeft \in Nat /\ WaitLeft' \in Nat
         /\ wf.q # <<>> => WaitLeft' <= WaitLeft - 1
         /\ Open' => WaitLeft' <= Serve + 1
<1>1. up /\ port.write = "mem"
  BY OpenMoves DEF Writing
<1>2. Remaining \in Nat /\ Remaining' \in Nat /\ Serve \in Nat
  BY <1>1, RemainingEdge, Times
<1>3. PICK r \in Nat : r = Remaining'
  BY <1>2
<1>4. WaitLeft' = IF bus'.request THEN r + 1 ELSE 1
  BY <1>3 DEF WaitLeft
<1>5. PICK w \in Nat : w = WaitLeft'
  BY <1>4
<1>6. WaitLeft = (IF bus.request THEN Remaining + 1 ELSE 1) /\ WaitLeft \in Nat
  BY <1>2 DEF WaitLeft
<1>7. ASSUME wf.q # <<>> PROVE w <= WaitLeft - 1
  <2>1. bus.request
    BY <1>1, <1>7 DEF Writes
  <2>2. CASE Ack
    <3>1. Remaining = 1 /\ ~bus'.request
      BY <2>1, <2>2, Acked, BusEdge
    <3> QED BY <1>4, <1>5, <1>6, <2>1, <3>1
  <2>3. CASE ~Ack
    <3>1. bus'.request /\ r <= Remaining - 1
      BY <1>1, <1>3, <2>1, <2>3, RemainingEdge
    <3> QED BY <1>2, <1>4, <1>5, <1>6, <2>1, <3>1
  <2> QED BY <2>2, <2>3
<1>8. ASSUME Open' PROVE w <= Serve + 1
  <2>1. bus'.request => r <= Serve
    BY <1>3, <1>8, PromptStep DEF Prompt
  <2> QED BY <1>2, <1>4, <1>5, <2>1
<1> QED BY <1>5, <1>6, <1>7, <1>8

\* A word that waits gets to the bus before the next one comes.
LEMMA QueueStep ==
  ASSUME PiInv, PiTick
  PROVE  QueueOk'
<1>1. PiTyped /\ ConsoleOk /\ LineOk /\ QueueOk
  BY DEF PiInv
<1>2. /\ Rest \in Nat /\ Rest > 1 /\ Pulse \in Nat /\ Pulse > 0 /\ Serve \in Nat
      /\ con.since \in Int /\ wf.push \in BOOLEAN /\ wf.pop \in BOOLEAN
  BY Times, Kinds
<1>3. /\ wf'.q = (IF wf.push THEN <<wf.data>> ELSE IF wf.pop THEN <<>> ELSE wf.q)
      /\ wf'.push <=> OnLine
      /\ ~wf'.wait
      /\ wf'.pop <=> Writes
  BY WriteEdge
<1>4. OnLine => wf.q = <<>> /\ ~wf.push
  BY <1>1 DEF QueueOk
<1>5. OnLine => wf'.q = <<>>
  BY <1>3, <1>4
<1>6. wf'.q # <<>> \/ wf'.push => Queued \/ OnLine
  BY <1>3 DEF Queued
<1>7. Len(wf'.q) + (IF wf'.push THEN 1 ELSE 0) <= 1
  <2>1. CASE OnLine
    <3>1. Len(wf'.q) = 0 /\ wf'.push
      BY <1>3, <1>5, <2>1, EmptySeq
    <3> QED BY <3>1
  <2>2. CASE ~OnLine
    <3>1. Len(wf'.q) \in {0, 1}
      <4>1. CASE wf.push
        <5>1. Len(<<wf.data>>) = 1
          OBVIOUS
        <5> QED BY <1>3, <4>1, <5>1
      <4>2. CASE ~wf.push /\ wf.pop
        <5>1. wf'.q = <<>>
          BY <1>3, <4>2
        <5> QED BY <5>1
      <4>3. CASE ~wf.push /\ ~wf.pop
        <5>1. wf'.q = wf.q /\ Len(wf.q) <= 1 /\ Len(wf.q) \in Nat
          BY <1>3, <4>3, OneWord
        <5> DEFINE n == Len(wf.q)
        <5>2. n \in Nat /\ n <= 1
          BY <5>1
        <5> HIDE DEF n
        <5>3. n \in {0, 1}
          BY <5>2
        <5> QED BY <5>1, <5>3 DEF n
      <4> QED BY <1>2, <4>1, <4>2, <4>3
    <3>2. ~wf'.push
      BY <1>3, <2>2
    <3>3. CASE Len(wf'.q) = 0
      BY <3>2, <3>3
    <3>4. CASE Len(wf'.q) = 1
      BY <3>2, <3>4
    <3> QED BY <3>1, <3>3, <3>4
  <2> QED BY <2>1, <2>2
<1>8. wf'.pop => wf'.q # <<>> /\ InFlight'
  <2> SUFFICES ASSUME Writes PROVE wf'.q # <<>> /\ InFlight'
    BY <1>3
  <2>1. up /\ ~bus.request /\ wf.q # <<>> /\ ~wf.pop /\ ~wf.push
    BY WritesFacts
  <2>2. ~Ack
    BY <2>1, NoRequestEdge
  <2>3. bus'.request /\ bus'.write
    BY <2>1, <2>2, BusEdge
  <2> QED BY <1>3, <2>1, <2>3 DEF InFlight
<1>9. OnLine' => wf'.q = <<>> /\ ~wf'.push
  <2> SUFFICES ASSUME line'.op = "write" PROVE wf'.q = <<>> /\ ~wf'.push
    BY DEF OnLine
  <2>1. Strobe("read") \/ Strobe("write")
    BY <1>1, ConsoleSteps, WaitMoves, HighMoves, LowMoves, ReleaseMoves, EndMoves, ResetMoves,
       PowerMoves
  <2>2. con.phase = "low" /\ con.since >= Gap
    BY <1>1, <2>1, StrobeMoves
  <2>3. ~Queued /\ ~OnLine
    BY <2>2, Clear
  <2> QED BY <1>3, <1>6, <2>3
<1>10. ASSUME wf'.q # <<>> \/ wf'.push
       PROVE  /\ port'.write = "mem" /\ con'.n > 0
              /\ \/ Writing'
                 \/ con'.phase = "off"
                 \/ wf'.pop /\ con'.phase = "idle"
                 \/ con'.phase = "idle" /\ con'.since = 0 - Rest /\ ~bus'.request /\ ~wf'.push
  <2>1. Queued \/ OnLine
    BY <1>6, <1>10
  <2>2. port.write = "mem" /\ con.n > 0 /\ port' = port /\ con'.n = con.n
    BY <2>1, QueuedMoves DEF Stays
  <2>3. CASE Writing'
    BY <2>2, <2>3
  <2>4. CASE Reset
    BY <1>1, <2>2, <2>4, ResetMoves
  <2>5. CASE ~up
    <3>1. line.op = "none" /\ ~bus'.request
      BY <2>5, OffMoves, OffEdge
    <3>2. ~wf'.push
      BY <1>3, <3>1 DEF OnLine
    <3> QED BY <2>2, <2>5, <3>1, <3>2, OffMoves
  <2>6. CASE con.phase = "idle" /\ Writes /\ Waits
    BY <1>1, <1>3, <2>2, <2>6, WaitMoves
  <2> QED BY <2>1, <2>3, <2>4, <2>5, <2>6, QueuedMoves
<1>11. con'.phase = "off" /\ con'.since > 0 => ~wf'.pop /\ ~wf'.push
  <2> SUFFICES ASSUME con'.phase = "off", con'.since > 0 PROVE ~wf'.pop /\ ~wf'.push
    OBVIOUS
  <2>1. ~up
    BY OnMoves, Kinds
  <2> QED BY <1>3, <2>1, OffEdge, OffMoves DEF OnLine
<1>12. ASSUME Writing'
       PROVE  /\ wf'.push => con'.phase = "strobe" /\ con'.since = 1
              /\ wf'.q # <<>> /\ ~wf'.pop /\ con'.phase = "strobe" => WaitLeft' + con'.since <= Serve + 3
              /\ wf'.q # <<>> /\ ~wf'.pop /\ con'.phase = "low" =>
                   WaitLeft' + con'.since + Pulse <= Serve + 2
  <2>1. Queued \/ OnLine => Writing /\ (Waits \/ Release) /\ Open'
    <3> SUFFICES ASSUME Queued \/ OnLine PROVE Writing /\ (Waits \/ Release) /\ Open'
      OBVIOUS
    <3>1. con'.phase \in {"low", "strobe"} /\ Open'
      BY <1>12 DEF Writing, Open
    <3>2. ~Reset
      BY <1>1, <3>1, ResetMoves
    <3>3. up
      BY <3>1, OffMoves, Kinds
    <3>4. ~(con.phase = "idle" /\ Waits)
      BY <1>1, <3>1, WaitMoves
    <3> QED BY <3>1, <3>2, <3>3, <3>4, QueuedMoves
  <2>2. ASSUME wf'.push PROVE con'.phase = "strobe" /\ con'.since = 1
    <3>1. OnLine /\ (Waits \/ Release)
      BY <1>3, <2>1, <2>2
    <3>2. con.phase = "strobe" /\ con.since = 0
      BY <1>1, <3>1 DEF OnLine, LineOk
    <3> QED BY <1>1, <1>2, <3>1, <3>2, WaitMoves, ReleaseMoves
  <2>3. ASSUME wf'.q # <<>>, ~wf'.pop
        PROVE  /\ con'.phase = "strobe" => WaitLeft' + con'.since <= Serve + 3
               /\ con'.phase = "low" => WaitLeft' + con'.since + Pulse <= Serve + 2
    <3>1. Queued /\ ~Writes
      BY <1>3, <1>4, <2>3 DEF Queued
    <3>2. Writing /\ (Waits \/ Release) /\ Open' /\ con.phase \in {"low", "strobe"}
      BY <2>1, <3>1 DEF Writing, Open
    <3>3. PICK w \in Nat : w = WaitLeft'
      BY <3>1, <3>2, WaitEdge
    <3>4. PICK n \in Int : n = con'.since
      BY TypedStep DEF PiTyped
    <3>5. /\ WaitLeft \in Nat /\ w <= Serve + 1
          /\ wf.q # <<>> => w <= WaitLeft - 1
      BY <3>1, <3>2, <3>3, WaitEdge
    <3>6. con.since >= 0
      BY <1>1, <3>2 DEF ConsoleOk
    <3>7. Waits => n <= con.since + 1 /\ con'.phase = con.phase
      BY <1>1, <1>2, <3>4, <3>6, WaitMoves
    <3>8. Release => n = 0 /\ con.phase = "strobe" /\ con'.phase = "low" /\ con.since >= Pulse
      BY <1>1, <3>4, ReleaseMoves
    <3>9. CASE wf.push
      <4>1. con.phase = "strobe" /\ con.since = 1
        BY <1>1, <3>2, <3>9 DEF QueueOk
      <4>2. con'.phase = "strobe" => w + n <= Serve + 3
        BY <1>2, <3>2, <3>5, <3>7, <3>8, <4>1
      <4>3. con'.phase = "low" => w + n + Pulse <= Serve + 2
        BY <1>2, <3>2, <3>5, <3>7, <3>8, <4>1
      <4> QED BY <3>3, <3>4, <4>2, <4>3
    <3>10. CASE wf.q # <<>> /\ ~wf.pop
      <4>1. /\ con.phase = "strobe" => WaitLeft + con.since <= Serve + 3
            /\ con.phase = "low" => WaitLeft + con.since + Pulse <= Serve + 2
        BY <1>1, <3>2, <3>10 DEF QueueOk
      <4>2. con'.phase = "strobe" => w + n <= Serve + 3
        BY <1>2, <3>2, <3>5, <3>7, <3>8, <3>10, <4>1
      <4>3. con'.phase = "low" => w + n + Pulse <= Serve + 2
        BY <1>2, <3>2, <3>5, <3>7, <3>8, <3>10, <4>1
      <4> QED BY <3>3, <3>4, <4>2, <4>3
    <3> QED BY <3>1, <3>9, <3>10 DEF Queued
  <2> QED BY <2>2, <2>3
<1> QED BY <1>3, <1>7, <1>8, <1>9, <1>10, <1>11, <1>12 DEF QueueOk

\* A word waits until it goes on the bus, and is there until it is acknowledged.
LEMMA OwedEdge ==
  ASSUME PiInv, PiTick
  PROVE  /\ Queued' <=> (Queued /\ ~Writes) \/ OnLine
         /\ up => (InFlight' <=> Writes \/ (InFlight /\ ~Ack))
         /\ Writes => ~OnLine /\ Queued /\ ~InFlight
<1>1. /\ wf'.q = (IF wf.push THEN <<wf.data>> ELSE IF wf.pop THEN <<>> ELSE wf.q)
      /\ wf'.push <=> OnLine
      /\ wf'.pop <=> Writes
  BY WriteEdge
<1>2. wf'.q # <<>> <=> Queued
  <2>1. <<wf.data>> # <<>>
    OBVIOUS
  <2> QED BY <1>1, <2>1 DEF Queued
<1>3. Writes => ~OnLine /\ Queued /\ ~InFlight
  BY WritesFacts
<1>4. Queued' <=> (Queued /\ ~Writes) \/ OnLine
  BY <1>1, <1>2 DEF Queued
<1>5. ASSUME up PROVE InFlight' <=> Writes \/ (InFlight /\ ~Ack)
  <2>1. CASE bus.request
    BY <1>5, <2>1, RequestEdge, Kinds DEF InFlight
  <2>2. CASE ~bus.request
    <3>1. bus'.request <=> Writes \/ Reads
      BY <1>5, <2>2, NoRequestEdge
    <3>2. bus'.write <=> Writes \/ (bus.write /\ ~Reads)
      BY BusEdge
    <3> QED BY <2>2, <3>1, <3>2 DEF InFlight
  <2> QED BY <2>1, <2>2, Kinds
<1> QED BY <1>3, <1>4, <1>5

\* The last word that was strobed has a place.
LEMMA NewestPlace ==
  ASSUME PiInv, Writing
  PROVE  Newest \in Places /\ Newest.word \in Nat /\ Newest.word < PageWords /\ Newest.space = port.space
<1>1. ConsoleOk
  BY DEF PiInv
<1>2. /\ con.phase \in {"low", "strobe"} /\ con.dir = "write"
      /\ PageWords \in Nat /\ con.k \in Nat /\ con.word \in Nat /\ port.space \in Spaces
      /\ Here = con.word + con.k
  BY Kinds, Times DEF Writing, Open, Here
<1>3. CASE con.phase = "strobe"
  <2>1. Here < PageWords
    BY <1>1, <1>3 DEF ConsoleOk
  <2>2. Newest = [space |-> port.space, word |-> Here]
    BY <1>3 DEF Newest
  <2> QED BY <1>2, <2>1, <2>2 DEF Places, Words
<1>4. CASE con.phase = "low"
  <2>1. Here <= PageWords /\ con.k # 0
    BY <1>1, <1>2, <1>4 DEF ConsoleOk
  <2>2. Newest = [space |-> port.space, word |-> Here - 1]
    BY <1>4 DEF Newest
  <2> QED BY <1>2, <2>1, <2>2 DEF Places, Words
<1> QED BY <1>2, <1>3, <1>4

\* A console that writes goes on writing, and strobes for the word that follows.
LEMMA NewestEdge ==
  ASSUME PiInv, PiTick, Writing, Open'
  PROVE  /\ up /\ port' = port /\ Stays /\ Writing' /\ port.write = "mem"
         /\ Waits \/ Release \/ Strobe("write")
         /\ Waits \/ Release => ~OnLine' /\ Newest' = Newest /\ ~Strobe("write")
         /\ Strobe("write") => /\ OnLine' /\ Newest'.word = Newest.word + 1
                               /\ con.phase = "low" /\ con.since >= Gap
<1>1. PiTyped
  BY DEF PiInv
<1>2. /\ Open /\ con.dir = "write" /\ port.write = "mem"
  BY DEF Writing
<1>3. /\ up /\ port' = port /\ Stays /\ con'.phase \in {"low", "strobe"} /\ con.phase \in {"low", "strobe"}
      /\ line'.op # "alel"
  BY <1>2, OpenMoves
<1>4. Waits \/ Release \/ Strobe("write")
  BY <1>1, <1>2, <1>3, ConsoleSteps, HighMoves, LowMoves, EndMoves, ResetMoves, PowerMoves,
     StrobeMoves
<1>5. con'.dir = "write"
  BY <1>1, <1>2, <1>4, WaitMoves, ReleaseMoves, StrobeMoves
<1>6. Writing'
  BY <1>2, <1>3, <1>5 DEF Writing
<1>7. con.k \in Nat /\ con.word \in Nat /\ Here = con.word + con.k /\ Here' = con'.word + con'.k
      /\ con'.word = con.word
  BY <1>3, Kinds DEF Here, Stays
<1>8. Newest' = [space |-> port'.space, word |-> IF con'.phase = "strobe" THEN Here' ELSE Here' - 1]
  BY DEF Newest
<1>9. Newest = [space |-> port.space, word |-> IF con.phase = "strobe" THEN Here ELSE Here - 1]
  BY DEF Newest
<1>10. Waits => ~OnLine' /\ Newest' = Newest /\ ~Strobe("write")
  <2> SUFFICES ASSUME Waits PROVE ~OnLine' /\ Newest' = Newest /\ ~Strobe("write")
    OBVIOUS
  <2>1. line'.op = "none" /\ con'.phase = con.phase /\ con'.k = con.k
    BY <1>1, WaitMoves
  <2>2. ~Strobe("write")
    BY <1>1, <2>1, StrobeMoves
  <2> QED BY <1>3, <1>7, <1>8, <1>9, <2>1, <2>2 DEF OnLine
<1>11. Release => ~OnLine' /\ Newest' = Newest /\ ~Strobe("write")
  <2> SUFFICES ASSUME Release PROVE ~OnLine' /\ Newest' = Newest /\ ~Strobe("write")
    OBVIOUS
  <2>1. line'.op = "none" /\ con.phase = "strobe" /\ con'.phase = "low" /\ con'.k = con.k + 1
    BY <1>1, ReleaseMoves
  <2>2. ~Strobe("write")
    BY <1>1, <2>1, StrobeMoves
  <2>3. Here' - 1 = Here
    BY <1>7, <2>1
  <2> QED BY <1>3, <1>8, <1>9, <2>1, <2>2, <2>3 DEF OnLine
<1>12. Strobe("write") => /\ OnLine' /\ Newest'.word = Newest.word + 1
                          /\ con.phase = "low" /\ con.since >= Gap
  <2> SUFFICES ASSUME Strobe("write")
               PROVE  /\ OnLine' /\ Newest'.word = Newest.word + 1
                      /\ con.phase = "low" /\ con.since >= Gap
    OBVIOUS
  <2>1. /\ line'.op = "write" /\ con.phase = "low" /\ con.since >= Gap
        /\ con'.phase = "strobe" /\ con'.k = con.k
    BY <1>1, <1>2, StrobeMoves DEF StrobeOp
  <2>2. Newest'.word = Here' /\ Newest.word = Here - 1
    BY <1>8, <1>9, <2>1
  <2> QED BY <1>2, <1>3, <1>7, <2>1, <2>2 DEF OnLine
<1> QED BY <1>2, <1>3, <1>4, <1>6, <1>10, <1>11, <1>12

\* A word goes to the place of the last strobe.
LEMMA WritesAt ==
  ASSUME PiInv, PiTick, Writing, Writes
  PROVE  bus'.at = Newest
<1>1. PlaceOk /\ ControlOk /\ ConsoleOk
  BY DEF PiInv
<1>2. up /\ ~bus.request /\ Queued /\ ~OnLine /\ ~InFlight
  BY WritesFacts
<1>3. ~ctl.load
  BY <1>1 DEF ControlOk, Writing
<1>4. bus'.at = IF ctl.first THEN ctl.start ELSE bus.at
  BY <1>2, <1>3, NoRequestEdge
<1>5. CASE ctl.first
  BY <1>1, <1>4, <1>5 DEF PlaceOk
<1>6. CASE ~ctl.first
  <2>1. Newest \in Places /\ Newest.word \in Nat /\ Newest.word < PageWords /\ Newest.space = port.space
    BY NewestPlace
  <2>2. Owed = 1
    BY <1>2 DEF Owed
  <2>3. bus.at.space = port.space /\ (Newest.word + 1 - Owed < PageWords => bus.at.word = Newest.word + 1 - Owed)
    BY <1>1, <1>6 DEF PlaceOk
  <2>4. bus.at.word = Newest.word
    BY <2>1, <2>2, <2>3, Times
  <2> QED BY <1>4, <1>6, <2>1, <2>3, <2>4, SamePlace, Kinds
<1> QED BY <1>5, <1>6

\* The bus controller knows where the oldest word goes that is not written.
LEMMA PlaceStep ==
  ASSUME PiInv, PiTick
  PROVE  PlaceOk'
<1>1. PiTyped /\ ConsoleOk /\ LineOk /\ ControlOk /\ PlaceOk /\ FetchOk
  BY DEF PiInv
<1> SUFFICES ASSUME Writing'
             PROVE  /\ ctl'.first => Newest' = ctl'.start /\ (Queued' \/ OnLine')
                    /\ ctl'.first => ~InFlight'
                    /\ ~ctl'.first => /\ bus'.request => bus'.write
                                      /\ bus'.at.space = port'.space
                                      /\ Newest'.word + 1 - Owed' < PageWords =>
                                           bus'.at.word = Newest'.word + 1 - Owed'
  BY DEF PlaceOk
<1>2. Open' /\ port'.write = "mem" /\ con'.dir = "write"
  BY DEF Writing
<1>3. Open
  BY <1>2, OpenedMoves
<1>4. /\ up /\ line.op # "alel" /\ port' = port /\ Stays
  BY <1>2, <1>3, OpenMoves
<1>5. /\ ctl'.start = ctl.start
      /\ ctl'.first <=> ctl.first /\ ~Writes
      /\ bus'.request <=> ~Ack /\ (bus.request \/ Writes \/ Reads)
      /\ bus'.write <=> Writes \/ (bus.write /\ ~Reads)
  BY <1>4, BusEdge, Kinds
<1>6. /\ Queued' <=> (Queued /\ ~Writes) \/ OnLine
      /\ InFlight' <=> Writes \/ (InFlight /\ ~Ack)
      /\ Writes => ~OnLine /\ Queued /\ ~InFlight
  BY <1>4, OwedEdge
<1>7. CASE ~Writing
  <2>1. con.dir # "write"
    BY <1>2, <1>3, <1>4, <1>7 DEF Writing
  <2>2. Strobe("write") /\ con.dir = "none"
    <3>1. Strobe("write")
      BY <1>1, <1>2, <2>1, ConsoleSteps, WaitMoves, HighMoves, LowMoves, StrobeMoves, ReleaseMoves,
         EndMoves, ResetMoves, PowerMoves
    <3> QED BY <1>1, <2>1, <3>1, StrobeMoves
  <2>3. /\ con.phase = "low" /\ con.since >= Gap /\ con'.phase = "strobe" /\ con'.k = con.k
        /\ line'.op = "write"
    BY <1>1, <1>2, <1>4, <2>2, StrobeMoves DEF StrobeOp
  <2>4. con.k = 0
    BY <1>1, <2>2, <2>3 DEF ConsoleOk
  <2>5. ~Writes
    BY <2>3, Clear
  <2>6. ctl.first /\ ctl.start = [space |-> port.space, word |-> con.word]
    BY <1>1, <1>3, <1>7 DEF ControlOk
  <2>7. Newest' = [space |-> port.space, word |-> con.word]
    <3>1. Newest' = [space |-> port'.space, word |-> Here']
      BY <2>3 DEF Newest
    <3>2. Here' = con.word
      BY <1>4, <2>3, <2>4, Kinds DEF Here, Stays
    <3> QED BY <1>4, <3>1, <3>2
  <2>8. OnLine'
    BY <1>2, <2>3 DEF OnLine
  <2>9. ~InFlight
    BY <1>1, <1>4, <2>1, <2>3 DEF FetchOk, InFlight
  <2> QED BY <1>5, <1>6, <2>5, <2>6, <2>7, <2>8, <2>9
<1>8. CASE Writing
  <2>1. /\ Waits \/ Release \/ Strobe("write")
        /\ Waits \/ Release => ~OnLine' /\ Newest' = Newest /\ ~Strobe("write")
        /\ Strobe("write") => /\ OnLine' /\ Newest'.word = Newest.word + 1
                              /\ con.phase = "low" /\ con.since >= Gap
    BY <1>2, <1>8, NewestEdge
  <2>2. /\ ctl.first => Newest = ctl.start /\ (Queued \/ OnLine)
        /\ ctl.first => ~InFlight
        /\ ~ctl.first => /\ bus.request => bus.write
                         /\ bus.at.space = port.space
                         /\ Newest.word + 1 - Owed < PageWords =>
                              bus.at.word = Newest.word + 1 - Owed
    BY <1>1, <1>8 DEF PlaceOk
  <2>3. ctl.enabled <=> ctl.first
    BY <1>1, <1>3, <1>8 DEF ControlOk
  <2>4. ~ctl.load
    BY <1>1, <1>8 DEF ControlOk, Writing
  <2>5. /\ Newest \in Places /\ Newest.word \in Nat /\ Newest.word < PageWords /\ PageWords \in Nat
    BY <1>8, NewestPlace, Times
  <2>6. CASE ctl'.first
    <3>1. ctl.first /\ ~Writes
      BY <1>5, <2>6
    <3>2. ~Strobe("write")
      BY <1>8, <2>1, <3>1, Clear
    <3> QED BY <1>5, <1>6, <2>1, <2>2, <2>6, <3>1, <3>2
  <2>7. CASE ~ctl'.first /\ ctl.first
    <3>1. Writes
      BY <1>5, <2>7
    <3>2. ~Strobe("write")
      BY <2>1, <3>1, Clear
    <3>3. Newest' = Newest /\ ~OnLine'
      BY <2>1, <3>2
    <3>4. bus'.at = Newest
      BY <1>8, <3>1, WritesAt
    <3>5. ~Queued' /\ InFlight'
      BY <1>6, <3>1
    <3>6. Owed' = 1
      BY <3>3, <3>5 DEF Owed
    <3>7. Newest.space = port.space
      BY <1>8, NewestPlace
    <3>8. Newest'.word + 1 - Owed' = Newest.word
      BY <2>5, <3>3, <3>6
    <3> QED BY <1>4, <1>5, <2>7, <3>1, <3>4, <3>7, <3>8
  <2>8. CASE ~ctl.first
    <3>1. ~Reads
      BY <2>3, <2>8 DEF Reads
    <3>2. bus'.request => bus'.write
      BY <1>5, <2>2, <2>8, <3>1
    <3>3. Owed = (IF Queued \/ OnLine THEN 1 ELSE 0) + (IF InFlight THEN 1 ELSE 0) /\ Owed \in Nat
      BY DEF Owed
    <3>4. PICK d \in Int : d = Newest.word + 1 - Owed
      BY <2>5, <3>3
    <3>5. PICK o \in {0, 1} : o = (IF Queued' \/ OnLine' THEN 1 ELSE 0)
      OBVIOUS
    <3>6. PICK f \in {0, 1} : f = (IF InFlight' THEN 1 ELSE 0)
      OBVIOUS
    <3>7. Owed' = o + f
      BY <3>5, <3>6 DEF Owed
    <3>8. InFlight <=> bus.request
      BY <2>2, <2>8 DEF InFlight
    <3>9. PICK w \in Nat : w = Newest'.word
      BY <2>1, <2>5
    \* the distance to the place on the bus changes with the acknowledgement only
    <3>10. w + 1 - (o + f) = d + (IF Ack THEN 1 ELSE 0)
      <4>1. Ack => InFlight /\ ~Writes
        BY <1>4, <1>6, <3>8, Acked
      <4>2. CASE Strobe("write")
        <5>1. ~Queued /\ ~OnLine /\ ~Writes /\ OnLine' /\ w = Newest.word + 1
          BY <2>1, <3>9, <4>2, Clear
        <5>2. o = 1 /\ f = (IF InFlight /\ ~Ack THEN 1 ELSE 0) /\ d = Newest.word + 1 - (IF InFlight THEN 1 ELSE 0)
          BY <1>6, <2>5, <3>3, <3>4, <3>5, <3>6, <5>1
        <5> QED BY <2>5, <4>1, <5>1, <5>2
      <4>3. CASE ~Strobe("write") /\ Writes
        <5>1. w = Newest.word /\ o = 0 /\ f = 1 /\ Owed = 1 /\ ~Ack
          BY <1>6, <2>1, <3>3, <3>5, <3>6, <3>9, <4>1, <4>3
        <5> QED BY <2>5, <3>4, <5>1
      <4>4. CASE ~Strobe("write") /\ ~Writes
        <5>1. w = Newest.word /\ o = (IF Queued \/ OnLine THEN 1 ELSE 0) /\ f = (IF InFlight /\ ~Ack THEN 1 ELSE 0)
          BY <1>6, <2>1, <3>5, <3>6, <3>9, <4>4
        <5> QED BY <2>5, <3>3, <3>4, <4>1, <5>1
      <4> QED BY <4>2, <4>3, <4>4
    <3>11. Newest'.word + 1 - Owed' = w + 1 - (o + f) /\ ~ctl'.first
      BY <1>5, <2>8, <3>7, <3>9
    <3>12. bus.at.space = port.space /\ (d < PageWords => bus.at.word = d)
      BY <2>2, <2>8, <3>4
    <3>13. CASE Ack
      <4>1. bus'.at = After(bus.at)
        BY <1>4, <3>13, Acked, RequestEdge
      <4>2. bus'.at.space = port.space
        BY <3>12, <4>1, AfterPlace, Kinds
      <4>3. ASSUME w + 1 - (o + f) < PageWords PROVE bus'.at.word = w + 1 - (o + f)
        <5>1. d + 1 < PageWords /\ w + 1 - (o + f) = d + 1
          BY <3>10, <3>13, <4>3
        <5>2. bus.at.word = d
          BY <2>5, <3>12, <5>1
        <5>3. bus'.at.word = d + 1
          BY <4>1, <5>1, <5>2, AfterPlace, Kinds
        <5> QED BY <5>1, <5>3
      <4> QED BY <1>4, <3>2, <3>11, <4>2, <4>3
    <3>14. CASE ~Ack
      <4>1. bus'.at = bus.at
        BY <1>4, <2>4, <2>8, <3>14, RequestEdge, NoRequestEdge, Kinds
      <4>2. w + 1 - (o + f) = d
        BY <3>10, <3>14
      <4> QED BY <1>4, <3>2, <3>11, <3>12, <4>1, <4>2
    <3> QED BY <3>13, <3>14
  <2> QED BY <2>6, <2>7, <2>8
<1> QED BY <1>7, <1>8

\* A place has a word.
LEMMA AtInt ==
  ASSUME NEW c \in [Spaces -> [Words -> Int]], NEW p \in Places
  PROVE  At(c, p) \in Int
BY DEF At, Places

\* What a memory writes for the N64 it has been at, or is asked for now.
LEMMA WriteWorks ==
  ASSUME PiInv, PiTick, NEW m \in Memory, work'[m].who = "n64", work'[m].write
  PROVE  /\ \/ work[m].who = "n64" /\ work[m].write /\ work'[m].data = work[m].data
            \/ InFlight /\ work'[m].data = bus.data
         /\ ~Ack /\ bus'.at = bus.at
<1>1. /\ work[m].left \in 0 .. Latency /\ work[m].who \in {"none", "n64", "other"}
      /\ Latency \in Nat /\ work[m].write \in BOOLEAN /\ bus.write \in BOOLEAN
  BY Times DEF PiInv, PiTyped
<1>2. Held
  BY DEF PiInv
<1>3. CASE work[m].left > 0
  <2>1. work[m].who = "n64" /\ (work[m].write <=> work'[m].write) /\ work'[m].data = work[m].data
    BY <1>3, WorkEdge
  <2>2. m = Asked /\ (bus.request \/ con.phase = "off")
    BY <1>2, <2>1 DEF Held, Asked
  <2>3. ~Ack
    BY <1>1, <1>3, <2>2, Acked
  <2> QED BY <2>1, <2>2, <2>3, RequestEdge, OffEdge, Kinds
<1>4. CASE work[m].left = 0 /\ work[m].who = "none" /\ Asks(m)
  <2>1. (work'[m].write <=> bus.write) /\ work'[m].data = bus.data
    BY <1>4, WorkEdge
  <2>2. bus.request /\ m = Asked
    BY <1>4 DEF Asks, Asked
  <2>3. ~Ack
    BY <1>4, <2>2, Acked
  <2> QED BY <2>1, <2>2, <2>3, RequestEdge, OffEdge, Kinds DEF InFlight
<1>5. CASE work[m].left = 0 /\ work[m].who # "none"
  BY <1>5, WorkEdge
<1>6. CASE work[m].left = 0 /\ work[m].who = "none" /\ ~Asks(m)
  BY <1>6, WorkEdge
<1> QED BY <1>1, <1>3, <1>4, <1>5, <1>6

\* The word that is written is what the N64 is being served with.
LEMMA WriteAck ==
  ASSUME PiInv, Ack, bus.write
  PROVE  /\ Asked \in Memory /\ work[Asked].who = "n64" /\ work[Asked].write /\ work[Asked].data = bus.data
         /\ up => InFlight
<1>1. Asked \in Memory /\ AckOf(Asked)
  BY Acked DEF AckOf
<1>2. work[Asked].write = bus.write /\ work[Asked].data = bus.data
  BY <1>1, Acked
<1> QED BY <1>1, <1>2, Acked DEF AckOf, InFlight

\* The history changes with an address, which has rested before, and with a
\* word to memory that is strobed.
LEMMA ShadowEdge ==
  ASSUME PiInv, PiTick
  PROVE  /\ ~PutHigh => before' = before /\ con'.n = con.n
         /\ ~PutHigh /\ ~OnLine' => shadow' = shadow
         /\ OnLine' => /\ Strobe("write") /\ Newest' \in Places /\ Writing' /\ ~PutHigh
                       /\ line'.data = MaxBurst * con.n + con.k /\ con.k < MaxBurst
                       /\ \A p \in Places : At(shadow, p)' = IF p = Newest' THEN line'.data
                                                             ELSE At(shadow, p)
<1>1. PiTyped /\ ConsoleOk /\ LineOk /\ PortOk
  BY DEF PiInv
<1>2. ~PutHigh => before' = before /\ con'.n = con.n
  BY <1>1, ConsoleSteps, WaitMoves, LowMoves, StrobeMoves, ReleaseMoves, EndMoves, ResetMoves,
     PowerMoves DEF Stays
<1>3. OnLine' => Strobe("write")
  <2>1. ~Strobe("read") \/ line'.op # "write"
    BY <1>1, StrobeMoves DEF StrobeOp
  <2> QED BY <1>1, <2>1, ConsoleSteps, WaitMoves, HighMoves, LowMoves, ReleaseMoves, EndMoves,
             ResetMoves, PowerMoves DEF OnLine
<1>4. ASSUME Strobe("write")
      PROVE  /\ OnLine' <=> Writable(con.window, rights)
             /\ OnLine' => port.space = Place(con.window) /\ port' = port /\ Newest' = [space |-> port.space, word |-> Here]
                           /\ Here \in Words
  <2>1. con.phase = "low" /\ Here < PageWords /\ con'.phase = "strobe" /\ Stays /\ con'.k = con.k
        /\ line'.op = StrobeOp("write")
    BY <1>1, <1>4, StrobeMoves
  <2>2. con.n # 0 /\ line.op # "aleh"
    BY <1>1, <2>1 DEF ConsoleOk, LineOk
  <2>3. port' = port /\ port = Decode(con.window, rights)
    BY <1>1, <2>1, <2>2, PortStays DEF PortOk
  <2>4. OnLine' <=> port.write = "mem"
    BY <2>1, <2>3 DEF OnLine, StrobeOp
  <2>5. Newest' = [space |-> port'.space, word |-> Here'] /\ Here' = Here
    BY <2>1 DEF Newest, Here, Stays
  <2>6. Here \in Words
    BY <2>1, Kinds, Times DEF Words
  <2> QED BY <2>3, <2>4, <2>5, <2>6, Decoded
<1>5. ASSUME ~PutHigh, ~OnLine' PROVE shadow' = shadow
  <2>1. Strobe("write") => shadow' = shadow
    BY <1>1, <1>4, <1>5, StrobeMoves
  <2>2. Strobe("read") => shadow' = shadow
    BY <1>1, StrobeMoves
  <2> QED BY <1>1, <1>5, <2>1, <2>2, ConsoleSteps, WaitMoves, LowMoves, ReleaseMoves, EndMoves,
             ResetMoves, PowerMoves
<1>6. ASSUME OnLine'
      PROVE  /\ Strobe("write") /\ Newest' \in Places /\ Writing' /\ ~PutHigh
             /\ line'.data = MaxBurst * con.n + con.k /\ con.k < MaxBurst
             /\ \A p \in Places : At(shadow, p)' = IF p = Newest' THEN line'.data
                                                   ELSE At(shadow, p)
  <2>1. Strobe("write")
    BY <1>3, <1>6
  <2>2. /\ Writable(con.window, rights) /\ port.space = Place(con.window) /\ port' = port
        /\ Newest' = [space |-> port.space, word |-> Here] /\ Here \in Words
    BY <1>4, <1>6, <2>1
  <2>3. /\ con.phase = "low" /\ con'.phase = "strobe" /\ con'.dir = "write"
        /\ line'.data = MaxBurst * con.n + con.k /\ con.k < MaxBurst
        /\ shadow' = [shadow EXCEPT ![Place(con.window)][Here] = line'.data]
    BY <1>1, <2>1, <2>2, StrobeMoves
  <2>4. Newest' \in Places
    BY <2>2, Kinds DEF Places
  <2>5. ~PutHigh
    BY <1>1, <2>3, HighMoves
  <2>6. Writing'
    BY <1>6, <2>3 DEF Writing, Open, OnLine
  <2>7. ASSUME NEW p \in Places
        PROVE  At(shadow, p)' = IF p = Newest' THEN line'.data ELSE At(shadow, p)
    <3>1. shadow \in [Spaces -> [Words -> Int]] /\ p.space \in Spaces /\ p.word \in Words
          /\ p = [space |-> p.space, word |-> p.word]
      BY <1>1 DEF PiTyped, Places
    <3>2. p = Newest' <=> p.space = port.space /\ p.word = Here
      BY <2>2, <3>1
    <3>3. shadow'[p.space][p.word] = IF p.space = port.space /\ p.word = Here THEN line'.data
                                     ELSE shadow[p.space][p.word]
      BY <2>2, <2>3, <3>1
    <3> QED BY <3>2, <3>3 DEF At
  <2> QED BY <2>1, <2>3, <2>4, <2>5, <2>6, <2>7
<1> QED BY <1>2, <1>5, <1>6

\* The word on the bus does not go where the next one is to.
LEMMA FlightPlace ==
  ASSUME PiInv, PiTick, OnLine', InFlight
  PROVE  bus.at # Newest'
<1>1. PiTyped /\ ConsoleOk /\ PlaceOk /\ FetchOk
  BY DEF PiInv
<1>2. Strobe("write") /\ Writing'
  BY ShadowEdge
<1>3. con.phase = "low" /\ con.since >= Gap /\ con.dir \in {"none", "write"} /\ up
  BY <1>1, <1>2, StrobeMoves, Kinds
<1>4. ~Queued /\ ~OnLine /\ Open
  BY <1>3, Clear
<1>5. con.dir = "write"
  BY <1>1, <1>3 DEF FetchOk, InFlight
<1>6. port' = port /\ port'.write = "mem" /\ Open'
  BY <1>2, <1>4, OpenMoves DEF Writing
<1>7. Writing
  BY <1>4, <1>5, <1>6 DEF Writing
<1>8. ~ctl.first /\ Owed = 1
  BY <1>1, <1>4, <1>7 DEF PlaceOk, Owed
<1>9. Newest.word \in Nat /\ Newest.word < PageWords /\ PageWords \in Nat
  BY <1>7, NewestPlace, Times
<1>10. bus.at.word = Newest.word
  <2>1. Newest.word + 1 - Owed < PageWords => bus.at.word = Newest.word + 1 - Owed
    BY <1>1, <1>7, <1>8 DEF PlaceOk
  <2> QED BY <1>8, <1>9, <2>1
<1>11. Newest'.word = Newest.word + 1
  BY <1>2, <1>6, <1>7, NewestEdge
<1> QED BY <1>9, <1>10, <1>11

\* All that was written is in its place or on its way.
LEMMA WrittenStep ==
  ASSUME PiInv, PiTick
  PROVE  Written'
<1>1. PiTyped /\ ConsoleOk /\ LineOk /\ Written /\ Held /\ Prompt
  BY DEF PiInv
<1> SUFFICES ASSUME ~torn'
             PROVE  /\ \A p \in Places :
                         \/ At(cells, p)' = At(shadow, p)'
                         \/ InFlight' /\ p = bus'.at
                         \/ (Queued' \/ OnLine') /\ p = Newest'
                    /\ InFlight' => bus'.data = At(shadow, bus.at)'
                    /\ Queued' => /\ wf'.q # <<>> => Head(wf'.q) = At(shadow, Newest)'
                                  /\ wf'.push => wf'.data = At(shadow, Newest)'
                    /\ OnLine' => line'.data = At(shadow, Newest)'
                    /\ con'.phase \in {"off", "idle"} => ~Queued'
                    /\ con'.phase = "off" =>
                         ~InFlight' /\ \A m \in Memory : work'[m].who # "n64" \/ ~work'[m].write
  BY DEF Written
<1>2. /\ Queued' <=> (Queued /\ ~Writes) \/ OnLine
      /\ up => (InFlight' <=> Writes \/ (InFlight /\ ~Ack))
      /\ Writes => ~OnLine /\ Queued /\ ~InFlight
  BY OwedEdge
<1>3. /\ ~PutHigh /\ ~OnLine' => shadow' = shadow
      /\ OnLine' => /\ Strobe("write") /\ Newest' \in Places /\ Writing' /\ ~PutHigh
                    /\ \A p \in Places : At(shadow, p)' = IF p = Newest' THEN line'.data
                                                          ELSE At(shadow, p)
  BY ShadowEdge
  \* What was written is in its place, and nothing is on its way.
<1>4. ASSUME ~Queued, ~OnLine, ~InFlight, ~Writes, ~OnLine', ~(Ack /\ bus.write),
             \A m \in Memory : work[m].who = "n64" => ~work[m].write,
             PutHigh \/ ~torn
      PROVE  /\ \A p \in Places : At(cells, p)' = At(shadow, p)'
             /\ ~Queued' /\ ~InFlight'
             /\ \A m \in Memory : work'[m].who # "n64" \/ ~work'[m].write
  <2>1. cells' = cells
    BY <1>4, CellsStay
  <2>2. ~torn => \A p \in Places : At(cells, p) = At(shadow, p)
    BY <1>1, <1>4 DEF Written
  <2>3. ASSUME NEW p \in Places PROVE At(cells, p)' = At(shadow, p)'
    <3>1. CASE PutHigh
      <4>1. shadow' = (IF torn THEN cells ELSE shadow)
        BY <1>1, <3>1, HighMoves
      <4> QED BY <2>1, <2>2, <4>1 DEF At
    <3>2. CASE ~PutHigh
      <4>1. shadow' = shadow /\ ~torn
        BY <1>3, <1>4, <3>2
      <4> QED BY <2>1, <2>2, <4>1 DEF At
    <3> QED BY <3>1, <3>2
  <2>4. ~InFlight'
    BY <1>2, <1>4, OffEdge, Kinds DEF InFlight
  <2>5. \A m \in Memory : work'[m].who # "n64" \/ ~work'[m].write
    BY <1>4, WriteWorks
  <2> QED BY <1>2, <1>4, <2>3, <2>4, <2>5
<1>5. CASE Settled /\ (PutHigh \/ Reset)
  <2>1. /\ ~Queued /\ ~OnLine /\ ~InFlight /\ ~Writes /\ up
        /\ \A m \in Memory : work[m].who = "n64" => ~work[m].write
    BY <1>5, Rested
  <2>2. ~(Ack /\ bus.write)
    BY <2>1, WriteAck
  <2>3. ~OnLine'
    BY <1>1, <1>5, HighMoves, ResetMoves DEF OnLine
  <2>4. PutHigh \/ ~torn
    BY <1>1, <1>5, ResetMoves
  <2> QED BY <1>4, <2>1, <2>2, <2>3, <2>4
<1>6. CASE ~up
  <2>1. con.phase = "off" /\ line.op = "none" /\ ~torn /\ line'.op = "none"
    BY <1>6, OffMoves
  <2>2. /\ ~Queued /\ ~OnLine /\ ~InFlight
        /\ \A m \in Memory : work[m].who = "n64" => ~work[m].write
    BY <1>1, <2>1 DEF Written, OnLine
  <2>3. ~(Ack /\ bus.write)
    BY <2>2, WriteAck
  <2>4. ~Writes /\ ~OnLine'
    BY <1>6, <2>1, OffEdge DEF OnLine
  <2> QED BY <1>4, <2>1, <2>2, <2>3, <2>4
<1>7. CASE up /\ ~PutHigh /\ ~Reset
  <2>1. ~torn
    BY <1>1, <1>7, ConsoleSteps, WaitMoves, LowMoves, StrobeMoves, ReleaseMoves, EndMoves,
       PowerMoves
  <2>2. /\ \A p \in Places :
             \/ At(cells, p) = At(shadow, p)
             \/ InFlight /\ p = bus.at
             \/ (Queued \/ OnLine) /\ p = Newest
        /\ InFlight => bus.data = At(shadow, bus.at)
        /\ Queued => /\ wf.q # <<>> => Head(wf.q) = At(shadow, Newest)
                     /\ wf.push => wf.data = At(shadow, Newest)
        /\ OnLine => line.data = At(shadow, Newest)
        /\ con.phase \in {"off", "idle"} => ~Queued
    BY <1>1, <2>1 DEF Written
  <2>3. Queued \/ OnLine => /\ Writing /\ Writing' /\ (Waits \/ Release) /\ Open'
                            /\ Newest' = Newest /\ ~OnLine'
    <3> SUFFICES ASSUME Queued \/ OnLine
                 PROVE  /\ Writing /\ Writing' /\ (Waits \/ Release) /\ Open'
                        /\ Newest' = Newest /\ ~OnLine'
      OBVIOUS
    <3>1. ~(con.phase = "idle" /\ Writes)
      BY <1>2, <2>2
    <3>2. Writing /\ Writing' /\ (Waits \/ Release) /\ Open'
      BY <1>7, <3>1, QueuedMoves
    <3> QED BY <3>2, NewestEdge
  <2>4. OnLine' => ~Queued' /\ ~Writes /\ ~Queued /\ ~OnLine
    BY <1>2, <2>3
  <2>5. con'.phase # "off"
    BY <1>7, OnMoves
  <2>6. con'.phase = "idle" => ~Queued'
    BY <1>2, <2>3 DEF Writing, Open
  \* a word goes on the bus for the place of the last strobe
  <2>7. Writes => bus'.at = Newest /\ bus'.data = At(shadow, Newest) /\ shadow' = shadow
    <3> SUFFICES ASSUME Writes
                 PROVE  bus'.at = Newest /\ bus'.data = At(shadow, Newest) /\ shadow' = shadow
      OBVIOUS
    <3>1. Queued /\ wf.q # <<>> /\ Writing /\ ~OnLine'
      BY <1>2, <2>3, WritesFacts
    <3>2. bus'.data = Head(wf.q)
      BY BusEdge
    <3> QED BY <1>3, <1>7, <2>2, <3>1, <3>2, WritesAt
  \* or stays there
  <2>8. InFlight /\ ~Ack => /\ bus'.at = bus.at /\ bus'.data = bus.data
                            /\ bus'.data = At(shadow, bus.at)'
    <3> SUFFICES ASSUME InFlight, ~Ack
                 PROVE  /\ bus'.at = bus.at /\ bus'.data = bus.data
                        /\ bus'.data = At(shadow, bus.at)'
      OBVIOUS
    <3>1. bus'.at = bus.at /\ bus'.data = bus.data
      BY <1>7, RequestEdge DEF InFlight
    <3>2. CASE OnLine'
      <4>1. bus.at # Newest' /\ bus.at \in Places
        BY <3>2, FlightPlace, Kinds
      <4>2. At(shadow, bus.at) = shadow'[bus.at.space][bus.at.word]
        BY <1>3, <3>2, <4>1 DEF At
      <4> QED BY <2>2, <3>1, <4>2 DEF At
    <3>3. CASE ~OnLine'
      BY <1>3, <1>7, <2>2, <3>1, <3>3 DEF At
    <3> QED BY <3>1, <3>2, <3>3
  <2>9. ASSUME NEW p \in Places
        PROVE  \/ At(cells, p)' = At(shadow, p)'
               \/ InFlight' /\ p = bus'.at
               \/ (Queued' \/ OnLine') /\ p = Newest'
    <3>1. CASE OnLine' /\ p = Newest'
      BY <3>1
    <3>2. CASE ~(OnLine' /\ p = Newest')
      <4>1. At(shadow, p)' = At(shadow, p)
        BY <1>3, <1>7, <3>2 DEF At
      <4>2. CASE Ack /\ bus.write /\ p = bus.at
        <5>1. InFlight
          BY <1>7, <4>2, WriteAck
        <5>2. At(cells, p)' = bus.data
          BY <4>2, CellsEdge
        <5> QED BY <2>2, <4>1, <4>2, <5>1, <5>2
      <4>3. CASE ~(Ack /\ bus.write /\ p = bus.at)
        <5>1. At(cells, p)' = At(cells, p)
          BY <4>3, CellsEdge
        <5>2. CASE At(cells, p) = At(shadow, p)
          BY <4>1, <5>1, <5>2
        <5>3. CASE InFlight /\ p = bus.at
          <6>1. ~Ack
            BY <4>3, <5>3 DEF InFlight
          <6> QED BY <1>2, <1>7, <2>8, <5>3, <6>1
        <5>4. CASE (Queued \/ OnLine) /\ p = Newest
          BY <1>2, <1>7, <2>3, <2>7, <5>4
        <5> QED BY <2>2, <5>2, <5>3, <5>4
      <4> QED BY <4>2, <4>3
    <3> QED BY <3>1, <3>2
  <2>10. InFlight' => bus'.data = At(shadow, bus.at)'
    <3>1. CASE Writes
      BY <2>7, <3>1 DEF At
    <3>2. CASE InFlight /\ ~Ack
      <4>1. bus'.at = bus.at /\ bus'.data = shadow'[bus'.at.space][bus'.at.word]
        BY <2>8, <3>2 DEF At
      <4> QED BY <4>1 DEF At
    <3> QED BY <1>2, <1>7, <3>1, <3>2
  <2>11. ASSUME Queued'
         PROVE  /\ wf'.q # <<>> => Head(wf'.q) = At(shadow, Newest)'
                /\ wf'.push => wf'.data = At(shadow, Newest)'
    <3>1. (Queued \/ OnLine) /\ Newest' = Newest /\ ~OnLine'
      BY <1>2, <2>3, <2>11
    <3>2. At(shadow, Newest)' = At(shadow, Newest)
      BY <1>3, <1>7, <3>1 DEF At
    <3>3. /\ wf'.q = (IF wf.push THEN <<wf.data>> ELSE IF wf.pop THEN <<>> ELSE wf.q)
          /\ wf'.push <=> OnLine
          /\ wf'.data = (IF OnLine THEN line.data ELSE wf.data)
      BY WriteEdge
    <3>4. wf'.push => wf'.data = At(shadow, Newest)
      BY <2>2, <3>3
    <3>5. ASSUME wf'.q # <<>> PROVE Head(wf'.q) = At(shadow, Newest)
      <4>1. CASE wf.push
        <5>1. Head(<<wf.data>>) = wf.data
          OBVIOUS
        <5>2. Queued
          BY <4>1 DEF Queued
        <5> QED BY <2>2, <3>3, <4>1, <5>1, <5>2
      <4>2. CASE ~wf.push
        <5>1. ~wf.pop /\ wf'.q = wf.q /\ wf.q # <<>>
          BY <3>3, <3>5, <4>2
        <5>2. Queued
          BY <5>1 DEF Queued
        <5> QED BY <2>2, <5>1, <5>2
      <4> QED BY <4>1, <4>2
    <3> QED BY <3>2, <3>4, <3>5
  <2>12. OnLine' => line'.data = At(shadow, Newest)'
    <3> SUFFICES ASSUME OnLine' PROVE line'.data = At(shadow, Newest)'
      OBVIOUS
    <3>1. PICK p \in Places : p = Newest'
      BY <1>3
    <3>2. At(shadow, p)' = line'.data
      BY <1>3, <3>1
    <3> QED BY <3>1, <3>2 DEF At
  <2> QED BY <2>5, <2>6, <2>9, <2>10, <2>11, <2>12
<1>8. CASE up /\ Reset /\ ~Settled
  BY <1>1, <1>8, ResetMoves
<1>9. PutHigh => Settled
  BY DEF PutHigh
<1> QED BY <1>5, <1>6, <1>7, <1>8, <1>9, Kinds

\* The words of an access are newer than those of the one before.
LEMMA BurstGrows ==
  ASSUME NEW n \in Nat
  PROVE  MaxBurst * n \in Nat /\ MaxBurst * (n + 1) = MaxBurst * n + MaxBurst
BY Times

\* The words of the memories are of this access at the newest.
LEMMA AgesStep ==
  ASSUME PiInv, PiTick
  PROVE  Ages'
<1>1. PiTyped /\ ConsoleOk /\ LineOk /\ Ages
  BY DEF PiInv
<1>2. /\ con.n \in Nat /\ con.k \in Nat /\ MaxBurst \in Nat
      /\ MaxBurst * con.n \in Nat /\ MaxBurst * (con.n + 1) = MaxBurst * con.n + MaxBurst
      /\ MaxBurst * (con.n + 1 + 1) = MaxBurst * (con.n + 1) + MaxBurst
  BY Times, Kinds, BurstGrows
<1>3. /\ cells \in [Spaces -> [Words -> Int]] /\ shadow \in [Spaces -> [Words -> Int]]
      /\ wf.q \in Seq(Int) /\ wf.data \in Int /\ bus.data \in Int
      /\ \A m \in Memory : work[m].data \in Int
  BY <1>1 DEF PiTyped
<1>4. /\ \A p \in Places : /\ Older(At(cells, p)) /\ Older(At(shadow, p))
                           /\ At(before, p) < MaxBurst * con.n
      /\ wf.q # <<>> => Older(Head(wf.q))
      /\ wf.push => Older(wf.data)
      /\ InFlight => Older(bus.data)
      /\ \A m \in Memory : work[m].who = "n64" /\ work[m].write => Older(work[m].data)
  BY <1>1 DEF Ages
<1>5. con'.n = con.n \/ (PutHigh /\ con'.n = con.n + 1)
  BY <1>1, ShadowEdge, HighMoves
<1> DEFINE Newer(v) == v < MaxBurst * (con'.n + 1)
<1>6. ASSUME NEW v \in Int, Older(v) PROVE Newer(v)
  <2>1. v < MaxBurst * (con.n + 1)
    BY <1>6 DEF Older
  <2> QED BY <1>2, <1>5, <2>1
<1> HIDE DEF Newer
<1>7. ASSUME NEW p \in Places PROVE Newer(At(cells, p)')
  <2>1. At(cells, p)' = (IF Ack /\ bus.write /\ p = bus.at THEN bus.data ELSE At(cells, p))
    BY CellsEdge
  <2>2. Ack /\ bus.write => Older(bus.data)
    BY <1>4, WriteAck
  <2>3. At(cells, p) \in Int
    BY <1>3, AtInt
  <2> QED BY <1>3, <1>4, <1>6, <2>1, <2>2, <2>3
<1>8. ASSUME NEW p \in Places
      PROVE  Newer(At(shadow, p)') /\ At(before, p)' < MaxBurst * con'.n
  <2>1. At(cells, p) \in Int /\ At(shadow, p) \in Int
    BY <1>3, AtInt
  <2>2. CASE PutHigh
    <3>1. shadow' = (IF torn THEN cells ELSE shadow) /\ before' = shadow' /\ con'.n = con.n + 1
      BY <1>1, <2>2, HighMoves
    <3>2. At(shadow, p)' \in {At(cells, p), At(shadow, p)} /\ At(before, p)' = At(shadow, p)'
      BY <3>1 DEF At
    <3>3. Older(At(shadow, p)') /\ At(shadow, p)' \in Int
      BY <1>4, <2>1, <3>2
    <3>4. Newer(At(shadow, p)')
      BY <1>6, <3>3
    <3>5. At(shadow, p)' < MaxBurst * (con.n + 1)
      BY <3>3 DEF Older
    <3> QED BY <3>1, <3>2, <3>4, <3>5
  <2>3. CASE ~PutHigh
    <3>1. before' = before /\ con'.n = con.n
      BY <2>3, ShadowEdge
    <3>2. At(before, p)' < MaxBurst * con'.n
      BY <1>4, <3>1 DEF At
    <3>3. CASE OnLine'
      <4>1. /\ line'.data = MaxBurst * con.n + con.k /\ con.k < MaxBurst
            /\ At(shadow, p)' \in {line'.data, At(shadow, p)}
        BY <3>3, ShadowEdge
      <4>2. Older(line'.data) /\ line'.data \in Int
        BY <1>2, <4>1 DEF Older
      <4> QED BY <1>4, <1>6, <2>1, <3>2, <4>1, <4>2
    <3>4. CASE ~OnLine'
      <4>1. At(shadow, p)' = At(shadow, p)
        BY <2>3, <3>4, ShadowEdge DEF At
      <4> QED BY <1>4, <1>6, <2>1, <3>2, <4>1
    <3> QED BY <3>3, <3>4
  <2> QED BY <2>2, <2>3
<1>9. /\ wf'.q = (IF wf.push THEN <<wf.data>> ELSE IF wf.pop THEN <<>> ELSE wf.q)
      /\ wf'.push <=> OnLine
      /\ wf'.data = (IF OnLine THEN line.data ELSE wf.data)
  BY WriteEdge
<1>10. wf.q # <<>> => Head(wf.q) \in Int
  BY <1>3
<1>11. wf'.q # <<>> => Newer(Head(wf'.q))
  <2>1. Head(<<wf.data>>) = wf.data
    OBVIOUS
  <2> QED BY <1>3, <1>4, <1>6, <1>9, <1>10, <2>1
<1>12. wf'.push => Newer(wf'.data)
  <2> SUFFICES ASSUME OnLine PROVE Newer(line.data)
    BY <1>9
  <2>1. con.phase = "strobe" /\ con.dir = "write"
    BY <1>1 DEF OnLine, LineOk
  <2>2. line.data = MaxBurst * con.n + con.k /\ con.k < MaxBurst
    BY <1>1, <2>1 DEF LineOk, ConsoleOk
  <2>3. line.data < MaxBurst * con.n + MaxBurst /\ line.data \in Int
    BY <1>2, <2>2
  <2>4. Older(line.data) /\ line.data \in Int
    BY <1>2, <2>3 DEF Older
  <2> QED BY <1>6, <2>4
<1>13. InFlight' => Newer(bus'.data)
  <2>1. CASE up
    <3>1. InFlight' <=> Writes \/ (InFlight /\ ~Ack)
      BY <2>1, OwedEdge
    <3>2. Writes => wf.q # <<>>
      BY WritesFacts
    <3>3. bus'.data = (IF Writes THEN Head(wf.q) ELSE bus.data)
      BY BusEdge
    <3> QED BY <1>3, <1>4, <1>6, <1>10, <3>1, <3>2, <3>3
  <2>2. CASE ~up
    BY <2>2, OffEdge DEF InFlight
  <2> QED BY <2>1, <2>2
<1>14. ASSUME NEW m \in Memory, work'[m].who = "n64", work'[m].write PROVE Newer(work'[m].data)
  <2>1. \/ work[m].who = "n64" /\ work[m].write /\ work'[m].data = work[m].data
        \/ InFlight /\ work'[m].data = bus.data
    BY <1>14, WriteWorks
  <2> QED BY <1>3, <1>4, <1>6, <2>1
<1> QED BY <1>7, <1>8, <1>11, <1>12, <1>13, <1>14 DEF Ages, Older, Newer

\* What has been touched stays so, until the next address.
LEMMA TouchedStays ==
  ASSUME PiInv, PiTick, ~PutHigh, NEW p \in Places
  PROVE  /\ Touched(p) => At(before, p)' # At(shadow, p)'
         /\ OnLine' /\ p = Newest' => At(before, p)' # At(shadow, p)'
         /\ ~(OnLine' /\ p = Newest') => At(shadow, p)' = At(shadow, p)
<1>1. At(before, p)' = At(before, p)
  BY ShadowEdge DEF At
<1>2. CASE OnLine' /\ p = Newest'
  <2>1. At(shadow, p)' = MaxBurst * con.n + con.k
    BY <1>2, ShadowEdge
  <2>2. At(before, p) < MaxBurst * con.n
    BY DEF PiInv, Ages
  <2>3. MaxBurst * con.n \in Nat /\ con.k \in Nat
    BY Kinds, BurstGrows
  <2>4. At(before, p) \in Int
    BY AtInt DEF PiInv, PiTyped
  <2> QED BY <1>1, <1>2, <2>1, <2>2, <2>3, <2>4
<1>3. CASE ~(OnLine' /\ p = Newest')
  <2>1. At(shadow, p)' = At(shadow, p)
    <3>1. CASE OnLine'
      BY <1>3, <3>1, ShadowEdge
    <3>2. CASE ~OnLine'
      BY <3>2, ShadowEdge DEF At
    <3> QED BY <3>1, <3>2
  <2> QED BY <1>1, <1>3, <2>1 DEF Touched
<1> QED BY <1>2, <1>3

\* A word that waits while the console is reset goes where it was meant to.
LEMMA StrandedAt ==
  ASSUME PiInv, PiTick, Writing, Reset, Queued \/ OnLine, ~Writes, ~ctl.first
  PROVE  bus'.at = Newest \/ (InFlight /\ bus'.at = bus.at)
<1>1. PlaceOk /\ ControlOk /\ ConsoleOk
  BY DEF PiInv
<1>2. up /\ ~ctl.load
  BY <1>1, OpenMoves DEF Writing, ControlOk
<1>3. /\ bus.request => bus.write
      /\ bus.at.space = port.space
      /\ Newest.word + 1 - Owed < PageWords => bus.at.word = Newest.word + 1 - Owed
  BY <1>1 DEF PlaceOk
<1>4. /\ Newest \in Places /\ Newest.word \in Nat /\ Newest.word < PageWords /\ Newest.space = port.space
      /\ PageWords \in Nat
  BY NewestPlace, Times
<1>5. CASE ~bus.request
  <2>1. bus'.at = bus.at
    BY <1>2, <1>5, NoRequestEdge
  <2>2. Owed = 1
    BY <1>5 DEF Owed, InFlight
  <2>3. bus.at.word = Newest.word
    BY <1>3, <1>4, <2>2
  <2> QED BY <1>3, <1>4, <2>1, <2>3, SamePlace, Kinds
<1>6. CASE bus.request /\ ~Ack
  BY <1>2, <1>3, <1>6, RequestEdge DEF InFlight
<1>7. CASE bus.request /\ Ack
  <2>1. bus'.at = After(bus.at)
    BY <1>2, <1>7, RequestEdge
  <2>2. Owed = 2
    BY <1>3, <1>7 DEF Owed, InFlight
  <2>3. bus.at.word = Newest.word - 1
    BY <1>3, <1>4, <2>2
  <2>4. bus.at.word + 1 < PageWords /\ bus.at.word + 1 = Newest.word
    BY <1>4, <2>3
  <2>5. After(bus.at) \in Places /\ After(bus.at).space = port.space /\ After(bus.at).word = Newest.word
    BY <1>3, <2>4, AfterPlace, Kinds
  <2> QED BY <1>4, <2>1, <2>5, SamePlace
<1> QED BY <1>5, <1>6, <1>7, Kinds

\* A reset spoils no place but those of its access.
LEMMA StraysStep ==
  ASSUME PiInv, PiTick
  PROVE  Strays'
<1>1. PiTyped /\ ConsoleOk /\ LineOk /\ PlaceOk /\ ControlOk
  BY DEF PiInv
<1>2. /\ \A p \in Places : At(cells, p) = At(shadow, p) \/ Touched(p)
      /\ InFlight => Touched(bus.at)
      /\ \A m \in Memory : work[m].who = "n64" /\ work[m].write => Touched(bus.at)
      /\ Queued /\ ~Writing => Touched(IF ctl.first THEN ctl.start ELSE bus.at)
      /\ Writing => Touched(Newest)
  BY DEF PiInv, Strays
<1>3. /\ Queued' <=> (Queued /\ ~Writes) \/ OnLine
      /\ up => (InFlight' <=> Writes \/ (InFlight /\ ~Ack))
      /\ Writes => ~OnLine /\ Queued /\ ~InFlight
  BY OwedEdge
<1> DEFINE New(p) == before'[p.space][p.word] # shadow'[p.space][p.word]
<1> SUFFICES /\ \A p \in Places : At(cells, p)' = At(shadow, p)' \/ New(p)
             /\ InFlight' => New(bus'.at)
             /\ \A m \in Memory : work'[m].who = "n64" /\ work'[m].write => New(bus'.at)
             /\ Queued' /\ ~Writing' => New(IF ctl'.first THEN ctl'.start ELSE bus'.at)
             /\ Writing' => New(Newest')
  BY DEF Strays, Touched, At
<1>4. CASE PutHigh
  <2>1. /\ ~Queued /\ ~OnLine /\ ~InFlight /\ ~Writes /\ up
        /\ \A m \in Memory : work[m].who = "n64" => ~work[m].write
    BY <1>4, Rested DEF PutHigh
  <2>2. cells' = cells
    BY <2>1, WriteAck, CellsStay
  <2>3. shadow' = (IF torn THEN cells ELSE shadow) /\ con'.phase = "high"
    BY <1>1, <1>4, HighMoves
  <2>4. ASSUME NEW p \in Places PROVE At(cells, p)' = At(shadow, p)'
    <3>1. CASE torn
      BY <2>2, <2>3, <3>1 DEF At
    <3>2. CASE ~torn
      <4>1. At(cells, p) = At(shadow, p)
        BY <2>1, <3>2 DEF PiInv, Written
      <4> QED BY <2>2, <2>3, <3>2, <4>1 DEF At
    <3> QED BY <3>1, <3>2
  <2>5. ~InFlight' /\ ~Queued' /\ ~Writing'
    BY <1>3, <2>1, <2>3 DEF Writing, Open
  <2>6. ASSUME NEW m \in Memory PROVE ~(work'[m].who = "n64" /\ work'[m].write)
    BY <2>1, WriteWorks
  <2> QED BY <2>4, <2>5, <2>6
<1>5. CASE ~PutHigh
  <2>1. ASSUME NEW p \in Places
        PROVE  /\ Touched(p) => New(p)
               /\ OnLine' /\ p = Newest' => New(p)
               /\ ~(OnLine' /\ p = Newest') => At(shadow, p)' = At(shadow, p)
    BY <1>5, TouchedStays DEF At
  <2> HIDE DEF New
  <2>2. bus.at \in Places /\ ctl.start \in Places /\ (Writing => Newest \in Places)
    BY <1>1, NewestPlace DEF PiTyped
  <2>3. ASSUME NEW p \in Places PROVE At(cells, p)' = At(shadow, p)' \/ New(p)
    <3>1. At(cells, p)' = (IF Ack /\ bus.write /\ p = bus.at THEN bus.data ELSE At(cells, p))
      BY CellsEdge
    <3>2. CASE Ack /\ bus.write /\ p = bus.at
      <4>1. Touched(bus.at)
        BY <1>2, <3>2, WriteAck
      <4> QED BY <2>1, <2>2, <3>2, <4>1
    <3>3. CASE ~(Ack /\ bus.write /\ p = bus.at)
      BY <1>2, <2>1, <3>1, <3>3
    <3> QED BY <3>2, <3>3
  <2>4. InFlight' => New(bus'.at)
    <3> SUFFICES ASSUME InFlight' PROVE New(bus'.at)
      OBVIOUS
    <3>1. up
      BY OffEdge DEF InFlight
    <3>2. CASE InFlight /\ ~Ack
      <4>1. bus'.at = bus.at
        BY <3>1, <3>2, RequestEdge DEF InFlight
      <4> QED BY <1>2, <2>1, <2>2, <3>2, <4>1
    <3>3. CASE Writes /\ Writing
      <4>1. bus'.at = Newest
        BY <3>3, WritesAt
      <4> QED BY <1>2, <2>1, <2>2, <3>3, <4>1
    <3>4. CASE Writes /\ ~Writing
      <4>1. con.phase = "idle" /\ ~bus.request /\ Queued
        BY <1>3, <3>4, WritesFacts
      <4>2. ~ctl.load
        BY <1>1, <3>1, <4>1 DEF ControlOk, Open
      <4>3. bus'.at = (IF ctl.first THEN ctl.start ELSE bus.at)
        BY <3>1, <3>4, <4>1, <4>2, NoRequestEdge
      <4>4. Touched(IF ctl.first THEN ctl.start ELSE bus.at)
        BY <1>2, <3>4, <4>1
      <4> QED BY <2>1, <2>2, <4>3, <4>4
    <3> QED BY <1>3, <3>1, <3>2, <3>3, <3>4
  <2>5. ASSUME NEW m \in Memory, work'[m].who = "n64", work'[m].write PROVE New(bus'.at)
    <3>1. /\ InFlight \/ (work[m].who = "n64" /\ work[m].write)
          /\ bus'.at = bus.at
      BY <2>5, WriteWorks
    <3> QED BY <1>2, <2>1, <2>2, <3>1
  <2>6. ASSUME Queued', ~Writing' PROVE New(IF ctl'.first THEN ctl'.start ELSE bus'.at)
    <3>1. (Queued \/ OnLine) /\ ~Writes
      BY <1>3, <2>6
    <3>2. CASE Writing /\ up /\ Reset
      <4>1. ctl'.start = ctl.start /\ (ctl'.first <=> ctl.first)
        BY <3>1, <3>2, OpenMoves, BusEdge, Kinds DEF Writing
      <4>2. CASE ctl.first
        <5>1. ctl.start = Newest
          BY <1>1, <3>2, <4>2 DEF PlaceOk
        <5> QED BY <1>2, <2>1, <2>2, <3>2, <4>1, <4>2, <5>1
      <4>3. CASE ~ctl.first
        <5>1. bus'.at = Newest \/ (InFlight /\ bus'.at = bus.at)
          BY <3>1, <3>2, <4>3, StrandedAt
        <5> QED BY <1>2, <2>1, <2>2, <3>2, <4>1, <4>3, <5>1
      <4> QED BY <4>2, <4>3
    <3>3. CASE ~up
      <4>1. /\ ctl'.start = ctl.start /\ (ctl'.first <=> ctl.first) /\ bus'.at = bus.at
            /\ con.phase = "off" /\ line.op = "none"
        BY <3>3, OffEdge, OffMoves
      <4>2. Queued /\ ~Writing
        BY <3>1, <4>1 DEF OnLine, Writing, Open
      <4>3. Touched(IF ctl.first THEN ctl.start ELSE bus.at)
        BY <1>2, <4>2
      <4> QED BY <2>1, <2>2, <4>1, <4>3
    <3> QED BY <2>6, <3>1, <3>2, <3>3, QueuedMoves
  <2>7. ASSUME Writing' PROVE New(Newest')
    <3>1. CASE OnLine'
      <4>1. Newest' \in Places
        BY <3>1, ShadowEdge
      <4> QED BY <2>1, <3>1, <4>1
    <3>2. CASE ~OnLine'
      <4>1. Open' /\ port'.write = "mem" /\ con'.dir = "write"
        BY <2>7 DEF Writing
      <4>2. Open
        BY <4>1, OpenedMoves
      <4>3. port' = port
        BY <4>2, OpenMoves
      <4>4. Strobe("write") => OnLine'
        BY <1>1, <4>1, <4>3, StrobeMoves DEF StrobeOp, OnLine
      <4>5. Writing
        <5>1. con.dir = "write"
          BY <1>1, <3>2, <4>1, <4>2, <4>4, ConsoleSteps, WaitMoves, HighMoves, LowMoves,
             StrobeMoves,
             ReleaseMoves, EndMoves, ResetMoves, PowerMoves
        <5> QED BY <4>1, <4>2, <4>3, <5>1 DEF Writing
      <4>6. Newest' = Newest
        BY <3>2, <4>1, <4>4, <4>5, NewestEdge
      <4> QED BY <1>2, <2>1, <2>2, <4>5, <4>6
    <3> QED BY <3>1, <3>2
  <2> QED BY <2>3, <2>4, <2>5, <2>6, <2>7
<1> QED BY <1>4, <1>5

\* Every word has a value of its own, below those the console writes.
LEMMA InitialWords ==
  ASSUME NEW s \in Spaces, NEW a \in Words
  PROVE  Initial(s, a) \in Int /\ Initial(s, a) < 0
<1> DEFINE Names == <<"rom", "save", "ddipl", "boot", "shadow", "extended", "buffer">>
           n == CHOOSE i \in 1 .. 7 : Names[i] = s
<1>1. \E i \in 1 .. 7 : Names[i] = s
  <2>1. /\ Names[1] = "rom" /\ Names[2] = "save" /\ Names[3] = "ddipl" /\ Names[4] = "boot"
        /\ Names[5] = "shadow" /\ Names[6] = "extended" /\ Names[7] = "buffer"
    OBVIOUS
  <2>2. /\ 1 \in 1 .. 7 /\ 2 \in 1 .. 7 /\ 3 \in 1 .. 7 /\ 4 \in 1 .. 7
        /\ 5 \in 1 .. 7 /\ 6 \in 1 .. 7 /\ 7 \in 1 .. 7
    OBVIOUS
  <2>3. s \in {"rom", "save", "ddipl", "boot", "shadow", "extended", "buffer"}
    BY DEF Spaces
  <2> HIDE DEF Names
  <2> QED BY <2>1, <2>2, <2>3
<1>2. n \in 1 .. 7
  <2> HIDE DEF Names
  <2> QED BY <1>1
<1>3. Initial(s, a) = 0 - PageWords * n - a
  BY DEF Initial
<1> HIDE DEF n
<1>4. PageWords \in Nat /\ PageWords > 0 /\ a \in Nat
  BY Times DEF Words
<1>5. PageWords * n \in Nat /\ PageWords * n > 0
  <2>1. n \in {1, 2, 3, 4, 5, 6, 7}
    BY <1>2
  <2> QED BY <1>4, <2>1
<1>6. 0 - PageWords * n - a \in Int /\ 0 - PageWords * n - a < 0
  <2> DEFINE m == PageWords * n
  <2>1. m \in Nat /\ m > 0
    BY <1>5
  <2> HIDE DEF m
  <2>2. 0 - m - a \in Int /\ 0 - m - a < 0
    BY <1>4, <2>1
  <2> QED BY <2>2 DEF m
<1> QED BY <1>3, <1>6

\* The invariant holds before the bus has been used.
LEMMA PiStart == PiInit => PiInv
<1> SUFFICES ASSUME PiInit PROVE PiInv
  OBVIOUS
<1>1. /\ up = TRUE /\ line.op = "none" /\ line.data = 0
      /\ line \in [op : {"none", "aleh", "alel", "read", "write", "end"}, data : Int]
      /\ port = NoPort /\ active = [m \in Memory |-> FALSE]
      /\ dq = 0 /\ torn = FALSE /\ counted = 0 /\ done = FALSE
  BY DEF PiInit
<1>2. /\ rf = [q |-> <<>>, pop |-> FALSE, wait |-> FALSE]
      /\ wf = [q |-> <<>>, push |-> FALSE, data |-> 0, wait |-> FALSE, pop |-> FALSE]
      /\ ctl = [start |-> [space |-> "rom", word |-> 0], load |-> FALSE, enabled |-> FALSE,
                first |-> FALSE]
      /\ bus = [request |-> FALSE, write |-> FALSE, data |-> 0,
                at |-> [space |-> "rom", word |-> 0]]
      /\ reg = [word |-> 0, inc |-> FALSE, write |-> FALSE, data |-> 0]
  BY DEF PiInit
<1>3. con.phase = "idle" /\ con.since = 0 /\ con.window = "rom" /\ con.word = 0 /\ con.k = 0
      /\ con.n = 0 /\ con.dir = "none"
  BY DEF PiInit, NotStarted
<1>4. cells = [s \in Spaces |-> [a \in Words |-> Initial(s, a)]] /\ shadow = cells /\ before = cells
      /\ work = [m \in Memory |-> Idle]
  BY DEF PiInit
<1>5. cells \in [Spaces -> [Words -> Int]]
  BY <1>4, InitialWords
<1>6. [space |-> "rom", word |-> 0] \in Places /\ 0 \in Words
  BY Times DEF Places, Spaces, Words
<1>7. \A m \in Memory : work[m] = Idle
  BY <1>4
<1>8. PiTyped
  <2>1. con \in [phase : {"idle", "high", "low", "strobe", "off"}, since : Int,
                 window : Windows \cup {"rom"}, word : Words, k : Nat, n : Nat,
                 dir : {"none", "read", "write"}]
    BY <1>6 DEF PiInit, NotStarted
  <2>2. work \in [Memory -> [who : {"none", "n64", "other"}, left : 0 .. Latency,
                             write : BOOLEAN, at : Places, data : Int]]
    <3>1. 0 \in 0 .. Latency
      BY Times
    <3> QED BY <1>4, <1>6, <3>1 DEF Idle
  <2>3. port \in [read : {"mem", "reg", "none"}, write : {"mem", "reg", "none"},
                  space : Spaces, sram : BOOLEAN]
    BY <1>1 DEF NoPort, Spaces
  <2>4. <<>> \in Seq(Int)
    OBVIOUS
  <2>5. /\ rf \in [q : Seq(Int), pop : BOOLEAN, wait : BOOLEAN]
        /\ wf \in [q : Seq(Int), push : BOOLEAN, data : Int, wait : BOOLEAN, pop : BOOLEAN]
    BY <1>2, <2>4
  <2>6. /\ ctl \in [start : Places, load : BOOLEAN, enabled : BOOLEAN, first : BOOLEAN]
        /\ bus \in [request : BOOLEAN, write : BOOLEAN, data : Int, at : Places]
        /\ reg \in [word : Int, inc : BOOLEAN, write : BOOLEAN, data : Int]
    BY <1>2, <1>6
  <2>7. active \in [Memory -> BOOLEAN]
    BY <1>1
  <2> QED BY <1>1, <1>4, <1>5, <2>1, <2>2, <2>3, <2>5, <2>6, <2>7 DEF PiTyped
<1>9. ~Open /\ ~Reading /\ ~Writing /\ ~Queued /\ ~OnLine /\ ~InFlight
  BY <1>1, <1>2, <1>3 DEF Open, Reading, Writing, Queued, OnLine, InFlight
<1>10. ConsoleOk
  BY <1>1, <1>3, Times DEF ConsoleOk
<1>11. LineOk /\ PortOk
  BY <1>1, <1>3 DEF LineOk, PortOk
<1>12. Held /\ Alone /\ Prompt
  BY <1>1, <1>2, <1>3, <1>7, <1>9 DEF Held, Alone, Prompt, Idle, NoPort
<1>13. ControlOk /\ Got /\ PlaceOk
  BY <1>1, <1>2, <1>3, <1>9 DEF ControlOk, Got, PlaceOk
<1>14. FetchOk
  <2>1. Len(rf.q) + (IF bus.request /\ ~bus.write THEN 1 ELSE 0) <= FifoWords
    <3>1. Len(rf.q) = 0 /\ ~bus.request
      BY <1>2
    <3> QED BY <3>1, Times
  <2> QED BY <1>2, <1>3, <1>9, <2>1 DEF FetchOk
<1>15. QueueOk
  <2>1. Len(wf.q) + (IF wf.push THEN 1 ELSE 0) <= 1
    <3>1. Len(wf.q) = 0 /\ ~wf.push
      BY <1>2
    <3> QED BY <3>1
  <2> QED BY <1>2, <1>3, <1>9, <2>1 DEF QueueOk
<1>16. Written /\ Strays
  BY <1>3, <1>4, <1>7, <1>9 DEF Written, Strays, Idle
<1>17. Ages
  <2>1. MaxBurst * con.n = 0 /\ MaxBurst * (con.n + 1) \in Nat
    BY <1>3, Times
  <2>2. ASSUME NEW p \in Places PROVE At(cells, p) \in Int /\ At(cells, p) < 0
    BY <1>4, InitialWords DEF At, Places
  <2>3. \A p \in Places : Older(At(cells, p)) /\ At(cells, p) < MaxBurst * con.n
    BY <2>1, <2>2 DEF Older
  <2> QED BY <1>2, <1>4, <1>7, <1>9, <2>3 DEF Ages, Idle
<1>18. RegOk /\ CountOk
  <2>1. ~Saves
    BY <1>3 DEF Saves
  <2> QED BY <1>1, <1>2, <1>3, <1>9, <2>1 DEF RegOk, CountOk
<1> QED BY <1>8, <1>10, <1>11, <1>12, <1>13, <1>14, <1>15, <1>16, <1>17, <1>18 DEF PiInv

\* The switches of the controller count when the address comes only.
LEMMA PiStays ==
  ASSUME PiInv, UNCHANGED <<up, line, piRegs, cells, work, con, piHist, rights, counted>>
  PROVE  PiInv'
<1>1. /\ up' = up /\ line' = line /\ port' = port /\ active' = active /\ rf' = rf /\ wf' = wf
      /\ dq' = dq /\ ctl' = ctl /\ bus' = bus /\ reg' = reg /\ done' = done
      /\ cells' = cells /\ work' = work /\ con' = con
      /\ shadow' = shadow /\ before' = before /\ torn' = torn /\ rights' = rights /\ counted' = counted
  BY DEF piRegs, piHist
<1> USE <1>1 DEF PiInv
<1>2. PiTyped' /\ ConsoleOk' /\ LineOk' /\ PortOk'
  BY DEF PiTyped, ConsoleOk, LineOk, PortOk, Here, Way
<1>3. Held' /\ Alone'
  BY DEF Held, Alone, Taken
<1>4. Open' = Open /\ Reading' = Reading /\ Writing' = Writing
  BY DEF Open, Reading, Writing
<1>5. Remaining' = Remaining /\ WaitLeft' = WaitLeft /\ Until' = Until
  BY DEF Remaining, Taken, WaitLeft, Until
<1>6. /\ Queued' = Queued /\ OnLine' = OnLine /\ InFlight' = InFlight /\ Newest' = Newest
      /\ Untaken' = Untaken /\ Ahead' = Ahead /\ Here' = Here
  BY DEF Queued, OnLine, InFlight, Newest, Untaken, Ahead, Popped, Here
<1>7. Owed' = Owed /\ NextWord' = NextWord
  BY <1>6 DEF Owed, NextWord
<1>8. Prompt' /\ ControlOk'
  BY <1>4, <1>5 DEF Prompt, ControlOk
<1>9. FetchOk' /\ Got'
  <2>1. FetchOk /\ Got
    OBVIOUS
  <2>2. Len(Ahead') = Len(Ahead) /\ \A i \in 1 .. Len(Ahead) : Ahead'[i] = Ahead[i]
    BY <1>6
  <2>3. Got'
    BY ONLY <1>1, <1>4, <1>6, <2>1 DEF Got, Register
  <2>4. FetchOk'
    BY ONLY <1>1, <1>4, <1>5, <1>6, <1>7, <2>1, <2>2 DEF FetchOk
  <2> QED BY <2>3, <2>4
<1>10. QueueOk' /\ PlaceOk'
  BY <1>4, <1>5, <1>6, <1>7 DEF QueueOk, PlaceOk
<1>11. Written'
  BY <1>6 DEF Written, At
<1>12. Strays'
  BY <1>4, <1>6 DEF Strays, Touched, At
<1>13. Ages'
  BY <1>6 DEF Ages, Older, At
<1>14. RegOk' /\ CountOk'
  BY <1>4, <1>6 DEF RegOk, CountOk, Way, Saves
<1> QED BY <1>2, <1>3, <1>8, <1>9, <1>10, <1>11, <1>12, <1>13, <1>14

\* All of it holds in every state.
THEOREM PiKeeps == PiSpec => []PiInv
<1>1. PiInv /\ [PiNext]_piVars => PiInv'
  <2> SUFFICES ASSUME PiInv, [PiNext]_piVars PROVE PiInv'
    OBVIOUS
  <2>1. CASE PiTick
    BY <2>1, TypedStep, ConsoleStep, LineStep, PortStep, HeldStep, AloneStep, PromptStep,
       ControlStep,
       FetchStep, GotStep, QueueStep, PlaceStep, WrittenStep, StraysStep, AgesStep, RegStep, CountStep
       DEF PiInv
  <2>2. CASE Switch
    BY <2>2, PiStays DEF Switch
  <2>3. CASE UNCHANGED piVars
    BY <2>3, PiStays DEF piVars
  <2> QED BY <2>1, <2>2, <2>3 DEF PiNext
<1> QED BY <1>1, PiStart, PTL DEF PiSpec

\* What the console takes at the end of a strobe is the word at its address.
THEOREM WordsRead == PiSpec => []ReadsTheWord
<1>1. PiInv => ReadsTheWord
  <2> SUFFICES ASSUME PiInv PROVE ReadsTheWord
    OBVIOUS
  <2>1. FetchOk /\ Got /\ LineOk /\ FifoWords \in Nat /\ Pulse \in Nat /\ Pulse > 0 /\ con.since \in Int
    BY Times, Kinds DEF PiInv
  <2>2. Len(rf.q) <= FifoWords
    <3>1. Len(rf.q) \in Nat
      BY DEF PiInv, PiTyped
    <3>2. Len(rf.q) + (IF bus.request /\ ~bus.write THEN 1 ELSE 0) <= FifoWords
      BY <2>1 DEF FetchOk
    <3> DEFINE n == Len(rf.q)
    <3>3. n \in Nat /\ n + (IF bus.request /\ ~bus.write THEN 1 ELSE 0) <= FifoWords
      BY <3>1, <3>2
    <3> HIDE DEF n
    <3>4. n <= FifoWords
      BY <2>1, <3>3
    <3> QED BY <3>4 DEF n
  <2>3. ASSUME con.phase = "strobe", con.dir = "read", con.since >= Pulse
        PROVE  /\ port.read = "mem" => dq = cells[port.space][Here]
               /\ port.read = "reg" => dq = Register(Here)
    <3>1. Open /\ line.op # "read"
      BY <2>1, <2>3 DEF LineOk, Open
    <3>2. port.read = "mem" => ~Untaken
      <4> SUFFICES ASSUME port.read = "mem", Untaken PROVE FALSE
        OBVIOUS
      <4>1. Reading
        BY <2>3, <3>1 DEF Reading
      <4>2. (IF rf.q = <<>> THEN Until ELSE 0) + con.since < Pulse
        BY <2>1, <2>3, <4>1 DEF FetchOk
      <4>3. Until \in Nat
        BY RemainingNow, Times DEF Until
      <4> QED BY <2>1, <2>3, <4>2, <4>3
    <3> QED BY <2>1, <2>3, <3>1, <3>2 DEF Got
  <2> QED BY <2>2, <2>3 DEF ReadsTheWord
<1> QED BY <1>1, PiKeeps, PTL

\* A write takes effect once, where the console meant it to.
THEOREM WordsWritten == PiSpec => []WritesTakeEffect
<1>1. PiInv => WritesTakeEffect
  <2> SUFFICES ASSUME PiInv PROVE WritesTakeEffect
    OBVIOUS
  <2>1. InPlace
    <3> SUFFICES ASSUME Settled, NEW s \in Spaces, NEW a \in Words
                 PROVE  cells[s][a] = shadow[s][a] \/ (torn /\ before[s][a] # shadow[s][a])
      BY DEF InPlace
    <3> DEFINE p == [space |-> s, word |-> a]
    <3>1. p \in Places /\ At(cells, p) = cells[s][a] /\ At(shadow, p) = shadow[s][a]
          /\ At(before, p) = before[s][a]
      BY DEF Places, At
    <3> HIDE DEF p
    <3>2. ~Queued /\ ~OnLine /\ ~InFlight
      BY Rested
    <3>3. CASE torn
      <4>1. At(cells, p) = At(shadow, p) \/ At(before, p) # At(shadow, p)
        BY <3>1 DEF PiInv, Strays, Touched
      <4> QED BY <3>1, <3>3, <4>1
    <3>4. CASE ~torn
      <4>1. At(cells, p) = At(shadow, p)
        BY <3>1, <3>2, <3>4 DEF PiInv, Written
      <4> QED BY <3>1, <4>1
    <3> QED BY <3>3, <3>4
  <2>2. InRegister
    BY DEF PiInv, RegOk, InRegister
  <2>3. Counted
    <3> SUFFICES ASSUME Settled, ~torn PROVE counted = (IF Saves THEN 1 ELSE 0)
      BY DEF Counted, Saves
    <3>1. con.phase = "idle" /\ line.op # "end" /\ ~done
      BY Rested
    <3>2. counted + (IF done THEN 1 ELSE 0) = (IF Saves THEN 1 ELSE 0)
      BY <3>1 DEF PiInv, CountOk
    <3>3. counted \in Nat
      BY DEF PiInv, PiTyped
    <3> QED BY <3>1, <3>2, <3>3
  <2>4. Len(wf.q) <= FifoWords
    <3>1. Len(wf.q) <= 1 /\ Len(wf.q) \in Nat /\ FifoWords \in Nat /\ FifoWords > 0
      BY OneWord, Times
    <3> DEFINE n == Len(wf.q)
    <3>2. n <= 1 /\ n \in Nat
      BY <3>1
    <3> HIDE DEF n
    <3>3. n <= FifoWords
      BY <3>1, <3>2
    <3> QED BY <3>3 DEF n
  <2> QED BY <2>1, <2>2, <2>3, <2>4 DEF WritesTakeEffect
<1> QED BY <1>1, PiKeeps, PTL
=============================================================================

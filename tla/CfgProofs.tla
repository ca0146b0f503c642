------------------------------ MODULE CfgProofs ------------------------------
(***************************************************************************)
(* Proofs about the cartridge's part of two protocols of several steps:    *)
(* CfgCommand.tla, for any number of calls and resets, and that it         *)
(* implements CommandService.tla; and, at the end, Update.tla, for files   *)
(* and images of any kind, chips of any size, and any number of updates,   *)
(* faults and writes of the game.                                          *)
(*                                                                         *)
(* The invariant of the commands says what the properties leave open: what *)
(* cfg_process holds between two turns, where the one effect of a call is  *)
(* accounted for, whose command the registers hold, and who knows what of  *)
(* the buffer of debug data.                                               *)
(***************************************************************************)
EXTENDS CfgCommand, Update, TLAPS, WellFoundedInduction

NoDebug == slot # "debug" /\ sending # "debug"

\* What cfg_process holds is what the registers hold, until the answer.
Held ==
  /\ queued \/ pc # "idle" => cfgPending /\ cmd = cfgCmd /\ data.n = cfgRdata.n
  /\ pc = "execute" => queued
  /\ pc \in {"reply", "done"} => ~queued
  /\ pc = "done" => cfgWdata.cmd = cmd.n /\ cfgWdata.args = data.n

\* Calls are opened in their order.
Numbered ==
  /\ cfgCmd.n <= call
  /\ cfgPending => cfgCmd.n > 0
  /\ prog = "args" => cfgCmd.n < call

\* Where the one effect of a call is accounted for.
Accounted ==
  /\ \A n \in Calls : n > cfgCmd.n => effects[n] = 0
  /\ cfgPending /\ pc \in {"idle", "execute"} => effects[cfgCmd.n] = 0
  /\ pc \in {"reply", "done"} => effects[cfgCmd.n] = IF error = "ok" THEN 1 ELSE 0
  /\ ~cfgPending /\ cfgCmd.n > 0 => effects[cfgCmd.n] = IF cmdError THEN 0 ELSE 1

\* Whose command the registers hold, when programs look at CMD_BUSY first.
Owned ==
  CheckBusy =>
    /\ prog = "args" => ~cfgPending /\ cfgRdata.n = call
    /\ prog \in Waiting => call > 0 /\ cfgCmd.n = call /\ cfgRdata.n = call
    /\ prog \in Waiting /\ ~cfgPending => cfgWdata.cmd = call /\ cfgWdata.args = call
    /\ cfgPending /\ irqRequest => prog = "irq"
    /\ cmdIrq => prog = "irq" /\ ~cfgPending

\* Who knows what of the buffer of debug data.
Buffer ==
  CheckBusy =>
    /\ usbOutputReady => NoDebug
    /\ NoDebug \/ slot # "debug" \/ sending # "debug"
    /\ mayWrite => NoDebug
    /\ cfgPending /\ cfgCmd.c = "usbWrite" => ~mayWrite
    /\ cfgPending /\ cfgCmd.c = "usbWrite" /\ pc \in {"idle", "execute"} => NoDebug
    /\ cfgCmd.c = "writeStatus" /\ cfgWdata.ready /\ (pc = "done" \/ ~cfgPending) => NoDebug

Inv == TypeOK /\ Held /\ Numbered /\ Accounted /\ Owned /\ Buffer

\* Nothing was called when the controller starts.
LEMMA InitInv == Init => Inv
<1> SUFFICES ASSUME Init PROVE Inv
  OBVIOUS
<1> USE DEF Init, NoCommand, NoArgs, NoAnswer
<1>0. 0 \in 0..MaxCalls /\ 0 \in 0..MaxResets /\ 0 \in 0..MaxOthers
  BY CallAssumption
<1>1. RegType     BY <1>0 DEF RegType, Commands
<1>2. CfgType     BY <1>0 DEF CfgType, Errors, Commands
<1>3. UsbType     BY <1>0 DEF UsbType, Holders
<1>4. ProgType    BY <1>0 DEF ProgType
<1>5. EffectType  BY CallAssumption DEF EffectType
<1>6. Held        BY DEF Held
<1>7. Numbered    BY CallAssumption DEF Numbered
<1>8. Accounted   BY DEF Accounted, Calls
<1>9. Owned       BY DEF Owned, Waiting
<1>10. Buffer     BY DEF Buffer, NoDebug
<1>11. QED
  BY <1>1, <1>2, <1>3, <1>4, <1>5, <1>6, <1>7, <1>8, <1>9, <1>10 DEF Inv, TypeOK

\* Every step of the program, the controller and the link keeps the invariant.
LEMMA NextInv == Inv /\ [Next]_vars => Inv'
<1> SUFFICES ASSUME Inv, [Next]_vars PROVE Inv'
  OBVIOUS
<1> USE DEF regVars, cfgVars, usbVars, progVars, vars
<1>1. ASSUME Unlock PROVE Inv'
  <2>1. RegType'
    BY <1>1, CallAssumption DEF Unlock, Inv, TypeOK, RegType, CfgType, UsbType, ProgType, Calls, Commands, Waiting
  <2>2. CfgType'
    BY <1>1, CallAssumption DEF Unlock, Inv, TypeOK, RegType, CfgType, UsbType, ProgType, Calls, Commands, Errors
  <2>3. UsbType'
    BY <1>1, CallAssumption DEF Unlock, Inv, TypeOK, RegType, CfgType, UsbType, ProgType, Holders
  <2>4. ProgType'
    BY <1>1, CallAssumption DEF Unlock, Inv, TypeOK, RegType, CfgType, UsbType, ProgType, Waiting
  <2>5. EffectType'
    BY <1>1, CallAssumption DEF Unlock, Inv, TypeOK, RegType, CfgType, UsbType, ProgType, EffectType, Calls, Held, Numbered, Accounted
  <2>6. Held'
    BY <1>1, CallAssumption DEF Unlock, Inv, TypeOK, RegType, CfgType, UsbType, ProgType, Held
  <2>7. Numbered'
    BY <1>1, CallAssumption DEF Unlock, Inv, TypeOK, RegType, CfgType, UsbType, ProgType, Held, Numbered
  <2>8. Accounted'
    BY <1>1, CallAssumption DEF Unlock, Inv, TypeOK, RegType, CfgType, UsbType, ProgType, EffectType, Calls, Held, Numbered, Accounted
  <2>9. Owned'
    BY <1>1, CallAssumption DEF Unlock, Inv, TypeOK, RegType, CfgType, UsbType, ProgType, Waiting, Held, Numbered, Owned
  <2>10. Buffer'
    BY <1>1 DEF Unlock, Inv, TypeOK, RegType, CfgType, UsbType, ProgType, NoDebug, Waiting, Held, Owned, Buffer
  <2>11. QED BY <2>1, <2>2, <2>3, <2>4, <2>5, <2>6, <2>7, <2>8, <2>9, <2>10 DEF Inv, TypeOK
<1>2. ASSUME Lock PROVE Inv'
  <2>1. RegType'
    BY <1>2, CallAssumption DEF Lock, Inv, TypeOK, RegType, CfgType, UsbType, ProgType, Calls, Commands, Waiting
  <2>2. CfgType'
    BY <1>2, CallAssumption DEF Lock, Inv, TypeOK, RegType, CfgType, UsbType, ProgType, Calls, Commands, Errors
  <2>3. UsbType'
    BY <1>2, CallAssumption DEF Lock, Inv, TypeOK, RegType, CfgType, UsbType, ProgType, Holders
  <2>4. ProgType'
    BY <1>2, CallAssumption DEF Lock, Inv, TypeOK, RegType, CfgType, UsbType, ProgType, Waiting
  <2>5. EffectType'
    BY <1>2, CallAssumption DEF Lock, Inv, TypeOK, RegType, CfgType, UsbType, ProgType, EffectType, Calls, Held, Numbered, Accounted
  <2>6. Held'
    BY <1>2, CallAssumption DEF Lock, Inv, TypeOK, RegType, CfgType, UsbType, ProgType, Held
  <2>7. Numbered'
    BY <1>2, CallAssumption DEF Lock, Inv, TypeOK, RegType, CfgType, UsbType, ProgType, Held, Numbered
  <2>8. Accounted'
    BY <1>2, CallAssumption DEF Lock, Inv, TypeOK, RegType, CfgType, UsbType, ProgType, EffectType, Calls, Held, Numbered, Accounted
  <2>9. Owned'
    BY <1>2, CallAssumption DEF Lock, Inv, TypeOK, RegType, CfgType, UsbType, ProgType, Waiting, Held, Numbered, Owned
  <2>10. Buffer'
    BY <1>2 DEF Lock, Inv, TypeOK, RegType, CfgType, UsbType, ProgType, NoDebug, Waiting, Held, Owned, Buffer
  <2>11. QED BY <2>1, <2>2, <2>3, <2>4, <2>5, <2>6, <2>7, <2>8, <2>9, <2>10 DEF Inv, TypeOK
<1>3. ASSUME NEW a \in {"pi", "outside"}, WriteArgs(a) PROVE Inv'
  <2>1. RegType'
    BY <1>3, CallAssumption DEF WriteArgs, Inv, TypeOK, RegType, CfgType, UsbType, ProgType, Calls, Commands, Waiting
  <2>2. CfgType'
    BY <1>3, CallAssumption DEF WriteArgs, Inv, TypeOK, RegType, CfgType, UsbType, ProgType, Calls, Commands, Errors
  <2>3. UsbType'
    BY <1>3, CallAssumption DEF WriteArgs, Inv, TypeOK, RegType, CfgType, UsbType, ProgType, Holders
  <2>4. ProgType'
    BY <1>3, CallAssumption DEF WriteArgs, Inv, TypeOK, RegType, CfgType, UsbType, ProgType, Waiting
  <2>5. EffectType'
    BY <1>3, CallAssumption DEF WriteArgs, Inv, TypeOK, RegType, CfgType, UsbType, ProgType, EffectType, Calls, Held, Numbered, Accounted
  <2>6. Held'
    BY <1>3, CallAssumption DEF WriteArgs, Inv, TypeOK, RegType, CfgType, UsbType, ProgType, Held
  <2>7. Numbered'
    BY <1>3, CallAssumption DEF WriteArgs, Inv, TypeOK, RegType, CfgType, UsbType, ProgType, Held, Numbered
  <2>8. Accounted'
    BY <1>3, CallAssumption DEF WriteArgs, Inv, TypeOK, RegType, CfgType, UsbType, ProgType, EffectType, Calls, Held, Numbered, Accounted
  <2>9. Owned'
    BY <1>3, CallAssumption DEF WriteArgs, Inv, TypeOK, RegType, CfgType, UsbType, ProgType, Waiting, Held, Numbered, Owned
  <2>10. Buffer'
    BY <1>3 DEF WriteArgs, Inv, TypeOK, RegType, CfgType, UsbType, ProgType, NoDebug, Waiting, Held, Owned, Buffer
  <2>11. QED BY <2>1, <2>2, <2>3, <2>4, <2>5, <2>6, <2>7, <2>8, <2>9, <2>10 DEF Inv, TypeOK
<1>4. ASSUME NEW c \in Commands, NEW w \in Waiting, WriteCommand(c, w) PROVE Inv'
  <2>1. RegType'
    <3>1. irqRequest' \in BOOLEAN
      BY <1>4 DEF WriteCommand, Inv, TypeOK, RegType
    <3>2. cfgCmd' \in [n : 0..MaxCalls, c : Commands]
      BY <1>4 DEF WriteCommand, Inv, TypeOK, RegType, ProgType
    <3>3. QED BY <1>4, <3>1, <3>2 DEF WriteCommand, Inv, TypeOK, RegType
  <2>2. CfgType'
    BY <1>4, CallAssumption DEF WriteCommand, Inv, TypeOK, RegType, CfgType, UsbType, ProgType, Calls, Commands, Errors
  <2>3. UsbType'
    BY <1>4, CallAssumption DEF WriteCommand, Inv, TypeOK, RegType, CfgType, UsbType, ProgType, Holders
  <2>4. ProgType'
    BY <1>4, CallAssumption DEF WriteCommand, Inv, TypeOK, RegType, CfgType, UsbType, ProgType, Waiting
  <2>5. EffectType'
    BY <1>4, CallAssumption DEF WriteCommand, Inv, TypeOK, RegType, CfgType, UsbType, ProgType, EffectType, Calls, Held, Numbered, Accounted
  <2>6. Held'
    BY <1>4, CallAssumption DEF WriteCommand, Inv, TypeOK, RegType, CfgType, UsbType, ProgType, Held
  <2>7. Numbered'
    <3>1. call \in Nat /\ cfgCmd.n \in Nat /\ cfgCmd.n < call
      BY <1>4, CallAssumption DEF WriteCommand, Inv, TypeOK, RegType, ProgType, Numbered
    <3>2. prog' # "args" /\ call' = call
      BY <1>4 DEF WriteCommand, Waiting
    <3>3. CASE cfgPending
      BY <1>4, <3>1, <3>2, <3>3 DEF WriteCommand, Inv, Numbered
    <3>4. CASE ~cfgPending
      <4>1. cfgCmd'.n = call
        BY <1>4, <3>4 DEF WriteCommand
      <4>2. QED BY <3>1, <3>2, <4>1 DEF Numbered
    <3>5. QED BY <3>3, <3>4
  <2>8. Accounted'
    BY <1>4, CallAssumption DEF WriteCommand, Inv, TypeOK, RegType, CfgType, UsbType, ProgType, EffectType, Calls, Held, Numbered, Accounted
  <2>9. Owned'
    BY <1>4, CallAssumption DEF WriteCommand, Inv, TypeOK, RegType, CfgType, UsbType, ProgType, Waiting, Held, Numbered, Owned
  <2>10. Buffer'
    BY <1>4 DEF WriteCommand, Inv, TypeOK, RegType, CfgType, UsbType, ProgType, NoDebug, Waiting, Held, Owned, Buffer
  <2>11. QED BY <2>1, <2>2, <2>3, <2>4, <2>5, <2>6, <2>7, <2>8, <2>9, <2>10 DEF Inv, TypeOK
<1>5. ASSUME ReadAnswer PROVE Inv'
  <2>1. RegType'
    BY <1>5, CallAssumption DEF ReadAnswer, Inv, TypeOK, RegType, CfgType, UsbType, ProgType, Calls, Commands, Waiting
  <2>2. CfgType'
    BY <1>5, CallAssumption DEF ReadAnswer, Inv, TypeOK, RegType, CfgType, UsbType, ProgType, Calls, Commands, Errors
  <2>3. UsbType'
    BY <1>5, CallAssumption DEF ReadAnswer, Inv, TypeOK, RegType, CfgType, UsbType, ProgType, Holders
  <2>4. ProgType'
    BY <1>5, CallAssumption DEF ReadAnswer, Inv, TypeOK, RegType, CfgType, UsbType, ProgType, Waiting
  <2>5. EffectType'
    BY <1>5, CallAssumption DEF ReadAnswer, Inv, TypeOK, RegType, CfgType, UsbType, ProgType, EffectType, Calls, Held, Numbered, Accounted
  <2>6. Held'
    BY <1>5, CallAssumption DEF ReadAnswer, Inv, TypeOK, RegType, CfgType, UsbType, ProgType, Held
  <2>7. Numbered'
    BY <1>5, CallAssumption DEF ReadAnswer, Inv, TypeOK, RegType, CfgType, UsbType, ProgType, Held, Numbered
  <2>8. Accounted'
    BY <1>5, CallAssumption DEF ReadAnswer, Inv, TypeOK, RegType, CfgType, UsbType, ProgType, EffectType, Calls, Held, Numbered, Accounted
  <2>9. Owned'
    BY <1>5, CallAssumption DEF ReadAnswer, Inv, TypeOK, RegType, CfgType, UsbType, ProgType, Waiting, Held, Numbered, Owned
  <2>10. Buffer'
    BY <1>5 DEF ReadAnswer, Inv, TypeOK, RegType, CfgType, UsbType, ProgType, NoDebug, Waiting, Held, Owned, Buffer
  <2>11. QED BY <2>1, <2>2, <2>3, <2>4, <2>5, <2>6, <2>7, <2>8, <2>9, <2>10 DEF Inv, TypeOK
<1>6. ASSUME N64Reset PROVE Inv'
  <2>1. RegType'
    BY <1>6, CallAssumption DEF N64Reset, Inv, TypeOK, RegType, CfgType, UsbType, ProgType, Calls, Commands, Waiting
  <2>2. CfgType'
    BY <1>6, CallAssumption DEF N64Reset, Inv, TypeOK, RegType, CfgType, UsbType, ProgType, Calls, Commands, Errors
  <2>3. UsbType'
    BY <1>6, CallAssumption DEF N64Reset, Inv, TypeOK, RegType, CfgType, UsbType, ProgType, Holders
  <2>4. ProgType'
    <3>1. resets' \in 0..MaxResets
      BY <1>6, CallAssumption DEF N64Reset, Inv, TypeOK, ProgType
    <3>2. QED BY <1>6, <3>1 DEF N64Reset, Inv, TypeOK, ProgType
  <2>5. EffectType'
    BY <1>6, CallAssumption DEF N64Reset, Inv, TypeOK, RegType, CfgType, UsbType, ProgType, EffectType, Calls, Held, Numbered, Accounted
  <2>6. Held'
    BY <1>6, CallAssumption DEF N64Reset, Inv, TypeOK, RegType, CfgType, UsbType, ProgType, Held
  <2>7. Numbered'
    BY <1>6, CallAssumption DEF N64Reset, Inv, TypeOK, RegType, CfgType, UsbType, ProgType, Held, Numbered
  <2>8. Accounted'
    BY <1>6, CallAssumption DEF N64Reset, Inv, TypeOK, RegType, CfgType, UsbType, ProgType, EffectType, Calls, Held, Numbered, Accounted
  <2>9. Owned'
    BY <1>6, CallAssumption DEF N64Reset, Inv, TypeOK, RegType, CfgType, UsbType, ProgType, Waiting, Held, Numbered, Owned
  <2>10. Buffer'
    BY <1>6 DEF N64Reset, Inv, TypeOK, RegType, CfgType, UsbType, ProgType, NoDebug, Waiting, Held, Owned, Buffer
  <2>11. QED BY <2>1, <2>2, <2>3, <2>4, <2>5, <2>6, <2>7, <2>8, <2>9, <2>10 DEF Inv, TypeOK
<1>7. ASSUME CmdCheck PROVE Inv'
  <2>1. RegType'
    BY <1>7, CallAssumption DEF CmdCheck, Inv, TypeOK, RegType, CfgType, UsbType, ProgType, Calls, Commands, Waiting
  <2>2. CfgType'
    BY <1>7, CallAssumption DEF CmdCheck, Inv, TypeOK, RegType, CfgType, UsbType, ProgType, Calls, Commands, Errors
  <2>3. UsbType'
    BY <1>7, CallAssumption DEF CmdCheck, Inv, TypeOK, RegType, CfgType, UsbType, ProgType, Holders
  <2>4. ProgType'
    BY <1>7, CallAssumption DEF CmdCheck, Inv, TypeOK, RegType, CfgType, UsbType, ProgType, Waiting
  <2>5. EffectType'
    BY <1>7, CallAssumption DEF CmdCheck, Inv, TypeOK, RegType, CfgType, UsbType, ProgType, EffectType, Calls, Held, Numbered, Accounted
  <2>6. Held'
    BY <1>7, CallAssumption DEF CmdCheck, Inv, TypeOK, RegType, CfgType, UsbType, ProgType, Held
  <2>7. Numbered'
    BY <1>7, CallAssumption DEF CmdCheck, Inv, TypeOK, RegType, CfgType, UsbType, ProgType, Held, Numbered
  <2>8. Accounted'
    BY <1>7, CallAssumption DEF CmdCheck, Inv, TypeOK, RegType, CfgType, UsbType, ProgType, EffectType, Calls, Held, Numbered, Accounted
  <2>9. Owned'
    BY <1>7, CallAssumption DEF CmdCheck, Inv, TypeOK, RegType, CfgType, UsbType, ProgType, Waiting, Held, Numbered, Owned
  <2>10. Buffer'
    BY <1>7 DEF CmdCheck, Inv, TypeOK, RegType, CfgType, UsbType, ProgType, NoDebug, Waiting, Held, Owned, Buffer
  <2>11. QED BY <2>1, <2>2, <2>3, <2>4, <2>5, <2>6, <2>7, <2>8, <2>9, <2>10 DEF Inv, TypeOK
<1>8. ASSUME ExecuteQuery PROVE Inv'
  <2>1. RegType'
    BY <1>8, CallAssumption DEF ExecuteQuery, Succeed, Reply, Inv, TypeOK, RegType, CfgType, UsbType, ProgType, Calls, Commands, Waiting
  <2>2. CfgType'
    BY <1>8, CallAssumption DEF ExecuteQuery, Succeed, Reply, Inv, TypeOK, RegType, CfgType, UsbType, ProgType, Calls, Commands, Errors
  <2>3. UsbType'
    BY <1>8, CallAssumption DEF ExecuteQuery, Succeed, Reply, Inv, TypeOK, RegType, CfgType, UsbType, ProgType, Holders
  <2>4. ProgType'
    BY <1>8, CallAssumption DEF ExecuteQuery, Succeed, Reply, Inv, TypeOK, RegType, CfgType, UsbType, ProgType, Waiting
  <2>5. EffectType'
    BY <1>8, CallAssumption DEF ExecuteQuery, Succeed, Reply, Inv, TypeOK, RegType, CfgType, UsbType, ProgType, EffectType, Calls, Held, Numbered, Accounted
  <2>6. Held'
    BY <1>8, CallAssumption DEF ExecuteQuery, Succeed, Reply, Inv, TypeOK, RegType, CfgType, UsbType, ProgType, Held
  <2>7. Numbered'
    BY <1>8, CallAssumption DEF ExecuteQuery, Succeed, Reply, Inv, TypeOK, RegType, CfgType, UsbType, ProgType, Held, Numbered
  <2>8. Accounted'
    BY <1>8, CallAssumption DEF ExecuteQuery, Succeed, Reply, Inv, TypeOK, RegType, CfgType, UsbType, ProgType, EffectType, Calls, Held, Numbered, Accounted
  <2>9. Owned'
    BY <1>8, CallAssumption DEF ExecuteQuery, Succeed, Reply, Inv, TypeOK, RegType, CfgType, UsbType, ProgType, Waiting, Held, Numbered, Owned
  <2>10. Buffer'
    BY <1>8 DEF ExecuteQuery, Succeed, Reply, Inv, TypeOK, RegType, CfgType, UsbType, ProgType, NoDebug, Waiting, Held, Owned, Buffer
  <2>11. QED BY <2>1, <2>2, <2>3, <2>4, <2>5, <2>6, <2>7, <2>8, <2>9, <2>10 DEF Inv, TypeOK
<1>9. ASSUME ExecuteBad PROVE Inv'
  <2>1. RegType'
    BY <1>9, CallAssumption DEF ExecuteBad, Reply, Inv, TypeOK, RegType, CfgType, UsbType, ProgType, Calls, Commands, Waiting
  <2>2. CfgType'
    BY <1>9, CallAssumption DEF ExecuteBad, Reply, Inv, TypeOK, RegType, CfgType, UsbType, ProgType, Calls, Commands, Errors
  <2>3. UsbType'
    BY <1>9, CallAssumption DEF ExecuteBad, Reply, Inv, TypeOK, RegType, CfgType, UsbType, ProgType, Holders
  <2>4. ProgType'
    BY <1>9, CallAssumption DEF ExecuteBad, Reply, Inv, TypeOK, RegType, CfgType, UsbType, ProgType, Waiting
  <2>5. EffectType'
    BY <1>9, CallAssumption DEF ExecuteBad, Reply, Inv, TypeOK, RegType, CfgType, UsbType, ProgType, EffectType, Calls, Held, Numbered, Accounted
  <2>6. Held'
    BY <1>9, CallAssumption DEF ExecuteBad, Reply, Inv, TypeOK, RegType, CfgType, UsbType, ProgType, Held
  <2>7. Numbered'
    BY <1>9, CallAssumption DEF ExecuteBad, Reply, Inv, TypeOK, RegType, CfgType, UsbType, ProgType, Held, Numbered
  <2>8. Accounted'
    BY <1>9, CallAssumption DEF ExecuteBad, Reply, Inv, TypeOK, RegType, CfgType, UsbType, ProgType, EffectType, Calls, Held, Numbered, Accounted
  <2>9. Owned'
    BY <1>9, CallAssumption DEF ExecuteBad, Reply, Inv, TypeOK, RegType, CfgType, UsbType, ProgType, Waiting, Held, Numbered, Owned
  <2>10. Buffer'
    BY <1>9 DEF ExecuteBad, Reply, Inv, TypeOK, RegType, CfgType, UsbType, ProgType, NoDebug, Waiting, Held, Owned, Buffer
  <2>11. QED BY <2>1, <2>2, <2>3, <2>4, <2>5, <2>6, <2>7, <2>8, <2>9, <2>10 DEF Inv, TypeOK
<1>10. ASSUME ExecuteUsbAddress PROVE Inv'
  <2>1. RegType'
    BY <1>10, CallAssumption DEF ExecuteUsbAddress, Reply, TranslateFails, Inv, TypeOK, RegType, CfgType, UsbType, ProgType, Calls, Commands, Waiting
  <2>2. CfgType'
    BY <1>10, CallAssumption DEF ExecuteUsbAddress, Reply, TranslateFails, Inv, TypeOK, RegType, CfgType, UsbType, ProgType, Calls, Commands, Errors
  <2>3. UsbType'
    BY <1>10, CallAssumption DEF ExecuteUsbAddress, Reply, TranslateFails, Inv, TypeOK, RegType, CfgType, UsbType, ProgType, Holders
  <2>4. ProgType'
    BY <1>10, CallAssumption DEF ExecuteUsbAddress, Reply, TranslateFails, Inv, TypeOK, RegType, CfgType, UsbType, ProgType, Waiting
  <2>5. EffectType'
    BY <1>10, CallAssumption DEF ExecuteUsbAddress, Reply, TranslateFails, Inv, TypeOK, RegType, CfgType, UsbType, ProgType, EffectType, Calls, Held, Numbered, Accounted
  <2>6. Held'
    BY <1>10, CallAssumption DEF ExecuteUsbAddress, Reply, TranslateFails, Inv, TypeOK, RegType, CfgType, UsbType, ProgType, Held
  <2>7. Numbered'
    BY <1>10, CallAssumption DEF ExecuteUsbAddress, Reply, TranslateFails, Inv, TypeOK, RegType, CfgType, UsbType, ProgType, Held, Numbered
  <2>8. Accounted'
    BY <1>10, CallAssumption DEF ExecuteUsbAddress, Reply, TranslateFails, Inv, TypeOK, RegType, CfgType, UsbType, ProgType, EffectType, Calls, Held, Numbered, Accounted
  <2>9. Owned'
    BY <1>10, CallAssumption DEF ExecuteUsbAddress, Reply, TranslateFails, Inv, TypeOK, RegType, CfgType, UsbType, ProgType, Waiting, Held, Numbered, Owned
  <2>10. Buffer'
    BY <1>10 DEF ExecuteUsbAddress, Reply, TranslateFails, Inv, TypeOK, RegType, CfgType, UsbType, ProgType, NoDebug, Waiting, Held, Owned, Buffer
  <2>11. QED BY <2>1, <2>2, <2>3, <2>4, <2>5, <2>6, <2>7, <2>8, <2>9, <2>10 DEF Inv, TypeOK
<1>11. ASSUME ExecuteUsbLater PROVE Inv'
  <2>1. RegType'
    BY <1>11, CallAssumption DEF ExecuteUsbLater, UsbRefuses, TranslateFails, Inv, TypeOK, RegType, CfgType, UsbType, ProgType, Calls, Commands, Waiting
  <2>2. CfgType'
    BY <1>11, CallAssumption DEF ExecuteUsbLater, UsbRefuses, TranslateFails, Inv, TypeOK, RegType, CfgType, UsbType, ProgType, Calls, Commands, Errors
  <2>3. UsbType'
    BY <1>11, CallAssumption DEF ExecuteUsbLater, UsbRefuses, TranslateFails, Inv, TypeOK, RegType, CfgType, UsbType, ProgType, Holders
  <2>4. ProgType'
    BY <1>11, CallAssumption DEF ExecuteUsbLater, UsbRefuses, TranslateFails, Inv, TypeOK, RegType, CfgType, UsbType, ProgType, Waiting
  <2>5. EffectType'
    BY <1>11, CallAssumption DEF ExecuteUsbLater, UsbRefuses, TranslateFails, Inv, TypeOK, RegType, CfgType, UsbType, ProgType, EffectType, Calls, Held, Numbered, Accounted
  <2>6. Held'
    BY <1>11, CallAssumption DEF ExecuteUsbLater, UsbRefuses, TranslateFails, Inv, TypeOK, RegType, CfgType, UsbType, ProgType, Held
  <2>7. Numbered'
    BY <1>11, CallAssumption DEF ExecuteUsbLater, UsbRefuses, TranslateFails, Inv, TypeOK, RegType, CfgType, UsbType, ProgType, Held, Numbered
  <2>8. Accounted'
    BY <1>11, CallAssumption DEF ExecuteUsbLater, UsbRefuses, TranslateFails, Inv, TypeOK, RegType, CfgType, UsbType, ProgType, EffectType, Calls, Held, Numbered, Accounted
  <2>9. Owned'
    BY <1>11, CallAssumption DEF ExecuteUsbLater, UsbRefuses, TranslateFails, Inv, TypeOK, RegType, CfgType, UsbType, ProgType, Waiting, Held, Numbered, Owned
  <2>10. Buffer'
    BY <1>11 DEF ExecuteUsbLater, UsbRefuses, TranslateFails, Inv, TypeOK, RegType, CfgType, UsbType, ProgType, NoDebug, Waiting, Held, Owned, Buffer
  <2>11. QED BY <2>1, <2>2, <2>3, <2>4, <2>5, <2>6, <2>7, <2>8, <2>9, <2>10 DEF Inv, TypeOK
<1>12. ASSUME ExecuteUsbRead PROVE Inv'
  <2>1. RegType'
    BY <1>12, CallAssumption DEF ExecuteUsbRead, Succeed, Reply, TranslateFails, Inv, TypeOK, RegType, CfgType, UsbType, ProgType, Calls, Commands, Waiting
  <2>2. CfgType'
    BY <1>12, CallAssumption DEF ExecuteUsbRead, Succeed, Reply, TranslateFails, Inv, TypeOK, RegType, CfgType, UsbType, ProgType, Calls, Commands, Errors
  <2>3. UsbType'
    BY <1>12, CallAssumption DEF ExecuteUsbRead, Succeed, Reply, TranslateFails, Inv, TypeOK, RegType, CfgType, UsbType, ProgType, Holders
  <2>4. ProgType'
    BY <1>12, CallAssumption DEF ExecuteUsbRead, Succeed, Reply, TranslateFails, Inv, TypeOK, RegType, CfgType, UsbType, ProgType, Waiting
  <2>5. EffectType'
    BY <1>12, CallAssumption DEF ExecuteUsbRead, Succeed, Reply, TranslateFails, Inv, TypeOK, RegType, CfgType, UsbType, ProgType, EffectType, Calls, Held, Numbered, Accounted
  <2>6. Held'
    BY <1>12, CallAssumption DEF ExecuteUsbRead, Succeed, Reply, TranslateFails, Inv, TypeOK, RegType, CfgType, UsbType, ProgType, Held
  <2>7. Numbered'
    BY <1>12, CallAssumption DEF ExecuteUsbRead, Succeed, Reply, TranslateFails, Inv, TypeOK, RegType, CfgType, UsbType, ProgType, Held, Numbered
  <2>8. Accounted'
    BY <1>12, CallAssumption DEF ExecuteUsbRead, Succeed, Reply, TranslateFails, Inv, TypeOK, RegType, CfgType, UsbType, ProgType, EffectType, Calls, Held, Numbered, Accounted
  <2>9. Owned'
    BY <1>12, CallAssumption DEF ExecuteUsbRead, Succeed, Reply, TranslateFails, Inv, TypeOK, RegType, CfgType, UsbType, ProgType, Waiting, Held, Numbered, Owned
  <2>10. Buffer'
    BY <1>12 DEF ExecuteUsbRead, Succeed, Reply, TranslateFails, Inv, TypeOK, RegType, CfgType, UsbType, ProgType, NoDebug, Waiting, Held, Owned, Buffer
  <2>11. QED BY <2>1, <2>2, <2>3, <2>4, <2>5, <2>6, <2>7, <2>8, <2>9, <2>10 DEF Inv, TypeOK
<1>13. ASSUME ExecuteUsbWrite PROVE Inv'
  <2>1. RegType'
    BY <1>13, CallAssumption DEF ExecuteUsbWrite, Succeed, Reply, TranslateFails, Inv, TypeOK, RegType, CfgType, UsbType, ProgType, Calls, Commands, Waiting
  <2>2. CfgType'
    BY <1>13, CallAssumption DEF ExecuteUsbWrite, Succeed, Reply, TranslateFails, Inv, TypeOK, RegType, CfgType, UsbType, ProgType, Calls, Commands, Errors
  <2>3. UsbType'
    BY <1>13, CallAssumption DEF ExecuteUsbWrite, Succeed, Reply, TranslateFails, Inv, TypeOK, RegType, CfgType, UsbType, ProgType, Holders
  <2>4. ProgType'
    BY <1>13, CallAssumption DEF ExecuteUsbWrite, Succeed, Reply, TranslateFails, Inv, TypeOK, RegType, CfgType, UsbType, ProgType, Waiting
  <2>5. EffectType'
    BY <1>13, CallAssumption DEF ExecuteUsbWrite, Succeed, Reply, TranslateFails, Inv, TypeOK, RegType, CfgType, UsbType, ProgType, EffectType, Calls, Held, Numbered, Accounted
  <2>6. Held'
    BY <1>13, CallAssumption DEF ExecuteUsbWrite, Succeed, Reply, TranslateFails, Inv, TypeOK, RegType, CfgType, UsbType, ProgType, Held
  <2>7. Numbered'
    BY <1>13, CallAssumption DEF ExecuteUsbWrite, Succeed, Reply, TranslateFails, Inv, TypeOK, RegType, CfgType, UsbType, ProgType, Held, Numbered
  <2>8. Accounted'
    BY <1>13, CallAssumption DEF ExecuteUsbWrite, Succeed, Reply, TranslateFails, Inv, TypeOK, RegType, CfgType, UsbType, ProgType, EffectType, Calls, Held, Numbered, Accounted
  <2>9. Owned'
    BY <1>13, CallAssumption DEF ExecuteUsbWrite, Succeed, Reply, TranslateFails, Inv, TypeOK, RegType, CfgType, UsbType, ProgType, Waiting, Held, Numbered, Owned
  <2>10. Buffer'
    BY <1>13 DEF ExecuteUsbWrite, Succeed, Reply, TranslateFails, Inv, TypeOK, RegType, CfgType, UsbType, ProgType, NoDebug, Waiting, Held, Owned, Buffer
  <2>11. QED BY <2>1, <2>2, <2>3, <2>4, <2>5, <2>6, <2>7, <2>8, <2>9, <2>10 DEF Inv, TypeOK
<1>14. ASSUME WriteData PROVE Inv'
  <2>1. RegType'
    BY <1>14, CallAssumption DEF WriteData, Inv, TypeOK, RegType, CfgType, UsbType, ProgType, Calls, Commands, Waiting
  <2>2. CfgType'
    BY <1>14, CallAssumption DEF WriteData, Inv, TypeOK, RegType, CfgType, UsbType, ProgType, Calls, Commands, Errors
  <2>3. UsbType'
    BY <1>14, CallAssumption DEF WriteData, Inv, TypeOK, RegType, CfgType, UsbType, ProgType, Holders
  <2>4. ProgType'
    BY <1>14, CallAssumption DEF WriteData, Inv, TypeOK, RegType, CfgType, UsbType, ProgType, Waiting
  <2>5. EffectType'
    BY <1>14, CallAssumption DEF WriteData, Inv, TypeOK, RegType, CfgType, UsbType, ProgType, EffectType, Calls, Held, Numbered, Accounted
  <2>6. Held'
    BY <1>14, CallAssumption DEF WriteData, Inv, TypeOK, RegType, CfgType, UsbType, ProgType, Held
  <2>7. Numbered'
    BY <1>14, CallAssumption DEF WriteData, Inv, TypeOK, RegType, CfgType, UsbType, ProgType, Held, Numbered
  <2>8. Accounted'
    BY <1>14, CallAssumption DEF WriteData, Inv, TypeOK, RegType, CfgType, UsbType, ProgType, EffectType, Calls, Held, Numbered, Accounted
  <2>9. Owned'
    BY <1>14, CallAssumption DEF WriteData, Inv, TypeOK, RegType, CfgType, UsbType, ProgType, Waiting, Held, Numbered, Owned
  <2>10. Buffer'
    BY <1>14 DEF WriteData, Inv, TypeOK, RegType, CfgType, UsbType, ProgType, NoDebug, Waiting, Held, Owned, Buffer
  <2>11. QED BY <2>1, <2>2, <2>3, <2>4, <2>5, <2>6, <2>7, <2>8, <2>9, <2>10 DEF Inv, TypeOK
<1>15. ASSUME WriteDone PROVE Inv'
  <2>1. RegType'
    BY <1>15, CallAssumption DEF WriteDone, Inv, TypeOK, RegType, CfgType, UsbType, ProgType, Calls, Commands, Waiting
  <2>2. CfgType'
    BY <1>15, CallAssumption DEF WriteDone, Inv, TypeOK, RegType, CfgType, UsbType, ProgType, Calls, Commands, Errors
  <2>3. UsbType'
    BY <1>15, CallAssumption DEF WriteDone, Inv, TypeOK, RegType, CfgType, UsbType, ProgType, Holders
  <2>4. ProgType'
    BY <1>15, CallAssumption DEF WriteDone, Inv, TypeOK, RegType, CfgType, UsbType, ProgType, Waiting
  <2>5. EffectType'
    BY <1>15, CallAssumption DEF WriteDone, Inv, TypeOK, RegType, CfgType, UsbType, ProgType, EffectType, Calls, Held, Numbered, Accounted
  <2>6. Held'
    BY <1>15, CallAssumption DEF WriteDone, Inv, TypeOK, RegType, CfgType, UsbType, ProgType, Held
  <2>7. Numbered'
    BY <1>15, CallAssumption DEF WriteDone, Inv, TypeOK, RegType, CfgType, UsbType, ProgType, Held, Numbered
  <2>8. Accounted'
    BY <1>15, CallAssumption DEF WriteDone, Inv, TypeOK, RegType, CfgType, UsbType, ProgType, EffectType, Calls, Held, Numbered, Accounted
  <2>9. Owned'
    BY <1>15, CallAssumption DEF WriteDone, Inv, TypeOK, RegType, CfgType, UsbType, ProgType, Waiting, Held, Numbered, Owned
  <2>10. Buffer'
    BY <1>15 DEF WriteDone, Inv, TypeOK, RegType, CfgType, UsbType, ProgType, NoDebug, Waiting, Held, Owned, Buffer
  <2>11. QED BY <2>1, <2>2, <2>3, <2>4, <2>5, <2>6, <2>7, <2>8, <2>9, <2>10 DEF Inv, TypeOK
<1>16. ASSUME TakePacket PROVE Inv'
  <2>1. RegType'
    BY <1>16, CallAssumption DEF TakePacket, Inv, TypeOK, RegType, CfgType, UsbType, ProgType, Calls, Commands, Waiting
  <2>2. CfgType'
    BY <1>16, CallAssumption DEF TakePacket, Inv, TypeOK, RegType, CfgType, UsbType, ProgType, Calls, Commands, Errors
  <2>3. UsbType'
    BY <1>16, CallAssumption DEF TakePacket, Inv, TypeOK, RegType, CfgType, UsbType, ProgType, Holders
  <2>4. ProgType'
    BY <1>16, CallAssumption DEF TakePacket, Inv, TypeOK, RegType, CfgType, UsbType, ProgType, Waiting
  <2>5. EffectType'
    BY <1>16, CallAssumption DEF TakePacket, Inv, TypeOK, RegType, CfgType, UsbType, ProgType, EffectType, Calls, Held, Numbered, Accounted
  <2>6. Held'
    BY <1>16, CallAssumption DEF TakePacket, Inv, TypeOK, RegType, CfgType, UsbType, ProgType, Held
  <2>7. Numbered'
    BY <1>16, CallAssumption DEF TakePacket, Inv, TypeOK, RegType, CfgType, UsbType, ProgType, Held, Numbered
  <2>8. Accounted'
    BY <1>16, CallAssumption DEF TakePacket, Inv, TypeOK, RegType, CfgType, UsbType, ProgType, EffectType, Calls, Held, Numbered, Accounted
  <2>9. Owned'
    BY <1>16, CallAssumption DEF TakePacket, Inv, TypeOK, RegType, CfgType, UsbType, ProgType, Waiting, Held, Numbered, Owned
  <2>10. Buffer'
    BY <1>16 DEF TakePacket, Inv, TypeOK, RegType, CfgType, UsbType, ProgType, NoDebug, Waiting, Held, Owned, Buffer
  <2>11. QED BY <2>1, <2>2, <2>3, <2>4, <2>5, <2>6, <2>7, <2>8, <2>9, <2>10 DEF Inv, TypeOK
<1>17. ASSUME PacketDone PROVE Inv'
  <2>1. RegType'
    BY <1>17, CallAssumption DEF PacketDone, Inv, TypeOK, RegType, CfgType, UsbType, ProgType, Calls, Commands, Waiting
  <2>2. CfgType'
    BY <1>17, CallAssumption DEF PacketDone, Inv, TypeOK, RegType, CfgType, UsbType, ProgType, Calls, Commands, Errors
  <2>3. UsbType'
    BY <1>17, CallAssumption DEF PacketDone, Inv, TypeOK, RegType, CfgType, UsbType, ProgType, Holders
  <2>4. ProgType'
    BY <1>17, CallAssumption DEF PacketDone, Inv, TypeOK, RegType, CfgType, UsbType, ProgType, Waiting
  <2>5. EffectType'
    BY <1>17, CallAssumption DEF PacketDone, Inv, TypeOK, RegType, CfgType, UsbType, ProgType, EffectType, Calls, Held, Numbered, Accounted
  <2>6. Held'
    BY <1>17, CallAssumption DEF PacketDone, Inv, TypeOK, RegType, CfgType, UsbType, ProgType, Held
  <2>7. Numbered'
    BY <1>17, CallAssumption DEF PacketDone, Inv, TypeOK, RegType, CfgType, UsbType, ProgType, Held, Numbered
  <2>8. Accounted'
    BY <1>17, CallAssumption DEF PacketDone, Inv, TypeOK, RegType, CfgType, UsbType, ProgType, EffectType, Calls, Held, Numbered, Accounted
  <2>9. Owned'
    BY <1>17, CallAssumption DEF PacketDone, Inv, TypeOK, RegType, CfgType, UsbType, ProgType, Waiting, Held, Numbered, Owned
  <2>10. Buffer'
    BY <1>17 DEF PacketDone, Inv, TypeOK, RegType, CfgType, UsbType, ProgType, NoDebug, Waiting, Held, Owned, Buffer
  <2>11. QED BY <2>1, <2>2, <2>3, <2>4, <2>5, <2>6, <2>7, <2>8, <2>9, <2>10 DEF Inv, TypeOK
<1>18. ASSUME OtherPacket PROVE Inv'
  <2>1. RegType'
    BY <1>18, CallAssumption DEF OtherPacket, Inv, TypeOK, RegType, CfgType, UsbType, ProgType, Calls, Commands, Waiting
  <2>2. CfgType'
    BY <1>18, CallAssumption DEF OtherPacket, Inv, TypeOK, RegType, CfgType, UsbType, ProgType, Calls, Commands, Errors
  <2>3. UsbType'
    BY <1>18, CallAssumption DEF OtherPacket, Inv, TypeOK, RegType, CfgType, UsbType, ProgType, Holders
  <2>4. ProgType'
    BY <1>18, CallAssumption DEF OtherPacket, Inv, TypeOK, RegType, CfgType, UsbType, ProgType, Waiting
  <2>5. EffectType'
    BY <1>18, CallAssumption DEF OtherPacket, Inv, TypeOK, RegType, CfgType, UsbType, ProgType, EffectType, Calls, Held, Numbered, Accounted
  <2>6. Held'
    BY <1>18, CallAssumption DEF OtherPacket, Inv, TypeOK, RegType, CfgType, UsbType, ProgType, Held
  <2>7. Numbered'
    BY <1>18, CallAssumption DEF OtherPacket, Inv, TypeOK, RegType, CfgType, UsbType, ProgType, Held, Numbered
  <2>8. Accounted'
    BY <1>18, CallAssumption DEF OtherPacket, Inv, TypeOK, RegType, CfgType, UsbType, ProgType, EffectType, Calls, Held, Numbered, Accounted
  <2>9. Owned'
    BY <1>18, CallAssumption DEF OtherPacket, Inv, TypeOK, RegType, CfgType, UsbType, ProgType, Waiting, Held, Numbered, Owned
  <2>10. Buffer'
    BY <1>18 DEF OtherPacket, Inv, TypeOK, RegType, CfgType, UsbType, ProgType, NoDebug, Waiting, Held, Owned, Buffer
  <2>11. QED BY <2>1, <2>2, <2>3, <2>4, <2>5, <2>6, <2>7, <2>8, <2>9, <2>10 DEF Inv, TypeOK
<1>19. ASSUME DebugReadStart PROVE Inv'
  <2>1. RegType'
    BY <1>19, CallAssumption DEF DebugReadStart, Inv, TypeOK, RegType, CfgType, UsbType, ProgType, Calls, Commands, Waiting
  <2>2. CfgType'
    BY <1>19, CallAssumption DEF DebugReadStart, Inv, TypeOK, RegType, CfgType, UsbType, ProgType, Calls, Commands, Errors
  <2>3. UsbType'
    BY <1>19, CallAssumption DEF DebugReadStart, Inv, TypeOK, RegType, CfgType, UsbType, ProgType, Holders
  <2>4. ProgType'
    BY <1>19, CallAssumption DEF DebugReadStart, Inv, TypeOK, RegType, CfgType, UsbType, ProgType, Waiting
  <2>5. EffectType'
    BY <1>19, CallAssumption DEF DebugReadStart, Inv, TypeOK, RegType, CfgType, UsbType, ProgType, EffectType, Calls, Held, Numbered, Accounted
  <2>6. Held'
    BY <1>19, CallAssumption DEF DebugReadStart, Inv, TypeOK, RegType, CfgType, UsbType, ProgType, Held
  <2>7. Numbered'
    BY <1>19, CallAssumption DEF DebugReadStart, Inv, TypeOK, RegType, CfgType, UsbType, ProgType, Held, Numbered
  <2>8. Accounted'
    BY <1>19, CallAssumption DEF DebugReadStart, Inv, TypeOK, RegType, CfgType, UsbType, ProgType, EffectType, Calls, Held, Numbered, Accounted
  <2>9. Owned'
    BY <1>19, CallAssumption DEF DebugReadStart, Inv, TypeOK, RegType, CfgType, UsbType, ProgType, Waiting, Held, Numbered, Owned
  <2>10. Buffer'
    BY <1>19 DEF DebugReadStart, Inv, TypeOK, RegType, CfgType, UsbType, ProgType, NoDebug, Waiting, Held, Owned, Buffer
  <2>11. QED BY <2>1, <2>2, <2>3, <2>4, <2>5, <2>6, <2>7, <2>8, <2>9, <2>10 DEF Inv, TypeOK
<1>20. ASSUME DebugReadDone PROVE Inv'
  <2>1. RegType'
    BY <1>20, CallAssumption DEF DebugReadDone, Inv, TypeOK, RegType, CfgType, UsbType, ProgType, Calls, Commands, Waiting
  <2>2. CfgType'
    BY <1>20, CallAssumption DEF DebugReadDone, Inv, TypeOK, RegType, CfgType, UsbType, ProgType, Calls, Commands, Errors
  <2>3. UsbType'
    BY <1>20, CallAssumption DEF DebugReadDone, Inv, TypeOK, RegType, CfgType, UsbType, ProgType, Holders
  <2>4. ProgType'
    BY <1>20, CallAssumption DEF DebugReadDone, Inv, TypeOK, RegType, CfgType, UsbType, ProgType, Waiting
  <2>5. EffectType'
    BY <1>20, CallAssumption DEF DebugReadDone, Inv, TypeOK, RegType, CfgType, UsbType, ProgType, EffectType, Calls, Held, Numbered, Accounted
  <2>6. Held'
    BY <1>20, CallAssumption DEF DebugReadDone, Inv, TypeOK, RegType, CfgType, UsbType, ProgType, Held
  <2>7. Numbered'
    BY <1>20, CallAssumption DEF DebugReadDone, Inv, TypeOK, RegType, CfgType, UsbType, ProgType, Held, Numbered
  <2>8. Accounted'
    BY <1>20, CallAssumption DEF DebugReadDone, Inv, TypeOK, RegType, CfgType, UsbType, ProgType, EffectType, Calls, Held, Numbered, Accounted
  <2>9. Owned'
    BY <1>20, CallAssumption DEF DebugReadDone, Inv, TypeOK, RegType, CfgType, UsbType, ProgType, Waiting, Held, Numbered, Owned
  <2>10. Buffer'
    BY <1>20 DEF DebugReadDone, Inv, TypeOK, RegType, CfgType, UsbType, ProgType, NoDebug, Waiting, Held, Owned, Buffer
  <2>11. QED BY <2>1, <2>2, <2>3, <2>4, <2>5, <2>6, <2>7, <2>8, <2>9, <2>10 DEF Inv, TypeOK
<1>21. ASSUME LinkReset PROVE Inv'
  <2>1. RegType'
    BY <1>21, CallAssumption DEF LinkReset, Inv, TypeOK, RegType, CfgType, UsbType, ProgType, Calls, Commands, Waiting
  <2>2. CfgType'
    BY <1>21, CallAssumption DEF LinkReset, Inv, TypeOK, RegType, CfgType, UsbType, ProgType, Calls, Commands, Errors
  <2>3. UsbType'
    BY <1>21, CallAssumption DEF LinkReset, Inv, TypeOK, RegType, CfgType, UsbType, ProgType, Holders
  <2>4. ProgType'
    BY <1>21, CallAssumption DEF LinkReset, Inv, TypeOK, RegType, CfgType, UsbType, ProgType, Waiting
  <2>5. EffectType'
    BY <1>21, CallAssumption DEF LinkReset, Inv, TypeOK, RegType, CfgType, UsbType, ProgType, EffectType, Calls, Held, Numbered, Accounted
  <2>6. Held'
    BY <1>21, CallAssumption DEF LinkReset, Inv, TypeOK, RegType, CfgType, UsbType, ProgType, Held
  <2>7. Numbered'
    BY <1>21, CallAssumption DEF LinkReset, Inv, TypeOK, RegType, CfgType, UsbType, ProgType, Held, Numbered
  <2>8. Accounted'
    BY <1>21, CallAssumption DEF LinkReset, Inv, TypeOK, RegType, CfgType, UsbType, ProgType, EffectType, Calls, Held, Numbered, Accounted
  <2>9. Owned'
    BY <1>21, CallAssumption DEF LinkReset, Inv, TypeOK, RegType, CfgType, UsbType, ProgType, Waiting, Held, Numbered, Owned
  <2>10. Buffer'
    BY <1>21 DEF LinkReset, Inv, TypeOK, RegType, CfgType, UsbType, ProgType, NoDebug, Waiting, Held, Owned, Buffer
  <2>11. QED BY <2>1, <2>2, <2>3, <2>4, <2>5, <2>6, <2>7, <2>8, <2>9, <2>10 DEF Inv, TypeOK
<1>22. ASSUME LinkSuspend PROVE Inv'
  <2>1. RegType'
    BY <1>22, CallAssumption DEF LinkSuspend, Inv, TypeOK, RegType, CfgType, UsbType, ProgType, Calls, Commands, Waiting
  <2>2. CfgType'
    BY <1>22, CallAssumption DEF LinkSuspend, Inv, TypeOK, RegType, CfgType, UsbType, ProgType, Calls, Commands, Errors
  <2>3. UsbType'
    BY <1>22, CallAssumption DEF LinkSuspend, Inv, TypeOK, RegType, CfgType, UsbType, ProgType, Holders
  <2>4. ProgType'
    BY <1>22, CallAssumption DEF LinkSuspend, Inv, TypeOK, RegType, CfgType, UsbType, ProgType, Waiting
  <2>5. EffectType'
    BY <1>22, CallAssumption DEF LinkSuspend, Inv, TypeOK, RegType, CfgType, UsbType, ProgType, EffectType, Calls, Held, Numbered, Accounted
  <2>6. Held'
    BY <1>22, CallAssumption DEF LinkSuspend, Inv, TypeOK, RegType, CfgType, UsbType, ProgType, Held
  <2>7. Numbered'
    BY <1>22, CallAssumption DEF LinkSuspend, Inv, TypeOK, RegType, CfgType, UsbType, ProgType, Held, Numbered
  <2>8. Accounted'
    BY <1>22, CallAssumption DEF LinkSuspend, Inv, TypeOK, RegType, CfgType, UsbType, ProgType, EffectType, Calls, Held, Numbered, Accounted
  <2>9. Owned'
    BY <1>22, CallAssumption DEF LinkSuspend, Inv, TypeOK, RegType, CfgType, UsbType, ProgType, Waiting, Held, Numbered, Owned
  <2>10. Buffer'
    BY <1>22 DEF LinkSuspend, Inv, TypeOK, RegType, CfgType, UsbType, ProgType, Holders, NoDebug, Waiting, Held, Owned, Buffer
  <2>11. QED BY <2>1, <2>2, <2>3, <2>4, <2>5, <2>6, <2>7, <2>8, <2>9, <2>10 DEF Inv, TypeOK
<1>23. CASE UNCHANGED vars
  <2>1. RegType'
    BY <1>23 DEF Inv, TypeOK, RegType
  <2>2. CfgType'
    BY <1>23 DEF Inv, TypeOK, CfgType
  <2>3. UsbType'
    BY <1>23 DEF Inv, TypeOK, UsbType
  <2>4. ProgType'
    BY <1>23 DEF Inv, TypeOK, ProgType
  <2>5. EffectType'
    BY <1>23 DEF Inv, TypeOK, EffectType
  <2>6. Held'
    BY <1>23 DEF Inv, Held
  <2>7. Numbered'
    BY <1>23 DEF Inv, Numbered
  <2>8. Accounted'
    BY <1>23 DEF Inv, Accounted
  <2>9. Owned'
    BY <1>23 DEF Inv, Owned
  <2>10. Buffer'
    BY <1>23 DEF Inv, Buffer, NoDebug
  <2>11. QED BY <2>1, <2>2, <2>3, <2>4, <2>5, <2>6, <2>7, <2>8, <2>9, <2>10 DEF Inv, TypeOK
<1>24. QED
  BY <1>1, <1>2, <1>3, <1>4, <1>5, <1>6, <1>7, <1>8, <1>9, <1>10, <1>11, <1>12, <1>13, <1>14, <1>15, <1>16, <1>17, <1>18, <1>19, <1>20, <1>21, <1>22, <1>23
  DEF Next, Program, CfgProcess, Execute, UsbProcess

\* The invariant, by one lemma per action.
LEMMA CfgInvariant == Spec => []Inv
BY InitInv, NextInv, PTL DEF Spec

\* What has ended is the program's own call: the answer follows from whose
\* command the registers hold.
LEMMA InvEnded == Inv => AnswerIsOwn /\ ErrorTellsEffect /\ NoStrayInterrupt /\ OutputBufferFree
<1> SUFFICES ASSUME Inv PROVE AnswerIsOwn /\ ErrorTellsEffect /\ NoStrayInterrupt /\ OutputBufferFree
  OBVIOUS
<1>1. CheckBusy /\ Ended => prog \in Waiting /\ ~cfgPending
  BY DEF Inv, Owned, Ended, Waiting
<1>2. AnswerIsOwn
  BY <1>1 DEF Inv, Owned, AnswerIsOwn
<1>3. ErrorTellsEffect
  BY <1>1 DEF Inv, Owned, Accounted, ErrorTellsEffect
<1>4. NoStrayInterrupt
  BY DEF Inv, Owned, NoStrayInterrupt
<1>5. OutputBufferFree
  BY DEF Inv, Buffer, NoDebug, OutputBufferFree
<1>6. QED BY <1>2, <1>3, <1>4, <1>5

\* A program that looks at CMD_BUSY first gets the answer to its own command
\* and arguments, whatever was pending when the console was reset
\* (cfg.c:151-177, n64_cfg.sv:96-153).
THEOREM OwnAnswers == Spec => []AnswerIsOwn
BY CfgInvariant, InvEnded, PTL

\* CMD_ERROR tells whether the call took effect (cfg.c:165-177, 599-625).
THEOREM ErrorsAreHonest == Spec => []ErrorTellsEffect
BY CfgInvariant, InvEnded, PTL

\* No interrupt comes to a program that did not ask for it (n64_cfg.sv:96-143).
THEOREM NoStrays == Spec => []NoStrayInterrupt
BY CfgInvariant, InvEnded, PTL

\* A program that was told its debug data has left finds its buffer free
\* (cfg.c:608-633).
THEOREM BufferReusable == Spec => []OutputBufferFree
BY CfgInvariant, InvEnded, PTL

-----------------------------------------------------------------------------
(* The refinement: opening, executing and answering a call are the steps of *)
(* the abstract service; all else is invisible to it.                       *)

\* The initial states are those of the service.
LEMMA ServiceInit == Init => Service!Init
BY DEF Init, Service!Init

\* A step is one of the service or leaves it alone.
LEMMA ServiceStep == Inv /\ [Next]_vars => [Service!Next]_(Service!vars)
<1> SUFFICES ASSUME Inv, [Next]_vars PROVE [Service!Next]_(Service!vars)
  OBVIOUS
<1> USE DEF regVars, cfgVars, usbVars, progVars, vars, Service!vars
<1>1. ASSUME NEW c \in Commands, NEW w \in Waiting, WriteCommand(c, w), ~cfgPending
      PROVE  Service!Submit(call)  /\ call \in Calls
  <2>1. call \in Calls /\ call > cfgCmd.n
    BY <1>1, CallAssumption DEF WriteCommand, Inv, TypeOK, ProgType, RegType, Numbered, Calls
  <2>2. effects[call] = 0
    BY <2>1 DEF Inv, Accounted
  <2>3. QED BY <1>1, <2>1, <2>2 DEF WriteCommand, Service!Submit
<1>2. ASSUME NEW c \in Commands, NEW w \in Waiting, WriteCommand(c, w), cfgPending
      PROVE  UNCHANGED Service!vars
  BY <1>2 DEF WriteCommand
<1>3. ASSUME pc = "execute", Succeed, UNCHANGED regVars
      PROVE  Service!TakeEffect
  <2>1. cfgPending /\ cmd = cfgCmd /\ cfgCmd.n \in Calls /\ effects[cfgCmd.n] = 0
    BY <1>3, CallAssumption DEF Inv, Held, Numbered, Accounted, TypeOK, RegType, Calls
  <2>2. effects' = [effects EXCEPT ![cfgCmd.n] = 1]
    BY <1>3, <2>1 DEF Succeed, Inv, TypeOK, EffectType
  <2>3. QED BY <1>3, <2>1, <2>2 DEF Service!TakeEffect
<1>4. ASSUME WriteDone PROVE Service!Finish
  <2>1. cfgPending /\ cfgCmd.n \in Calls /\ (effects[cfgCmd.n] = IF error = "ok" THEN 1 ELSE 0)
    BY <1>4, CallAssumption DEF WriteDone, Inv, Held, Numbered, Accounted, TypeOK, RegType, Calls
  <2>2. cmdError' = (effects[cfgCmd.n] = 0)
    BY <1>4, <2>1 DEF WriteDone
  <2>3. ~cfgPending' /\ effects' = effects
    BY <1>4 DEF WriteDone
  <2>4. QED BY <2>1, <2>2, <2>3 DEF Service!Finish
<1>5. ASSUME CfgProcess PROVE [Service!Next]_(Service!vars)
  <2>1. CASE CmdCheck \/ ExecuteBad \/ ExecuteUsbAddress \/ ExecuteUsbLater \/ WriteData
    BY <2>1 DEF CmdCheck, ExecuteBad, ExecuteUsbAddress, ExecuteUsbLater, WriteData
  <2>2. CASE ExecuteQuery \/ ExecuteUsbRead \/ ExecuteUsbWrite
    BY <1>3, <2>2 DEF ExecuteQuery, ExecuteUsbRead, ExecuteUsbWrite, Service!Next
  <2>3. CASE WriteDone
    BY <1>4, <2>3 DEF Service!Next
  <2>4. QED BY <1>5, <2>1, <2>2, <2>3 DEF CfgProcess, Execute
<1>6. ASSUME UsbProcess PROVE UNCHANGED Service!vars
  BY <1>6 DEF UsbProcess, TakePacket, PacketDone, OtherPacket, DebugReadStart, DebugReadDone,
              LinkReset, LinkSuspend
<1>7. ASSUME Program PROVE [Service!Next]_(Service!vars)
  <2>1. CASE Unlock \/ Lock \/ ReadAnswer \/ N64Reset \/ \E a \in {"pi", "outside"} : WriteArgs(a)
    BY <2>1 DEF Unlock, Lock, ReadAnswer, N64Reset, WriteArgs
  <2>2. CASE \E c \in Commands, w \in Waiting : WriteCommand(c, w)
    BY <1>1, <1>2, <2>2 DEF Service!Next
  <2>3. QED BY <1>7, <2>1, <2>2 DEF Program
<1>8. CASE UNCHANGED vars
  BY <1>8
<1>9. QED BY <1>5, <1>6, <1>7, <1>8 DEF Next

\* The registers and cfg_process keep the promise of CommandService: one call
\* at a time, executed at most once and only while CMD_BUSY is set, with an
\* error flag that tells (cfg.c:134-177, 549-803, n64_cfg.sv:93-153).
THEOREM ServiceImplemented == Spec => ImplementsService
BY ServiceInit, ServiceStep, CfgInvariant, PTL DEF Spec, ImplementsService, Service!Spec

\* No call takes effect twice, a call of an earlier program included (the range
\* of effects; cfg.c:165-177, 549-803).
THEOREM CfgTyped == Spec => []TypeOK
BY CfgInvariant, PTL DEF Inv

-----------------------------------------------------------------------------
(* The firmware update.  The invariant follows an update from the command   *)
(* to its last chip: what was checked is what will be programmed            *)
(* (AsChecked), the chips behind hold it (Behind), those ahead are as they  *)
(* were (Ahead), and "done" is only on its way when all is (Reported).      *)

\* The update was asked for, and no chip was touched yet.
Asked    == (at = "app" /\ response # "none") \/ (at = "loader" /\ tamp.magic)
Underway == at \in {"next", "erase", "program", "verify"}
Taken    == IF at = "loader" THEN tamp.chunks ELSE params

\* The response and the copy of the parameters have their time.
InTime == (response # "none" => at = "app") /\ (tamp.magic => at = "loader")

\* The game cannot write to the file unless it asked for that.
Closed == ~disturbed => ~writable

\* The chunks to program are in memory as they were checked.
AsChecked ==
  ~disturbed /\ (Asked \/ Underway) =>
    \A p \in Part : IF Taken[p] = 0 THEN checked[p] = "none"
                    ELSE file.chunks[Taken[p]].img = checked[p]

\* And they are chunks of the file, whoever wrote to it.
InFile == Asked \/ Underway => \A p \in Part : Taken[p] \in 0..Len(file.chunks)

Touched == IF at = "next" THEN part - 1 ELSE part

\* A chip that the update has not come to is whole, if it was before.
Ahead ==
  /\ Asked => \A p \in Part : Whole(p) \/ p \in broken
  /\ Underway \/ at = "fail" =>
       \A j \in 1..3 : j > Touched => Whole(Parts[j]) \/ Parts[j] \in broken

\* A chip that it has left behind holds what was checked.
Behind ==
  ~disturbed /\ (Underway \/ at \in {"fail", "reconfigure"}) =>
    \A i \in 1..3 : i < part /\ checked[Parts[i]] # "none" => Holds(Parts[i], checked[Parts[i]])

\* What the MCU was told to write, it has written: its words are read back.
McuInStep ==
  ~disturbed /\ at = "program" /\ This = "mcu" =>
    \A b \in 1..block - 1 : chip["mcu"][b] = checked["mcu"]

Ending    == (at = "reconfigure" => part = 4) /\ (Underway /\ at # "next" => Taken[This] # 0)
SentDone  == \E i \in DOMAIN sent : sent[i] = "done"

\* "done" is on its way, or read, only after the last chip.
Reported ==
  /\ SentDone => at = "reconfigure"
  /\ told = "done" => ~Asked /\ ~Underway /\ at # "fail"
  /\ (told = "done" \/ SentDone) /\ ~disturbed =>
       \A p \in Part : checked[p] # "none" => Holds(p, checked[p])

UpdInv ==
  /\ UpdTypeOK /\ InTime /\ Closed /\ AsChecked /\ Ahead /\ Behind /\ McuInStep /\ Ending
  /\ InFile /\ Reported /\ OneAtRisk

\* The last of some numbers up to n is one of them.
LEMMA MaxAmong ==
  ASSUME NEW n \in Nat, NEW S \in SUBSET (0..n), S # {}
  PROVE  Max(S) \in S
<1> DEFINE R == OpToRel(<, Nat)
           Left == {n - x : x \in S}
<1>1. Left \subseteq Nat /\ Left # {}
  OBVIOUS
<1>2. PICK m \in Left : \A y \in Left : <<y, m>> \notin R
  BY <1>1, WFMin, NatLessThanWellFounded
<1>3. PICK x \in S : m = n - x
  OBVIOUS
<1>4. \A y \in S : x >= y
  <2>1. SUFFICES ASSUME NEW y \in S, ~(x >= y) PROVE FALSE
    OBVIOUS
  <2>2. n - y \in Left /\ n - y \in Nat /\ m \in Nat /\ n - y < m
    BY <1>1, <1>3, <2>1
  <2>3. <<n - y, m>> \in R
    BY <2>2 DEF OpToRel
  <2>4. QED BY <1>2, <2>2, <2>3
<1>5. \E z \in S : \A y \in S : z >= y
  BY <1>4
<1>6. QED BY <1>5 DEF Max

\* The same for the first.
LEMMA MinAmong ==
  ASSUME NEW S \in SUBSET Nat, S # {}
  PROVE  Min(S) \in S
<1> DEFINE R == OpToRel(<, Nat)
<1>1. PICK x \in S : \A y \in S : <<y, x>> \notin R
  BY WFMin, NatLessThanWellFounded
<1>2. \A y \in S : x =< y
  <2>1. SUFFICES ASSUME NEW y \in S, ~(x =< y) PROVE FALSE
    OBVIOUS
  <2>2. <<y, x>> \in R
    BY <2>1 DEF OpToRel
  <2>3. QED BY <1>1, <2>2
<1>3. \E z \in S : \A y \in S : z =< y
  BY <1>2
<1>4. QED BY <1>3 DEF Min

\* update_prepare takes a chunk of the file, or none.
LEMMA FoundIn ==
  ASSUME file \in File, NEW p
  PROVE  Found(p) \in 0..Len(file.chunks)
<1> DEFINE Bad  == {i \in DOMAIN file.chunks : Refused(file.chunks[i])}
           Ours == {i \in 1..Read : file.chunks[i].id = p} \cup {0}
<1>1. Len(file.chunks) \in Nat /\ DOMAIN file.chunks = 1..Len(file.chunks)
  BY DEF File
<1>2. Read \in 0..Len(file.chunks)
  <2>1. CASE Bad # {}
    <3>1. Min(Bad) \in Bad
      <4>1. Bad \in SUBSET Nat
        BY <1>1
      <4>2. QED BY <2>1, <4>1, MinAmong
    <3>2. QED BY <1>1, <2>1, <3>1 DEF Read
  <2>2. CASE Bad = {}
    BY <1>1, <2>2 DEF Read
  <2>3. QED BY <2>1, <2>2
<1>3. Ours \in SUBSET (0..Len(file.chunks)) /\ Ours # {}
  BY <1>1, <1>2
<1>4. Max(Ours) \in Ours
  BY <1>1, <1>3, MaxAmong
<1>5. QED BY <1>3, <1>4 DEF Found

\* In a file that was accepted every chunk is in memory as its checksum says.
LEMMA AcceptedChunks ==
  ASSUME file \in File, Accepted, NEW p, Found(p) # 0
  PROVE  Found(p) \in DOMAIN file.chunks /\ file.chunks[Found(p)].sum = file.chunks[Found(p)].img
<1> DEFINE Bad == {i \in DOMAIN file.chunks : Refused(file.chunks[i])}
<1>1. Len(file.chunks) \in Nat /\ DOMAIN file.chunks = 1..Len(file.chunks)
  BY DEF File
<1>2. Bad = {}
  <2>1. SUFFICES ASSUME Bad # {} PROVE FALSE
    OBVIOUS
  <2>2. Min(Bad) \in Bad
    <3>1. Bad \in SUBSET Nat
      BY <1>1
    <3>2. QED BY <2>1, <3>1, MinAmong
  <2>3. Read = Min(Bad) - 1
    BY <2>1 DEF Read
  <2>4. QED BY <1>1, <2>2, <2>3 DEF Accepted
<1>3. Found(p) \in DOMAIN file.chunks
  BY <1>1, FoundIn
<1>4. QED BY <1>2, <1>3 DEF Refused

\* What a game spoils is still a file.
LEMMA SpoiltFile ==
  ASSUME NEW f \in File, NEW i \in DOMAIN f.chunks
  PROVE  [f EXCEPT !.chunks[i].img = Junk] \in File
<1> DEFINE c == [f.chunks[i] EXCEPT !.img = Junk]
<1>1. f.chunks \in Seq(Chunks) /\ f.chunks[i] \in Chunks
  BY DEF File
<1>2. c \in Chunks
  BY <1>1 DEF Chunks, Image
<1>3. [f.chunks EXCEPT ![i] = c] \in Seq(Chunks)
  BY <1>1, <1>2
<1>4. [f EXCEPT !.chunks[i].img = Junk] = [f EXCEPT !.chunks = [f.chunks EXCEPT ![i] = c]]
  BY DEF File
<1>5. QED BY <1>3, <1>4 DEF File

\* The three chips, in the order they are programmed.
LEMMA PartsAre ==
  /\ Part = {"mcu", "fpga", "bootloader"} /\ DOMAIN Parts = 1..3
  /\ Parts[1] = "mcu" /\ Parts[2] = "fpga" /\ Parts[3] = "bootloader"
BY DEF Part, Parts, ToSet

\* Every step of the board, the host, the game and the power keeps the invariant.
LEMMA UpdNextInv == UpdInv /\ [UpdNext]_updVars => UpdInv'
<1> SUFFICES ASSUME UpdInv, [UpdNext]_updVars PROVE UpdInv'
  OBVIOUS
<1> USE DEF hostVars, runVars, history, counts
<1>1. ASSUME \E f \in Files : LoadFile(f) PROVE UpdInv'
  <2>1. UpdTypeOK'
    BY <1>1, ImagesAssumption DEF LoadFile, UpdInv, UpdTypeOK
  <2>2. InTime'
    BY <1>1, PartsAre DEF LoadFile, Turn, InTime, UpdInv, UpdTypeOK
  <2>3. Closed'
    BY <1>1, PartsAre DEF LoadFile, Turn, Closed, UpdInv, UpdTypeOK, InTime
  <2>4. AsChecked'
    BY <1>1, PartsAre DEF LoadFile, Turn, AsChecked, Asked, Underway, Taken, UpdInv, UpdTypeOK, InTime
  <2>5. Ahead'
    BY <1>1, PartsAre DEF LoadFile, Turn, Ahead, Asked, Underway, Touched, Whole, Holds, UpdInv,
        UpdTypeOK, InTime
  <2>6. Behind'
    BY <1>1, PartsAre DEF LoadFile, Turn, Behind, Underway, Holds, UpdInv, UpdTypeOK, InTime
  <2>7. McuInStep'
    BY <1>1, PartsAre DEF LoadFile, Turn, McuInStep, This, UpdInv, UpdTypeOK, InTime
  <2>8. Ending'
    BY <1>1, PartsAre DEF LoadFile, Turn, Ending, Underway, Taken, This, UpdInv, UpdTypeOK, InTime
  <2>9. Reported'
    BY <1>1, PartsAre DEF LoadFile, Turn, Reported, SentDone, Asked, Underway, Holds, UpdInv, UpdTypeOK,
        InTime
  <2>10. OneAtRisk'
    BY <1>1, PartsAre DEF LoadFile, Turn, OneAtRisk, Whole, Holds, UpdInv, UpdTypeOK, InTime
  <2>11. InFile'
    BY <1>1, PartsAre DEF LoadFile, Turn, InFile, Asked, Underway, Taken, UpdInv, UpdTypeOK, InTime
  <2>12. QED BY <2>1, <2>2, <2>3, <2>4, <2>5, <2>6, <2>7, <2>8, <2>9, <2>10, <2>11 DEF UpdInv
<1>2. ASSUME Backup PROVE UpdInv'
  <2>1. UpdTypeOK'
    <3>1. \A p \in Part : chip[p][1] \in Image
      BY UpdateAssumption DEF UpdInv, UpdTypeOK, Cells
    <3>2. \A p \in {"mcu", "fpga", "bootloader"} : \A v \in Image : Chunk(p, v) \in Chunks
      BY PartsAre DEF Chunk, Chunks
    <3>3. [i \in 1..3 |-> Chunk(Parts[i], chip[Parts[i]][1])] \in Seq(Chunks)
      BY <3>1, <3>2, PartsAre
    <3>4. <<Chunk("mcu", chip["mcu"][1]), [Chunk("fpga", Junk) EXCEPT !.sum = Old]>> \in Seq(Chunks)
      <4>1. [Chunk("fpga", Junk) EXCEPT !.sum = Old] \in Chunks
        BY ImagesAssumption, PartsAre DEF Chunk, Chunks, Image
      <4>2. QED BY <3>1, <3>2, <4>1, PartsAre
    <3>5. file' \in File
      <4>1. \E c \in Seq(Chunks) : file' = [token |-> TRUE, chunks |-> c]
        BY <1>2, <3>3, <3>4 DEF Backup
      <4>2. QED BY <4>1 DEF File
    <3>6. faults' \in 0..MaxFaults
      BY <1>2, UpdateAssumption DEF Backup, UpdInv, UpdTypeOK
    <3>7. chip' = chip /\ response' = response /\ params' = params /\ tamp' = tamp
      BY <1>2 DEF Backup
    <3>8. at' = at /\ part' = part /\ block' = block
      BY <1>2 DEF Backup, runVars
    <3>9. sent' = sent /\ room' = room /\ gone' = gone /\ told' = told
      BY <1>2 DEF Backup, hostVars
    <3>10. checked' = checked /\ disturbed' = disturbed /\ broken' = broken
      BY <1>2 DEF Backup, history
    <3>11. updates' = updates /\ writes' = writes
      BY <1>2 DEF Backup
    <3>12. writable' \in BOOLEAN
      BY <1>2 DEF Backup
    <3>13. QED
      BY <3>5, <3>6, <3>7, <3>8, <3>9, <3>10, <3>11, <3>12 DEF UpdInv, UpdTypeOK
  <2>2. InTime'
    BY <1>2, PartsAre DEF Backup, Turn, Chunk, InTime, UpdInv, UpdTypeOK
  <2>3. Closed'
    BY <1>2, PartsAre DEF Backup, Turn, Chunk, Closed, UpdInv, UpdTypeOK, InTime
  <2>4. AsChecked'
    BY <1>2, PartsAre DEF Backup, Turn, Chunk, AsChecked, Asked, Underway, Taken, UpdInv, UpdTypeOK, InTime
  <2>5. Ahead'
    BY <1>2, PartsAre DEF Backup, Turn, Chunk, Ahead, Asked, Underway, Touched, Whole, Holds, UpdInv,
        UpdTypeOK, InTime
  <2>6. Behind'
    BY <1>2, PartsAre DEF Backup, Turn, Chunk, Behind, Underway, Holds, UpdInv, UpdTypeOK, InTime
  <2>7. McuInStep'
    BY <1>2, PartsAre DEF Backup, Turn, Chunk, McuInStep, This, UpdInv, UpdTypeOK, InTime
  <2>8. Ending'
    BY <1>2, PartsAre DEF Backup, Turn, Chunk, Ending, Underway, Taken, This, UpdInv, UpdTypeOK, InTime
  <2>9. Reported'
    BY <1>2, PartsAre DEF Backup, Turn, Chunk, Reported, SentDone, Asked, Underway, Holds, UpdInv,
        UpdTypeOK, InTime
  <2>10. OneAtRisk'
    BY <1>2, PartsAre DEF Backup, Turn, Chunk, OneAtRisk, Whole, Holds, UpdInv, UpdTypeOK, InTime
  <2>11. InFile'
    BY <1>2, PartsAre DEF Backup, Turn, Chunk, InFile, Asked, Underway, Taken, UpdInv, UpdTypeOK, InTime
  <2>12. QED BY <2>1, <2>2, <2>3, <2>4, <2>5, <2>6, <2>7, <2>8, <2>9, <2>10, <2>11 DEF UpdInv
<1>3. ASSUME UpdateCommand PROVE UpdInv'
  <2>1. UpdTypeOK'
    <3>1. file.token => \A p \in Part : Found(p) \in Nat
      BY FoundIn DEF UpdInv, UpdTypeOK
    <3>2. params' \in [Part -> Nat]
      BY <1>3, <3>1 DEF UpdateCommand, UpdInv, UpdTypeOK
    <3>3. checked' \in [Part -> Image \cup {"none"}]
      <4>1. ASSUME NEW p \in Part, Accepted, Found(p) # 0 PROVE file.chunks[Found(p)].sum \in Image
        <5>1. file.chunks[Found(p)] \in Chunks
          BY <4>1, AcceptedChunks DEF UpdInv, UpdTypeOK, File
        <5>2. QED BY <5>1 DEF Chunks
      <4>2. QED BY <1>3, <4>1 DEF UpdateCommand
    <3>4. updates' \in 0..MaxUpdates
      BY SMTT(30), <1>3, UpdateAssumption DEF UpdateCommand, UpdInv, UpdTypeOK
    <3>5. QED BY <1>3, <3>2, <3>3, <3>4 DEF UpdateCommand, UpdInv, UpdTypeOK
  <2>2. InTime'
    BY <1>3, PartsAre DEF UpdateCommand, Turn, InTime, UpdInv, UpdTypeOK
  <2>3. Closed'
    BY <1>3, PartsAre DEF UpdateCommand, Turn, Closed, UpdInv, UpdTypeOK, InTime
  <2>4. AsChecked'
    <3>1. ASSUME Asked' \/ Underway', NEW p \in Part
          PROVE  IF Taken'[p] = 0 THEN checked'[p] = "none" ELSE file'.chunks[Taken'[p]].img = checked'[p]
      <4>1. Accepted /\ at' = "app" /\ params' = [q \in Part |-> Found(q)] /\ file' = file
        BY <1>3, <3>1 DEF UpdateCommand, Turn, Asked, Underway, Accepted, UpdInv, UpdTypeOK, InTime
      <4>2. checked'[p] = IF Found(p) # 0 THEN file.chunks[Found(p)].sum ELSE "none"
        BY <1>3, <4>1 DEF UpdateCommand
      <4>3. QED BY <4>1, <4>2, AcceptedChunks DEF Taken, UpdInv, UpdTypeOK
    <3>2. QED BY <3>1 DEF AsChecked
  <2>5. Ahead'
    BY <1>3, PartsAre DEF UpdateCommand, Turn, Ahead, Asked, Underway, Touched, Whole, Holds, UpdInv,
        UpdTypeOK, InTime
  <2>6. Behind'
    BY <1>3, PartsAre DEF UpdateCommand, Turn, Behind, Underway, Holds, UpdInv, UpdTypeOK, InTime
  <2>7. McuInStep'
    BY <1>3, PartsAre DEF UpdateCommand, Turn, McuInStep, This, UpdInv, UpdTypeOK, InTime
  <2>8. Ending'
    BY <1>3, PartsAre DEF UpdateCommand, Turn, Ending, Underway, Taken, This, UpdInv, UpdTypeOK, InTime
  <2>9. Reported'
    BY <1>3, PartsAre DEF UpdateCommand, Turn, Reported, SentDone, Asked, Underway, Holds, UpdInv,
        UpdTypeOK, InTime
  <2>10. OneAtRisk'
    BY <1>3, PartsAre DEF UpdateCommand, Turn, OneAtRisk, Whole, Holds, UpdInv, UpdTypeOK, InTime
  <2>11. InFile'
    <3>1. SUFFICES ASSUME Asked' \/ Underway', NEW p \in Part PROVE Taken'[p] \in 0..Len(file'.chunks)
      BY DEF InFile
    <3>2. Accepted /\ at' = "app" /\ params' = [q \in Part |-> Found(q)] /\ file' = file
      BY <1>3, <3>1 DEF UpdateCommand, Turn, Asked, Underway, Accepted, UpdInv, UpdTypeOK, InTime
    <3>3. QED BY <3>2, FoundIn DEF Taken, UpdInv, UpdTypeOK
  <2>12. QED BY <2>1, <2>2, <2>3, <2>4, <2>5, <2>6, <2>7, <2>8, <2>9, <2>10, <2>11 DEF UpdInv
<1>4. ASSUME SendResponse PROVE UpdInv'
  <2>1. UpdTypeOK'
    BY <1>4, PartsAre DEF SendResponse, UpdTypeOK, UpdInv, InTime
  <2>2. InTime'
    BY <1>4, PartsAre DEF SendResponse, InTime, UpdInv, UpdTypeOK
  <2>3. Closed'
    BY <1>4, PartsAre DEF SendResponse, Closed, UpdInv, UpdTypeOK, InTime
  <2>4. AsChecked'
    BY <1>4, PartsAre DEF SendResponse, AsChecked, Asked, Underway, Taken, UpdInv, UpdTypeOK, InTime
  <2>5. Ahead'
    BY <1>4, PartsAre DEF SendResponse, Ahead, Asked, Underway, Touched, Whole, Holds, UpdInv,
        UpdTypeOK, InTime
  <2>6. Behind'
    BY <1>4, PartsAre DEF SendResponse, Behind, Underway, Holds, UpdInv, UpdTypeOK, InTime
  <2>7. McuInStep'
    BY <1>4, PartsAre DEF SendResponse, McuInStep, This, UpdInv, UpdTypeOK, InTime
  <2>8. Ending'
    BY <1>4, PartsAre DEF SendResponse, Ending, Underway, Taken, This, UpdInv, UpdTypeOK, InTime
  <2>9. Reported'
    BY <1>4, PartsAre DEF SendResponse, Reported, SentDone, Asked, Underway, Holds, UpdInv, UpdTypeOK, InTime
  <2>10. OneAtRisk'
    BY SMTT(30), <1>4, PartsAre DEF SendResponse, OneAtRisk, Whole, Holds, UpdInv, UpdTypeOK, InTime
  <2>11. InFile'
    BY <1>4, PartsAre DEF SendResponse, InFile, Asked, Underway, Taken, UpdInv, UpdTypeOK, InTime
  <2>12. QED BY <2>1, <2>2, <2>3, <2>4, <2>5, <2>6, <2>7, <2>8, <2>9, <2>10, <2>11 DEF UpdInv
<1>5. ASSUME UpdateStart PROVE UpdInv'
  <2>1. UpdTypeOK'
    BY <1>5, UpdateAssumption, PartsAre DEF UpdateStart, Tamp, NoParams, UpdInv, UpdTypeOK
  <2>2. InTime'
    BY <1>5, PartsAre DEF UpdateStart, Tamp, NoParams, InTime, UpdInv, UpdTypeOK
  <2>3. Closed'
    BY <1>5, PartsAre DEF UpdateStart, Tamp, NoParams, Closed, UpdInv, UpdTypeOK, InTime
  <2>4. AsChecked'
    BY <1>5, PartsAre DEF UpdateStart, Tamp, NoParams, AsChecked, Asked, Underway, Taken, UpdInv,
        UpdTypeOK, InTime
  <2>5. Ahead'
    BY <1>5, PartsAre DEF UpdateStart, Tamp, NoParams, Ahead, Asked, Underway, Touched, Whole, Holds,
        UpdInv, UpdTypeOK, InTime
  <2>6. Behind'
    BY <1>5, PartsAre DEF UpdateStart, Tamp, NoParams, Behind, Underway, Holds, UpdInv, UpdTypeOK, InTime
  <2>7. McuInStep'
    BY <1>5, PartsAre DEF UpdateStart, Tamp, NoParams, McuInStep, This, UpdInv, UpdTypeOK, InTime
  <2>8. Ending'
    BY <1>5, PartsAre DEF UpdateStart, Tamp, NoParams, Ending, Underway, Taken, This, UpdInv, UpdTypeOK,
        InTime
  <2>9. Reported'
    BY <1>5, PartsAre DEF UpdateStart, Tamp, NoParams, Reported, SentDone, Asked, Underway, Holds,
        UpdInv, UpdTypeOK, InTime
  <2>10. OneAtRisk'
    BY <1>5, PartsAre DEF UpdateStart, Tamp, NoParams, OneAtRisk, Whole, Holds, UpdInv, UpdTypeOK, InTime
  <2>11. InFile'
    BY <1>5, PartsAre DEF UpdateStart, Tamp, NoParams, InFile, Asked, Underway, Taken, UpdInv,
        UpdTypeOK, InTime
  <2>12. QED BY <2>1, <2>2, <2>3, <2>4, <2>5, <2>6, <2>7, <2>8, <2>9, <2>10, <2>11 DEF UpdInv
<1>6. ASSUME LinkLost PROVE UpdInv'
  <2>1. UpdTypeOK'
    BY <1>6, PartsAre DEF LinkLost, UpdTypeOK, UpdInv, InTime
  <2>2. InTime'
    BY <1>6, PartsAre DEF LinkLost, InTime, UpdInv, UpdTypeOK
  <2>3. Closed'
    BY <1>6, PartsAre DEF LinkLost, Closed, UpdInv, UpdTypeOK, InTime
  <2>4. AsChecked'
    BY <1>6, PartsAre DEF LinkLost, AsChecked, Asked, Underway, Taken, UpdInv, UpdTypeOK, InTime
  <2>5. Ahead'
    BY <1>6, PartsAre DEF LinkLost, Ahead, Asked, Underway, Touched, Whole, Holds, UpdInv, UpdTypeOK, InTime
  <2>6. Behind'
    BY <1>6, PartsAre DEF LinkLost, Behind, Underway, Holds, UpdInv, UpdTypeOK, InTime
  <2>7. McuInStep'
    BY <1>6, PartsAre DEF LinkLost, McuInStep, This, UpdInv, UpdTypeOK, InTime
  <2>8. Ending'
    BY <1>6, PartsAre DEF LinkLost, Ending, Underway, Taken, This, UpdInv, UpdTypeOK, InTime
  <2>9. Reported'
    BY <1>6, PartsAre DEF LinkLost, Reported, SentDone, Asked, Underway, Holds, UpdInv, UpdTypeOK, InTime
  <2>10. OneAtRisk'
    BY <1>6, PartsAre DEF LinkLost, OneAtRisk, Whole, Holds, UpdInv, UpdTypeOK, InTime
  <2>11. InFile'
    BY <1>6, PartsAre DEF LinkLost, InFile, Asked, Underway, Taken, UpdInv, UpdTypeOK, InTime
  <2>12. QED BY <2>1, <2>2, <2>3, <2>4, <2>5, <2>6, <2>7, <2>8, <2>9, <2>10, <2>11 DEF UpdInv
<1>7. ASSUME GameOpens PROVE UpdInv'
  <2>1. UpdTypeOK'
    BY <1>7, PartsAre DEF GameOpens, UpdTypeOK, UpdInv, InTime
  <2>2. InTime'
    BY <1>7, PartsAre DEF GameOpens, InTime, UpdInv, UpdTypeOK
  <2>3. Closed'
    BY <1>7, PartsAre DEF GameOpens, Closed, UpdInv, UpdTypeOK, InTime
  <2>4. AsChecked'
    BY <1>7, PartsAre DEF GameOpens, AsChecked, Asked, Underway, Taken, UpdInv, UpdTypeOK, InTime
  <2>5. Ahead'
    BY <1>7, PartsAre DEF GameOpens, Ahead, Asked, Underway, Touched, Whole, Holds, UpdInv, UpdTypeOK, InTime
  <2>6. Behind'
    BY <1>7, PartsAre DEF GameOpens, Behind, Underway, Holds, UpdInv, UpdTypeOK, InTime
  <2>7. McuInStep'
    BY <1>7, PartsAre DEF GameOpens, McuInStep, This, UpdInv, UpdTypeOK, InTime
  <2>8. Ending'
    BY <1>7, PartsAre DEF GameOpens, Ending, Underway, Taken, This, UpdInv, UpdTypeOK, InTime
  <2>9. Reported'
    BY <1>7, PartsAre DEF GameOpens, Reported, SentDone, Asked, Underway, Holds, UpdInv, UpdTypeOK, InTime
  <2>10. OneAtRisk'
    BY <1>7, PartsAre DEF GameOpens, OneAtRisk, Whole, Holds, UpdInv, UpdTypeOK, InTime
  <2>11. InFile'
    BY <1>7, PartsAre DEF GameOpens, InFile, Asked, Underway, Taken, UpdInv, UpdTypeOK, InTime
  <2>12. QED BY <2>1, <2>2, <2>3, <2>4, <2>5, <2>6, <2>7, <2>8, <2>9, <2>10, <2>11 DEF UpdInv
<1>8. ASSUME \E i \in DOMAIN file.chunks : GameLoads(i) PROVE UpdInv'
  <2>1. UpdTypeOK'
    <3>1. file' \in File
      <4>1. PICK i \in DOMAIN file.chunks : file' = [file EXCEPT !.chunks[i].img = Junk]
        BY <1>8 DEF GameLoads, Spoil
      <4>2. file \in File
        BY DEF UpdInv, UpdTypeOK
      <4>3. QED BY <4>1, <4>2, SpoiltFile
    <3>2. writes' \in 0..MaxWrites
      BY <1>8, UpdateAssumption DEF GameLoads, Spoil, UpdInv, UpdTypeOK
    <3>3. QED BY <1>8, <3>1, <3>2 DEF GameLoads, Spoil, UpdInv, UpdTypeOK
  <2>2. InTime'
    BY <1>8, PartsAre DEF GameLoads, Spoil, InTime, UpdInv, UpdTypeOK
  <2>3. Closed'
    BY <1>8, PartsAre DEF GameLoads, Spoil, Closed, UpdInv, UpdTypeOK, InTime
  <2>4. AsChecked'
    BY <1>8, PartsAre DEF GameLoads, Spoil, AsChecked, Asked, Underway, Taken, UpdInv, UpdTypeOK, InTime
  <2>5. Ahead'
    BY <1>8, PartsAre DEF GameLoads, Spoil, Ahead, Asked, Underway, Touched, Whole, Holds, UpdInv,
        UpdTypeOK, InTime
  <2>6. Behind'
    BY <1>8, PartsAre DEF GameLoads, Spoil, Behind, Underway, Holds, UpdInv, UpdTypeOK, InTime
  <2>7. McuInStep'
    BY <1>8, PartsAre DEF GameLoads, Spoil, McuInStep, This, UpdInv, UpdTypeOK, InTime
  <2>8. Ending'
    BY <1>8, PartsAre DEF GameLoads, Spoil, Ending, Underway, Taken, This, UpdInv, UpdTypeOK, InTime
  <2>9. Reported'
    BY <1>8, PartsAre DEF GameLoads, Spoil, Reported, SentDone, Asked, Underway, Holds, UpdInv,
        UpdTypeOK, InTime
  <2>10. OneAtRisk'
    BY <1>8, PartsAre DEF GameLoads, Spoil, OneAtRisk, Whole, Holds, UpdInv, UpdTypeOK, InTime
  <2>11. InFile'
    <3>1. Len(file'.chunks) = Len(file.chunks)
      BY <1>8, SpoiltFile DEF GameLoads, Spoil, File, UpdInv, UpdTypeOK
    <3>2. QED BY <1>8, <3>1 DEF GameLoads, InFile, Asked, Underway, Taken, UpdInv
  <2>12. QED BY <2>1, <2>2, <2>3, <2>4, <2>5, <2>6, <2>7, <2>8, <2>9, <2>10, <2>11 DEF UpdInv
<1>9. ASSUME \E i \in DOMAIN file.chunks : GameWrites(i) PROVE UpdInv'
  <2>1. UpdTypeOK'
    <3>1. file' \in File
      <4>1. PICK i \in DOMAIN file.chunks : file' = [file EXCEPT !.chunks[i].img = Junk]
        BY <1>9 DEF GameWrites, Spoil
      <4>2. file \in File
        BY DEF UpdInv, UpdTypeOK
      <4>3. QED BY <4>1, <4>2, SpoiltFile
    <3>2. writes' \in 0..MaxWrites
      BY <1>9, UpdateAssumption DEF GameWrites, Spoil, UpdInv, UpdTypeOK
    <3>3. QED BY <1>9, <3>1, <3>2 DEF GameWrites, Spoil, UpdInv, UpdTypeOK
  <2>2. InTime'
    BY <1>9, PartsAre DEF GameWrites, Spoil, InTime, UpdInv, UpdTypeOK
  <2>3. Closed'
    BY <1>9, PartsAre DEF GameWrites, Spoil, Closed, UpdInv, UpdTypeOK, InTime
  <2>4. AsChecked'
    BY <1>9 DEF GameWrites, AsChecked, Closed, UpdInv
  <2>5. Ahead'
    BY <1>9, PartsAre DEF GameWrites, Spoil, Ahead, Asked, Underway, Touched, Whole, Holds, UpdInv,
        UpdTypeOK, InTime
  <2>6. Behind'
    BY <1>9, PartsAre DEF GameWrites, Spoil, Behind, Underway, Holds, UpdInv, UpdTypeOK, InTime
  <2>7. McuInStep'
    BY SMTT(30), <1>9, PartsAre DEF GameWrites, Spoil, McuInStep, This, UpdInv, UpdTypeOK, InTime
  <2>8. Ending'
    BY <1>9 DEF GameWrites, Ending, Underway, Taken, This, UpdInv
  <2>9. Reported'
    BY <1>9, PartsAre DEF GameWrites, Spoil, Reported, SentDone, Asked, Underway, Holds, UpdInv,
        UpdTypeOK, InTime
  <2>10. OneAtRisk'
    BY <1>9, PartsAre DEF GameWrites, Spoil, OneAtRisk, Whole, Holds, UpdInv, UpdTypeOK, InTime
  <2>11. InFile'
    <3>1. Len(file'.chunks) = Len(file.chunks)
      BY <1>9, SpoiltFile DEF GameWrites, Spoil, File, UpdInv, UpdTypeOK
    <3>2. QED BY <1>9, <3>1 DEF GameWrites, InFile, Asked, Underway, Taken, UpdInv
  <2>12. QED BY <2>1, <2>2, <2>3, <2>4, <2>5, <2>6, <2>7, <2>8, <2>9, <2>10, <2>11 DEF UpdInv
<1>10. ASSUME Loader PROVE UpdInv'
  <2>1. UpdTypeOK'
    BY SMTT(30), <1>10, PartsAre DEF Loader, NoTamp, NoParams, UpdTypeOK, UpdInv, InTime
  <2>2. InTime'
    BY <1>10, PartsAre DEF Loader, NoTamp, NoParams, InTime, UpdInv, UpdTypeOK
  <2>3. Closed'
    BY <1>10, PartsAre DEF Loader, NoTamp, NoParams, Closed, UpdInv, UpdTypeOK, InTime
  <2>4. AsChecked'
    BY <1>10, PartsAre DEF Loader, NoTamp, NoParams, AsChecked, Asked, Underway, Taken, UpdInv,
        UpdTypeOK, InTime
  <2>5. Ahead'
    BY <1>10, PartsAre DEF Loader, NoTamp, NoParams, Ahead, Asked, Underway, Touched, Whole, Holds,
        UpdInv, UpdTypeOK, InTime
  <2>6. Behind'
    BY <1>10, PartsAre DEF Loader, NoTamp, NoParams, Behind, Underway, Holds, UpdInv, UpdTypeOK, InTime
  <2>7. McuInStep'
    BY <1>10, PartsAre DEF Loader, NoTamp, NoParams, McuInStep, This, UpdInv, UpdTypeOK, InTime
  <2>8. Ending'
    BY <1>10, PartsAre DEF Loader, NoTamp, NoParams, Ending, Underway, Taken, This, UpdInv, UpdTypeOK, InTime
  <2>9. Reported'
    BY <1>10, PartsAre DEF Loader, NoTamp, NoParams, Reported, SentDone, Asked, Underway, Holds, UpdInv,
        UpdTypeOK, InTime
  <2>10. OneAtRisk'
    BY <1>10, PartsAre DEF Loader, NoTamp, NoParams, OneAtRisk, Whole, Holds, UpdInv, UpdTypeOK, InTime
  <2>11. InFile'
    BY <1>10, PartsAre DEF Loader, NoTamp, NoParams, InFile, Asked, Underway, Taken, UpdInv, UpdTypeOK, InTime
  <2>12. QED BY <2>1, <2>2, <2>3, <2>4, <2>5, <2>6, <2>7, <2>8, <2>9, <2>10, <2>11 DEF UpdInv
<1>11. ASSUME Skip PROVE UpdInv'
  <2>1. UpdTypeOK'
    BY <1>11, PartsAre DEF Skip, This, UpdTypeOK, UpdInv, InTime
  <2>2. InTime'
    BY <1>11, PartsAre DEF Skip, This, InTime, UpdInv, UpdTypeOK
  <2>3. Closed'
    BY <1>11, PartsAre DEF Skip, This, Closed, UpdInv, UpdTypeOK, InTime
  <2>4. AsChecked'
    BY <1>11, PartsAre DEF Skip, This, AsChecked, Asked, Underway, Taken, UpdInv, UpdTypeOK, InTime
  <2>5. Ahead'
    BY <1>11, PartsAre DEF Skip, This, Ahead, Asked, Underway, Touched, Whole, Holds, UpdInv, UpdTypeOK,
        InTime
  <2>6. Behind'
    <3>1. ~disturbed => checked[This] = "none"
      BY SMTT(30), <1>11, PartsAre DEF Skip, AsChecked, Underway, Taken, This, UpdInv, UpdTypeOK
    <3>2. \A i \in 1..3 : i < part' <=> i < part \/ i = part
      BY <1>11 DEF Skip, UpdInv, UpdTypeOK
    <3>3. QED BY <1>11, <3>1, <3>2 DEF Skip, Behind, Underway, Holds, This, UpdInv
  <2>7. McuInStep'
    BY <1>11, PartsAre DEF Skip, This, McuInStep, UpdInv, UpdTypeOK, InTime
  <2>8. Ending'
    BY <1>11, PartsAre DEF Skip, This, Ending, Underway, Taken, UpdInv, UpdTypeOK, InTime
  <2>9. Reported'
    BY <1>11, PartsAre DEF Skip, This, Reported, SentDone, Asked, Underway, Holds, UpdInv, UpdTypeOK, InTime
  <2>10. OneAtRisk'
    BY SMTT(30), <1>11, PartsAre DEF Skip, This, OneAtRisk, Whole, Holds, UpdInv, UpdTypeOK, InTime
  <2>11. InFile'
    BY <1>11, PartsAre DEF Skip, This, InFile, Asked, Underway, Taken, UpdInv, UpdTypeOK, InTime
  <2>12. QED BY <2>1, <2>2, <2>3, <2>4, <2>5, <2>6, <2>7, <2>8, <2>9, <2>10, <2>11 DEF UpdInv
<1>12. ASSUME NotifyPart PROVE UpdInv'
  <2>1. UpdTypeOK'
    BY SMTT(30), <1>12, PartsAre DEF NotifyPart, Notify, This, UpdTypeOK, UpdInv, InTime
  <2>2. InTime'
    BY <1>12, PartsAre DEF NotifyPart, Notify, This, InTime, UpdInv, UpdTypeOK
  <2>3. Closed'
    BY <1>12, PartsAre DEF NotifyPart, Notify, This, Closed, UpdInv, UpdTypeOK, InTime
  <2>4. AsChecked'
    BY <1>12, PartsAre DEF NotifyPart, Notify, This, AsChecked, Asked, Underway, Taken, UpdInv,
        UpdTypeOK, InTime
  <2>5. Ahead'
    BY <1>12, PartsAre DEF NotifyPart, Notify, This, Ahead, Asked, Underway, Touched, Whole, Holds,
        UpdInv, UpdTypeOK, InTime
  <2>6. Behind'
    BY <1>12, PartsAre DEF NotifyPart, Notify, This, Behind, Underway, Holds, UpdInv, UpdTypeOK, InTime
  <2>7. McuInStep'
    BY <1>12, PartsAre DEF NotifyPart, Notify, This, McuInStep, UpdInv, UpdTypeOK, InTime
  <2>8. Ending'
    BY <1>12, PartsAre DEF NotifyPart, Notify, This, Ending, Underway, Taken, UpdInv, UpdTypeOK, InTime
  <2>9. Reported'
    <3>1. ~SentDone
      BY <1>12 DEF NotifyPart, Notify, Reported, UpdInv
    <3>2. sent' = Append(sent, This) /\ This \in Part \cup {"error"}
      BY SMTT(30), <1>12, PartsAre DEF NotifyPart, Notify, This, UpdInv, UpdTypeOK
    <3>3. ~SentDone'
      BY <3>1, <3>2, PartsAre DEF SentDone, UpdInv, UpdTypeOK
    <3>4. QED BY <1>12, <3>3 DEF NotifyPart, Notify, Reported, Asked, Underway, Holds, UpdInv
  <2>10. OneAtRisk'
    BY <1>12, PartsAre DEF NotifyPart, Notify, This, OneAtRisk, Whole, Holds, UpdInv, UpdTypeOK, InTime
  <2>11. InFile'
    BY <1>12, PartsAre DEF NotifyPart, Notify, This, InFile, Asked, Underway, Taken, UpdInv, UpdTypeOK, InTime
  <2>12. QED BY <2>1, <2>2, <2>3, <2>4, <2>5, <2>6, <2>7, <2>8, <2>9, <2>10, <2>11 DEF UpdInv
<1>13. ASSUME NotifyDone PROVE UpdInv'
  <2>1. UpdTypeOK'
    BY <1>13, PartsAre DEF NotifyDone, Notify, UpdTypeOK, UpdInv, InTime
  <2>2. InTime'
    BY <1>13, PartsAre DEF NotifyDone, Notify, InTime, UpdInv, UpdTypeOK
  <2>3. Closed'
    BY <1>13, PartsAre DEF NotifyDone, Notify, Closed, UpdInv, UpdTypeOK, InTime
  <2>4. AsChecked'
    BY <1>13, PartsAre DEF NotifyDone, Notify, AsChecked, Asked, Underway, Taken, UpdInv, UpdTypeOK, InTime
  <2>5. Ahead'
    BY <1>13, PartsAre DEF NotifyDone, Notify, Ahead, Asked, Underway, Touched, Whole, Holds, UpdInv,
        UpdTypeOK, InTime
  <2>6. Behind'
    BY <1>13, PartsAre DEF NotifyDone, Notify, Behind, Underway, Holds, UpdInv, UpdTypeOK, InTime
  <2>7. McuInStep'
    BY <1>13, PartsAre DEF NotifyDone, Notify, McuInStep, This, UpdInv, UpdTypeOK, InTime
  <2>8. Ending'
    BY <1>13, PartsAre DEF NotifyDone, Notify, Ending, Underway, Taken, This, UpdInv, UpdTypeOK, InTime
  <2>9. Reported'
    <3>1. ~disturbed => \A p \in Part : checked[p] # "none" => Holds(p, checked[p])
      BY <1>13, PartsAre DEF NotifyDone, Behind, Underway, UpdInv
    <3>2. QED BY <1>13, <3>1 DEF NotifyDone, Notify, Reported, SentDone, Asked, Underway, Holds, InTime,
        UpdInv
  <2>10. OneAtRisk'
    BY <1>13, PartsAre DEF NotifyDone, Notify, OneAtRisk, Whole, Holds, UpdInv, UpdTypeOK, InTime
  <2>11. InFile'
    BY <1>13, PartsAre DEF NotifyDone, Notify, InFile, Asked, Underway, Taken, UpdInv, UpdTypeOK, InTime
  <2>12. QED BY <2>1, <2>2, <2>3, <2>4, <2>5, <2>6, <2>7, <2>8, <2>9, <2>10, <2>11 DEF UpdInv
<1>14. ASSUME NotifyError PROVE UpdInv'
  <2>1. UpdTypeOK'
    BY <1>14, PartsAre DEF NotifyError, Notify, UpdTypeOK, UpdInv, InTime
  <2>2. InTime'
    BY <1>14, PartsAre DEF NotifyError, Notify, InTime, UpdInv, UpdTypeOK
  <2>3. Closed'
    BY <1>14, PartsAre DEF NotifyError, Notify, Closed, UpdInv, UpdTypeOK, InTime
  <2>4. AsChecked'
    BY <1>14, PartsAre DEF NotifyError, Notify, AsChecked, Asked, Underway, Taken, UpdInv, UpdTypeOK, InTime
  <2>5. Ahead'
    BY <1>14, PartsAre DEF NotifyError, Notify, Ahead, Asked, Underway, Touched, Whole, Holds, UpdInv,
        UpdTypeOK, InTime
  <2>6. Behind'
    BY <1>14, PartsAre DEF NotifyError, Notify, Behind, Underway, Holds, UpdInv, UpdTypeOK, InTime
  <2>7. McuInStep'
    BY <1>14, PartsAre DEF NotifyError, Notify, McuInStep, This, UpdInv, UpdTypeOK, InTime
  <2>8. Ending'
    BY <1>14, PartsAre DEF NotifyError, Notify, Ending, Underway, Taken, This, UpdInv, UpdTypeOK, InTime
  <2>9. Reported'
    <3>1. ~SentDone
      BY <1>14 DEF NotifyError, Notify, Reported, UpdInv
    <3>2. sent' = Append(sent, "error") /\ "error" \in Part \cup {"error"}
      BY <1>14, PartsAre DEF NotifyError, Notify, This, UpdInv, UpdTypeOK
    <3>3. ~SentDone'
      BY <3>1, <3>2, PartsAre DEF SentDone, UpdInv, UpdTypeOK
    <3>4. QED BY <1>14, <3>3 DEF NotifyError, Notify, Reported, Asked, Underway, Holds, UpdInv
  <2>10. OneAtRisk'
    BY <1>14, PartsAre DEF NotifyError, Notify, OneAtRisk, Whole, Holds, UpdInv, UpdTypeOK, InTime
  <2>11. InFile'
    BY <1>14, PartsAre DEF NotifyError, Notify, InFile, Asked, Underway, Taken, UpdInv, UpdTypeOK, InTime
  <2>12. QED BY <2>1, <2>2, <2>3, <2>4, <2>5, <2>6, <2>7, <2>8, <2>9, <2>10, <2>11 DEF UpdInv
<1>15. ASSUME Erase PROVE UpdInv'
  <2>1. UpdTypeOK'
    <3>1. This \in Part
      BY <1>15, PartsAre DEF Erase, This, UpdInv, UpdTypeOK
    <3>2. chip' \in [Part -> [Cells -> Image]]
      BY <1>15, <3>1 DEF Image, Erase, UpdInv, UpdTypeOK
    <3>3. block' \in 0..Blocks /\ faults' \in 0..MaxFaults
      BY <1>15, UpdateAssumption DEF Erase, UpdInv, UpdTypeOK
    <3>4. QED BY <1>15, <3>2, <3>3, PartsAre, UpdateAssumption DEF Erase, This, UpdInv, UpdTypeOK
  <2>2. InTime'
    BY <1>15, PartsAre DEF Erase, This, InTime, UpdInv, UpdTypeOK
  <2>3. Closed'
    BY <1>15, PartsAre DEF Erase, This, Closed, UpdInv, UpdTypeOK, InTime
  <2>4. AsChecked'
    BY <1>15, PartsAre DEF Erase, This, AsChecked, Asked, Underway, Taken, UpdInv, UpdTypeOK, InTime
  <2>5. Ahead'
    BY <1>15, PartsAre DEF Erase, This, Ahead, Asked, Underway, Touched, Whole, Holds, UpdInv,
        UpdTypeOK, InTime
  <2>6. Behind'
    BY <1>15, PartsAre DEF Erase, This, Behind, Underway, Holds, UpdInv, UpdTypeOK, InTime
  <2>7. McuInStep'
    BY <1>15, PartsAre DEF Erase, This, McuInStep, UpdInv, UpdTypeOK, InTime
  <2>8. Ending'
    BY <1>15, PartsAre DEF Erase, Ending, Underway, Taken, This, UpdInv, UpdTypeOK
  <2>9. Reported'
    BY <1>15, PartsAre DEF Erase, This, Reported, SentDone, Asked, Underway, Holds, UpdInv, UpdTypeOK, InTime
  <2>10. OneAtRisk'
    <3>1. Underway' \/ at' = "fail"
      BY <1>15 DEF Erase, Underway
    <3>2. SUFFICES ASSUME ~disturbed', NEW i \in 1..3, NEW j \in 1..3, i < j, ~Whole(Parts[j])',
                          ~(Parts[j] \in broken)', (checked[Parts[i]])' # "none"
                   PROVE  Holds(Parts[i], checked[Parts[i]])'
      BY DEF OneAtRisk
    <3>3. ~(j > Touched')
      BY <2>5, <3>1, <3>2 DEF Ahead
    <3>4. i < part'
      <4>1. part' \in 0..4
        BY <2>1 DEF UpdTypeOK
      <4>2. Touched' = part' - 1 \/ Touched' = part'
        BY DEF Touched
      <4>3. i < j
        BY <3>2
      <4>4. QED BY <3>3, <4>1, <4>2, <4>3
    <3>5. QED BY <2>6, <3>1, <3>2, <3>4 DEF Behind
  <2>11. InFile'
    BY <1>15, PartsAre DEF Erase, This, InFile, Asked, Underway, Taken, UpdInv, UpdTypeOK, InTime
  <2>12. QED BY <2>1, <2>2, <2>3, <2>4, <2>5, <2>6, <2>7, <2>8, <2>9, <2>10, <2>11 DEF UpdInv
<1>16. ASSUME EraseFails PROVE UpdInv'
  <2>1. UpdTypeOK'
    <3>1. This \in Part
      BY <1>16, PartsAre DEF EraseFails, This, UpdInv, UpdTypeOK
    <3>2. chip' \in [Part -> [Cells -> Image]]
      BY <1>16, <3>1 DEF Image, EraseFails, Fault, UpdInv, UpdTypeOK
    <3>3. block' \in 0..Blocks /\ faults' \in 0..MaxFaults
      BY <1>16, UpdateAssumption DEF EraseFails, Fault, UpdInv, UpdTypeOK
    <3>4. QED BY <1>16, <3>2, <3>3, PartsAre, UpdateAssumption DEF EraseFails, Fault, This, UpdInv, UpdTypeOK
  <2>2. InTime'
    BY <1>16, PartsAre DEF EraseFails, Fault, This, InTime, UpdInv, UpdTypeOK
  <2>3. Closed'
    BY <1>16, PartsAre DEF EraseFails, Fault, This, Closed, UpdInv, UpdTypeOK, InTime
  <2>4. AsChecked'
    BY <1>16, PartsAre DEF EraseFails, Fault, This, AsChecked, Asked, Underway, Taken, UpdInv,
        UpdTypeOK, InTime
  <2>5. Ahead'
    BY <1>16, PartsAre DEF EraseFails, Fault, This, Ahead, Asked, Underway, Touched, Whole, Holds,
        UpdInv, UpdTypeOK, InTime
  <2>6. Behind'
    BY SMTT(30), <1>16, PartsAre DEF EraseFails, Fault, This, Behind, Underway, Holds, UpdInv, UpdTypeOK, InTime
  <2>7. McuInStep'
    BY <1>16, PartsAre DEF EraseFails, Fault, This, McuInStep, UpdInv, UpdTypeOK, InTime
  <2>8. Ending'
    BY <1>16, PartsAre DEF EraseFails, Fault, Write, Ending, Underway, Taken, This, UpdInv, UpdTypeOK
  <2>9. Reported'
    BY <1>16, PartsAre DEF EraseFails, Fault, This, Reported, SentDone, Asked, Underway, Holds, UpdInv,
        UpdTypeOK, InTime
  <2>10. OneAtRisk'
    <3>1. Underway' \/ at' = "fail"
      BY <1>16 DEF EraseFails, Fault, Underway
    <3>2. SUFFICES ASSUME ~disturbed', NEW i \in 1..3, NEW j \in 1..3, i < j, ~Whole(Parts[j])',
                          ~(Parts[j] \in broken)', (checked[Parts[i]])' # "none"
                   PROVE  Holds(Parts[i], checked[Parts[i]])'
      BY DEF OneAtRisk
    <3>3. ~(j > Touched')
      BY <2>5, <3>1, <3>2 DEF Ahead
    <3>4. i < part'
      <4>1. part' \in 0..4
        BY <2>1 DEF UpdTypeOK
      <4>2. Touched' = part' - 1 \/ Touched' = part'
        BY DEF Touched
      <4>3. i < j
        BY <3>2
      <4>4. QED BY <3>3, <4>1, <4>2, <4>3
    <3>5. QED BY <2>6, <3>1, <3>2, <3>4 DEF Behind
  <2>11. InFile'
    BY <1>16, PartsAre DEF EraseFails, Fault, This, InFile, Asked, Underway, Taken, UpdInv, UpdTypeOK, InTime
  <2>12. QED BY <2>1, <2>2, <2>3, <2>4, <2>5, <2>6, <2>7, <2>8, <2>9, <2>10, <2>11 DEF UpdInv
<1>17. ASSUME ProgramBlock PROVE UpdInv'
  <2>1. UpdTypeOK'
    <3>1. This \in Part /\ Data \in Image
      <4>1. This \in Part
        BY <1>17, PartsAre DEF ProgramBlock, This, UpdInv, UpdTypeOK
      <4>2. params[This] \in 0..Len(file.chunks) /\ params[This] # 0
        BY <1>17, <4>1 DEF ProgramBlock, InFile, Ending, Underway, Taken, UpdInv
      <4>3. file.chunks \in Seq(Chunks)
        BY DEF File, UpdInv, UpdTypeOK
      <4>4. Source \in Chunks
        BY <4>2, <4>3 DEF Source
      <4>5. QED BY <4>1, <4>4 DEF Data, Chunks
    <3>2. chip' \in [Part -> [Cells -> Image]]
      BY <1>17, <3>1 DEF ProgramBlock, Write, UpdInv, UpdTypeOK
    <3>3. QED BY SMTT(30), <1>17, <3>2, PartsAre, UpdateAssumption DEF ProgramBlock, This, UpdInv, UpdTypeOK
  <2>2. InTime'
    BY <1>17, PartsAre DEF ProgramBlock, Write, Data, Source, This, InTime, UpdInv, UpdTypeOK
  <2>3. Closed'
    BY <1>17, PartsAre DEF ProgramBlock, Write, Data, Source, This, Closed, UpdInv, UpdTypeOK, InTime
  <2>4. AsChecked'
    BY <1>17, PartsAre DEF ProgramBlock, Write, Data, Source, This, AsChecked, Asked, Underway, Taken,
        UpdInv, UpdTypeOK, InTime
  <2>5. Ahead'
    <3>1. ASSUME NEW j \in 1..3, j > part PROVE Whole(Parts[j])' = Whole(Parts[j])
      <4>1. /\ chip \in [Part -> [Cells -> Image]] /\ part \in 1..3
            /\ chip' = [chip EXCEPT ![Parts[part]][block] = Data]
        BY <1>17 DEF ProgramBlock, Write, This, UpdInv, UpdTypeOK
      <4>2. Parts[j] \in Part /\ Parts[part] \in Part /\ Parts[j] # Parts[part]
        BY <3>1, <4>1, PartsAre
      <4>3. chip'[Parts[j]] = chip[Parts[j]]
        BY <4>1, <4>2
      <4>4. QED BY <4>3 DEF Whole, Holds
    <3>2. Touched' = part
      BY <1>17 DEF ProgramBlock, Touched, UpdInv, UpdTypeOK
    <3>3. QED BY <1>17, <3>1, <3>2 DEF ProgramBlock, Ahead, Asked, Underway, Touched, InTime, UpdInv,
        UpdTypeOK
  <2>6. Behind'
    <3>1. \A i \in 1..3 : i < part => \A v : Holds(Parts[i], v)' <=> Holds(Parts[i], v)
      BY SMTT(30), <1>17, PartsAre DEF ProgramBlock, Write, This, Holds, UpdInv, UpdTypeOK
    <3>2. CASE part' = part
      BY <1>17, <3>1, <3>2 DEF ProgramBlock, Behind, Underway, UpdInv
    <3>3. CASE part' # part
      <4>1. This = "mcu" /\ part = 1 /\ part' = 2 /\ block = Blocks
        BY <1>17, <3>3, PartsAre, UpdateAssumption DEF ProgramBlock, This, UpdInv, UpdTypeOK
      <4>2. ASSUME ~disturbed PROVE Holds("mcu", checked["mcu"])'
        <5>1. checked["mcu"] = Data
          BY <1>17, <4>1, <4>2, PartsAre DEF ProgramBlock, AsChecked, Ending, Underway, Taken, Data,
              Source, UpdInv
        <5>2. \A b \in 1..Blocks - 1 : chip["mcu"][b] = checked["mcu"]
          BY <1>17, <4>1, <4>2 DEF ProgramBlock, McuInStep, UpdInv
        <5>3. \A b \in Cells : chip'["mcu"][b] = checked["mcu"]
          BY <1>17, <4>1, <5>1, <5>2, PartsAre, UpdateAssumption DEF ProgramBlock, Write, Cells, UpdInv,
              UpdTypeOK
        <5>4. QED BY <1>17, <5>3 DEF ProgramBlock, Holds
      <4>3. QED BY <1>17, <4>1, <4>2, PartsAre DEF ProgramBlock, Behind
    <3>4. QED BY <3>2, <3>3
  <2>7. McuInStep'
    <3>1. SUFFICES ASSUME ~disturbed, at' = "program", This = "mcu", NEW b \in 1..block' - 1
                   PROVE  chip'["mcu"][b] = checked["mcu"]
      BY <1>17 DEF ProgramBlock, McuInStep, This
    <3>2. block' = block + 1 /\ b \in 1..block
      BY <1>17, <3>1 DEF ProgramBlock, UpdInv, UpdTypeOK
    <3>3. checked["mcu"] = Data
      BY <1>17, <3>1, PartsAre DEF ProgramBlock, AsChecked, Ending, Underway, Taken, Data, Source, UpdInv
    <3>4. CASE b = block
      BY <1>17, <3>1, <3>2, <3>3, <3>4, PartsAre, UpdateAssumption DEF ProgramBlock, Write, Cells,
          UpdInv, UpdTypeOK
    <3>5. CASE b # block
      BY <1>17, <3>1, <3>2, <3>5, PartsAre, UpdateAssumption DEF ProgramBlock, Write, McuInStep, UpdInv,
          UpdTypeOK
    <3>6. QED BY <3>4, <3>5
  <2>8. Ending'
    BY <1>17, PartsAre DEF ProgramBlock, Fault, Write, Ending, Underway, Taken, This, UpdInv, UpdTypeOK
  <2>9. Reported'
    BY <1>17, PartsAre DEF ProgramBlock, Write, Data, Source, This, Reported, SentDone, Asked, Underway,
        Holds, UpdInv, UpdTypeOK, InTime
  <2>10. OneAtRisk'
    <3>1. Underway' \/ at' = "fail"
      BY <1>17 DEF ProgramBlock, Write, Data, Source, Underway
    <3>2. SUFFICES ASSUME ~disturbed', NEW i \in 1..3, NEW j \in 1..3, i < j, ~Whole(Parts[j])',
                          ~(Parts[j] \in broken)', (checked[Parts[i]])' # "none"
                   PROVE  Holds(Parts[i], checked[Parts[i]])'
      BY DEF OneAtRisk
    <3>3. ~(j > Touched')
      BY <2>5, <3>1, <3>2 DEF Ahead
    <3>4. i < part'
      <4>1. part' \in 0..4
        BY <2>1 DEF UpdTypeOK
      <4>2. Touched' = part' - 1 \/ Touched' = part'
        BY DEF Touched
      <4>3. i < j
        BY <3>2
      <4>4. QED BY <3>3, <4>1, <4>2, <4>3
    <3>5. QED BY <2>6, <3>1, <3>2, <3>4 DEF Behind
  <2>11. InFile'
    BY <1>17, PartsAre DEF ProgramBlock, Write, Data, Source, This, InFile, Asked, Underway, Taken,
        UpdInv, UpdTypeOK, InTime
  <2>12. QED BY <2>1, <2>2, <2>3, <2>4, <2>5, <2>6, <2>7, <2>8, <2>9, <2>10, <2>11 DEF UpdInv
<1>18. ASSUME ProgramBlockFails PROVE UpdInv'
  <2>1. UpdTypeOK'
    <3>1. This \in Part
      BY <1>18, PartsAre DEF ProgramBlockFails, This, UpdInv, UpdTypeOK
    <3>2. chip' \in [Part -> [Cells -> Image]]
      BY <1>18, <3>1 DEF Image, ProgramBlockFails, Fault, Write, UpdInv, UpdTypeOK
    <3>3. block' \in 0..Blocks /\ faults' \in 0..MaxFaults
      BY <1>18, UpdateAssumption DEF ProgramBlockFails, Fault, Write, UpdInv, UpdTypeOK
    <3>4. QED BY <1>18, <3>2, <3>3, PartsAre, UpdateAssumption DEF ProgramBlockFails, Fault, Write,
        This, UpdInv, UpdTypeOK
  <2>2. InTime'
    BY <1>18, PartsAre DEF ProgramBlockFails, Fault, Write, This, InTime, UpdInv, UpdTypeOK
  <2>3. Closed'
    BY <1>18, PartsAre DEF ProgramBlockFails, Fault, Write, This, Closed, UpdInv, UpdTypeOK, InTime
  <2>4. AsChecked'
    BY <1>18, PartsAre DEF ProgramBlockFails, Fault, Write, This, AsChecked, Asked, Underway, Taken,
        UpdInv, UpdTypeOK, InTime
  <2>5. Ahead'
    BY <1>18, PartsAre DEF ProgramBlockFails, Fault, Write, This, Ahead, Asked, Underway, Touched,
        Whole, Holds, UpdInv, UpdTypeOK, InTime
  <2>6. Behind'
    BY SMTT(30), <1>18, PartsAre DEF ProgramBlockFails, Fault, Write, This, Behind, Underway, Holds, UpdInv,
        UpdTypeOK, InTime
  <2>7. McuInStep'
    BY <1>18, PartsAre DEF ProgramBlockFails, Fault, Write, This, McuInStep, UpdInv, UpdTypeOK, InTime
  <2>8. Ending'
    BY <1>18, PartsAre DEF ProgramBlockFails, Fault, Write, Ending, Underway, Taken, This, UpdInv, UpdTypeOK
  <2>9. Reported'
    BY <1>18, PartsAre DEF ProgramBlockFails, Fault, Write, This, Reported, SentDone, Asked, Underway,
        Holds, UpdInv, UpdTypeOK, InTime
  <2>10. OneAtRisk'
    <3>1. Underway' \/ at' = "fail"
      BY <1>18 DEF ProgramBlockFails, Fault, Write, Underway
    <3>2. SUFFICES ASSUME ~disturbed', NEW i \in 1..3, NEW j \in 1..3, i < j, ~Whole(Parts[j])',
                          ~(Parts[j] \in broken)', (checked[Parts[i]])' # "none"
                   PROVE  Holds(Parts[i], checked[Parts[i]])'
      BY DEF OneAtRisk
    <3>3. ~(j > Touched')
      BY <2>5, <3>1, <3>2 DEF Ahead
    <3>4. i < part'
      <4>1. part' \in 0..4
        BY <2>1 DEF UpdTypeOK
      <4>2. Touched' = part' - 1 \/ Touched' = part'
        BY DEF Touched
      <4>3. i < j
        BY <3>2
      <4>4. QED BY <3>3, <4>1, <4>2, <4>3
    <3>5. QED BY <2>6, <3>1, <3>2, <3>4 DEF Behind
  <2>11. InFile'
    BY <1>18, PartsAre DEF ProgramBlockFails, Fault, Write, This, InFile, Asked, Underway, Taken,
        UpdInv, UpdTypeOK, InTime
  <2>12. QED BY <2>1, <2>2, <2>3, <2>4, <2>5, <2>6, <2>7, <2>8, <2>9, <2>10, <2>11 DEF UpdInv
<1>19. ASSUME Verify PROVE UpdInv'
  <2>1. UpdTypeOK'
    <3>1. part \in 1..3 /\ part' \in 1..4 /\ (at' = "fail" => part' = part) /\ at' \in {"next", "fail"}
      BY <1>19 DEF Verify, UpdInv, UpdTypeOK
    <3>2. QED BY <1>19, <3>1 DEF Verify, UpdInv, UpdTypeOK
  <2>2. InTime'
    BY <1>19, PartsAre DEF Verify, Data, Source, This, InTime, UpdInv, UpdTypeOK
  <2>3. Closed'
    BY <1>19, PartsAre DEF Verify, Data, Source, This, Closed, UpdInv, UpdTypeOK, InTime
  <2>4. AsChecked'
    BY <1>19, PartsAre DEF Verify, Data, Source, This, AsChecked, Asked, Underway, Taken, UpdInv,
        UpdTypeOK, InTime
  <2>5. Ahead'
    <3>1. ~Asked' /\ broken' = broken /\ at' \in {"next", "fail"} /\ at = "verify"
      BY <1>19 DEF Verify, Asked, UpdInv, InTime
    <3>2. \A p \in Part : Whole(p)' = Whole(p)
      BY <1>19 DEF Verify, Whole, Holds
    <3>3. Touched' = part /\ Touched = part
      BY <1>19 DEF Verify, Touched, UpdInv, UpdTypeOK
    <3>4. \A j \in 1..3 : j > part => Whole(Parts[j]) \/ Parts[j] \in broken
      BY <3>1, <3>3 DEF Ahead, Underway, UpdInv
    <3>5. \A j \in 1..3 : Parts[j] \in Part
      BY PartsAre
    <3>6. QED BY <3>1, <3>2, <3>3, <3>4, <3>5 DEF Ahead
  <2>6. Behind'
    <3>1. \A p \in Part : \A v : Holds(p, v)' <=> Holds(p, v)
      BY <1>19 DEF Verify, Holds
    <3>2. CASE part' = part
      BY <1>19, <3>1, <3>2, PartsAre DEF Verify, Behind, Underway, UpdInv
    <3>3. CASE part' # part
      <4>1. part' = part + 1 /\ Holds(This, Data) /\ This \in Part
        BY <1>19, <3>3, PartsAre DEF Verify, This, UpdInv, UpdTypeOK
      <4>2. ~disturbed => checked[This] = Data
        BY <1>19, <4>1 DEF Verify, AsChecked, Ending, Underway, Taken, Data, Source, UpdInv
      <4>3. \A i \in 1..3 : i < part' <=> i < part \/ i = part
        BY <1>19, <4>1 DEF UpdInv, UpdTypeOK
      <4>4. QED BY <1>19, <3>1, <4>1, <4>2, <4>3, PartsAre DEF Verify, Behind, Underway, This, UpdInv
    <3>4. QED BY <3>2, <3>3
  <2>7. McuInStep'
    BY <1>19, PartsAre DEF Verify, Data, Source, This, McuInStep, UpdInv, UpdTypeOK, InTime
  <2>8. Ending'
    BY <1>19, PartsAre DEF Verify, Data, Source, This, Ending, Underway, Taken, UpdInv, UpdTypeOK, InTime
  <2>9. Reported'
    BY <1>19, PartsAre DEF Verify, Data, Source, This, Reported, SentDone, Asked, Underway, Holds,
        UpdInv, UpdTypeOK, InTime
  <2>10. OneAtRisk'
    BY <1>19, PartsAre DEF Verify, Data, Source, This, OneAtRisk, Whole, Holds, UpdInv, UpdTypeOK, InTime
  <2>11. InFile'
    BY <1>19, PartsAre DEF Verify, Data, Source, This, InFile, Asked, Underway, Taken, UpdInv,
        UpdTypeOK, InTime
  <2>12. QED BY <2>1, <2>2, <2>3, <2>4, <2>5, <2>6, <2>7, <2>8, <2>9, <2>10, <2>11 DEF UpdInv
<1>20. ASSUME Reconfigure PROVE UpdInv'
  <2>1. UpdTypeOK'
    <3>1. NoFile \in File
      BY DEF NoFile, File
    <3>2. tamp' \in [magic : BOOLEAN, chunks : [Part -> Nat]] /\ params' \in [Part -> Nat]
      BY <1>20 DEF Reconfigure, NoTamp, NoParams, UpdInv, UpdTypeOK
    <3>3. sent' \in Seq(Part \cup {"done", "error"}) /\ block' \in 0..Blocks
      BY <1>20, UpdateAssumption DEF Reconfigure, UpdInv, UpdTypeOK
    <3>4. part' \in 0..4 /\ room' \in Nat /\ at' \in {"loader", "off"} /\ file' \in File
      BY <1>20, <3>1 DEF Reconfigure
    <3>5. QED BY <1>20, <3>2, <3>3, <3>4 DEF Reconfigure, UpdInv, UpdTypeOK
  <2>2. InTime'
    BY <1>20, PartsAre DEF Reconfigure, NoTamp, NoParams, NoFile, InTime, UpdInv, UpdTypeOK
  <2>3. Closed'
    BY <1>20, PartsAre DEF Reconfigure, NoTamp, NoParams, NoFile, Closed, UpdInv, UpdTypeOK, InTime
  <2>4. AsChecked'
    BY <1>20, PartsAre DEF Reconfigure, NoTamp, NoParams, NoFile, AsChecked, Asked, Underway, Taken,
        UpdInv, UpdTypeOK, InTime
  <2>5. Ahead'
    BY <1>20, PartsAre DEF Reconfigure, NoTamp, NoParams, NoFile, Ahead, Asked, Underway, Touched,
        Whole, Holds, UpdInv, UpdTypeOK, InTime
  <2>6. Behind'
    BY <1>20, PartsAre DEF Reconfigure, NoTamp, NoParams, NoFile, Behind, Underway, Holds, UpdInv,
        UpdTypeOK, InTime
  <2>7. McuInStep'
    BY <1>20, PartsAre DEF Reconfigure, NoTamp, NoParams, NoFile, McuInStep, This, UpdInv, UpdTypeOK, InTime
  <2>8. Ending'
    BY <1>20, PartsAre DEF Reconfigure, NoTamp, NoParams, NoFile, Ending, Underway, Taken, This, UpdInv,
        UpdTypeOK, InTime
  <2>9. Reported'
    BY <1>20, PartsAre DEF Reconfigure, NoTamp, NoParams, NoFile, Reported, SentDone, Asked, Underway,
        Holds, UpdInv, UpdTypeOK, InTime
  <2>10. OneAtRisk'
    BY <1>20, PartsAre DEF Reconfigure, NoTamp, NoParams, NoFile, OneAtRisk, Whole, Holds, UpdInv,
        UpdTypeOK, InTime
  <2>11. InFile'
    BY <1>20, PartsAre DEF Reconfigure, NoTamp, NoParams, NoFile, InFile, Asked, Underway, Taken,
        UpdInv, UpdTypeOK, InTime
  <2>12. QED BY <2>1, <2>2, <2>3, <2>4, <2>5, <2>6, <2>7, <2>8, <2>9, <2>10, <2>11 DEF UpdInv
<1>21. ASSUME PowerFails PROVE UpdInv'
  <2>1. UpdTypeOK'
    <3>1. NoFile \in File
      BY DEF NoFile, File
    <3>2. tamp' \in [magic : BOOLEAN, chunks : [Part -> Nat]] /\ params' \in [Part -> Nat]
      BY <1>21 DEF PowerFails, NoTamp, NoParams, UpdInv, UpdTypeOK
    <3>3. sent' \in Seq(Part \cup {"done", "error"}) /\ block' \in 0..Blocks
      BY <1>21, UpdateAssumption DEF PowerFails, UpdInv, UpdTypeOK
    <3>4. part' \in 0..4 /\ room' \in Nat /\ at' \in {"loader", "off"} /\ file' \in File
      BY <1>21, <3>1 DEF PowerFails
    <3>5. QED BY <1>21, <3>2, <3>3, <3>4 DEF PowerFails, UpdInv, UpdTypeOK
  <2>2. InTime'
    BY <1>21, PartsAre DEF PowerFails, NoTamp, NoParams, NoFile, InTime, UpdInv, UpdTypeOK
  <2>3. Closed'
    BY <1>21, PartsAre DEF PowerFails, NoTamp, NoParams, NoFile, Closed, UpdInv, UpdTypeOK, InTime
  <2>4. AsChecked'
    BY <1>21, PartsAre DEF PowerFails, NoTamp, NoParams, NoFile, AsChecked, Asked, Underway, Taken,
        UpdInv, UpdTypeOK, InTime
  <2>5. Ahead'
    BY <1>21, PartsAre DEF PowerFails, NoTamp, NoParams, NoFile, Ahead, Asked, Underway, Touched, Whole,
        Holds, UpdInv, UpdTypeOK, InTime
  <2>6. Behind'
    BY <1>21, PartsAre DEF PowerFails, NoTamp, NoParams, NoFile, Behind, Underway, Holds, UpdInv,
        UpdTypeOK, InTime
  <2>7. McuInStep'
    BY <1>21, PartsAre DEF PowerFails, NoTamp, NoParams, NoFile, McuInStep, This, UpdInv, UpdTypeOK, InTime
  <2>8. Ending'
    BY <1>21, PartsAre DEF PowerFails, NoTamp, NoParams, NoFile, Ending, Underway, Taken, This, UpdInv,
        UpdTypeOK, InTime
  <2>9. Reported'
    BY <1>21, PartsAre DEF PowerFails, NoTamp, NoParams, NoFile, Reported, SentDone, Asked, Underway,
        Holds, UpdInv, UpdTypeOK, InTime
  <2>10. OneAtRisk'
    BY <1>21, PartsAre DEF PowerFails, NoTamp, NoParams, NoFile, OneAtRisk, Whole, Holds, UpdInv,
        UpdTypeOK, InTime
  <2>11. InFile'
    BY <1>21, PartsAre DEF PowerFails, NoTamp, NoParams, NoFile, InFile, Asked, Underway, Taken, UpdInv,
        UpdTypeOK, InTime
  <2>12. QED BY <2>1, <2>2, <2>3, <2>4, <2>5, <2>6, <2>7, <2>8, <2>9, <2>10, <2>11 DEF UpdInv
<1>22. ASSUME PowerReturns PROVE UpdInv'
  <2>1. UpdTypeOK'
    BY <1>22, PartsAre DEF PowerReturns, UpdTypeOK, UpdInv, InTime
  <2>2. InTime'
    BY <1>22, PartsAre DEF PowerReturns, InTime, UpdInv, UpdTypeOK
  <2>3. Closed'
    BY <1>22, PartsAre DEF PowerReturns, Closed, UpdInv, UpdTypeOK, InTime
  <2>4. AsChecked'
    BY <1>22, PartsAre DEF PowerReturns, AsChecked, Asked, Underway, Taken, UpdInv, UpdTypeOK, InTime
  <2>5. Ahead'
    BY <1>22, PartsAre DEF PowerReturns, Ahead, Asked, Underway, Touched, Whole, Holds, UpdInv,
        UpdTypeOK, InTime
  <2>6. Behind'
    BY <1>22, PartsAre DEF PowerReturns, Behind, Underway, Holds, UpdInv, UpdTypeOK, InTime
  <2>7. McuInStep'
    BY <1>22, PartsAre DEF PowerReturns, McuInStep, This, UpdInv, UpdTypeOK, InTime
  <2>8. Ending'
    BY <1>22, PartsAre DEF PowerReturns, Ending, Underway, Taken, This, UpdInv, UpdTypeOK, InTime
  <2>9. Reported'
    BY <1>22, PartsAre DEF PowerReturns, Reported, SentDone, Asked, Underway, Holds, UpdInv, UpdTypeOK, InTime
  <2>10. OneAtRisk'
    BY <1>22, PartsAre DEF PowerReturns, OneAtRisk, Whole, Holds, UpdInv, UpdTypeOK, InTime
  <2>11. InFile'
    BY <1>22, PartsAre DEF PowerReturns, InFile, Asked, Underway, Taken, UpdInv, UpdTypeOK, InTime
  <2>12. QED BY <2>1, <2>2, <2>3, <2>4, <2>5, <2>6, <2>7, <2>8, <2>9, <2>10, <2>11 DEF UpdInv
<1>23. ASSUME HostReads PROVE UpdInv'
  <2>1. UpdTypeOK'
    BY SMTT(30), <1>23, PartsAre DEF HostReads, UpdTypeOK, UpdInv, InTime
  <2>2. InTime'
    BY <1>23, PartsAre DEF HostReads, InTime, UpdInv, UpdTypeOK
  <2>3. Closed'
    BY <1>23, PartsAre DEF HostReads, Closed, UpdInv, UpdTypeOK, InTime
  <2>4. AsChecked'
    BY <1>23, PartsAre DEF HostReads, AsChecked, Asked, Underway, Taken, UpdInv, UpdTypeOK, InTime
  <2>5. Ahead'
    BY <1>23, PartsAre DEF HostReads, Ahead, Asked, Underway, Touched, Whole, Holds, UpdInv, UpdTypeOK, InTime
  <2>6. Behind'
    BY <1>23, PartsAre DEF HostReads, Behind, Underway, Holds, UpdInv, UpdTypeOK, InTime
  <2>7. McuInStep'
    BY <1>23, PartsAre DEF HostReads, McuInStep, This, UpdInv, UpdTypeOK, InTime
  <2>8. Ending'
    BY <1>23, PartsAre DEF HostReads, Ending, Underway, Taken, This, UpdInv, UpdTypeOK, InTime
  <2>9. Reported'
    BY SMTT(30), <1>23, PartsAre DEF HostReads, Reported, SentDone, Asked, Underway, Holds, UpdInv, UpdTypeOK, InTime
  <2>10. OneAtRisk'
    BY <1>23, PartsAre DEF HostReads, OneAtRisk, Whole, Holds, UpdInv, UpdTypeOK, InTime
  <2>11. InFile'
    BY <1>23, PartsAre DEF HostReads, InFile, Asked, Underway, Taken, UpdInv, UpdTypeOK, InTime
  <2>12. QED BY <2>1, <2>2, <2>3, <2>4, <2>5, <2>6, <2>7, <2>8, <2>9, <2>10, <2>11 DEF UpdInv
<1>24. ASSUME HostLeaves PROVE UpdInv'
  <2>1. UpdTypeOK'
    BY <1>24, PartsAre DEF HostLeaves, UpdTypeOK, UpdInv, InTime
  <2>2. InTime'
    BY <1>24, PartsAre DEF HostLeaves, InTime, UpdInv, UpdTypeOK
  <2>3. Closed'
    BY <1>24, PartsAre DEF HostLeaves, Closed, UpdInv, UpdTypeOK, InTime
  <2>4. AsChecked'
    BY <1>24, PartsAre DEF HostLeaves, AsChecked, Asked, Underway, Taken, UpdInv, UpdTypeOK, InTime
  <2>5. Ahead'
    BY <1>24, PartsAre DEF HostLeaves, Ahead, Asked, Underway, Touched, Whole, Holds, UpdInv, UpdTypeOK,
        InTime
  <2>6. Behind'
    BY <1>24, PartsAre DEF HostLeaves, Behind, Underway, Holds, UpdInv, UpdTypeOK, InTime
  <2>7. McuInStep'
    BY <1>24, PartsAre DEF HostLeaves, McuInStep, This, UpdInv, UpdTypeOK, InTime
  <2>8. Ending'
    BY <1>24, PartsAre DEF HostLeaves, Ending, Underway, Taken, This, UpdInv, UpdTypeOK, InTime
  <2>9. Reported'
    BY <1>24, PartsAre DEF HostLeaves, Reported, SentDone, Asked, Underway, Holds, UpdInv, UpdTypeOK, InTime
  <2>10. OneAtRisk'
    BY <1>24, PartsAre DEF HostLeaves, OneAtRisk, Whole, Holds, UpdInv, UpdTypeOK, InTime
  <2>11. InFile'
    BY <1>24, PartsAre DEF HostLeaves, InFile, Asked, Underway, Taken, UpdInv, UpdTypeOK, InTime
  <2>12. QED BY <2>1, <2>2, <2>3, <2>4, <2>5, <2>6, <2>7, <2>8, <2>9, <2>10, <2>11 DEF UpdInv
<1>25. ASSUME UNCHANGED updVars PROVE UpdInv'
  BY <1>25 DEF updVars, UpdInv, UpdTypeOK, InTime, Closed, AsChecked, Ahead, Behind, McuInStep, Ending,
      InFile,
    Reported, OneAtRisk, Asked, Underway, Taken, Touched, Whole, Holds, This, SentDone
<1>26. QED BY <1>1, <1>2, <1>3, <1>4, <1>5, <1>6, <1>7, <1>8, <1>9, <1>10, <1>11, <1>12, <1>13, <1>14,
    <1>15, <1>16, <1>17, <1>18, <1>19, <1>20, <1>21, <1>22, <1>23, <1>24, <1>25 DEF UpdNext, App, Perform

\* The board comes with three whole chips and no update.
LEMMA UpdInitInv == UpdInit => UpdInv
<1> SUFFICES ASSUME UpdInit PROVE UpdInv
  OBVIOUS
<1> USE DEF UpdInit
<1>1. UpdTypeOK
  <2>1. NoFile \in File
    BY DEF NoFile, File
  <2>2. chip \in [Part -> [Cells -> Image]]
    BY ImagesAssumption DEF Image
  <2>3. checked \in [Part -> Image \cup {"none"}]
    BY DEF NothingYet
  <2>4. params \in [Part -> Nat] /\ tamp \in [magic : BOOLEAN, chunks : [Part -> Nat]]
    BY DEF NoParams, NoTamp
  <2>5. sent \in Seq(Part \cup {"done", "error"}) /\ part \in 0..4 /\ block \in 0..Blocks
    BY UpdateAssumption
  <2>6. faults \in 0..MaxFaults /\ updates \in 0..MaxUpdates /\ writes \in 0..MaxWrites /\ room \in Nat
    BY UpdateAssumption
  <2>7. QED BY <2>1, <2>2, <2>3, <2>4, <2>5, <2>6 DEF UpdTypeOK
<1>2. InTime /\ Closed /\ AsChecked /\ InFile
  BY DEF InTime, Closed, AsChecked, InFile, Asked, Underway, NoTamp
<1>3. Ahead /\ Behind /\ McuInStep /\ Ending
  BY DEF Ahead, Behind, McuInStep, Ending, Asked, Underway, NoTamp
<1>4. Reported
  BY DEF Reported, SentDone
<1>5. OneAtRisk
  BY PartsAre DEF OneAtRisk, NothingYet
<1>6. QED BY <1>1, <1>2, <1>3, <1>4, <1>5 DEF UpdInv

\* The invariant holds in every behaviour of Update.
THEOREM UpdateFollowed == UpdSpec => []UpdInv
<1>1. QED BY UpdInitInv, UpdNextInv, PTL DEF UpdSpec

\* Registers, images and the chunks to program stay in range (update.c).
THEOREM UpdTyped == UpdSpec => []UpdTypeOK
<1>1. UpdInv => UpdTypeOK
  BY DEF UpdInv
<1>2. QED BY <1>1, UpdateFollowed, PTL

\* Whatever fails, and whenever, an update leaves one chip to be repaired at
\* most (update.c:293-336).
THEOREM OneChipAtRisk == UpdSpec => []OneAtRisk
<1>1. UpdInv => OneAtRisk
  BY DEF UpdInv
<1>2. QED BY <1>1, UpdateFollowed, PTL

\* "done" is said only of chips that hold what was checked
\* (update.c:225-336, lcmxo2.c:287-335).
THEOREM DoneIsHonest == UpdSpec => []DoneIsTrue
<1>1. UpdInv => DoneIsTrue
  BY DEF UpdInv, Reported, DoneIsTrue
<1>2. QED BY <1>1, UpdateFollowed, PTL
=============================================================================

----------------------------- MODULE CfgCommand -----------------------------
(***************************************************************************)
(* Commands of the N64: the registers of fw/rtl/n64/n64_cfg.sv, the        *)
(* controller that polls them (sw/controller/src/cfg.c), and a program     *)
(* that calls the way sc64_execute_cmd of the bootloader does, polling     *)
(* CMD_BUSY or waiting for the interrupt.  The console may be reset at any *)
(* step; the registers then forget the interrupt but not the command.      *)
(*                                                                         *)
(* Calls are numbered.  A call carries its number in both of its halves,   *)
(* the arguments (DATA0/1) and the command (SCR), so that an answer tells  *)
(* which of each it was made from.  An address is "pi" when it is in a     *)
(* window cfg_translate_address knows, "local" once it is translated,      *)
(* which is in no window, and "outside" otherwise.  Commands that end in   *)
(* one turn of the main loop are "query" and, when they are refused, "bad".*)
(***************************************************************************)
EXTENDS Naturals

CONSTANTS
  MaxCalls,      \* calls the programs make
  MaxResets,     \* resets of the console
  MaxOthers,     \* packets other producers put into the slot
  CheckBusy      \* a program looks at CMD_BUSY before it calls

ASSUME CallAssumption == MaxCalls \in Nat /\ MaxResets \in Nat /\ MaxOthers \in Nat
ASSUME CheckBusyAssumption == CheckBusy \in BOOLEAN

Calls    == 1..MaxCalls
Commands == {"query", "bad", "usbRead", "usbWrite", "writeStatus"}
Errors   == {"ok", "address", "refused"}
\* An "orphan" is a debug packet that goes on after its callback.
Holders  == {"free", "other", "debug", "orphan"}

VARIABLES
  cfgPending, cmdError, irqRequest, cmdIrq, cfgUnlock,  \* n64_cfg.sv
  cfgCmd, cfgRdata, cfgWdata,                           \* command, arguments, answer
  pc,                                                   \* where cfg_process is
  queued, cmd, data, usbOutputReady,                    \* struct process of cfg.c
  error,                                                \* the answer being written
  slot, sending, readReady, prepared,                   \* usb.c
  prog, call, mayWrite,                                 \* the program on the N64
  effects,                                              \* how often a call took effect
  resets, others

regVars  == <<cfgPending, cmdError, irqRequest, cmdIrq, cfgUnlock, cfgCmd, cfgRdata, cfgWdata>>
cfgVars  == <<pc, queued, cmd, data, usbOutputReady, error>>
usbVars  == <<slot, sending, readReady, prepared>>
progVars == <<prog, call, mayWrite>>
vars == <<regVars, cfgVars, usbVars, progVars, effects, resets, others>>

NoCommand == [n |-> 0, c |-> "query"]
NoArgs    == [n |-> 0, addr |-> "outside"]
NoAnswer  == [cmd |-> 0, args |-> 0, ready |-> FALSE]

Init ==
  /\ cfgPending = FALSE /\ cmdError = FALSE /\ irqRequest = FALSE /\ cmdIrq = FALSE
  /\ cfgUnlock = FALSE /\ cfgCmd = NoCommand /\ cfgRdata = NoArgs /\ cfgWdata = NoAnswer
  /\ pc = "idle" /\ queued = FALSE /\ cmd = NoCommand /\ data = NoArgs
  /\ usbOutputReady = TRUE /\ error = "ok"
  /\ slot = "free" /\ sending = "free" /\ readReady = TRUE /\ prepared = FALSE
  /\ prog = "start" /\ call = 0 /\ mayWrite = FALSE
  /\ effects = [n \in Calls |-> 0] /\ resets = 0 /\ others = 0

-----------------------------------------------------------------------------
(* The program on the N64.                                                  *)

Waiting == {"poll", "irq"}

\* The key sequence.
Unlock ==
  /\ prog = "start"
  /\ cfgUnlock' = TRUE /\ prog' = "ready"
  /\ UNCHANGED <<cfgPending, cmdError, irqRequest, cmdIrq, cfgCmd, cfgRdata, cfgWdata, cfgVars,
                 usbVars, call, mayWrite, effects, resets, others>>

\* Locking the registers drops the interrupt, not the command.
Lock ==
  /\ prog = "ready"
  /\ cfgUnlock' = FALSE /\ irqRequest' = FALSE /\ cmdIrq' = FALSE
  /\ prog' = "start" /\ mayWrite' = FALSE
  /\ UNCHANGED <<cfgPending, cmdError, cfgCmd, cfgRdata, cfgWdata, cfgVars, usbVars, call,
                 effects, resets, others>>

\* The registers ignore the arguments while a command is pending.
WriteArgs(a) ==
  /\ prog = "ready" /\ call < MaxCalls /\ (CheckBusy => ~cfgPending)
  /\ call' = call + 1 /\ prog' = "args"
  /\ cfgRdata' = IF cfgPending THEN cfgRdata ELSE [n |-> call + 1, addr |-> a]
  /\ UNCHANGED <<cfgPending, cmdError, irqRequest, cmdIrq, cfgUnlock, cfgCmd, cfgWdata, cfgVars,
                 usbVars, mayWrite, effects, resets, others>>

\* And the command.  A program sends debug data only after it was told that
\* the last data has left its buffer.
WriteCommand(c, w) ==
  /\ prog = "args" /\ prog' = w
  /\ c = "usbWrite" => mayWrite
  /\ mayWrite' = (mayWrite /\ c # "usbWrite")
  /\ IF cfgPending
     THEN UNCHANGED <<cfgPending, cmdError, irqRequest, cfgCmd>>
     ELSE /\ cfgPending' = TRUE /\ cmdError' = FALSE /\ irqRequest' = (w = "irq")
          /\ cfgCmd' = [n |-> call, c |-> c]
  /\ UNCHANGED <<cmdIrq, cfgUnlock, cfgRdata, cfgWdata, cfgVars, usbVars, call, effects,
                 resets, others>>

\* The program sees the end of its command in CMD_BUSY, or takes the interrupt
\* and clears it; then it reads the answer.
ReadAnswer ==
  /\ \/ prog = "poll" /\ ~cfgPending
     \/ prog = "irq" /\ cmdIrq
  /\ cmdIrq' = (cmdIrq /\ prog # "irq") /\ prog' = "ready"
  /\ mayWrite' = (mayWrite \/ (cfgCmd.c = "writeStatus" /\ cfgWdata.ready))
  /\ UNCHANGED <<cfgPending, cmdError, irqRequest, cfgUnlock, cfgCmd, cfgRdata, cfgWdata, cfgVars,
                 usbVars, call, effects, resets, others>>

\* Reset button, NMI or power: the registers lock and drop the interrupt; what
\* is pending stays pending, and another program starts.
N64Reset ==
  /\ resets < MaxResets /\ resets' = resets + 1
  /\ cfgUnlock' = FALSE /\ irqRequest' = FALSE /\ cmdIrq' = FALSE
  /\ prog' = "start" /\ mayWrite' = FALSE
  /\ UNCHANGED <<cfgPending, cmdError, cfgCmd, cfgRdata, cfgWdata, cfgVars, usbVars, call,
                 effects, others>>

-----------------------------------------------------------------------------
(* cfg_process.                                                             *)

\* cfg_cmd_check: a command that is queued is tried again with the data as it
\* was left; else a pending one is read from the registers.
CmdCheck ==
  /\ pc = "idle" /\ (queued \/ cfgPending)
  /\ pc' = "execute" /\ queued' = TRUE
  /\ IF queued THEN UNCHANGED <<cmd, data>> ELSE cmd' = cfgCmd /\ data' = cfgRdata
  /\ UNCHANGED <<regVars, usbOutputReady, error, usbVars, progVars, effects, resets, others>>

TranslateFails == data.addr # "pi"

\* cfg_cmd_reply_success and cfg_cmd_reply_error start by dropping the command.
Reply(e) == pc' = "reply" /\ queued' = FALSE /\ error' = e

\* The call is executed and will be answered.
Succeed ==
  /\ Reply("ok")
  /\ effects' = [effects EXCEPT ![cmd.n] = @ + 1]

ExecuteQuery ==
  /\ pc = "execute" /\ cmd.c \in {"query", "writeStatus"}
  /\ Succeed
  /\ UNCHANGED <<regVars, cmd, data, usbOutputReady, usbVars, progVars, resets, others>>

ExecuteBad ==
  /\ pc = "execute" /\ cmd.c = "bad"
  /\ Reply("refused")
  /\ UNCHANGED <<regVars, cmd, data, usbOutputReady, usbVars, progVars, effects, resets, others>>

ExecuteUsbAddress ==
  /\ pc = "execute" /\ cmd.c \in {"usbRead", "usbWrite"} /\ TranslateFails
  /\ Reply("address")
  /\ UNCHANGED <<regVars, cmd, data, usbOutputReady, usbVars, progVars, effects, resets, others>>

\* usb.c refuses: cfg_process returns without an answer, and the command stays
\* queued with its address translated.
UsbRefuses == IF cmd.c = "usbRead" THEN ~readReady ELSE slot # "free"

ExecuteUsbLater ==
  /\ pc = "execute" /\ cmd.c \in {"usbRead", "usbWrite"} /\ ~TranslateFails /\ UsbRefuses
  /\ pc' = "idle" /\ data' = [data EXCEPT !.addr = "local"]
  /\ UNCHANGED <<regVars, queued, cmd, usbOutputReady, error, usbVars, progVars, effects,
                 resets, others>>

ExecuteUsbRead ==
  /\ pc = "execute" /\ cmd.c = "usbRead" /\ ~TranslateFails /\ readReady
  /\ data' = [data EXCEPT !.addr = "local"] /\ prepared' = TRUE
  /\ Succeed
  /\ UNCHANGED <<regVars, cmd, usbOutputReady, slot, sending, readReady, progVars, resets, others>>

\* Bug: the buffer of a debug packet is never marked as in use.
ExecuteUsbWriteReady ==
  /\ pc = "execute" /\ cmd.c = "usbWrite" /\ ~TranslateFails /\ slot = "free"
  /\ data' = [data EXCEPT !.addr = "local"] /\ slot' = "debug"
  /\ Succeed
  /\ UNCHANGED <<regVars, cmd, usbOutputReady, sending, readReady, prepared, progVars, resets, others>>

ExecuteUsbWrite ==
  /\ pc = "execute" /\ cmd.c = "usbWrite" /\ ~TranslateFails /\ slot = "free"
  /\ data' = [data EXCEPT !.addr = "local"] /\ slot' = "debug" /\ usbOutputReady' = FALSE
  /\ Succeed
  /\ UNCHANGED <<regVars, cmd, sending, readReady, prepared, progVars, resets, others>>

\* The answer goes into DATA0/1 first, then the command is done.
WriteData ==
  /\ pc = "reply" /\ pc' = "done"
  /\ cfgWdata' = [cmd |-> cmd.n, args |-> data.n, ready |-> usbOutputReady]
  /\ UNCHANGED <<cfgPending, cmdError, irqRequest, cmdIrq, cfgUnlock, cfgCmd, cfgRdata, queued, cmd,
                 data, usbOutputReady, error, usbVars, progVars, effects, resets, others>>

\* Bug: an error is reported without CFG_CMD_DONE.
WriteDoneSilent ==
  /\ pc = "done" /\ pc' = "idle"
  /\ cfgPending' = (error # "ok") /\ cmdIrq' = irqRequest /\ cmdError' = (error # "ok")
  /\ UNCHANGED <<irqRequest, cfgUnlock, cfgCmd, cfgRdata, cfgWdata, queued, cmd, data,
                 usbOutputReady, error, usbVars, progVars, effects, resets, others>>

\* Bug: the command is done before the answer is there.
WriteDoneFirst ==
  /\ pc \in {"reply", "done"} /\ cfgPending' = FALSE /\ cmdIrq' = irqRequest
  /\ cmdError' = (error # "ok") /\ pc' = IF pc = "done" THEN "idle" ELSE pc
  /\ UNCHANGED <<irqRequest, cfgUnlock, cfgCmd, cfgRdata, cfgWdata, queued, cmd, data,
                 usbOutputReady, error, usbVars, progVars, effects, resets, others>>

\* Bug: the error flag keeps the result of the command before.
WriteDoneNoError ==
  /\ pc = "done" /\ pc' = "idle"
  /\ cfgPending' = FALSE /\ cmdIrq' = irqRequest
  /\ UNCHANGED <<cmdError, irqRequest, cfgUnlock, cfgCmd, cfgRdata, cfgWdata, queued, cmd, data,
                 usbOutputReady, error, usbVars, progVars, effects, resets, others>>

WriteDone ==
  /\ pc = "done" /\ pc' = "idle"
  /\ cfgPending' = FALSE /\ cmdIrq' = irqRequest /\ cmdError' = (error # "ok")
  /\ UNCHANGED <<irqRequest, cfgUnlock, cfgCmd, cfgRdata, cfgWdata, queued, cmd, data,
                 usbOutputReady, error, usbVars, progVars, effects, resets, others>>

Execute ==
  \/ ExecuteQuery \/ ExecuteBad \/ ExecuteUsbAddress \/ ExecuteUsbLater
  \/ ExecuteUsbRead \/ ExecuteUsbWrite

CfgProcess == CmdCheck \/ Execute \/ WriteData \/ WriteDone

-----------------------------------------------------------------------------
(* usb.c, in its turn of the main loop: the packet slot, the transmit       *)
(* machine and the buffer of a debug read.                                  *)

TakePacket ==
  /\ pc = "idle" /\ slot # "free" /\ sending = "free"
  /\ slot' = "free" /\ sending' = slot
  /\ UNCHANGED <<regVars, cfgVars, readReady, prepared, progVars, effects, resets, others>>

\* The callback of a debug packet is cfg_set_usb_output_ready.
PacketDone ==
  /\ pc = "idle" /\ sending # "free" /\ sending' = "free"
  /\ usbOutputReady' = (usbOutputReady \/ sending = "debug")
  /\ UNCHANGED <<regVars, pc, queued, cmd, data, error, slot, readReady, prepared, progVars,
                 effects, resets, others>>

OtherPacket ==
  /\ pc = "idle" /\ slot = "free" /\ others < MaxOthers
  /\ slot' = "other" /\ others' = others + 1
  /\ UNCHANGED <<regVars, cfgVars, sending, readReady, prepared, progVars, effects, resets>>

\* Debug data of the host is written into the buffer the N64 prepared.
DebugReadStart ==
  /\ pc = "idle" /\ prepared /\ readReady /\ readReady' = FALSE
  /\ UNCHANGED <<regVars, cfgVars, slot, sending, prepared, progVars, effects, resets, others>>

DebugReadDone ==
  /\ pc = "idle" /\ ~readReady
  /\ readReady' = TRUE /\ prepared' = FALSE
  /\ UNCHANGED <<regVars, cfgVars, slot, sending, progVars, effects, resets, others>>

\* A reset of the link drops the packets, calls their callbacks and forgets
\* the buffer.
LinkReset ==
  /\ pc = "idle"
  /\ usbOutputReady' = (usbOutputReady \/ "debug" \in {slot, sending})
  /\ slot' = "free" /\ sending' = "free" /\ readReady' = TRUE /\ prepared' = FALSE
  /\ UNCHANGED <<regVars, pc, queued, cmd, data, error, progVars, effects, resets, others>>

\* A turn that finds the link suspended drops what waits with a callback, and
\* calls the callback of what is being sent, which goes on when the link does.
LinkSuspend ==
  /\ pc = "idle"
  /\ usbOutputReady' = (usbOutputReady \/ "debug" \in {slot, sending})
  /\ slot' \in {"free"} \cup ({slot} \ {"debug"})
  /\ sending' = IF sending = "debug" THEN "orphan" ELSE sending
  /\ UNCHANGED <<regVars, pc, queued, cmd, data, error, readReady, prepared, progVars, effects,
                 resets, others>>

UsbProcess ==
  \/ TakePacket \/ PacketDone \/ OtherPacket \/ DebugReadStart \/ DebugReadDone
  \/ LinkReset \/ LinkSuspend

Program ==
  \/ Unlock \/ Lock \/ ReadAnswer \/ N64Reset
  \/ \E a \in {"pi", "outside"} : WriteArgs(a)
  \/ \E c \in Commands, w \in Waiting : WriteCommand(c, w)

Next == Program \/ CfgProcess \/ UsbProcess

Spec == Init /\ [][Next]_vars

\* The main loop keeps calling cfg_process, and the program keeps looking at
\* the registers.
FairSpec == Spec /\ WF_vars(CfgProcess) /\ WF_vars(ReadAnswer)

-----------------------------------------------------------------------------
RegType ==
  /\ cfgPending \in BOOLEAN /\ cmdError \in BOOLEAN /\ irqRequest \in BOOLEAN
  /\ cmdIrq \in BOOLEAN /\ cfgUnlock \in BOOLEAN
  /\ cfgCmd \in [n : 0..MaxCalls, c : Commands]
  /\ cfgRdata \in [n : 0..MaxCalls, addr : {"pi", "outside"}]
  /\ cfgWdata \in [cmd : 0..MaxCalls, args : 0..MaxCalls, ready : BOOLEAN]

CfgType ==
  /\ pc \in {"idle", "execute", "reply", "done"} /\ error \in Errors
  /\ queued \in BOOLEAN /\ usbOutputReady \in BOOLEAN
  /\ cmd \in [n : 0..MaxCalls, c : Commands]
  /\ data \in [n : 0..MaxCalls, addr : {"pi", "local", "outside"}]

UsbType ==
  /\ slot \in Holders /\ sending \in Holders
  /\ readReady \in BOOLEAN /\ prepared \in BOOLEAN /\ others \in 0..MaxOthers

ProgType ==
  /\ prog \in {"start", "ready", "args"} \cup Waiting /\ call \in 0..MaxCalls
  /\ mayWrite \in BOOLEAN /\ resets \in 0..MaxResets

\* No call takes effect twice.
EffectType == effects \in [Calls -> 0..1]

TypeOK == RegType /\ CfgType /\ UsbType /\ ProgType /\ EffectType

\* The command of this program has ended, as far as it can see.
Ended == (prog = "poll" /\ ~cfgPending) \/ (prog = "irq" /\ cmdIrq)

\* A program that looks at CMD_BUSY first gets the answer to its own command,
\* made from its own arguments, though a command of the program before it may
\* still have been executing when the console was reset (cfg.c:151-177,
\* n64_cfg.sv:96-153).
AnswerIsOwn == CheckBusy /\ Ended => cfgWdata.cmd = call /\ cfgWdata.args = call

\* An answer without error means that the call took effect once, an error
\* that it did not, also for a call usb.c refused at first (cfg.c:599-625).
ErrorTellsEffect == Ended /\ CheckBusy => effects[call] = IF cmdError THEN 0 ELSE 1

\* The interrupt comes only to a program that waits for it: sc64_cmd_irq_callback
\* of the bootloader takes any other for a fatal error (n64_cfg.sv:98, 133-143).
NoStrayInterrupt == CheckBusy /\ cmdIrq => prog = "irq"

\* A program that was told its debug data has left may use the buffer again
\* (cfg.c:608-633), unless the link was suspended while the data was sent:
\* then it is told so at once, and the rest is sent later (usb.c:179-182).
OutputBufferFree == CheckBusy /\ mayWrite => slot # "debug" /\ sending # "debug"

\* Every call ends, though the controller may have to try it again
\* (cfg.c:549-625).
CallsEnd == \A n \in Calls : prog \in Waiting /\ call = n ~> ~(prog \in Waiting /\ call = n)

Service == INSTANCE CommandService WITH
  Calls <- Calls, open <- IF cfgPending THEN cfgCmd.n ELSE 0, effects <- effects, failed <- cmdError

\* The registers and cfg_process implement the promise of CommandService: one
\* call at a time, at most one effect, an error flag that tells whether there was
\* one (n64_cfg.sv:146-152, cfg.c:549-552).
ImplementsService == Service!Spec

\* "Write to this register raises CMD_BUSY bit [...] Flashcart then will start
\* executing provided command."
WrittenIsStarted ==
  [][prog = "args" /\ prog' \in Waiting => cfgCmd'.n = call /\ cfgRdata'.n = call]_vars

\* A USB_WRITE or USB_READ of memory the controller knows is executed.
ValidUsbCommandIsExecuted ==
  pc = "done" /\ cmd.c \in {"usbRead", "usbWrite"} /\ cfgRdata.addr = "pi" => error = "ok"
=============================================================================

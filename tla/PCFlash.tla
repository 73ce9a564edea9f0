------------------------------- MODULE PCFlash ------------------------------
(* A PC's session with a flash cartridge (FlashCommand and FlashRun of     *)
(* pc_backup.c, CartBackup_FlashSession) and the stream of a ROM to the PC *)
(* (BackupCommand, StreamRom): both read ranges of the cartridge that the  *)
(* PC and the MCU get at once, the PC the blocks, the MCU their checksum.  *)
EXTENDS PCFrames, UsbStream, FlashProgram

CONSTANTS
  FlashRequests,  (* what a PC asks of a cartridge *)
  RomBanks,       (* the banks of a ROM, in the order they are streamed *)
  AckRetries      (* kStreamAckRetries *)

ASSUME FlashSessionAssumption ==
  /\ AckRetries \in Nat /\ RomBanks \in Seq(Banks)

VARIABLES
  mcuStream, (* StreamActive *)
  expect, remaining,   (* the slot of the next event, blocks to come *)
  owed,      (* an acknowledgement the engine has not got *)
  waits,     (* attempts left of the wait in hand *)
  waiting,   (* a write the engine has still to take, if there is one *)
  log,       (* history: the last writes on the bus, <<frame, number>> *)
  before,    (* history: the chip and its contents when a program began *)
  doubled    (* history: a range was begun twice *)

mcuVars == <<mcuStream, expect, remaining, owed, waits>>
flashHistory == <<log, before, doubled>>
sessionVars == <<mcuVars, waiting, flashHistory>>

NoStream == /\ mcuStream' = FALSE /\ remaining' = 0 /\ owed' = FALSE
            /\ expect' = None /\ waits' = 0

FlashSessionInit ==
  /\ mcuStream = FALSE /\ remaining = 0 /\ owed = FALSE /\ expect = None
  /\ waits = 0 /\ waiting = << >>
  /\ log = << >> /\ before = << >> /\ doubled = FALSE

-----------------------------------------------------------------------------
(* Writes on the cartridge's bus: what the chip and the mapper make of one *)
(* (a cycle is a register and a value, or what the chip takes it for).     *)

Low(v) == [to |-> "low", v |-> v]          (* 0x2000 *)
High(v) == [to |-> "high", v |-> v]        (* 0x3000 *)
Cycle(what) == [to |-> what, v |-> 0]

OnBus(cycle) ==
  /\ bank' = CASE cycle.to = "low"  -> <<cycle.v, bank[2]>>
               [] cycle.to = "high" -> <<bank[1], cycle.v>>
               [] OTHER             -> bank
  /\ chip' = ChipNext(cycle.to, cycle.v, cycle.v)
  /\ UNCHANGED <<present, widest, cells, engine, walk>>

Listening == fpga = "pc" /\ engine = "idle" /\ waiting = << >>
Taken == Listening /\ ~Busy

Untouched == UNCHANGED <<flashVars, slots, seen, waiting, log>>

LastTwo(s) == IF Len(s) > 2 THEN Tail(s) ELSE s

Carried(cycle, note) == /\ OnBus(cycle) /\ EndStream
                        /\ log' = LastTwo(log \o note)
                        /\ ram' = Blank /\ waiting' = waiting

\* Faulty variant: a write that is not answered is sent again.
WriteUntilAnswered(cycle, note, ok, broken) ==
  \/ Taken /\ NoFault /\ Carried(cycle, note) /\ ok
  \/ Taken /\ Fault /\ Carried(cycle, note) /\ UNCHANGED <<pc, step, result>>
  \/ Taken /\ Fault /\ Untouched /\ broken
  \/ ~Taken /\ NoFault /\ Untouched /\ broken

(* CartLink_WriteOnce: carried out and answered; carried out; lost; kept   *)
(* by the request register of a busy engine; or refused.                   *)
WriteOnce(cycle, note, ok, broken) ==
  \/ Taken /\ NoFault /\ Carried(cycle, note) /\ ok
  \/ Taken /\ Fault /\ Carried(cycle, note) /\ broken
  \/ Taken /\ Fault /\ Untouched /\ broken
  \/ /\ fpga = "pc" /\ engine # "idle" /\ waiting = << >>
     /\ NoFault /\ waiting' = << cycle >>
     /\ UNCHANGED <<flashVars, slots, seen, log>> /\ broken
  \/ /\ fpga # "pc" \/ waiting # << >> \/ (engine = "idle" /\ Busy)
     /\ NoFault /\ Untouched /\ broken

WaitingTaken ==
  /\ waiting # << >> /\ engine = "idle"
  /\ IF fpga = "pc" /\ ~Busy
     THEN OnBus(waiting[1]) /\ EndStream /\ ram' = Blank
     ELSE UNCHANGED <<flashVars, slots, seen>>
  /\ waiting' = << >>
  /\ UNCHANGED <<frameVars, sending, line, usb, notice, vouched, mcuVars, flashHistory>>

-----------------------------------------------------------------------------
(* FlashRun.  PC mode is on, the engine's session is there, and so is the  *)
(* cartridge.                                                              *)

Fresh == /\ NoStream /\ notice' = None
         /\ UNCHANGED <<link, flashVars, slots, streamer, line, usb, vouched, waiting,
                        flashHistory>>

Ready == pcMode /\ Listening /\ present

OpenFlash == /\ Ready /\ Fresh /\ NoFault /\ Open("flash", "receive")

OpenBackup == /\ Ready /\ Fresh /\ NoFault /\ Open("backup", "header")

InFlash(ops) == mode = "flash" /\ pc = "serve" /\ req.op \in ops
Kept == UNCHANGED <<link, sending, line, usb, notice, vouched, mcuVars, before, doubled>>

EndFlash == /\ InFlash({"end"}) /\ NoFault /\ Answer
            /\ Kept /\ Untouched

(* CartBulk_ReadBlock: a block that is not acknowledged stays in its slot, *)
(* and nothing but leaving the session frees it.                           *)
FlashRead ==
  /\ InFlash({"read"})
  /\ \/ Taken /\ NoFault /\ EndStream /\ Answer
     \/ /\ Taken /\ Broken /\ UNCHANGED <<session, range, event, seen>>
        /\ ready' = {0} /\ stream' = FALSE
     \/ ~Taken /\ NoFault /\ Refuse /\ UNCHANGED <<ready, stream, range, event, seen>>
  /\ ram' = Blank
  /\ Kept /\ UNCHANGED <<flashVars, waiting, log>>

Cycles == IF req.op = "write" THEN req.cycles
          ELSE << Low(req.bank[1]), High(req.bank[2]) >>

FlashWrites ==
  /\ InFlash({"write", "bank"}) /\ step < Len(Cycles)
  /\ WriteOnce(Cycles[step + 1], << <<sequence, step + 1>> >>,
               step' = step + 1 /\ UNCHANGED <<pc, result>>,
               step' = step /\ Fail)
  /\ UNCHANGED <<mode, sequence, sent, wire, req>>
  /\ Kept

FlashWritten == /\ InFlash({"write", "bank"}) /\ step = Len(Cycles)
                /\ NoFault /\ Answer
                /\ Kept /\ Untouched /\ ram' = ram

-----------------------------------------------------------------------------
(* Programming a block: it is staged and read back, and the command is     *)
(* sent once.  The MCU waits five seconds for all of it, the engine a      *)
(* tenth of one for each page, which for single bytes may be longer.       *)

ProgramStarts(data) ==
  /\ BeginProgram(req.block, req.mode) /\ EndStream
  /\ before' = << [chip |-> chip, bank |-> bank, cells |-> cells] >>
  /\ UNCHANGED <<present, widest, bank, chip, cells>>

ProgramBlock ==
  /\ InFlash({"program"})
  /\ ram' = [ram EXCEPT ![0] = << req.data >>]
  /\ \/ Taken /\ NoFault /\ ProgramStarts(req.data)
        /\ pc' = "program" /\ result' = result
     \/ Taken /\ Broken /\ ProgramStarts(req.data)
     \/ Taken /\ Broken /\ UNCHANGED <<flashVars, ready, stream, range, event, seen, before>>
     \/ ~Taken /\ NoFault /\ Fail
        /\ UNCHANGED <<flashVars, ready, stream, range, event, seen, before>>
  /\ UNCHANGED <<session, link, sending, line, usb, notice, vouched, mcuVars,
                 waiting, log, doubled>>

Staged == ram[0][1]
Stops == engine' = "idle" /\ walk' = NoWalk /\ UNCHANGED <<present, widest, bank, chip, cells>>

ProgramEnds ==
  /\ \/ /\ Programmed(Staged)
        /\ IF pc = "program" THEN pc' = "programmed" /\ result' = result
           ELSE UNCHANGED <<pc, result>>
     \/ /\ GivesUp(Staged)
        /\ IF pc = "program" THEN Fail ELSE UNCHANGED <<pc, result>>
  /\ Stops
  /\ UNCHANGED <<session, link, faults, usbVars, sessionVars>>

ProgramStep == /\ ChipFinishes \/ EngineWrites(Staged) \/ NextPage(Staged)
               /\ UNCHANGED <<frameVars, usbVars, sessionVars>>

ProgramTimesOut == /\ pc = "program" /\ Fail
                   /\ UNCHANGED <<session, link, faults, usbVars, flashVars, sessionVars>>

ProgramAnswered == /\ pc = "programmed" /\ NoFault /\ Answer
                   /\ before' = << >>
                   /\ UNCHANGED <<link, usbVars, flashVars, mcuVars, waiting, log, doubled>>

Programming == ProgramBlock \/ ProgramEnds \/ ProgramStep \/ ProgramTimesOut
               \/ ProgramAnswered

-----------------------------------------------------------------------------
(* Reading ranges.                                                         *)

RangeHeader ==
  /\ InFlash({"range"}) \/ (mode = "backup" /\ pc = "header")
  /\ line = "none" /\ line' = "header"
  /\ pc' = IF mode = "backup" THEN "bank" ELSE "begin"
  /\ UNCHANGED <<session, result, link, faults, slots, streamer, usb, notice, vouched,
                 flashVars, sessionVars>>

Count == IF mode = "backup" THEN Blocks ELSE req.count
BankShown == IF mode = "backup" THEN RomBanks[step + 1] ELSE bank
Last(first, count) == IF count >= 2 THEN Other(first) ELSE first

(* The slots follow the request's tag. *)
Begins(first) ==
  /\ StartRange(Count, first) /\ bank' = BankShown
  /\ UNCHANGED <<present, widest, chip, cells, engine, walk>>

Follows(first) == /\ mcuStream' = TRUE /\ remaining' = Count
                  /\ expect' = Last(first, Count)
                  /\ owed' = FALSE /\ waits' = AckRetries
                  /\ pc' = "wait" /\ result' = result

NotFollowed == UNCHANGED mcuVars
NotBegun == UNCHANGED <<flashVars, slots, seen>>

BeginRange ==
  /\ pc \in {"begin", "bank"} /\ line = "none"
  /\ notice' = None
  /\ \E first \in 0 .. 1 :
       \/ Taken /\ NoFault /\ Begins(first) /\ Follows(first)
       \/ /\ Taken /\ Fault /\ Begins(first)
          /\ expect' = first /\ UNCHANGED <<mcuStream, remaining, owed, waits>>
          /\ pc' = "again" /\ result' = result
       \/ Taken /\ Broken /\ NotBegun /\ NotFollowed
       \/ ~Taken /\ NoFault /\ Fail /\ NotBegun /\ NotFollowed
  /\ UNCHANGED <<session, link, sending, line, usb, vouched, waiting, flashHistory>>

(* The answer is lost and the request sent again.  The engine does not     *)
(* know it: it refuses it, or begins the range again.                      *)
BeginAgain ==
  /\ pc = "again" /\ NoFault
  /\ IF Taken
     THEN Begins(expect) /\ Follows(expect) /\ doubled' = TRUE
     ELSE Fail /\ NotBegun /\ NotFollowed /\ doubled' = doubled
  /\ UNCHANGED <<session, link, sending, line, usb, notice, vouched, waiting, log, before>>

Batch == IF remaining >= 2 THEN << ram[Other(expect)], ram[expect] >> ELSE << ram[expect] >>

Batched == IF remaining >= 2 THEN {0, 1} ELSE {expect}

TakeEvent ==
  /\ mode # "files" /\ pc = "wait" /\ notice # None
  /\ notice' = None
  /\ \/ /\ notice = expect /\ Batched \subseteq ready /\ NoFault
        /\ vouched' = vouched \o Batch /\ pc' = "ack" /\ result' = result
     \/ notice = expect /\ Broken /\ vouched' = vouched
     \/ ~(notice = expect /\ Batched \subseteq ready) /\ NoFault /\ Fail /\ vouched' = vouched
  /\ UNCHANGED <<session, link, slots, streamer, line, usb, flashVars, sessionVars>>

SendAck ==
  /\ pc = "ack"
  /\ remaining' = remaining - Len(Batch)
  /\ expect' = Last(Other(expect), remaining')
  /\ \/ NoFault /\ Acknowledge /\ owed' = FALSE
     \/ Fault /\ owed' = TRUE /\ UNCHANGED <<slots, seen>>
  /\ waits' = AckRetries
  /\ pc' = IF remaining' = 0 THEN "done" ELSE "wait"
  /\ UNCHANGED <<session, result, link, sending, line, usb, notice, vouched, flashVars,
                 mcuStream, waiting, flashHistory>>

\* Faulty variant: the waits are not counted.
WaitForever ==
  /\ mode # "files" /\ pc = "wait" /\ notice = None
  /\ IF owed THEN Acknowledge ELSE UNCHANGED <<slots, seen>>
  /\ owed' = FALSE
  /\ UNCHANGED <<frameVars, sending, line, usb, notice, vouched, flashVars, mcuStream,
                 expect, remaining, waits, waiting, flashHistory>>

(* Every wait that brings no event repeats the acknowledgement, which the  *)
(* engine heeds only once; the range fails after the last of them.         *)
WaitAgain ==
  /\ mode # "files" /\ pc = "wait" /\ notice = None
  /\ waits' = waits - 1
  /\ IF waits = 1 THEN Fail ELSE UNCHANGED <<pc, result>>
  /\ IF owed THEN Acknowledge ELSE UNCHANGED <<slots, seen>>
  /\ owed' = FALSE
  /\ UNCHANGED <<session, link, faults, sending, line, usb, notice, vouched, flashVars,
                 mcuStream, expect, remaining, waiting, flashHistory>>

RangeDone ==
  /\ mode = "flash" /\ pc = "done" /\ line = "none"
  /\ NoStream /\ line' = "end"
  /\ NoFault /\ Answer
  /\ UNCHANGED <<link, slots, streamer, usb, notice, vouched, flashVars, waiting,
                 flashHistory>>

StreamEnd == pc' = "close" /\ result' = "pass" /\ line' = "end" /\ step' = step

BankRead ==
  /\ mode = "backup" /\ pc = "done" /\ line = "none"
  /\ NoStream
  /\ IF step + 1 < Len(RomBanks)
     THEN pc' = "bank" /\ step' = step + 1 /\ UNCHANGED <<result, line>>
     ELSE StreamEnd
  /\ UNCHANGED <<mode, sequence, sent, wire, req, link, faults, slots, streamer, usb,
                 notice, vouched, flashVars, waiting, flashHistory>>

Ranges == RangeHeader \/ BeginRange \/ BeginAgain \/ TakeEvent \/ SendAck
           \/ WaitAgain \/ RangeDone \/ BankRead

-----------------------------------------------------------------------------
(* The end of a session: the stream is given up, the chip put back to      *)
(* reading, the mapper restored.  The first of these to fail is reported.  *)

Closing == mode \in {"flash", "backup"} /\ pc = "close"

GiveUpStream ==
  /\ Closing
  /\ NoStream
  /\ \/ mcuStream /\ Listening /\ NoFault /\ Drop
     \/ mcuStream /\ Listening /\ Fault /\ UNCHANGED <<slots, seen>>
     \/ ~(mcuStream /\ Listening) /\ NoFault /\ UNCHANGED <<slots, seen>>
  /\ pc' = IF mode = "flash" THEN "reset" ELSE "restore"
  /\ step' = 0 /\ before' = << >> /\ log' = << >>
  /\ UNCHANGED <<mode, sequence, sent, wire, req, result, link, sending, line, usb,
                 notice, vouched, flashVars, waiting, doubled>>

Restores == << Cycle("other"), Cycle("other"), High(0), Low(1) >>
Reported == IF mode = "flash" THEN result' = "fail" ELSE result' = result

ResetChip ==
  /\ pc = "reset" /\ pc' = "restore"
  /\ WriteOnce(Cycle("f0"), << >>, result' = result, Reported)
  /\ UNCHANGED <<session, link, sending, line, usb, notice, vouched, mcuVars, before, doubled>>

RestoreMapper ==
  /\ pc = "restore" /\ step < Len(Restores)
  /\ WriteOnce(Restores[step + 1], << >>,
               step' = step + 1 /\ UNCHANGED <<pc, result>>,
               step' = Len(Restores) /\ pc' = pc /\ Reported)
  /\ UNCHANGED <<mode, sequence, sent, wire, req>>
  /\ UNCHANGED <<link, sending, line, usb, notice, vouched, mcuVars, before, doubled>>

CloseFlash ==
  /\ pc = "restore" /\ step = Len(Restores)
  /\ Return(result) /\ NoFault
  /\ UNCHANGED <<link, usbVars, flashVars, sessionVars>>

Flash == EndFlash \/ FlashRead \/ FlashWrites \/ FlashWritten \/ Programming
         \/ Ranges \/ GiveUpStream \/ ResetChip \/ RestoreMapper \/ CloseFlash
=============================================================================

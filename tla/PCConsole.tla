------------------------------ MODULE PCConsole -----------------------------
(* The console of the PC: sessions of the card, of a flash cartridge and   *)
(* of a ROM, one after the other, on one stream to the PC and one session  *)
(* of the engine, with the task that keeps PC mode up in between and a     *)
(* cartridge that may be pulled out.                                       *)
EXTENDS PCFiles, PCFlash

CONSTANT MaxSessions     (* bound: sessions *)

ASSUME ConsoleAssumption == MaxSessions \in Nat

VARIABLE sessions

vars == <<frameVars, usbVars, fileVars, flashVars, sessionVars, sessions>>

Init == /\ FramesInit /\ UsbInit /\ FilesInit /\ FlashInit /\ FlashSessionInit
        /\ sessions = 0

-----------------------------------------------------------------------------
(* A PC that begins a session has read everything, and waited for the      *)
(* engine to end what the session before gave up.                          *)
Rests == /\ engine = "idle" /\ waiting = << >>
         /\ event = None /\ (range.left > 0 => range.slot \in ready)

Begin ==
  /\ mode = "console" /\ sessions < MaxSessions
  /\ UsbQuiet /\ Rests
  /\ sessions' = sessions + 1
  /\ \/ OpenFiles /\ UNCHANGED <<flashVars, sessionVars>>
     \/ (OpenFlash \/ OpenBackup) /\ UNCHANGED fileVars

Requests == CASE mode = "files" -> FileRequests
              [] mode = "flash" -> FlashRequests
              [] OTHER          -> {}

(* What the PC has received it has taken before it sends again. *)
PCSends == /\ Send(Requests) /\ UsbQuiet
           /\ usb' = << >> /\ vouched' = << >>
           /\ UNCHANGED <<slots, streamer, line, notice, fileVars, flashVars, sessionVars, sessions>>

FramesStep == /\ Frames
              /\ UNCHANGED <<usbVars, fileVars, flashVars, sessionVars, sessions>>

FilesStep == /\ Files
             /\ req.op = "backup" /\ pc' = "receive" => present
             /\ UNCHANGED <<flashVars, sessionVars, sessions>>

FlashStep == Flash /\ UNCHANGED <<fileVars, sessions>>

StreamStep ==
  /\ \/ StreamerStarts \/ StreamerSends \/ LineSent \/ EventArrives
  /\ UNCHANGED <<frameVars, fileVars, flashVars, sessionVars, sessions>>

(* What a read of the cartridge gives: a chip that programs shows its      *)
(* status.                                                                 *)
Shown == << bank, range.at, IF chip.state = "busy" THEN [i \in Bytes |-> 0]
                            ELSE cells[bank][range.at] >>

EngineReads ==
  /\ fpga = "pc" /\ engine = "idle" /\ waiting = << >>
  /\ ReadNext(Shown)
  /\ UNCHANGED <<frameVars, fileVars, flashVars, sessionVars, sessions>>

RegisterStep == WaitingTaken /\ UNCHANGED <<fileVars, sessions>>

(* KeepaliveTask: CartBackup_SetPCMode(true) when no session is open.      *)
Keepalive ==
  /\ mode = "console" /\ engine = "idle" /\ waiting = << >>
  /\ present /\ fpga = "none"
  /\ fpga' = "pc" /\ pcMode' = TRUE
  /\ UNCHANGED <<session, pc, result, faults, usbVars, fileVars, flashVars, sessionVars,
                 sessions>>

-----------------------------------------------------------------------------
(* Faults.                                                                 *)

(* The engine's session ends with the cartridge, unless it is the card's.  *)
CartridgeOut ==
  /\ present /\ Fault
  /\ present' = FALSE /\ bank' = FirstBank /\ chip' = Reading
  /\ engine' = "idle" /\ walk' = NoWalk /\ waiting' = << >>
  /\ IF fpga = "pc" THEN fpga' = "none" /\ Drop
     ELSE fpga' = fpga /\ UNCHANGED <<slots, seen>>
  /\ UNCHANGED <<widest, cells, session, pc, result, pcMode, sending, line, usb, notice,
                 vouched, fileVars, mcuVars, flashHistory, sessions>>

CartridgeIn ==
  /\ ~present /\ present' = TRUE
  /\ UNCHANGED <<widest, bank, chip, cells, engine, walk, frameVars, usbVars, fileVars,
                 sessionVars, sessions>>

StreamFault ==
  /\ Fault
  /\ LineDropped \/ EventLost
  /\ UNCHANGED <<session, pc, result, link, fileVars, flashVars, sessionVars, sessions>>

Mcu == FramesStep \/ FilesStep \/ FlashStep
Hardware == StreamStep \/ EngineReads \/ RegisterStep

Next == Begin \/ PCSends \/ Mcu \/ Hardware \/ Keepalive \/ CartridgeOut \/ CartridgeIn
        \/ StreamFault

Spec == Init /\ [][Next]_vars

(* The tasks of the MCU and the FPGA go on, and the PC reads its port.     *)
FairSpec == Spec /\ WF_vars(Mcu) /\ WF_vars(Hardware)

-----------------------------------------------------------------------------
(* A PC that has got a header line, the blocks and the closing line has    *)
(* the blocks the closing line's checksum covers, each once and in order,  *)
(* however the two slots were filled, freed and sent meanwhile             *)
(* (cart_usb_streamer.sv, CartBulk_ReadRangeNext, CartBulk_SendUSBBlock).  *)
(* Begun twice, a range is sent twice: the lost answer is in section 5 of  *)
(* the README.                                                             *)
Sent(blocks) == [k \in 1 .. 2 * Len(blocks) |-> HalfOf(blocks[(k + 1) \div 2], 2 - (k % 2))]
Whole == Len(usb) >= 2 /\ usb[1] = TextLine("header") /\ usb[Len(usb)] = TextLine("end")
StreamsAreExact ==
  Whole /\ ~doubled => SubSeq(usb, 2, Len(usb) - 1) = Sent(vouched)

(* A request's writes reach the cartridge's bus at most once each and in   *)
(* their order, answered or not: a flash command is nothing to repeat      *)
(* (FlashWrites, CartLink_WriteOnce).                                      *)
Before(a, b) == a[1] < b[1] \/ (a[1] = b[1] /\ a[2] < b[2])
WritesOnceInOrder == \A i, j \in DOMAIN log : i < j => Before(log[i], log[j])

(* A block reported as programmed has lost exactly the bits it was to      *)
(* lose, and nothing else of the chip has, if the chip was reading when it *)
(* began and takes pages of that size: the engine polls every page before  *)
(* the next (CartBulk_ProgramCartBlock, STATE_FLASH_POLL).                 *)
Listened == before[1].chip.state = "read" /\ PageSize(req.mode) <= widest
Program(block, data) == [i \in Bytes |-> IF data[i] = 0 THEN 0 ELSE block[i]]
ProgramsAreExact ==
  pc = "programmed" /\ Listened =>
    cells = [before[1].cells EXCEPT ![before[1].bank][req.block] = Program(@, req.data)]

(* Sessions leave nothing behind, however they end: no file that is not    *)
(* whole, no temporary file the card lets go of, no mount, no stream and   *)
(* no session of the engine for the card (Run of pc_sd.c); and one that    *)
(* passes leaves the chip reading from its first bank                      *)
(* (CartBackup_FlashSession).                                              *)
SessionsLeaveNothing ==
  /\ mode = "console" =>
       /\ \A name \in Names : disk[name] \in Contents \cup {Absent, Directory}
       /\ temp.there => stranded
       /\ ~mounted /\ ~sdBulk /\ ~mcuStream /\ fpga # "sd"
  /\ mode = "flash" /\ pc = "restore" /\ step = Len(Restores) /\ result = "pass" /\ present =>
       chip.state = "read" /\ bank = FirstBank

(* Every session ends, whatever is lost and whatever the PC does.          *)
ConsoleReturns == mode # "console" ~> mode = "console"
=============================================================================

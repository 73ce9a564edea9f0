------------------------------ MODULE UsbStream -----------------------------
(* Blocks on their way to the PC: the two slots of the block RAM, the      *)
(* stream of cart_maintenance_engine.sv that fills them from the           *)
(* cartridge, cart_usb_streamer.sv that sends what an event publishes,     *)
(* half a block at a time, and usb_cdc_tx_mux.sv that puts the lines of    *)
(* the console before its bytes.                                           *)
EXTENDS Integers, Sequences

VARIABLES
  ram,       (* u_cart_block_ram: the block in each slot *)
  ready,     (* block_ready: the slots that hold a block *)
  stream,    (* stream_active *)
  range,     (* blocks left to read, the next one's slot and number, pair *)
  event,     (* the slot the event names, or None *)
  seen,      (* event_seen *)
  sending,   (* halves the streamer has still to send *)
  line,      (* a line of the console in the UART and the mux, or "none" *)
  usb,       (* what the PC has received since the last header line *)
  notice,    (* StreamEventQueue: the slot of the event, or None *)
  vouched    (* the blocks the MCU's checksum covers *)

slots == <<ram, ready, stream, range, event>>
streamer == <<seen, sending>>
usbVars == <<slots, streamer, line, usb, notice, vouched>>

None == -1
Other(slot) == 1 - slot
Blank == [slot \in 0 .. 1 |-> << >>]
NoRange == [left |-> 0, slot |-> 0, at |-> 1, pair |-> FALSE]

UsbInit ==
  /\ ram = Blank /\ ready = {}
  /\ stream = FALSE /\ range = NoRange
  /\ event = None /\ seen = FALSE /\ sending = << >>
  /\ line = "none" /\ usb = << >> /\ notice = None /\ vouched = << >>

-----------------------------------------------------------------------------
(* The engine.  Its requests say what becomes of the RAM and of what       *)
(* follows it on the way to the PC.                                        *)

(* A block nobody is to read any more is forgotten here: to read it would *)
(* be to read a wrong one.                                                 *)

(* EXIT, a removed cartridge, READ_RANGE of 0 blocks. *)
Drop == /\ ready' = {} /\ stream' = FALSE /\ range' = NoRange
        /\ event' = None /\ seen' = FALSE /\ ram' = Blank

Complete == stream /\ range.left = 0
Busy == (stream /\ ~Complete) \/ (~stream /\ ready # {})

StartRange(count, slot) ==
  /\ ready' = {} /\ stream' = TRUE
  /\ range' = [left |-> count, slot |-> slot, at |-> 1, pair |-> FALSE]
  /\ ram' = Blank
  /\ UNCHANGED <<event, seen>>

(* WRITE and the modes 0x82 to 0x85 end a stream that is complete. *)
EndStream == ready' = {} /\ stream' = FALSE /\ UNCHANGED <<range, event, seen>>

(* The MCU's block in slot 0 is published (READ_RANGE 0x84). *)
CanPublish == ready = {} /\ event = None
Publish == /\ ready' = {0} /\ event' = 0 /\ stream' = TRUE
           /\ range' = NoRange /\ UNCHANGED seen

Acknowledge == ready' = {} /\ ram' = Blank /\ UNCHANGED <<stream, range, event, seen>>

(* A block is read; the event waits for its pair, or for the last block.   *)
ReadNext(block) ==
  LET last == range.pair \/ range.left = 1
  IN /\ stream /\ range.left > 0 /\ range.slot \notin ready
     /\ last => event = None
     /\ ram' = [ram EXCEPT ![range.slot] = block]
     /\ ready' = ready \cup {range.slot}
     /\ range' = [left |-> range.left - 1, slot |-> Other(range.slot),
                  at |-> range.at + 1, pair |-> ~last]
     /\ event' = IF last THEN range.slot ELSE event
     /\ UNCHANGED <<stream, streamer, line, usb, notice, vouched>>

-----------------------------------------------------------------------------
(* The streamer and the mux.                                               *)

Halves(slot) == << <<slot, 1>>, <<slot, 2>> >>
HalfOf(block, n) == [kind |-> "data", block |-> block, half |-> n]
TextLine(kind) == [kind |-> kind, block |-> << >>, half |-> 0]

\* Faulty variant: the pair is sent from slot 0 on.
PairFromZero(slot) == IF Other(slot) \in ready THEN Halves(0) \o Halves(1)
                      ELSE Halves(slot)

(* The block before the event's is sent first. *)
Published(slot) == IF Other(slot) \in ready THEN Halves(Other(slot)) \o Halves(slot)
                   ELSE Halves(slot)

StreamerStarts == /\ event # None /\ ~seen /\ sending = << >>
                  /\ sending' = Published(event) /\ seen' = TRUE
                  /\ UNCHANGED <<slots, line, usb, notice, vouched>>

StreamerSends == /\ sending # << >> /\ line = "none"
                 /\ usb' = Append(usb, HalfOf(ram[Head(sending)[1]], Head(sending)[2]))
                 /\ sending' = Tail(sending)
                 /\ UNCHANGED <<slots, seen, line, notice, vouched>>

(* A header line is where the PC, and the checksum, begin afresh. *)
Covered == IF line = "header" THEN << >> ELSE vouched

LineSent == /\ line # "none" /\ line' = "none"
            /\ usb' = IF line = "header" THEN << TextLine("header") >>
                      ELSE Append(usb, TextLine(line))
            /\ vouched' = Covered
            /\ UNCHANGED <<slots, streamer, notice>>

(* A byte of the UART that finds the last one still waiting is lost. *)
LineDropped == /\ line # "none" /\ line' = "none"
               /\ usb' = IF line = "header" THEN << >> ELSE usb
               /\ vouched' = Covered
               /\ UNCHANGED <<slots, streamer, notice>>

(* event_complete: only then does the event go to the MCU. *)
EventPasses == event # None /\ seen /\ sending = << >>

EventArrives == /\ EventPasses
                /\ event' = None /\ seen' = FALSE /\ notice' = event
                /\ UNCHANGED <<ram, ready, stream, range, sending, line, usb, vouched>>

EventLost == /\ EventPasses
             /\ event' = None /\ seen' = FALSE
             /\ UNCHANGED <<ram, ready, stream, range, sending, line, usb, notice, vouched>>

UsbQuiet == sending = << >> /\ line = "none" /\ (event = None \/ seen)
=============================================================================

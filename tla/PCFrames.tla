------------------------------- MODULE PCFrames -----------------------------
(* The binary sessions a PC opens from the console.  A request is a CF01   *)
(* frame with a sequence number and a checksum; the first that is wrong,   *)
(* late or refused ends the session (Run of pc_sd.c, FlashRun of           *)
(* pc_backup.c).                                                           *)
EXTENDS Integers, Sequences

CONSTANTS
  MaxFrames,      (* bound: frames the PC sends in a session *)
  MaxFaults       (* bound: whatever may go wrong *)

ASSUME FramesAssumption == MaxFrames \in Nat /\ MaxFaults \in Nat

VARIABLES
  mode,      (* "console", "files", "flash", "backup" *)
  pc,        (* what the session's task is at; "receive", "serve", "close", ... *)
  sequence,  (* the number of the frame it waits for *)
  sent,      (* frames the PC has sent *)
  wire,      (* the frame on its way, if there is one *)
  req,       (* the request in hand *)
  step,      (* how far it is with it *)
  result,    (* of the last session: "none", "pass", "fail" *)
  pcMode,    (* PCModeActive *)
  fpga,      (* the engine's session: "none", "pc" (value 1), "sd" (value 3) *)
  faults

session == <<mode, sequence, sent, wire, req, step>>
link == <<pcMode, fpga>>
frameVars == <<session, pc, result, link, faults>>

NoRequest == [op |-> "none"]

FramesInit ==
  /\ mode = "console" /\ pc = "closed" /\ sequence = 0 /\ sent = 0
  /\ wire = << >> /\ req = NoRequest /\ step = 0 /\ result = "none"
  /\ pcMode = TRUE /\ fpga = "pc" /\ faults = 0

Fault == faults < MaxFaults /\ faults' = faults + 1
NoFault == faults' = faults

Fail == pc' = "close" /\ result' = "fail"

(* Something beyond the program's control fails: the card, the link. *)
Broken == Fault /\ Fail

-----------------------------------------------------------------------------
(* The PC sends a request when the last one is answered.  A frame may be   *)
(* lost, spoilt, or numbered as one already answered.                      *)
Send(requests) ==
  /\ pc = "receive" /\ wire = << >> /\ sent < MaxFrames
  /\ sent' = sent + 1
  /\ \E q \in requests :
       \/ NoFault /\ wire' = << [seq |-> sent, whole |-> TRUE, req |-> q] >>
       \/ /\ Fault
          /\ wire' \in { << >>, << [seq |-> sent, whole |-> FALSE, req |-> q] >>,
                         << [seq |-> sent - 1, whole |-> TRUE, req |-> q] >> }
  /\ UNCHANGED <<mode, sequence, req, step, pc, result, link>>

Right == wire # << >> /\ wire[1].whole /\ wire[1].seq = sequence

Receive == /\ pc = "receive" /\ Right
           /\ req' = wire[1].req /\ wire' = << >>
           /\ pc' = "serve" /\ step' = 0
           /\ UNCHANGED <<mode, sequence, sent, result, link, faults>>

RejectFrame == /\ pc = "receive" /\ wire # << >> /\ ~Right
               /\ wire' = << >> /\ Fail
               /\ UNCHANGED <<mode, sequence, sent, req, step, link, faults>>

(* PCBackup_ReadUpload waits five seconds for each part of a frame. *)
ReceiveTimesOut == /\ pc = "receive" /\ wire = << >>
                   /\ Fail
                   /\ UNCHANGED <<session, link, faults>>

Frames == Receive \/ RejectFrame \/ ReceiveTimesOut

(* The request is carried out: the PC is told, and may send another. *)
Answer == /\ IF req.op = "end"
             THEN pc' = "close" /\ result' = "pass" /\ sequence' = sequence
             ELSE pc' = "receive" /\ result' = result /\ sequence' = sequence + 1
          /\ step' = 0 /\ req' = NoRequest
          /\ UNCHANGED <<mode, sent, wire>>

Refuse == Fail /\ UNCHANGED session

Open(m, at) ==
  /\ mode = "console" /\ mode' = m /\ pc' = at
  /\ sequence' = 0 /\ sent' = 0 /\ wire' = << >>
  /\ req' = NoRequest /\ step' = 0 /\ result' = "none"

(* What has come meanwhile is flushed and the console is back. *)
Return(outcome) ==
  /\ mode' = "console" /\ pc' = "closed" /\ result' = outcome
  /\ wire' = << >> /\ req' = NoRequest /\ step' = 0 /\ sequence' = 0 /\ sent' = 0
=============================================================================

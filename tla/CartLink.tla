------------------------------ MODULE CartLink ------------------------------
(***************************************************************************)
(* Remote calls from the MCU to the FPGA (cart_link.c): one call at a time *)
(* under a mutex, an 8-bit tag per call, up to three attempts of 50 ms     *)
(* each with the same tag, answers taken from a queue of one.  The UART    *)
(* may lose a frame in either direction and an answer may come after the   *)
(* attempt that asked for it was given up.  On the FPGA, system_monitor.sv *)
(* holds one request and sends one answer at a time; requests to the       *)
(* cartridge go to cart_maintenance_engine.sv, virtual-cartridge commands  *)
(* to top.v, and both share the way back.                                  *)
(*                                                                         *)
(* A call is numbered; its tag is the number modulo TagCount.  The number  *)
(* itself is history: no guard but the tag comparison reads it.            *)
(***************************************************************************)
EXTENDS Integers, Sequences

CONSTANTS TagCount,  \* 256: NextTag is a uint8_t
          Attempts,  \* kTransactionAttempts
          MaxCalls,  \* bound: calls made
          Room       \* bound: frames on the wire in one direction

ASSUME LinkAssumption == /\ TagCount \in Nat \ {0}
                         /\ Attempts \in Nat \ {0}
                         /\ MaxCalls \in Nat
                         /\ Room \in Nat \ {0}

VARIABLES
  \* the MCU
  calls,     \* number of the last call; NextTag is its successor's tag
  pc,        \* "idle", or where the holder of TransactionMutex is
  call,      \* its request: operation, sequence acknowledged, attempts left
  inbox,     \* ResponseQueue
  outcome,   \* what the last call returned
  answer,    \* the response it returned
  block,     \* the call whose block is to be acknowledged, or NoCall
  \* the wire
  up, down,  \* frames on their way to and from the FPGA
  \* system_monitor.sv and top.v
  pending,   \* cart_request_pending and the request registers
  queued,    \* the arbiter's refresh request for the response channel
  virtual,   \* virtual_response_valid and its registers
  \* the engine
  state,     \* STATE_*, the bus cycles of one access folded into one state
  current,   \* current_operation and current_tag
  reply,     \* response_valid and its registers
  active, sd, enterTag, ready, lastAck,
  release,   \* what EXIT_WAIT answers, "none" when nothing
  cart,      \* cart_present
  \* history
  verdicts,  \* the answers the engine has given to the running call
  lapsed     \* the session ended on its own since the call began

mcu == <<calls, pc, call, inbox, outcome, answer, block>>
wire == <<up, down>>
monitor == <<pending, queued, virtual>>
engine == <<state, current, reply, active, sd, enterTag, ready, lastAck, release>>
history == <<verdicts, lapsed>>
vars == <<mcu, wire, monitor, engine, cart, history>>

NoCall == 0
Operations == {"ping", "enter", "enter_sd", "read", "write", "exit", "ack", "virtual"}
Statuses == {"ok", "not_active", "already_active", "no_cartridge", "block_busy",
             "sequence", "no_block"}
Numbers == 0 .. MaxCalls
Requests == [call : Numbers, op : Operations, seq : Numbers]
Replies == [call : Numbers, op : Operations, status : Statuses]
NoRequest == [call |-> NoCall, op |-> "ping", seq |-> NoCall]
NoReply == [call |-> NoCall, op |-> "ping", status |-> "ok"]

Tag(n) == n % TagCount
SameTag(a, b) == Tag(a) = Tag(b)
Elements(s) == {s[i] : i \in 1 .. Len(s)}

Init == /\ calls = 0 /\ pc = "idle"
        /\ call = [op |-> "ping", seq |-> NoCall, left |-> 0]
        /\ inbox = NoReply /\ outcome = "none" /\ answer = NoReply
        /\ block = NoCall
        /\ up = <<>> /\ down = <<>>
        /\ pending = NoRequest /\ queued = FALSE /\ virtual = NoReply
        /\ state = "idle" /\ current = NoRequest /\ reply = NoReply
        /\ active = FALSE /\ sd = FALSE
        /\ enterTag = NoCall /\ ready = NoCall /\ lastAck = NoCall
        /\ release = "none"
        /\ cart \in BOOLEAN
        /\ verdicts = {} /\ lapsed = FALSE

-----------------------------------------------------------------------------
(* The MCU: CartLink_TransactionRequest.                                   *)

(* The engine can still answer the request it took last.                   *)
Answerable == active \/ state # "idle"

(* What is on its way belongs to one of the last TagCount calls: nothing   *)
(* is under way for the 12 seconds that 256 unanswered calls take.         *)
NothingAncient ==
  LET recent(n) == n = NoCall \/ n > calls + 1 - TagCount
  IN /\ \A m \in Elements(up) \cup {pending} : recent(m.call)
     /\ \A r \in Elements(down) \cup {virtual, reply} : recent(r.call)
     /\ Answerable => recent(current.call)

(* The mutex is free: a caller that does not get it within 50 ms returns   *)
(* ESP_ERR_TIMEOUT and has changed nothing.  An acknowledgement follows    *)
(* the block it is for (CartBulk_ReadBlock).                               *)
StartCall(o, attempts) ==
  /\ pc = "idle" /\ calls < MaxCalls /\ NothingAncient
  /\ o = "ack" => block # NoCall
  /\ calls' = calls + 1
  /\ call' = [op |-> o, seq |-> IF o = "ack" THEN block ELSE NoCall, left |-> attempts]
  /\ block' = IF o = "ack" THEN NoCall ELSE block
  /\ pc' = "send" /\ outcome' = "none"
  /\ verdicts' = {} /\ lapsed' = FALSE
  /\ UNCHANGED <<inbox, answer, wire, monitor, engine, cart>>

Send == /\ pc = "send" /\ Len(up) < Room
        /\ inbox' = NoReply
        /\ up' = Append(up, [call |-> calls, op |-> call.op, seq |-> call.seq])
        /\ call' = [call EXCEPT !.left = @ - 1]
        /\ pc' = "wait"
        /\ UNCHANGED <<calls, outcome, answer, block, down, monitor, engine, cart, history>>

SendFails == /\ pc = "send"
             /\ inbox' = NoReply
             /\ pc' = "idle" /\ outcome' = "failed"
             /\ UNCHANGED <<calls, call, answer, block, wire, monitor, engine, cart, history>>

\* Faulty variant: the tag is not compared.
MatchesOperation(r) == r.op = call.op

Matches(r) == SameTag(r.call, calls) /\ r.op = call.op

Accept == /\ pc = "wait" /\ inbox # NoReply /\ Matches(inbox)
          /\ inbox' = NoReply
          /\ answer' = inbox
          /\ pc' = "idle" /\ outcome' = "answered"
          /\ block' = IF call.op = "read" /\ inbox.status = "ok" THEN calls ELSE block
          /\ UNCHANGED <<calls, call, wire, monitor, engine, cart, history>>

Discard == /\ pc = "wait" /\ inbox # NoReply /\ ~Matches(inbox)
           /\ inbox' = NoReply
           /\ UNCHANGED <<calls, pc, call, outcome, answer, block,
                          wire, monitor, engine, cart, history>>

TimeOut == /\ pc = "wait"
           /\ IF call.left > 0
              THEN pc' = "send" /\ outcome' = outcome
              ELSE pc' = "idle" /\ outcome' = "timeout"
           /\ UNCHANGED <<calls, call, inbox, answer, block,
                          wire, monitor, engine, cart, history>>

-----------------------------------------------------------------------------
(* The wire.  A frame whose CRC fails is dropped at either end.            *)

LoseRequest == /\ up # <<>>
               /\ up' = Tail(up)
               /\ UNCHANGED <<mcu, down, monitor, engine, cart, history>>

LoseReply == /\ down # <<>>
             /\ down' = Tail(down)
             /\ UNCHANGED <<mcu, up, monitor, engine, cart, history>>

(* A request that finds the register occupied is dropped. *)
Arrive == /\ up # <<>>
          /\ up' = Tail(up)
          /\ pending' = IF pending = NoRequest THEN Head(up) ELSE pending
          /\ UNCHANGED <<mcu, down, queued, virtual, engine, cart, history>>

(* CartLink_OnResponse: xQueueOverwrite. *)
Deliver == /\ down # <<>>
           /\ down' = Tail(down)
           /\ inbox' = Head(down)
           /\ UNCHANGED <<calls, pc, call, outcome, answer, block,
                          up, monitor, engine, cart, history>>

-----------------------------------------------------------------------------
(* The way back: a rising edge of cart_response_valid asks for the         *)
(* channel; a virtual answer goes first.                                   *)

Valid == virtual # NoReply \/ reply # NoReply

Transmit == /\ queued /\ Len(down) < Room
            /\ queued' = FALSE
            /\ IF virtual # NoReply
               THEN /\ down' = Append(down, virtual)
                    /\ virtual' = NoReply /\ reply' = reply
               ELSE /\ down' = Append(down, reply)
                    /\ reply' = NoReply /\ virtual' = virtual
            /\ UNCHANGED <<mcu, up, pending, state, current, active, sd,
                           enterTag, ready, lastAck, release, cart, history>>

AnswerVirtual == /\ pending.op = "virtual" /\ ~Valid
                 /\ pending' = NoRequest
                 /\ virtual' = [call |-> pending.call, op |-> "virtual", status |-> "ok"]
                 /\ queued' = TRUE
                 /\ UNCHANGED <<mcu, wire, engine, cart, history>>

-----------------------------------------------------------------------------
(* The engine, STATE_IDLE: the request is taken, and answered at once or   *)
(* started.                                                                *)

ForEngine == pending # NoRequest /\ pending.op # "virtual"
Accepts == ForEngine /\ state = "idle" /\ reply = NoReply

\* Faulty variant: an answer that asks for the channel only when it is free.
ReplyIfFree(r, status) ==
  /\ reply' = [call |-> r.call, op |-> r.op, status |-> status]
  /\ queued' = (queued \/ (~Valid /\ down = <<>>))

(* No edge, and no request for the channel, while a virtual answer waits. *)
Reply(r, status) == /\ reply' = [call |-> r.call, op |-> r.op, status |-> status]
                    /\ queued' = (queued \/ ~Valid)

Respond(r, status) ==
  /\ Reply(r, status)
  /\ verdicts' = IF r.call = calls THEN verdicts \cup {status} ELSE verdicts

Take == /\ Accepts
        /\ pending' = NoRequest
        /\ current' = pending
        /\ UNCHANGED <<mcu, wire, virtual, cart, lapsed>>

TakeAndRespond(status) ==
  /\ Take
  /\ Respond(pending, status)
  /\ UNCHANGED <<state, active, sd, enterTag, release>>

TakeAndStart(next) ==
  /\ Take
  /\ state' = next
  /\ UNCHANGED <<reply, queued, verdicts>>

Ping == /\ pending.op = "ping"
        /\ TakeAndRespond("ok")
        /\ UNCHANGED <<ready, lastAck>>

Entering == pending.op \in {"enter", "enter_sd"}
MayEnter == cart \/ pending.op = "enter_sd"

Enter == /\ Entering /\ MayEnter /\ ~active
         /\ TakeAndStart("enter_wait")
         /\ active' = TRUE
         /\ sd' = (pending.op = "enter_sd")
         /\ enterTag' = Tag(pending.call)
         /\ lastAck' = NoCall
         /\ UNCHANGED <<ready, release>>

\* Faulty variant: a retried ENTER is not recognised.
EnterTwice == /\ Entering /\ MayEnter /\ active
              /\ TakeAndRespond("already_active")
              /\ UNCHANGED <<ready, lastAck>>

EnterAgain == /\ Entering /\ MayEnter /\ active
              /\ TakeAndRespond(IF Tag(pending.call) = enterTag
                                THEN "ok" ELSE "already_active")
              /\ UNCHANGED <<ready, lastAck>>

EnterNothing == /\ Entering /\ ~MayEnter
                /\ TakeAndRespond("no_cartridge")
                /\ UNCHANGED <<ready, lastAck>>

OnBus == pending.op \in {"read", "write"}

Refuse == /\ \/ OnBus /\ (~active \/ ~cart \/ sd)
             \/ pending.op = "ack" /\ ~active
          /\ TakeAndRespond(IF ~active THEN "not_active" ELSE "no_cartridge")
          /\ UNCHANGED <<ready, lastAck>>

BusIsMine == OnBus /\ active /\ cart /\ ~sd

Read == /\ pending.op = "read" /\ BusIsMine /\ ready = NoCall
        /\ TakeAndStart("bus")
        /\ lastAck' = NoCall
        /\ UNCHANGED <<active, sd, enterTag, ready, release>>

(* The block is still there: the answer was lost, or another is asked for. *)
ReadAgain == /\ pending.op = "read" /\ BusIsMine /\ ready # NoCall
             /\ TakeAndRespond(IF SameTag(pending.call, ready) THEN "ok" ELSE "block_busy")
             /\ UNCHANGED <<ready, lastAck>>

Write == /\ pending.op = "write" /\ BusIsMine /\ ready = NoCall
         /\ TakeAndStart("bus")
         /\ UNCHANGED <<active, sd, enterTag, ready, lastAck, release>>

WriteBusy == /\ pending.op = "write" /\ BusIsMine /\ ready # NoCall
             /\ TakeAndRespond("block_busy")
             /\ UNCHANGED <<ready, lastAck>>

Ack == /\ pending.op = "ack" /\ active
       /\ ready # NoCall /\ SameTag(pending.seq, ready)
       /\ TakeAndRespond("ok")
       /\ ready' = NoCall
       /\ lastAck' = pending.seq

AckAgain == /\ pending.op = "ack" /\ active
            /\ ready = NoCall \/ ~SameTag(pending.seq, ready)
            /\ TakeAndRespond(
                 IF lastAck # NoCall /\ SameTag(pending.seq, lastAck) THEN "ok"
                 ELSE IF ready # NoCall THEN "sequence" ELSE "no_block")
            /\ UNCHANGED <<ready, lastAck>>

\* Faulty variant: the session stays open until the bus is released.
CloseLater == /\ state' = "exit_wait"
              /\ ready' = NoCall
              /\ lastAck' = NoCall
              /\ UNCHANGED <<active, sd, enterTag>>

Close == /\ active' = FALSE
         /\ state' = "exit_wait"
         /\ ready' = NoCall
         /\ lastAck' = NoCall
         /\ UNCHANGED <<sd, enterTag>>

Exit == /\ pending.op = "exit" /\ active
        /\ Take
        /\ Close
        /\ release' = "ok"
        /\ UNCHANGED <<reply, queued, verdicts>>

ExitAgain == /\ pending.op = "exit" /\ ~active
             /\ TakeAndRespond("ok")
             /\ UNCHANGED <<ready, lastAck>>

-----------------------------------------------------------------------------
(* The engine, the other states. *)

Entered == /\ state = "enter_wait"
           /\ state' = "idle"
           /\ Respond(current, "ok")
           /\ UNCHANGED <<mcu, wire, pending, virtual, current, active, sd, enterTag,
                          ready, lastAck, release, cart, lapsed>>

BusDone == /\ state = "bus"
           /\ state' = "idle"
           /\ ready' = IF current.op = "read" THEN current.call ELSE NoCall
           /\ Respond(current, "ok")
           /\ UNCHANGED <<mcu, wire, pending, virtual, current, active, sd, enterTag,
                          lastAck, release, cart, lapsed>>

Released == /\ state = "exit_wait"
            /\ state' = "idle"
            /\ release' = "none"
            /\ \/ release = "none" /\ UNCHANGED <<reply, queued, verdicts>>
               \/ release = "ok" /\ Respond(current, "ok")
               \/ /\ release = "no_cartridge"
                  /\ Reply(current, "no_cartridge")
                  /\ verdicts' = verdicts
            /\ UNCHANGED <<mcu, wire, pending, virtual, current, active, sd, enterTag,
                           ready, lastAck, cart, lapsed>>

\* Faulty variant: a session of the SD card is not watched.
SilentOnBus == /\ active /\ ~sd /\ state = "idle" /\ ~Accepts
               /\ pc = "idle" \/ verdicts = {}

(* Ten seconds without a request: no call lasts that long once the engine  *)
(* has heard it.                                                           *)
Silent == /\ active /\ state = "idle" /\ ~Accepts
          /\ pc = "idle" \/ verdicts = {}

Watchdog == /\ Silent
            /\ Close
            /\ release' = "none"
            /\ lapsed' = TRUE
            /\ verdicts' = {}
            /\ UNCHANGED <<mcu, wire, monitor, current, reply, cart>>

(* The cartridge is pulled; a request taken in the same clock is lost. *)
PullCart == /\ cart
            /\ cart' = FALSE
            /\ verdicts' = {}
            /\ IF active /\ ~sd /\ state # "exit_wait"
               THEN /\ Close
                    /\ release' = "no_cartridge"
                    /\ lapsed' = TRUE
                    /\ \/ pending' = pending
                       \/ Accepts /\ pending' = NoRequest
               ELSE UNCHANGED <<state, active, sd, enterTag, ready, lastAck, release,
                                lapsed, pending>>
            /\ UNCHANGED <<mcu, wire, queued, virtual, current, reply>>

InsertCart == /\ ~cart
              /\ cart' = TRUE
              /\ verdicts' = {}
              /\ UNCHANGED <<mcu, wire, monitor, engine, lapsed>>

-----------------------------------------------------------------------------
(* CartLink_Transaction retries, CartLink_TransactionOnce does not. *)
Calling == \E o \in Operations, n \in {1, Attempts} : StartCall(o, n)

Running == Send \/ Accept \/ Discard \/ TimeOut

Wire == Arrive \/ Deliver \/ Transmit

Engine == \/ Ping \/ Enter \/ EnterAgain \/ EnterNothing \/ Refuse
          \/ Read \/ ReadAgain \/ Write \/ WriteBusy \/ Ack \/ AckAgain
          \/ Exit \/ ExitAgain \/ Entered \/ BusDone \/ Released

Fault == SendFails \/ LoseRequest \/ LoseReply \/ PullCart \/ InsertCart

Next == Calling \/ Running \/ Wire \/ Engine \/ AnswerVirtual \/ Watchdog \/ Fault

Spec == Init /\ [][Next]_vars

(* The tasks, the UART and the FPGA go on; the wire drains. *)
FairSpec == /\ Spec
            /\ WF_vars(Running) /\ WF_vars(Wire) /\ WF_vars(Engine)
            /\ WF_vars(AnswerVirtual) /\ WF_vars(Watchdog)

-----------------------------------------------------------------------------
TypeOK ==
  /\ calls \in Numbers /\ pc \in {"idle", "send", "wait"}
  /\ call \in [op : Operations, seq : Numbers, left : 0 .. Attempts]
  /\ inbox \in Replies /\ answer \in Replies /\ block \in Numbers
  /\ outcome \in {"none", "answered", "timeout", "failed"}
  /\ up \in Seq(Requests) /\ down \in Seq(Replies)
  /\ pending \in Requests /\ queued \in BOOLEAN /\ virtual \in Replies
  /\ state \in {"idle", "enter_wait", "bus", "exit_wait"}
  /\ current \in Requests /\ reply \in Replies
  /\ active \in BOOLEAN /\ sd \in BOOLEAN /\ cart \in BOOLEAN
  /\ enterTag \in Nat /\ ready \in Numbers /\ lastAck \in Numbers
  /\ release \in {"none", "ok", "no_cartridge"}
  /\ verdicts \subseteq Statuses /\ lapsed \in BOOLEAN

(* A response that a call returns was made for that very call: not for an  *)
(* earlier one that gave up, although tags repeat, answers come late and   *)
(* the engine speaks up on its own when the cartridge is pulled.           *)
AnswersTheCall == outcome = "answered" => answer.call = calls

(* A retry is told what the first attempt was told, whichever frames were  *)
(* lost: a session opened by a request whose answer was lost is not        *)
(* refused as already active, nor a block as busy, nor its                 *)
(* acknowledgement as out of sequence.                                     *)
RetriesAgree == \A a, b \in verdicts : a = b

(* What the MCU was told about the session is so: requests of calls it has *)
(* given up neither reopen the session it closed nor close the one it      *)
(* opened, unless the session lapsed on its own.                           *)
SessionAsAnswered ==
  outcome = "answered" =>
    /\ answer.op = "exit" => ~active
    /\ answer.op \in {"enter", "enter_sd"} /\ answer.status = "ok" => active \/ lapsed

(* An FPGA that is given no virtual-cartridge command answers every        *)
(* cartridge request, also when the cartridge is pulled while an answer is *)
(* on its way: the one request register never stays occupied.              *)
RequestsAreTaken ==
  [](virtual = NoReply) => [](pending # NoRequest => <>(pending = NoRequest))

(* A session nobody closed - its ENTER was carried out but never answered  *)
(* - ends once the MCU falls silent, and the game gets the bus back.       *)
SessionsEnd == <>[](pc = "idle") => <>[](~active /\ state = "idle")

(* The inductive invariant: every frame, register and pending answer       *)
(* belongs to one of the last TagCount calls.                              *)
Recent(n) == n \in 1 .. calls /\ n > calls - TagCount

InWindow ==
  /\ \A i \in 1 .. Len(up) : Recent(up[i].call)
  /\ \A i \in 1 .. Len(down) : Recent(down[i].call)
  /\ pending # NoRequest => Recent(pending.call)
  /\ Answerable => Recent(current.call)
  /\ virtual # NoReply => Recent(virtual.call)
  /\ reply # NoReply => Recent(reply.call)
  /\ pc = "wait" /\ inbox # NoReply => Recent(inbox.call)

IInv == /\ TypeOK
        /\ InWindow
        /\ pc # "idle" => calls > 0 /\ outcome = "none"
        /\ pc = "send" => call.left > 0
        /\ queued => Valid
        /\ AnswersTheCall
=============================================================================

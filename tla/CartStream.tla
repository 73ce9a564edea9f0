------------------------------ MODULE CartStream ----------------------------
(* Reading a range of cartridge blocks (cart_bulk.c against                *)
(* cart_maintenance_engine.sv).  The engine fills two slots, the block     *)
(* with sequence number s in slot s % 2, and sends one event per pair; the *)
(* MCU copies both over QSPI and acknowledges the later one, which frees   *)
(* them.  Requests, answers, events and acknowledgements may be lost, and  *)
(* the MCU may lose patience before an answer comes.  CartLink is the link *)
(* the requests travel on; here one call is one action to send it, one for *)
(* its answer and one for its timeout.                                     *)
EXTENDS Integers, Sequences

CONSTANTS
  SeqCount,       (* sequence numbers and tags, 256 in the code *)
  Counts,         (* lengths of the ranges asked for *)
  Attempts,       (* kTransactionAttempts *)
  AckRetries,     (* kStreamAckRetries *)
  QspiAttempts,   (* kQspiAttempts *)
  QueueDepth,     (* kStreamEventQueueDepth *)
  MaxOps,         (* bound: calls of the caller *)
  Room,           (* bound: frames on their way to the FPGA *)
  LossBudget      (* bound: frames lost and QSPI reads spoilt *)

ASSUME StreamAssumption ==
  /\ SeqCount \in Nat \ {0} /\ SeqCount % 2 = 0
  /\ Counts \subseteq 1 .. SeqCount - 1       \* a uint8_t
  /\ {Attempts, AckRetries, QspiAttempts, QueueDepth, Room} \subseteq Nat \ {0}
  /\ MaxOps \in Nat /\ LossBudget \in Nat

VARIABLES
  (* the MCU *)
  pc,         (* "idle", "wait", "next", "read", "ack", "failed", "closed" *)
  ops,        (* calls made so far: the next call's tag, not yet wrapped *)
  call,       (* the call being made *)
  left,       (* attempts left, of the call or of the wait in hand *)
  expected, remaining,     (* StreamExpectedSequence, StreamBlocksRemaining *)
  pending,    (* StreamPendingBlock, or NoBlock *)
  batch,      (* blocks copied of the batch in hand *)
  lastAck,    (* StreamLastAckSequence, or None *)
  queue,      (* StreamEventQueue *)
  got,        (* what the caller has been given of this range *)
  (* the wire to the FPGA and its registers *)
  up, request, reply, event,
  (* the engine *)
  active, state, current, stream, toRead, nextSeq, nextBlock, pair, slot,
  (* history *)
  losses, mishap

bulk == <<expected, remaining, pending, batch, lastAck, got>>
registers == <<request, reply, event>>
cursor == <<stream, toRead, nextSeq, nextBlock, pair, slot>>
engine == <<active, state, current, cursor>>
history == <<losses, mishap>>
vars == <<pc, ops, call, left, bulk, queue, up, registers, engine, history>>

None == -1
NoBlock == [range |-> 0, index |-> 0]
NoCall == [op |-> "none", tag |-> 0, count |-> 0, id |-> 0]
NoReply == [op |-> "none", tag |-> 0, ok |-> FALSE, id |-> 0]
Ranges == {"range", "mapped"}      (* READ_RANGE, WRITE_READ_RANGE *)
Seqs == 0 .. SeqCount - 1
Plus(s, n) == (s + n) % SeqCount
Empty == [ready |-> FALSE, seq |-> 0, block |-> NoBlock]

Init ==
  /\ pc = "idle" /\ ops = 0 /\ call = NoCall /\ left = 0
  /\ expected = 0 /\ remaining = 0 /\ pending = NoBlock /\ batch = <<>>
  /\ lastAck = None /\ queue = <<>> /\ got = <<>>
  /\ up = <<>> /\ request = NoCall /\ reply = NoReply /\ event = None
  /\ active = TRUE /\ state = "idle" /\ current = NoCall
  /\ stream = FALSE /\ toRead = 0 /\ nextSeq = 0 /\ nextBlock = NoBlock
  /\ pair = FALSE /\ slot = [i \in 0 .. 1 |-> Empty]
  /\ losses = 0 /\ mishap = FALSE

-----------------------------------------------------------------------------
(* Calls of the MCU.  A caller that failed aborts the stream if it has one *)
(* and leaves the session; the next session starts when that one is gone.  *)

Transmit(frame) == Len(up) < Room /\ up' = Append(up, frame)

(* What is on its way belongs to one of the last SeqCount calls; "id" tells *)
(* which, the code knows the tag.                                          *)
NothingAncient ==
  LET recent(n) == n > ops + 1 - SeqCount
  IN /\ \A i \in 1 .. Len(up) : up[i].op # "ack" => recent(up[i].id)
     /\ request # NoCall => recent(request.id)
     /\ state = "writing" => recent(current.id)
     /\ reply # NoReply => recent(reply.id)

Call(op, count) ==
  LET c == [op |-> op, tag |-> ops % SeqCount, count |-> count, id |-> ops + 1]
  IN /\ NothingAncient
     /\ ops' = ops + 1
     /\ call' = c
     /\ Transmit(c)
     /\ pc' = "wait" /\ left' = Attempts - 1
     /\ UNCHANGED <<registers, engine, history>>

BeginRange == /\ pc = "idle" /\ ops < MaxOps
              /\ queue' = <<>>
              /\ \E op \in Ranges, n \in Counts : Call(op, n)
              /\ UNCHANGED bulk

MapperWrite == /\ pc = "idle" /\ ops < MaxOps
               /\ Call("write", 0)
               /\ UNCHANGED <<bulk, queue>>

ReadRangeAbort == /\ pc = "failed" /\ remaining > 0
                  /\ Call("abort", 0)
                  /\ UNCHANGED <<bulk, queue>>

Leave == /\ pc = "failed" /\ remaining = 0
         /\ Call("exit", 0)
         /\ UNCHANGED <<bulk, queue>>

(* CartBulk_End: what is left of the stream is forgotten. *)
Forget == /\ remaining' = 0 /\ pending' = NoBlock /\ batch' = <<>>
          /\ lastAck' = None /\ got' = <<>> /\ expected' = 0

Failed == pc' = "failed" /\ left' = left

Matches(r) == pc = "wait" /\ r.tag = call.tag /\ r.op = call.op

StreamStarts == /\ expected' = call.tag /\ remaining' = call.count
                /\ lastAck' = None /\ pending' = NoBlock
                /\ got' = <<>> /\ batch' = <<>>
                /\ pc' = "next" /\ left' = AckRetries

(* CartLink_OnResponse and what the caller does with the answer. *)
Answered ==
  /\ Matches(reply) /\ reply' = NoReply
  /\ \/ /\ call.op \in Ranges /\ reply.ok
        /\ StreamStarts /\ UNCHANGED queue
     \/ /\ call.op = "write" /\ reply.ok
        /\ pc' = "idle" /\ UNCHANGED <<left, bulk, queue>>
     \/ /\ call.op \in Ranges \cup {"write"} /\ ~reply.ok
        /\ Failed /\ UNCHANGED <<bulk, queue>>
     \/ /\ call.op = "abort"
        /\ Forget /\ Failed
        /\ queue' = IF reply.ok THEN <<>> ELSE queue
     \/ /\ call.op = "exit"
        /\ Forget /\ queue' = <<>>
        /\ pc' = "closed" /\ left' = left
  /\ UNCHANGED <<ops, call, up, request, event, engine, history>>

Unasked == /\ reply # NoReply /\ ~Matches(reply)
           /\ reply' = NoReply
           /\ UNCHANGED <<pc, ops, call, left, bulk, queue, up, request, event,
                          engine, history>>

CanRead == /\ state = "idle" /\ stream /\ toRead > 0
           /\ ~slot[nextSeq % 2].ready

(* Nothing is under way that a longer wait would bring. *)
Quiet == /\ up = <<>> /\ request = NoCall /\ reply = NoReply /\ event = None
         /\ state = "idle" /\ ~CanRead

TimeOut ==
  /\ pc = "wait"
  /\ mishap' = (mishap \/ ~Quiet)
  /\ IF left > 0
     THEN /\ Transmit(call) /\ left' = left - 1
          /\ UNCHANGED <<pc, bulk, queue>>
     ELSE /\ pc' = IF call.op = "exit" THEN "closed" ELSE "failed"
          /\ left' = left /\ up' = up
          /\ IF call.op \in {"abort", "exit"}
             THEN Forget /\ queue' = <<>> ELSE UNCHANGED <<bulk, queue>>
  /\ UNCHANGED <<ops, call, registers, engine, losses>>

(* The next job opens a session of its own once this one is over. *)
Reopen == /\ pc = "closed" /\ ~active
          /\ pc' = "idle" /\ active' = TRUE
          /\ UNCHANGED <<ops, call, left, bulk, queue, up, registers, state,
                         current, cursor, history>>

-----------------------------------------------------------------------------
(* CartBulk_ReadRangeNext *)

BatchCount == IF remaining >= 2 THEN 2 ELSE 1
Completion == Plus(expected, BatchCount - 1)

Give(b) == /\ got' = Append(got, b)
           /\ expected' = Plus(expected, 1)
           /\ remaining' = remaining - 1

\* Faulty variant: the second block of a pair is not forgotten.
TakePendingStill == /\ pc = "next" /\ pending # NoBlock /\ remaining > 0
                    /\ Give(pending)
                    /\ left' = AckRetries
                    /\ UNCHANGED <<pc, ops, call, pending, batch, lastAck, queue, up,
                                   registers, engine, history>>

TakePending == /\ pc = "next" /\ pending # NoBlock
               /\ Give(pending)
               /\ pending' = NoBlock
               /\ left' = AckRetries
               /\ UNCHANGED <<pc, ops, call, batch, lastAck, queue, up, registers,
                              engine, history>>

Waiting == pc = "next" /\ pending = NoBlock /\ remaining > 0

ReceiveEvent == /\ Waiting /\ queue # <<>>
                /\ queue' = Tail(queue)
                /\ IF Head(queue) = Completion
                   THEN pc' = "read" /\ left' = QspiAttempts
                   ELSE Failed
                /\ UNCHANGED <<ops, call, bulk, up, registers, engine, history>>

\* Faulty variant: the wait does not count its attempts.
EventTimeoutForever ==
  /\ Waiting /\ queue = <<>>
  /\ IF lastAck = None THEN up' = up ELSE Transmit([op |-> "ack", tag |-> lastAck])
  /\ UNCHANGED <<pc, ops, call, left, bulk, queue, registers, engine, history>>

(* Repeating the acknowledgement is what repairs the loss of one. *)
EventTimeout ==
  /\ Waiting /\ queue = <<>>
  /\ IF lastAck = None THEN up' = up ELSE Transmit([op |-> "ack", tag |-> lastAck])
  /\ left' = left - 1
  /\ pc' = IF left = 1 THEN "failed" ELSE pc
  /\ mishap' = (mishap \/ (left = 1 /\ ~Quiet))
  /\ UNCHANGED <<ops, call, bulk, queue, registers, engine, losses>>

(* ValidateQspiResponse: the header shows the slot's ready flag and        *)
(* sequence number.                                                        *)
Valid(s) == slot[s % 2].ready /\ slot[s % 2].seq = s

CopyBlock == /\ pc = "read"
             /\ LET s == Plus(expected, Len(batch))
                IN Valid(s) /\ batch' = Append(batch, slot[s % 2].block)
             /\ left' = QspiAttempts
             /\ pc' = IF Len(batch') = BatchCount THEN "ack" ELSE "read"
             /\ UNCHANGED <<ops, call, expected, remaining, pending, lastAck, got,
                            queue, up, registers, engine, history>>

ReadSpoilt == /\ left' = left - 1
              /\ IF left = 1
                 THEN pc' = "failed" /\ batch' = <<>>
                 ELSE UNCHANGED <<pc, batch>>
              /\ UNCHANGED <<ops, call, expected, remaining, pending, lastAck, got,
                             queue, up, registers, engine>>

CopyInvalid == /\ pc = "read"
               /\ ~Valid(Plus(expected, Len(batch)))
               /\ ReadSpoilt
               /\ UNCHANGED history

SendAck == /\ pc = "ack"
           /\ Transmit([op |-> "ack", tag |-> Completion])
           /\ lastAck' = Completion
           /\ pending' = IF Len(batch) = 2 THEN batch[2] ELSE NoBlock
           /\ Give(batch[1])
           /\ batch' = <<>>
           /\ pc' = "next" /\ left' = AckRetries
           /\ UNCHANGED <<ops, call, queue, registers, engine, history>>

(* CartBulk_ReadRangeEnd: no word to the engine. *)
ReadRangeEnd == /\ pc = "next" /\ remaining = 0 /\ pending = NoBlock
                /\ pc' = "idle"
                /\ lastAck' = None /\ got' = <<>>
                /\ UNCHANGED <<ops, call, left, expected, remaining, pending, batch,
                               queue, up, registers, engine, history>>

Reading == TakePending \/ ReceiveEvent \/ CopyBlock \/ CopyInvalid \/ SendAck
           \/ ReadRangeEnd

-----------------------------------------------------------------------------
(* The FPGA: frames arrive. *)

\* Faulty variant: an acknowledgement frees its slot whatever is in it.
AckSlotsBlindly(s) ==
  [i \in 0 .. 1 |-> IF i = s % 2 \/ slot[i].seq = Plus(s, SeqCount - 1)
                    THEN [slot[i] EXCEPT !.ready = FALSE] ELSE slot[i]]

(* The block acknowledged and the one before it are free, if it is there. *)
AckSlots(s) ==
  IF stream /\ Valid(s)
  THEN [i \in 0 .. 1 |->
          IF i = s % 2 \/ slot[i].seq = Plus(s, SeqCount - 1)
          THEN [slot[i] EXCEPT !.ready = FALSE] ELSE slot[i]]
  ELSE slot

Arrive == /\ up # <<>>
          /\ up' = Tail(up)
          /\ IF Head(up).op = "ack"
             THEN /\ slot' = IF active THEN AckSlots(Head(up).tag) ELSE slot
                  /\ request' = request
             ELSE /\ request' = IF request = NoCall THEN Head(up) ELSE request
                  /\ slot' = slot
          /\ UNCHANGED <<pc, ops, call, left, bulk, queue, reply, event, active,
                         state, current, stream, toRead, nextSeq, nextBlock, pair,
                         history>>

DeliverEvent == /\ event # None
                /\ event' = None
                /\ queue' = IF Len(queue) < QueueDepth THEN Append(queue, event)
                            ELSE queue
                /\ UNCHANGED <<pc, ops, call, left, bulk, up, request, reply, engine,
                               history>>

-----------------------------------------------------------------------------
(* The engine.                                                             *)

Result(c, ok) == [op |-> c.op, tag |-> c.tag, ok |-> ok, id |-> c.id]

Accepts == state = "idle" /\ request # NoCall /\ reply = NoReply

Cleared == [i \in 0 .. 1 |-> [slot[i] EXCEPT !.ready = FALSE]]
BlockReady == \E i \in 0 .. 1 : slot[i].ready
Busy == \/ stream /\ toRead > 0
        \/ ~stream /\ BlockReady

StopStream == /\ stream' = FALSE /\ pair' = FALSE /\ slot' = Cleared
              /\ UNCHANGED <<nextSeq, nextBlock>>

Take == /\ Accepts
        /\ request' = NoCall /\ current' = request
        /\ UNCHANGED <<pc, ops, call, left, bulk, queue, up, history>>

Refuse == /\ Take
          /\ \/ request.op # "exit" /\ ~active
             \/ request.op \in Ranges \cup {"write"} /\ active /\ Busy
             \/ request.op = "abort" /\ active /\ ~stream
          /\ reply' = Result(request, FALSE)
          /\ UNCHANGED <<event, active, state, cursor>>

StartRange == /\ Take /\ request.op \in Ranges /\ active /\ ~Busy
              /\ stream' = TRUE /\ toRead' = request.count /\ pair' = FALSE
              /\ nextSeq' = request.tag
              /\ nextBlock' = [range |-> request.id, index |-> 1]
              /\ slot' = Cleared
              /\ IF request.op = "mapped"
                 THEN state' = "writing" /\ reply' = reply
                 ELSE state' = state /\ reply' = Result(request, TRUE)
              /\ UNCHANGED <<event, active>>

StartWrite == /\ Take /\ request.op = "write" /\ active /\ ~Busy
              /\ StopStream /\ toRead' = toRead
              /\ state' = "writing"
              /\ UNCHANGED <<reply, event, active>>

Abort == /\ Take /\ request.op = "abort" /\ active /\ stream
         /\ StopStream /\ toRead' = 0
         /\ event' = None
         /\ reply' = Result(request, TRUE)
         /\ UNCHANGED <<active, state>>

Exit == /\ Take /\ request.op = "exit"
        /\ reply' = Result(request, TRUE)
        /\ active' = FALSE
        /\ IF active THEN StopStream /\ toRead' = 0 /\ event' = None
           ELSE UNCHANGED <<cursor, event>>
        /\ state' = state

WriteDone == /\ state = "writing"
             /\ state' = "idle"
             /\ reply' = Result(current, TRUE)
             /\ UNCHANGED <<pc, ops, call, left, bulk, queue, up, request, event,
                            active, current, cursor, history>>

(* A request goes before the next block.  Two blocks make one event. *)
ReadBlock ==
  /\ CanRead /\ ~Accepts
  /\ slot' = [slot EXCEPT ![nextSeq % 2] =
                [ready |-> TRUE, seq |-> nextSeq, block |-> nextBlock]]
  /\ toRead' = toRead - 1
  /\ nextSeq' = Plus(nextSeq, 1)
  /\ nextBlock' = [nextBlock EXCEPT !.index = @ + 1]
  /\ pair' = (~pair /\ toRead > 1)
  /\ state' = IF pair' THEN "idle" ELSE "publish"
  /\ UNCHANGED <<pc, ops, call, left, bulk, queue, up, registers, active, current,
                 stream, history>>

Publish == /\ state = "publish" /\ event = None
           /\ event' = Plus(nextSeq, SeqCount - 1)
           /\ state' = "idle"
           /\ UNCHANGED <<pc, ops, call, left, bulk, queue, up, request, reply, active,
                          current, cursor, history>>

(* Ten seconds without a request. *)
Watchdog == /\ active /\ pc = "closed" /\ state \in {"idle", "publish"} /\ ~Accepts
            /\ active' = FALSE /\ state' = "idle"
            /\ StopStream /\ toRead' = 0
            /\ event' = None
            /\ UNCHANGED <<pc, ops, call, left, bulk, queue, up, request, reply,
                           current, history>>

Engine == Refuse \/ StartRange \/ StartWrite \/ Abort \/ Exit \/ WriteDone
          \/ ReadBlock \/ Publish

-----------------------------------------------------------------------------
(* Faults.  An answer or an event is sent once; losing it is not repaired. *)

Lose == losses < LossBudget /\ losses' = losses + 1

LoseFrame == /\ Lose /\ up # <<>>
             /\ up' = Tail(up)
             /\ UNCHANGED <<pc, ops, call, left, bulk, queue, registers, engine,
                            mishap>>

LoseAnswer == /\ Lose /\ mishap' = TRUE
              /\ \/ reply # NoReply /\ reply' = NoReply /\ event' = event
                 \/ event # None /\ event' = None /\ reply' = reply
              /\ UNCHANGED <<pc, ops, call, left, bulk, queue, up, request, engine>>

Glitch == /\ Lose /\ pc = "read"
          /\ ReadSpoilt
          /\ mishap' = mishap

Fault == LoseFrame \/ LoseAnswer \/ Glitch

Caller == BeginRange \/ MapperWrite

Mcu == ReadRangeAbort \/ Leave \/ Answered \/ Unasked \/ TimeOut \/ Reopen
       \/ Reading \/ EventTimeout

Next == Caller \/ Mcu \/ Arrive \/ DeliverEvent \/ Engine \/ Watchdog \/ Fault

Spec == Init /\ [][Next]_vars

(* The task, the UART and the FPGA go on. *)
FairSpec == /\ Spec
            /\ WF_vars(Mcu) /\ WF_vars(Arrive) /\ WF_vars(DeliverEvent)
            /\ WF_vars(Engine) /\ WF_vars(Watchdog)

-----------------------------------------------------------------------------
(* A range read gives its caller the blocks of that range, in order and    *)
(* once, or fails: no block left in a slot or event left in the queue by   *)
(* an earlier range, or by the same request carried out twice, is taken    *)
(* for one of it (CartBulk_ReadRangeBegin to CartBulk_ReadRangeEnd).       *)
InRange == pc \in {"next", "read", "ack"}
Right == \A i \in 1 .. Len(got) : got[i] = [range |-> call.id, index |-> i]

R == INSTANCE RangeRead WITH size <- IF InRange THEN call.count ELSE 0,
                             taken <- IF ~InRange THEN 0
                                      ELSE IF Right THEN Len(got) ELSE -1
ReadsInOrder == R!RSpec

(* A range never fails because requests, acknowledgements or QSPI reads    *)
(* were lost, as long as fewer are lost than are tried: failure needs a    *)
(* lost answer, a lost event or a wait cut short.                          *)
LossesAreRepaired == pc = "failed" => mishap

(* Whatever was lost, and whoever gave up first, the caller ends up with   *)
(* its range, or out of the session and able to open another one.          *)
Recovers == pc # "idle" ~> pc = "idle"
=============================================================================

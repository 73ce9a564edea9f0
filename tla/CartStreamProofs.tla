--------------------------- MODULE CartStreamProofs --------------------------
(* Proofs about CartStream for every number of sequence numbers, length of *)
(* a range, number of attempts, calls and losses: a range read implements  *)
(* RangeRead, and does not fail because of losses it can repair.           *)
(*                                                                         *)
(* What is read is right because the engine reads nothing else than the    *)
(* range of the running call once it answered it, however often the        *)
(* request is carried out again, and a sequence number names one block of  *)
(* a range.  Events and acknowledgements decide when a block is read and   *)
(* never which; IInv says nothing of them.                                 *)
(*                                                                         *)
(* That a read ends well is about them.  As long as no mishap happened the *)
(* engine is in step with the MCU, and the last part, Calm, says where the *)
(* next step finds its request, block, event or acknowledgement, or how    *)
(* many losses account for its absence.                                    *)
EXTENDS CartStream, TLAPS

------------------------------------------------------------------------------
(* The inductive invariant.  Types: *)
Operations == Ranges \cup {"write", "abort", "exit"}
Requests == [op : Operations, tag : Seqs, count : Nat, id : Nat \ {0}]
Acks == [op : {"ack"}, tag : Seqs]
Replies == [op : Operations, tag : Seqs, ok : BOOLEAN, id : Nat \ {0}]
Blocks == [range : Nat, index : Nat]
Places == [ready : BOOLEAN, seq : Seqs, block : Blocks]

McuTypeOK ==
  /\ pc \in {"idle", "wait", "next", "read", "ack", "failed", "closed"}
  /\ ops \in Nat /\ left \in Nat
  /\ pc \in {"next", "read"} => left > 0
  /\ call \in Requests \cup {NoCall}
  /\ expected \in Seqs /\ remaining \in Nat
  /\ pending \in Blocks /\ lastAck \in Seqs \cup {None}
QueueTypeOK ==
  /\ batch \in Seq(Blocks) /\ got \in Seq(Blocks) /\ queue \in Seq(Seqs)
WireTypeOK ==
  /\ up \in Seq(Requests \cup Acks) /\ request \in Requests \cup {NoCall}
  /\ reply \in Replies \cup {NoReply} /\ event \in Seqs \cup {None}
  /\ losses \in Nat /\ mishap \in BOOLEAN
EngineTypeOK ==
  /\ active \in BOOLEAN /\ state \in {"idle", "writing", "publish"}
  /\ current \in Requests \cup {NoCall}
  /\ stream \in BOOLEAN /\ toRead \in Nat /\ nextSeq \in Seqs
  /\ nextBlock \in Blocks /\ pair \in BOOLEAN
  /\ slot \in [0 .. 1 -> Places]
TypeOK == McuTypeOK /\ QueueTypeOK /\ WireTypeOK /\ EngineTypeOK

(* A request carries the number of its call, and the last SeqCount calls   *)
(* have tags of their own.                                                 *)
Recent(n) == n <= ops /\ n > ops - SeqCount
Numbered(m) == /\ m.tag = (m.id - 1) % SeqCount
               /\ m.op \in Ranges => m.count \in Counts
Ours(m) == m.id = ops => m = call
CallInv == /\ call.id = ops
           /\ ops > 0 => Numbered(call)
           /\ pc \notin {"idle", "closed"} => ops > 0

(* Requests arrive in the order of the calls: after one of the running     *)
(* call was taken no older one is.                                         *)
UpInv ==
  \A i \in 1 .. Len(up) : up[i].op # "ack" =>
    /\ Recent(up[i].id) /\ Numbered(up[i]) /\ Ours(up[i])
    /\ current.id <= up[i].id /\ request.id <= up[i].id
    /\ \A j \in 1 .. i : up[j].op # "ack" => up[j].id <= up[i].id
WireInv ==
  /\ request # NoCall =>
       /\ Recent(request.id) /\ Numbered(request) /\ Ours(request)
       /\ current.id <= request.id
  /\ current.id <= ops
  /\ current # NoCall => Numbered(current) /\ Ours(current)
  /\ state = "writing" => current # NoCall /\ Recent(current.id) /\ reply = NoReply
  /\ reply # NoReply =>
       /\ Recent(reply.id) /\ reply.tag = (reply.id - 1) % SeqCount
       /\ reply.id <= current.id
       /\ reply.id = ops => reply.op = call.op

(* The engine reads the range of a call that it answered with OK, or is    *)
(* about to, and what is in its slots is of that range and in its place.   *)
At(i) == Plus(call.tag, i - 1)
OwnInv ==
  /\ nextBlock.range <= current.id
  /\ state = "writing" /\ current.op \in Ranges => nextBlock.range = current.id
  /\ reply.ok /\ reply.op \in Ranges /\ reply.id = ops => nextBlock.range = ops
InPlace(p) == p.ready => /\ p.block.range = ops
                         /\ p.block.index \in 1 .. call.count
                         /\ p.seq = At(p.block.index)
StreamInv ==
  nextBlock.range = ops /\ ops > 0 =>
    /\ call.op \in Ranges
    /\ nextBlock.index > 0 /\ toRead + nextBlock.index - 1 <= call.count
    /\ nextSeq = At(nextBlock.index)
    /\ \A k \in 0 .. 1 : InPlace(slot[k])

(* What the MCU has of the range it reads.                                 *)
Nth(i) == [range |-> ops, index |-> i]
ReadInv ==
  InRange =>
    /\ nextBlock.range = ops
    /\ Right /\ Len(got) + remaining = call.count
    /\ remaining > 0 => expected = At(Len(got) + 1)
    /\ pending # NoBlock => pending = Nth(Len(got) + 1) /\ remaining > 0
    /\ \A i \in 1 .. Len(batch) : batch[i] = Nth(Len(got) + i)
    /\ pc = "next" => batch = <<>>
    /\ pc # "next" => remaining > 0 /\ pending = NoBlock
    /\ pc = "read" => Len(batch) < BatchCount
    /\ pc = "ack" => Len(batch) = BatchCount

IInv == TypeOK /\ CallInv /\ UpInv /\ WireInv /\ OwnInv /\ StreamInv /\ ReadInv

------------------------------------------------------------------------------
(* Numbers.                                                                *)
LEMMA Sizes == /\ SeqCount \in Nat /\ SeqCount > 1
               /\ Counts \subseteq 1 .. SeqCount - 1
               /\ {Attempts, AckRetries, QspiAttempts, QueueDepth, Room} \subseteq Nat \ {0}
               /\ MaxOps \in Nat /\ LossBudget \in Nat
  BY StreamAssumption

(* Less than SeqCount calls apart, equal tags are of equal calls. *)
LEMMA TagsTellApart ==
  ASSUME NEW a \in Int, NEW b \in Int, a <= b, b - a < SeqCount,
         a % SeqCount = b % SeqCount
  PROVE  a = b
<1> DEFINE n == SeqCount
           p == a \div n
           q == b \div n
<1>1. n \in Nat /\ n > 0
  BY Sizes
<1>2. /\ p \in Int /\ a = n * p + (a % n)
      /\ q \in Int /\ b = n * q + (b % n)
  BY <1>1
<1>3. a % n = b % n /\ b - a < n
  OBVIOUS
<1> HIDE DEF n, p, q
<1>4. b - a = n * (q - p)
  BY <1>1, <1>2, <1>3
<1>5. CASE q - p >= 1
  <2>1. n * (q - p) >= n
    BY <1>1, <1>2, <1>5
  <2> QED BY <2>1, <1>1, <1>2, <1>3, <1>4
<1>6. CASE q - p <= -1
  <2>1. n * (q - p) <= 0 - n
    BY <1>1, <1>2, <1>6
  <2> QED BY <2>1, <1>1, <1>4
<1>7. CASE q - p = 0
  BY <1>7, <1>1, <1>2, <1>3, <1>4
<1> QED BY <1>2, <1>5, <1>6, <1>7

LEMMA PlusIs ==
  ASSUME NEW a \in Seqs, NEW b \in Seqs
  PROVE  /\ Plus(a, b) \in Seqs
         /\ Plus(a, b) = IF a + b < SeqCount THEN a + b ELSE a + b - SeqCount
<1>1. CASE a + b < SeqCount
  BY <1>1, Sizes DEF Plus, Seqs
<1>2. CASE a + b >= SeqCount
  BY <1>2, Sizes DEF Plus, Seqs
<1> QED BY <1>1, <1>2, Sizes DEF Seqs

LEMMA TagIsSeq ==
  ASSUME NEW n \in Int
  PROVE  n % SeqCount \in Seqs
  BY Sizes DEF Seqs

LEMMA PlusIsSeq ==
  ASSUME NEW a \in Int, NEW b \in Int
  PROVE  Plus(a, b) \in Seqs
  BY TagIsSeq, Sizes DEF Plus

LEMMA AtIs ==
  ASSUME call.tag \in Seqs, NEW i \in 1 .. SeqCount
  PROVE  /\ At(i) \in Seqs
         /\ i < SeqCount => Plus(At(i), 1) = At(i + 1)
<1>1. 1 \in Seqs /\ i - 1 \in Seqs /\ i + 1 - 1 = i
  BY Sizes DEF Seqs
<1>2. At(i) \in Seqs
  BY <1>1, PlusIs DEF At
<1>3. ASSUME i < SeqCount PROVE Plus(At(i), 1) = At(i + 1)
  <2>1. i \in Seqs
    BY <1>3, Sizes DEF Seqs
  <2>2. At(i) = IF call.tag + i - 1 < SeqCount THEN call.tag + i - 1
                ELSE call.tag + i - 1 - SeqCount
    BY <1>1, PlusIs, Sizes DEF At, Seqs
  <2>3. At(i + 1) = IF call.tag + i < SeqCount THEN call.tag + i
                    ELSE call.tag + i - SeqCount
    <3>1. At(i + 1) = Plus(call.tag, i)
      BY <1>1 DEF At
    <3> QED BY <2>1, <3>1, PlusIs
  <2>4. Plus(At(i), 1) = IF At(i) + 1 < SeqCount THEN At(i) + 1
                         ELSE At(i) + 1 - SeqCount
    BY <1>1, <1>2, PlusIs
  <2> QED BY <1>2, <1>3, <2>1, <2>2, <2>3, <2>4, Sizes DEF Seqs
<1> QED BY <1>2, <1>3

LEMMA AtTells ==
  ASSUME call.tag \in Seqs, NEW i \in 1 .. SeqCount, NEW j \in 1 .. SeqCount,
         At(i) = At(j)
  PROVE  i = j
<1>1. i - 1 \in Seqs /\ j - 1 \in Seqs
  BY Sizes DEF Seqs
<1>2. /\ At(i) = IF call.tag + i - 1 < SeqCount THEN call.tag + i - 1
                 ELSE call.tag + i - 1 - SeqCount
      /\ At(j) = IF call.tag + j - 1 < SeqCount THEN call.tag + j - 1
                 ELSE call.tag + j - 1 - SeqCount
  <2>1. ASSUME NEW k \in 1 .. SeqCount, k - 1 \in Seqs
        PROVE  At(k) = IF call.tag + k - 1 < SeqCount THEN call.tag + k - 1
                       ELSE call.tag + k - 1 - SeqCount
    BY <2>1, PlusIs, Sizes DEF At, Seqs
  <2> QED BY <1>1, <2>1
<1>3. call.tag \in Int /\ 0 <= call.tag /\ call.tag < SeqCount
  <2>1. \A n \in Seqs : n \in Int /\ 0 <= n /\ n < SeqCount
    BY Sizes DEF Seqs
  <2> QED BY <2>1
<1>4. SeqCount \in Int /\ i \in Int /\ j \in Int /\ i - j < SeqCount /\ j - i < SeqCount
  BY Sizes
<1>5. ASSUME NEW n \in Int, NEW t \in Int, NEW a \in Int, NEW b \in Int, a - b < n, b - a < n,
             (IF t + a - 1 < n THEN t + a - 1 ELSE t + a - 1 - n)
               = (IF t + b - 1 < n THEN t + b - 1 ELSE t + b - 1 - n)
      PROVE  a = b
  BY <1>5
<1> QED BY <1>2, <1>3, <1>4, <1>5

------------------------------------------------------------------------------
(* The types. *)
LEMMA InitInv == Init => IInv
<1> SUFFICES ASSUME Init PROVE IInv
  OBVIOUS
<1>1. 0 \in Seqs
  BY Sizes DEF Seqs
<1>2. TypeOK
  <2>1. McuTypeOK /\ QueueTypeOK
    BY <1>1 DEF Init, McuTypeOK, QueueTypeOK, NoBlock, Blocks
  <2>2. WireTypeOK
    BY DEF Init, WireTypeOK
  <2>3. NoBlock \in Blocks /\ Empty \in Places
    BY <1>1 DEF NoBlock, Blocks, Places, Empty
  <2>4. EngineTypeOK
    BY <1>1, <2>3 DEF Init, EngineTypeOK
  <2> QED BY <2>1, <2>2, <2>4 DEF TypeOK
<1>3. CallInv
  BY DEF Init, CallInv, NoCall
<1>4. UpInv /\ WireInv
  BY DEF Init, UpInv, WireInv, NoCall
<1>5. OwnInv /\ StreamInv
  BY DEF Init, OwnInv, StreamInv, NoCall, NoReply, NoBlock
<1>6. ReadInv
  BY DEF Init, ReadInv, InRange
<1> QED BY <1>2, <1>3, <1>4, <1>5, <1>6 DEF IInv

LEMMA CallSends ==
  ASSUME TypeOK, NEW op \in Operations, NEW n \in Nat, Call(op, n)
  PROVE  /\ ops' = ops + 1 /\ pc' = "wait" /\ left' \in Nat
         /\ call' = [op |-> op, tag |-> ops % SeqCount, count |-> n, id |-> ops + 1]
         /\ call' \in Requests /\ up' = Append(up, call')
         /\ up' \in Seq(Requests \cup Acks)
         /\ NothingAncient /\ UNCHANGED <<registers, engine, history>>
<1>1. ops % SeqCount \in Seqs /\ ops + 1 \in Nat \ {0}
  BY TagIsSeq DEF TypeOK, McuTypeOK
<1>2. /\ call' = [op |-> op, tag |-> ops % SeqCount, count |-> n, id |-> ops + 1]
      /\ up' = Append(up, call')
  BY DEF Call, Transmit
<1>3. call' \in Requests
  BY <1>1, <1>2 DEF Requests
<1>4. up' \in Seq(Requests \cup Acks)
  BY <1>2, <1>3 DEF TypeOK, WireTypeOK
<1> QED BY <1>2, <1>3, <1>4, Sizes DEF Call

LEMMA InCounts == \A n \in Counts : n \in Nat /\ n > 0 /\ n < SeqCount
<1> SUFFICES ASSUME NEW n \in Counts PROVE n \in Nat /\ n > 0 /\ n < SeqCount
  OBVIOUS
<1>1. n \in 1 .. SeqCount - 1 /\ SeqCount \in Nat
  BY Sizes
<1> QED BY <1>1

LEMMA Empties == /\ <<>> \in Seq(Blocks) /\ <<>> \in Seq(Seqs)
                 /\ NoBlock \in Blocks /\ 0 \in Seqs /\ 1 \in Seqs /\ None \notin Seqs
  BY Sizes DEF NoBlock, Blocks, Seqs, None

LEMMA CallerCalls ==
  ASSUME Caller \/ ReadRangeAbort \/ Leave
  PROVE  /\ pc \in {"idle", "failed"}
         /\ \E op \in Operations, n \in Nat :
              /\ Call(op, n) /\ UNCHANGED bulk /\ (queue' = <<>> \/ queue' = queue)
              /\ op \in Ranges => n \in Counts
<1>1. CASE BeginRange
  <2>1. PICK op \in Ranges, n \in Counts : Call(op, n)
    BY <1>1 DEF BeginRange
  <2> QED BY <1>1, <2>1, Sizes DEF BeginRange, Operations
<1>2. CASE MapperWrite \/ ReadRangeAbort \/ Leave
  BY <1>2 DEF MapperWrite, ReadRangeAbort, Leave, Operations, Ranges
<1> QED BY <1>1, <1>2 DEF Caller

LEMMA SecondOfTwo == \A b \in Seq(Blocks) : Len(b) = 2 => b[2] \in Blocks
<1> SUFFICES ASSUME NEW b \in Seq(Blocks), Len(b) = 2 PROVE b[2] \in Blocks
  OBVIOUS
<1>1. 2 \in 1 .. Len(b)
  OBVIOUS
<1> QED BY <1>1

LEMMA McuTypes ==
  ASSUME TypeOK, CallInv, ReadInv, [Next]_vars
  PROVE  McuTypeOK'
<1> USE Empties, Sizes DEF TypeOK, McuTypeOK, bulk
<1>1. CASE Caller \/ ReadRangeAbort \/ Leave
  <2>1. PICK op \in Operations, n \in Nat : Call(op, n) /\ UNCHANGED bulk
    BY <1>1, CallerCalls
  <2> QED BY <2>1, CallSends
<1>2. CASE Answered
  <2>1. Matches(reply) => call # NoCall
    BY DEF Matches, NoCall, NoReply, CallInv, Requests, WireTypeOK, Operations, Replies, Ranges
  <2>2. call \in Requests => call.tag \in Seqs /\ call.count \in Nat
    BY DEF Requests
  <2> QED BY <1>2, <2>1, <2>2 DEF Answered, StreamStarts, Forget, Failed
<1>3. CASE Unasked \/ Reopen
  BY <1>3 DEF Unasked, Reopen
<1>4. CASE ReadRangeEnd
  BY <1>4 DEF ReadRangeEnd
<1>5. CASE TimeOut
  BY <1>5 DEF TimeOut, Forget
<1>6. CASE TakePending
  <2>1. remaining > 0
    BY <1>6 DEF TakePending, ReadInv, InRange
  <2>2. Plus(expected, 1) \in Seqs
    BY PlusIsSeq DEF Seqs
  <2> QED BY <1>6, <2>1, <2>2 DEF TakePending, Give
<1>7. CASE ReceiveEvent
  BY <1>7 DEF ReceiveEvent, Failed
<1>8. CASE EventTimeout
  BY <1>8 DEF EventTimeout, Waiting
<1>9. CASE CopyBlock
  BY <1>9 DEF CopyBlock
<1>10. CASE CopyInvalid \/ Glitch
  BY <1>10 DEF CopyInvalid, Glitch, ReadSpoilt
<1>11. CASE SendAck
  <2>1. remaining > 0 /\ Len(batch) = BatchCount
    BY <1>11 DEF SendAck, ReadInv, InRange
  <2>2. Plus(expected, 1) \in Seqs /\ Completion \in Seqs
    <3>1. expected \in Int /\ BatchCount - 1 \in Int
      BY DEF Seqs, BatchCount
    <3> QED BY <3>1, PlusIsSeq DEF Completion
  <2>3. Len(batch) = 2 => batch[2] \in Blocks
    BY SecondOfTwo DEF QueueTypeOK
  <2> QED BY <1>11, <2>1, <2>2, <2>3 DEF SendAck, Give
<1>12. CASE Arrive \/ DeliverEvent \/ Watchdog \/ LoseFrame \/ LoseAnswer
  BY <1>12 DEF Arrive, DeliverEvent, Watchdog, LoseFrame, LoseAnswer
<1>13. CASE Engine
  BY <1>13 DEF Engine, Take, Refuse, StartRange, StartWrite, Abort, Exit, WriteDone, ReadBlock,
     Publish
<1>14. CASE UNCHANGED vars
  BY <1>14 DEF vars
<1> QED BY <1>1, <1>2, <1>3, <1>4, <1>5, <1>6, <1>7, <1>8, <1>9, <1>10, <1>11, <1>12, <1>13,
           <1>14 DEF Next, Mcu, Reading, Fault

LEMMA QueueTypes ==
  ASSUME TypeOK, ReadInv, [Next]_vars
  PROVE  QueueTypeOK'
<1> USE Empties DEF QueueTypeOK, bulk
<1>0. QueueTypeOK /\ pending \in Blocks /\ event \in Seqs \cup {None}
  BY DEF TypeOK, McuTypeOK, WireTypeOK
<1>1. CASE Caller \/ ReadRangeAbort \/ Leave
  BY <1>0, <1>1, CallerCalls
<1>2. CASE Answered
  BY <1>0, <1>2 DEF Answered, StreamStarts, Forget
<1>3. CASE Unasked \/ Reopen \/ EventTimeout \/ ReadRangeEnd
  BY <1>0, <1>3 DEF Unasked, Reopen, EventTimeout, ReadRangeEnd
<1>4. CASE TimeOut
  BY <1>0, <1>4 DEF TimeOut, Forget
<1>5. CASE TakePending
  BY <1>0, <1>5 DEF TakePending, Give
<1>6. CASE ReceiveEvent
  BY <1>0, <1>6 DEF ReceiveEvent
<1>7. CASE CopyBlock
  <2>1. expected \in Seqs /\ slot \in [0 .. 1 -> Places]
    BY DEF TypeOK, McuTypeOK, EngineTypeOK
  <2>2. Plus(expected, Len(batch)) \in Seqs
    <3>1. expected \in Int /\ Len(batch) \in Int
      BY <1>0, <2>1, Sizes DEF Seqs
    <3> QED BY <3>1, PlusIsSeq
  <2>3. slot[Plus(expected, Len(batch)) % 2].block \in Blocks
    BY <2>1, <2>2, Sizes DEF Seqs, Places
  <2> QED BY <1>0, <1>7, <2>3 DEF CopyBlock
<1>8. CASE CopyInvalid \/ Glitch
  BY <1>0, <1>8 DEF CopyInvalid, Glitch, ReadSpoilt
<1>9. CASE SendAck
  <2>1. Len(batch) >= 1
    BY <1>9 DEF SendAck, ReadInv, InRange, BatchCount
  <2>2. batch[1] \in Blocks
    BY <1>0, <2>1
  <2> QED BY <1>0, <1>9, <2>2 DEF SendAck, Give
<1>10. CASE DeliverEvent
  BY <1>0, <1>10 DEF DeliverEvent
<1>11. CASE Arrive \/ Watchdog \/ LoseFrame \/ LoseAnswer
  BY <1>0, <1>11 DEF Arrive, Watchdog, LoseFrame, LoseAnswer
<1>12. CASE Engine
  BY <1>0, <1>12 DEF Engine, Take, Refuse, StartRange, StartWrite, Abort, Exit, WriteDone,
     ReadBlock, Publish
<1>13. CASE UNCHANGED vars
  BY <1>0, <1>13 DEF vars
<1> QED BY <1>1, <1>2, <1>3, <1>4, <1>5, <1>6, <1>7, <1>8, <1>9, <1>10, <1>11, <1>12, <1>13
        DEF Next, Mcu, Reading, Fault

LEMMA WireTypes ==
  ASSUME TypeOK, CallInv, WireInv, [Next]_vars
  PROVE  WireTypeOK'
<1> USE DEF TypeOK, WireTypeOK
<1>1. CASE Caller \/ ReadRangeAbort \/ Leave
  <2>1. PICK op \in Operations, n \in Nat : Call(op, n)
    BY <1>1, CallerCalls
  <2> QED BY <2>1, CallSends DEF registers, history
<1>2. CASE Answered \/ Unasked
  BY <1>2 DEF Answered, Unasked, history
<1>3. CASE TimeOut
  <2>1. call \in Requests
    BY <1>3 DEF TimeOut, McuTypeOK, CallInv, NoCall
  <2> QED BY <1>3, <2>1 DEF TimeOut, Transmit, registers
<1>4. CASE EventTimeout
  BY <1>4 DEF EventTimeout, Transmit, registers, McuTypeOK, Acks
<1>5. CASE SendAck
  <2>1. Completion \in Seqs
    BY PlusIsSeq, Sizes DEF Completion, BatchCount, McuTypeOK, Seqs
  <2> QED BY <1>5, <2>1 DEF SendAck, Transmit, registers, history, Acks
<1>6. CASE Reopen \/ TakePending \/ ReceiveEvent \/ CopyBlock \/ CopyInvalid \/ ReadRangeEnd
  <2>1. UNCHANGED <<up, request, reply, event, losses, mishap>>
    <3>1. CASE Reopen \/ TakePending \/ ReceiveEvent
      BY <3>1 DEF Reopen, TakePending, ReceiveEvent, registers, history
    <3>2. CASE CopyBlock \/ CopyInvalid \/ ReadRangeEnd
      BY <3>2 DEF CopyBlock, CopyInvalid, ReadSpoilt, ReadRangeEnd, registers, history
    <3> QED BY <1>6, <3>1, <3>2
  <2> QED BY <2>1
<1>7. CASE Arrive
  <2>1. Head(up) \in Requests \cup Acks /\ Tail(up) \in Seq(Requests \cup Acks)
    BY <1>7 DEF Arrive
  <2>2. Head(up).op # "ack" => Head(up) \in Requests
    BY <2>1 DEF Acks
  <2> QED BY <1>7, <2>1, <2>2 DEF Arrive, history
<1>8. CASE DeliverEvent \/ Watchdog
  BY <1>8 DEF DeliverEvent, Watchdog, history
<1>8a. CASE Fault
  <2>1. losses + 1 \in Nat /\ TRUE \in BOOLEAN
    OBVIOUS
  <2>2. CASE LoseFrame
    BY <2>1, <2>2 DEF LoseFrame, Lose, registers
  <2>3. CASE LoseAnswer
    BY <2>1, <2>3 DEF LoseAnswer, Lose
  <2>4. CASE Glitch
    BY <2>1, <2>4 DEF Glitch, ReadSpoilt, Lose, registers
  <2> QED BY <1>8a, <2>2, <2>3, <2>4 DEF Fault
<1>9. ASSUME NEW c \in Requests, NEW ok \in BOOLEAN PROVE Result(c, ok) \in Replies
  BY DEF Result, Requests, Replies
<1>10. CASE Refuse \/ StartRange \/ StartWrite \/ Abort \/ Exit
  <2>1. request \in Requests
    BY <1>10 DEF Refuse, StartRange, StartWrite, Abort, Exit, Take, Accepts
  <2> QED BY <1>9, <1>10, <2>1 DEF Refuse, StartRange, StartWrite, Abort, Exit, Take, history
<1>11. CASE WriteDone
  <2>1. current \in Requests
    BY <1>11 DEF WriteDone, EngineTypeOK, WireInv
  <2> QED BY <1>9, <1>11, <2>1 DEF WriteDone, history
<1>12. CASE ReadBlock
  BY <1>12 DEF ReadBlock, registers, history
<1>13. CASE Publish
  <2>1. nextSeq \in Int /\ SeqCount - 1 \in Int
    BY Sizes DEF EngineTypeOK, Seqs
  <2>2. Plus(nextSeq, SeqCount - 1) \in Seqs
    BY <2>1, PlusIsSeq
  <2>3. UNCHANGED <<up, request, reply, losses, mishap>>
    BY <1>13 DEF Publish, history
  <2> QED BY <1>13, <2>2, <2>3 DEF Publish
<1>14. CASE UNCHANGED vars
  BY <1>14 DEF vars, registers, history
<1> QED BY <1>1, <1>2, <1>3, <1>4, <1>5, <1>6, <1>7, <1>8, <1>8a, <1>10, <1>11, <1>12,
           <1>13, <1>14 DEF Next, Caller, Mcu, Reading, Engine

LEMMA EngineTypes ==
  ASSUME TypeOK, [Next]_vars
  PROVE  EngineTypeOK'
<1> USE DEF EngineTypeOK
<1>0. EngineTypeOK /\ QueueTypeOK /\ WireTypeOK
  BY DEF TypeOK
<1>1. CASE Caller \/ ReadRangeAbort \/ Leave
  <2>1. PICK op \in Operations, n \in Nat : Call(op, n)
    BY <1>0, <1>1, CallerCalls
  <2> QED BY <1>0, <2>1 DEF Call, engine, cursor
<1>2. CASE Answered \/ Unasked \/ TimeOut \/ Reading \/ EventTimeout \/ DeliverEvent \/ Fault
  BY <1>0, <1>2 DEF Answered, Unasked, TimeOut, Reading, TakePending, ReceiveEvent, CopyBlock,
     CopyInvalid, SendAck, ReadRangeEnd, EventTimeout, DeliverEvent, Fault, LoseFrame, LoseAnswer, Glitch,
     ReadSpoilt, engine, cursor
<1>3. CASE Reopen
  BY <1>0, <1>3 DEF Reopen, cursor
<1>4. \A k \in 0 .. 1 : [slot[k] EXCEPT !.ready = FALSE] \in Places
  BY <1>0 DEF Places
<1>5. Cleared \in [0 .. 1 -> Places] /\ \A t : AckSlots(t) \in [0 .. 1 -> Places]
  BY <1>0, <1>4 DEF Cleared, AckSlots
<1>6. CASE Arrive
  BY <1>0, <1>5, <1>6 DEF Arrive
<1>7. CASE Refuse \/ StartWrite \/ Abort \/ Exit
  <2>1. current' \in Requests
    BY <1>0, <1>7 DEF Refuse, StartWrite, Abort, Exit, Take, Accepts, WireTypeOK
  <2>2. UNCHANGED slot \/ slot' = Cleared
    BY <1>7 DEF Refuse, StartWrite, Abort, Exit, StopStream, cursor
  <2>3. /\ active' = active \/ active' = FALSE
        /\ state' = state \/ state' = "writing"
        /\ stream' = stream \/ stream' = FALSE
        /\ pair' = pair \/ pair' = FALSE
        /\ toRead' = toRead \/ toRead' = 0
        /\ nextSeq' = nextSeq /\ nextBlock' = nextBlock
    <3>1. CASE Refuse
      BY <3>1 DEF Refuse, cursor
    <3>2. CASE StartWrite
      BY <3>2 DEF StartWrite, StopStream
    <3>3. CASE Abort
      BY <3>3 DEF Abort, StopStream
    <3>4. CASE Exit
      BY <3>4 DEF Exit, StopStream, cursor
    <3> QED BY <1>7, <3>1, <3>2, <3>3, <3>4
  <2>4. slot' \in [0 .. 1 -> Places]
    BY <1>0, <1>5, <2>2
  <2>5. active' \in BOOLEAN /\ stream' \in BOOLEAN /\ pair' \in BOOLEAN
    BY <1>0, <2>3, Zenon
  <2>6. /\ state' \in {"idle", "writing", "publish"} /\ toRead' \in Nat
        /\ nextSeq' \in Seqs /\ nextBlock' \in Blocks
    BY <1>0, <2>3
  <2> QED BY <2>1, <2>4, <2>5, <2>6
<1>8. CASE StartRange
  <2>1. request \in Requests
    BY <1>0, <1>8 DEF StartRange, Take, Accepts, WireTypeOK
  <2> QED BY <1>0, <1>5, <1>8, <2>1 DEF StartRange, Take, Requests, Blocks
<1>9. CASE WriteDone \/ Publish
  BY <1>0, <1>9 DEF WriteDone, Publish, cursor
<1>10. CASE ReadBlock
  <2>1. Plus(nextSeq, 1) \in Seqs /\ nextSeq % 2 \in 0 .. 1
    <3>1. nextSeq \in Nat /\ 1 \in Int
      BY <1>0, Sizes DEF Seqs
    <3> QED BY <3>1, PlusIsSeq
  <2>2. [ready |-> TRUE, seq |-> nextSeq, block |-> nextBlock] \in Places
    BY <1>0 DEF Places
  <2>3. slot' \in [0 .. 1 -> Places]
    BY <1>0, <1>10, <2>1, <2>2 DEF ReadBlock
  <2>4. nextBlock' \in Blocks /\ toRead' \in Nat
    BY <1>0, <1>10 DEF ReadBlock, CanRead, Blocks
  <2> QED BY <1>0, <1>10, <2>1, <2>3, <2>4 DEF ReadBlock, CanRead
<1>11. CASE Watchdog
  BY <1>0, <1>5, <1>11 DEF Watchdog, StopStream
<1>12. CASE UNCHANGED vars
  BY <1>0, <1>12 DEF vars, engine, cursor
<1> QED BY <1>1, <1>2, <1>3, <1>6, <1>7, <1>8, <1>9, <1>10, <1>11, <1>12
        DEF Next, Caller, Mcu, Engine, Fault

------------------------------------------------------------------------------
(* The numbers of the calls.                                               *)
LEMMA NoCaller ==
  ASSUME [Next]_vars, ~(Caller \/ ReadRangeAbort \/ Leave)
  PROVE  /\ UNCHANGED <<ops, call>>
         /\ pc' \notin {"idle", "closed"} => pc \notin {"idle", "closed"}
<1>1. CASE Answered \/ Unasked \/ TimeOut \/ Reopen \/ EventTimeout
  BY <1>1 DEF Answered, Unasked, TimeOut, Reopen, EventTimeout, Matches, Waiting
<1>2. CASE Reading
  BY <1>2 DEF Reading, TakePending, ReceiveEvent, CopyBlock, CopyInvalid, ReadSpoilt, SendAck,
     ReadRangeEnd, Waiting
<1>3. CASE Arrive \/ DeliverEvent \/ Watchdog \/ Fault
  BY <1>3 DEF Arrive, DeliverEvent, Watchdog, Fault, LoseFrame, LoseAnswer, Glitch, ReadSpoilt
<1>4. CASE Engine
  BY <1>4 DEF Engine, Take, Refuse, StartRange, StartWrite, Abort, Exit, WriteDone, ReadBlock,
     Publish
<1>5. CASE UNCHANGED vars
  BY <1>5 DEF vars
<1> QED BY <1>1, <1>2, <1>3, <1>4, <1>5 DEF Next, Mcu

LEMMA CallStep ==
  ASSUME TypeOK, CallInv, [Next]_vars
  PROVE  CallInv'
<1> USE DEF CallInv
<1>1. CASE Caller \/ ReadRangeAbort \/ Leave
  <2>1. PICK op \in Operations, n \in Nat : Call(op, n) /\ (op \in Ranges => n \in Counts)
    BY <1>1, CallerCalls
  <2>2. /\ call' = [op |-> op, tag |-> ops % SeqCount, count |-> n, id |-> ops + 1]
        /\ ops' = ops + 1
    BY <2>1, CallSends
  <2>3. Numbered(call)'
    BY <2>1, <2>2 DEF Numbered, TypeOK, McuTypeOK
  <2> QED BY <2>2, <2>3 DEF TypeOK, McuTypeOK
<1>2. CASE ~(Caller \/ ReadRangeAbort \/ Leave)
  BY <1>2, NoCaller DEF Numbered
<1> QED BY <1>1, <1>2

(* What a step may do to the frames on their way.                          *)
LEMMA UpSame ==
  ASSUME UpInv, UNCHANGED <<ops, call, up, current, request>>
  PROVE  UpInv'
  BY DEF UpInv, Recent, Numbered, Ours

LEMMA UpAppend ==
  ASSUME UpInv, TypeOK, NEW m \in Requests \cup Acks, up' = Append(up, m),
         UNCHANGED <<ops, call, current, request>>,
         m.op # "ack" => m = call /\ Numbered(call) /\ call.id = ops /\ ops > 0,
         current.id <= ops, request.id <= ops
  PROVE  UpInv'
<1>1. up \in Seq(Requests \cup Acks) /\ ops \in Nat /\ Recent(ops)
  BY Sizes DEF TypeOK, McuTypeOK, WireTypeOK, Recent
<1>2. SUFFICES ASSUME NEW i \in 1 .. Len(up'), up'[i].op # "ack"
               PROVE  /\ Recent(up'[i].id) /\ Numbered(up'[i]) /\ Ours(up'[i])
                      /\ current.id <= up'[i].id /\ request.id <= up'[i].id
                      /\ \A j \in 1 .. i : up'[j].op # "ack" => up'[j].id <= up'[i].id
  BY DEF UpInv, Recent, Numbered, Ours
<1>3. CASE i <= Len(up)
  <2>1. i \in 1 .. Len(up) /\ \A j \in 1 .. i : up'[j] = up[j]
    BY <1>1, <1>3
  <2> QED BY <2>1, <1>2 DEF UpInv
<1>4. CASE i = Len(up) + 1
  <2>1. up'[i] = m /\ m = call /\ Numbered(m) /\ m.id = ops
    BY <1>1, <1>2, <1>4
  <2>2. ASSUME NEW j \in 1 .. i, up'[j].op # "ack" PROVE up'[j].id <= ops
    <3>1. CASE j = i
      BY <3>1, <2>1, <1>1
    <3>2. CASE j \in 1 .. Len(up)
      BY <1>1, <2>2, <3>2 DEF UpInv, Recent
    <3> QED BY <1>1, <1>4, <3>1, <3>2
  <2> QED BY <1>1, <2>1, <2>2 DEF Ours
<1> QED BY <1>1, <1>3, <1>4

LEMMA UpTail ==
  ASSUME UpInv, TypeOK, up # <<>>, up' = Tail(up), UNCHANGED <<ops, call, current>>,
         request' = request \/ (Head(up).op # "ack" /\ request' = Head(up))
  PROVE  UpInv'
<1>1. up \in Seq(Requests \cup Acks) /\ Len(up') = Len(up) - 1 /\ Head(up) = up[1]
  BY DEF TypeOK, WireTypeOK
<1>2. SUFFICES ASSUME NEW i \in 1 .. Len(up'), up'[i].op # "ack"
               PROVE  /\ Recent(up'[i].id) /\ Numbered(up'[i]) /\ Ours(up'[i])
                      /\ current.id <= up'[i].id /\ request'.id <= up'[i].id
                      /\ \A j \in 1 .. i : up'[j].op # "ack" => up'[j].id <= up'[i].id
  BY DEF UpInv, Recent, Numbered, Ours
<1>3. i + 1 \in 1 .. Len(up) /\ 1 \in 1 .. i + 1
  BY <1>1
<1>4. \A j \in 1 .. i : up'[j] = up[j + 1] /\ j + 1 \in 1 .. i + 1
  BY <1>1, <1>3
<1>5. up'[i] = up[i + 1] /\ up[i + 1].op # "ack"
  BY <1>2, <1>4
<1> QED BY <1>1, <1>3, <1>4, <1>5 DEF UpInv

LEMMA NumbersAreNats ==
  ASSUME TypeOK
  PROVE  /\ ops \in Nat /\ call.id \in Nat /\ current.id \in Nat /\ request.id \in Nat
         /\ reply.id \in Nat
         /\ request # NoCall => request \in Requests /\ request.op # "ack"
         /\ current # NoCall => current \in Requests
         /\ reply # NoReply => reply \in Replies
         /\ \A m \in Requests : m.op # "ack" /\ m.op # "none" /\ m.tag \in Seqs
<1>1. /\ ops \in Nat /\ call \in Requests \cup {NoCall}
      /\ current \in Requests \cup {NoCall} /\ request \in Requests \cup {NoCall}
      /\ reply \in Replies \cup {NoReply}
  BY DEF TypeOK, McuTypeOK, WireTypeOK, EngineTypeOK
<1>2. \A m \in Requests : m.id \in Nat /\ m.op \in Operations /\ m.tag \in Seqs
  BY DEF Requests
<1>3. \A m \in Replies : m.id \in Nat
  BY DEF Replies
<1>4. NoCall.id \in Nat /\ NoReply.id \in Nat
  BY DEF NoCall, NoReply
<1>5. \A op \in Operations : op # "ack" /\ op # "none"
  BY DEF Operations, Ranges
<1> QED BY <1>1, <1>2, <1>3, <1>4, <1>5

LEMMA UpStep ==
  ASSUME TypeOK, CallInv, UpInv, WireInv, [Next]_vars
  PROVE  UpInv'
<1>0. /\ ops \in Nat /\ current.id <= ops /\ request.id <= ops
      /\ up \in Seq(Requests \cup Acks)
  BY NumbersAreNats DEF WireInv, Recent, NoCall, TypeOK, WireTypeOK
<1>1. CASE Caller \/ ReadRangeAbort \/ Leave
  <2>1. PICK op \in Operations, n \in Nat : Call(op, n) /\ (op \in Ranges => n \in Counts)
    BY <1>1, CallerCalls
  <2>2. /\ ops' = ops + 1 /\ UNCHANGED <<current, request>>
        /\ call' = [op |-> op, tag |-> ops % SeqCount, count |-> n, id |-> ops + 1]
        /\ up' = Append(up, call') /\ call' \in Requests
    BY <2>1, CallSends DEF registers, engine
  <2>3. SUFFICES ASSUME NEW i \in (1 .. Len(up))', (up[i].op # "ack")'
                 PROVE  (/\ Recent(up[i].id) /\ Numbered(up[i]) /\ Ours(up[i])
                         /\ current.id <= up[i].id /\ request.id <= up[i].id
                         /\ \A j \in 1 .. i : up[j].op # "ack" => up[j].id <= up[i].id)'
    BY DEF UpInv
  <2>3a. /\ ops' = ops + 1 /\ current' = current /\ request' = request
         /\ call'.id = ops + 1
    BY <2>2
  <2>4. ASSUME NEW j \in 1 .. Len(up), up[j].op # "ack"
        PROVE  up[j].id \in Int /\ up[j].id <= ops /\ up[j].id > ops + 1 - SeqCount
    <3>1. up[j].id > ops + 1 - SeqCount
      BY <2>1, <2>4, CallSends DEF NothingAncient
    <3>2. up[j] \in Requests
      BY <1>0, <2>4 DEF Acks
    <3> QED BY <2>4, <3>1, <3>2 DEF UpInv, Recent, Requests
  <2>5. CASE i <= Len(up)
    <3>1. i \in 1 .. Len(up) /\ \A j \in 1 .. i : up'[j] = up[j]
      BY <1>0, <2>2, <2>5
    <3>2. up[i].id \in Int /\ up[i].id <= ops /\ up[i].id > ops + 1 - SeqCount
      BY <2>3, <2>4, <3>1
    <3>3. /\ Numbered(up[i]) /\ current.id <= up[i].id /\ request.id <= up[i].id
          /\ \A j \in 1 .. i : up[j].op # "ack" => up[j].id <= up[i].id
      BY <2>3, <3>1 DEF UpInv
    <3>4. Recent(up[i].id)' /\ Ours(up[i])'
      <4>1. up'[i].id = up[i].id /\ up'[i].id < ops' /\ up'[i].id > ops' - SeqCount
        BY <1>0, <2>3a, <3>1, <3>2, Sizes
      <4>2. up'[i].id <= ops' /\ up'[i].id # ops'
        BY <1>0, <2>3a, <3>1, <3>2, <4>1
      <4> QED BY <4>1, <4>2 DEF Recent, Ours
    <3>5. Numbered(up[i])'
      BY <3>1, <3>3 DEF Numbered
    <3>6. (current.id <= up[i].id /\ request.id <= up[i].id)'
      BY <2>3a, <3>1, <3>3
    <3>7. (\A j \in 1 .. i : up[j].op # "ack" => up[j].id <= up[i].id)'
      <4>1. i \in 1 .. i
        BY <3>1
      <4> QED BY <3>1, <3>3, <4>1
    <3> QED BY <3>4, <3>5, <3>6, <3>7
  <2>6. CASE i = Len(up) + 1
    <3>1. up'[i] = call' /\ up'[i].id = ops + 1
      BY <1>0, <2>2, <2>6
    <3>2. ASSUME NEW j \in 1 .. i, up'[j].op # "ack" PROVE up'[j].id <= ops + 1
      <4>1. CASE j = i
        BY <1>0, <3>1, <4>1
      <4>2. CASE j \in 1 .. Len(up)
        BY <1>0, <2>2, <2>4, <3>2, <4>2
      <4> QED BY <1>0, <2>6, <4>1, <4>2
    <3>3. Numbered(up'[i])
      BY <1>0, <2>1, <2>2, <3>1 DEF Numbered
    <3>4. Recent(up[i].id)' /\ Ours(up[i])'
      BY <1>0, <2>3a, <3>1, Sizes DEF Recent, Ours
    <3>5. Numbered(up[i])'
      BY <3>3 DEF Numbered
    <3>6. (current.id <= up[i].id /\ request.id <= up[i].id)'
      BY <1>0, <2>3a, <3>1, NumbersAreNats
    <3>7. (\A j \in 1 .. i : up[j].op # "ack" => up[j].id <= up[i].id)'
      BY <3>1, <3>2
    <3> QED BY <3>4, <3>5, <3>6, <3>7
  <2> QED BY <1>0, <2>2, <2>5, <2>6
<1>2. CASE TimeOut
  <2>1. call # NoCall /\ ops > 0 /\ UNCHANGED <<ops, call, current, request>>
    BY <1>2 DEF TimeOut, CallInv, NoCall, registers, engine
  <2>2. call \in Requests
    BY <2>1 DEF TypeOK, McuTypeOK
  <2>3. UNCHANGED up \/ up' = Append(up, call)
    BY <1>2 DEF TimeOut, Transmit
  <2> QED BY <1>0, <2>1, <2>2, <2>3, UpSame, UpAppend DEF CallInv
<1>3. CASE EventTimeout \/ SendAck
  <2>1. UNCHANGED <<ops, call, current, request>>
    BY <1>3 DEF EventTimeout, SendAck, registers, engine
  <2>2. Completion \in Seqs
    <3>1. expected \in Int /\ BatchCount - 1 \in Int
      BY Sizes DEF Seqs, BatchCount, TypeOK, McuTypeOK
    <3> QED BY <3>1, PlusIsSeq DEF Completion
  <2>3. UNCHANGED up \/ \E t \in Seqs : up' = Append(up, [op |-> "ack", tag |-> t])
    BY <1>3, <2>2 DEF EventTimeout, SendAck, Transmit, TypeOK, McuTypeOK
  <2>4. ASSUME NEW t \in Seqs, up' = Append(up, [op |-> "ack", tag |-> t])
        PROVE  UpInv'
    <3>1. [op |-> "ack", tag |-> t] \in Requests \cup Acks
      BY DEF Acks
    <3> QED BY <1>0, <2>1, <2>4, <3>1, UpAppend
  <2> QED BY <2>1, <2>3, <2>4, UpSame
<1>4. CASE Arrive
  <2>1. request' = request \/ (Head(up).op # "ack" /\ request' = Head(up))
    BY <1>4 DEF Arrive
  <2> QED BY <1>4, <2>1, UpTail DEF Arrive
<1>5. CASE LoseFrame
  BY <1>5, UpTail DEF LoseFrame, registers, engine
<1>6. CASE Refuse \/ StartRange \/ StartWrite \/ Abort \/ Exit
  <2>1. Take
    BY <1>6 DEF Refuse, StartRange, StartWrite, Abort, Exit
  <2>2. \A i \in 1 .. Len(up) : up[i].op # "ack" => up[i].id \in Nat
    BY <1>0 DEF Requests, Acks
  <2> QED BY <2>1, <2>2 DEF Take, UpInv, NoCall, Recent, Numbered, Ours
<1>7. CASE Answered \/ Unasked \/ Reopen
  <2>1. UNCHANGED <<ops, call, up, current, request>>
    BY <1>7 DEF Answered, Unasked, Reopen, registers, engine
  <2> QED BY <2>1, UpSame
<1>8. CASE TakePending \/ ReceiveEvent \/ CopyBlock \/ CopyInvalid \/ ReadRangeEnd \/ Glitch
  <2>1. UNCHANGED <<ops, call, up, current, request>>
    <3>1. CASE TakePending \/ ReceiveEvent \/ CopyBlock
      BY <3>1 DEF TakePending, ReceiveEvent, CopyBlock, registers, engine
    <3>2. CASE CopyInvalid \/ ReadRangeEnd \/ Glitch
      BY <3>2 DEF CopyInvalid, ReadRangeEnd, Glitch, ReadSpoilt, registers, engine
    <3> QED BY <1>8, <3>1, <3>2
  <2> QED BY <2>1, UpSame
<1>9. CASE DeliverEvent \/ Watchdog \/ LoseAnswer \/ WriteDone \/ ReadBlock \/ Publish
  <2>1. UNCHANGED <<ops, call, up, current, request>>
    <3>1. CASE DeliverEvent \/ Watchdog \/ LoseAnswer
      BY <3>1 DEF DeliverEvent, Watchdog, LoseAnswer, registers, engine
    <3>2. CASE WriteDone \/ ReadBlock \/ Publish
      BY <3>2 DEF WriteDone, ReadBlock, Publish, registers
    <3> QED BY <1>9, <3>1, <3>2
  <2> QED BY <2>1, UpSame
<1>10. CASE UNCHANGED vars
  BY <1>10, UpSame DEF vars, registers, engine
<1> QED BY <1>1, <1>2, <1>3, <1>4, <1>5, <1>6, <1>7, <1>8, <1>9, <1>10
        DEF Next, Mcu, Reading, Engine, Fault

LEMMA WireStep ==
  ASSUME TypeOK, CallInv, UpInv, WireInv, [Next]_vars
  PROVE  WireInv'
<1> USE NumbersAreNats
<1>1. CASE Caller \/ ReadRangeAbort \/ Leave
  <2>1. PICK op \in Operations, n \in Nat : Call(op, n)
    BY <1>1, CallerCalls
  <2>2. /\ ops' = ops + 1 /\ UNCHANGED <<current, request, reply, state>> /\ NothingAncient
    BY <2>1, CallSends DEF registers, engine
  <2>3. /\ request # NoCall => request.id <= ops /\ request.id > ops + 1 - SeqCount
        /\ state = "writing" => current.id > ops + 1 - SeqCount
        /\ reply # NoReply => reply.id <= ops /\ reply.id > ops + 1 - SeqCount
        /\ current.id <= ops
    BY <2>2 DEF WireInv, NothingAncient, Recent
  <2>4. ASSUME NEW m \in Nat, m <= ops, m > ops + 1 - SeqCount
        PROVE  m <= ops' /\ m > ops' - SeqCount /\ m # ops'
    BY <2>2, <2>4, Sizes
  <2>5. ops \in Nat /\ ops' = ops + 1 /\ current.id # ops' /\ current.id <= ops'
    BY <2>2, <2>3
  <2>6. request # NoCall => /\ request.id <= ops' /\ request.id > ops' - SeqCount
                            /\ request.id # ops'
    BY <2>3, <2>4
  <2>7. state = "writing" => current.id <= ops' /\ current.id > ops' - SeqCount
    BY <2>3, <2>4
  <2>8. reply # NoReply => /\ reply.id <= ops' /\ reply.id > ops' - SeqCount
                           /\ reply.id # ops'
    BY <2>3, <2>4
  <2> QED BY <2>2, <2>5, <2>6, <2>7, <2>8 DEF WireInv, Recent, Numbered, Ours
<1>2. CASE Arrive
  <2>1. CASE request' = request
    BY <1>2, <2>1 DEF Arrive, WireInv, Recent, Numbered, Ours
  <2>2. CASE request' # request
    <3>1. /\ request' = Head(up) /\ Head(up).op # "ack" /\ Head(up) = up[1] /\ 1 \in 1 .. Len(up)
      BY <1>2, <2>2 DEF Arrive, TypeOK, WireTypeOK
    <3> QED BY <1>2, <3>1 DEF Arrive, WireInv, UpInv, Recent, Numbered, Ours
  <2> QED BY <2>1, <2>2
<1>3. CASE Refuse \/ StartRange \/ StartWrite \/ Abort \/ Exit
  <2>1. /\ Take
        /\ reply' = reply \/ \E ok \in BOOLEAN : reply' = Result(request, ok) /\ state' = state
    BY <1>3 DEF Refuse, StartRange, StartWrite, Abort, Exit
  <2>2. /\ request # NoCall /\ request' = NoCall /\ current' = request /\ reply = NoReply
        /\ state = "idle" /\ UNCHANGED <<ops, call>>
    BY <2>1 DEF Take, Accepts
  <2>3. Recent(request.id) /\ Numbered(request) /\ Ours(request)
    BY <2>2 DEF WireInv
  <2> QED BY <2>1, <2>2, <2>3 DEF WireInv, Result, Recent, Numbered, Ours
<1>4. CASE WriteDone
  BY <1>4 DEF WriteDone, WireInv, Result, Recent, Numbered, Ours
<1>5. CASE Answered \/ Unasked \/ LoseAnswer
  <2>1. UNCHANGED <<ops, call, request, current, state>> /\ (reply' = NoReply \/ reply' = reply)
    BY <1>5 DEF Answered, Unasked, LoseAnswer, engine
  <2> QED BY <2>1 DEF WireInv, Recent, Numbered, Ours
<1>6. CASE \/ TimeOut \/ Reopen \/ Reading \/ EventTimeout \/ DeliverEvent \/ LoseFrame \/ Glitch
           \/ Watchdog \/ ReadBlock \/ Publish \/ UNCHANGED vars
  <2>1. UNCHANGED <<ops, call, request, current, reply>> /\ (state' # "writing" \/ state' = state)
    <3>1. CASE TimeOut \/ Reopen \/ EventTimeout
      BY <3>1 DEF TimeOut, Reopen, EventTimeout, registers, engine
    <3>2. CASE TakePending \/ ReceiveEvent \/ CopyBlock
      BY <3>2 DEF TakePending, ReceiveEvent, CopyBlock, registers, engine
    <3>3. CASE CopyInvalid \/ SendAck \/ ReadRangeEnd \/ Glitch
      BY <3>3 DEF CopyInvalid, SendAck, ReadRangeEnd, Glitch, ReadSpoilt, registers, engine
    <3>4. CASE DeliverEvent \/ LoseFrame \/ Watchdog
      BY <3>4 DEF DeliverEvent, LoseFrame, Watchdog, registers, engine
    <3>5. CASE ReadBlock \/ Publish \/ UNCHANGED vars
      BY <3>5 DEF ReadBlock, Publish, vars, registers, engine
    <3> QED BY <1>6, <3>1, <3>2, <3>3, <3>4, <3>5 DEF Reading
  <2> QED BY <2>1 DEF WireInv, Recent, Numbered, Ours
<1> QED BY <1>1, <1>2, <1>3, <1>4, <1>5, <1>6 DEF Next, Mcu, Engine, Fault

------------------------------------------------------------------------------
(* The range that the engine reads.                                        *)
LEMMA NoReplySaysNothing == ~NoReply.ok /\ NoReply.id = 0
  BY DEF NoReply

LEMMA OwnStep ==
  ASSUME TypeOK, CallInv, WireInv, OwnInv, [Next]_vars
  PROVE  OwnInv'
<1> USE NumbersAreNats, NoReplySaysNothing
<1>0. nextBlock.range \in Nat
  BY DEF TypeOK, EngineTypeOK, Blocks
<1>1. CASE Caller \/ ReadRangeAbort \/ Leave
  <2>1. PICK op \in Operations, n \in Nat : Call(op, n)
    BY <1>1, CallerCalls
  <2>2. ops' = ops + 1 /\ UNCHANGED <<current, reply, state, nextBlock>>
    BY <2>1, CallSends DEF registers, engine, cursor
  <2>3. reply.id <= ops
    BY DEF WireInv, Recent
  <2> QED BY <2>2, <2>3 DEF OwnInv
<1>2. CASE Refuse \/ StartWrite \/ Abort \/ Exit
  <2>1. Take /\ UNCHANGED nextBlock
    BY <1>2 DEF Refuse, StartWrite, Abort, Exit, StopStream, cursor
  <2>2. /\ current' = request /\ request # NoCall /\ state = "idle" /\ UNCHANGED ops
        /\ current.id <= request.id
    BY <2>1 DEF Take, Accepts, WireInv
  <2>3. \/ state' = state /\ (~reply'.ok \/ reply'.op \notin Ranges)
        \/ state' = "writing" /\ current'.op \notin Ranges /\ reply' = reply
    BY <1>2, <2>2 DEF Refuse, StartWrite, Abort, Exit, Result, Ranges
  <2>4. reply = NoReply
    BY <2>1 DEF Take, Accepts
  <2> QED BY <1>0, <2>1, <2>2, <2>3, <2>4 DEF OwnInv
<1>3. CASE StartRange
  <2>1. /\ current' = request /\ nextBlock'.range = request.id /\ UNCHANGED ops
        /\ reply' = NoReply \/ reply'.id = request.id
    BY <1>3 DEF StartRange, Take, Accepts, Result
  <2>2. reply' = NoReply => reply'.id = 0 /\ ~reply'.ok
    OBVIOUS
  <2> QED BY <2>1, <2>2 DEF OwnInv
<1>4. CASE WriteDone
  <2>1. reply' = Result(current, TRUE) /\ state = "writing" /\ state' = "idle"
        /\ UNCHANGED <<ops, current, nextBlock>>
    BY <1>4 DEF WriteDone, cursor
  <2> QED BY <2>1 DEF OwnInv, Result
<1>5. CASE ReadBlock
  <2>1. /\ nextBlock'.range = nextBlock.range /\ UNCHANGED <<ops, current, reply>>
        /\ state' # "writing"
    <3>1. nextBlock' = [nextBlock EXCEPT !.index = @ + 1] /\ nextBlock \in Blocks
      BY <1>5 DEF ReadBlock, TypeOK, EngineTypeOK
    <3> QED BY <1>5, <3>1 DEF ReadBlock, registers, Blocks
  <2> QED BY <2>1 DEF OwnInv
<1>6. CASE Answered \/ Unasked \/ LoseAnswer
  <2>1. /\ UNCHANGED <<ops, current, state, nextBlock>>
        /\ reply' = NoReply \/ reply' = reply
    BY <1>6 DEF Answered, Unasked, LoseAnswer, engine, cursor
  <2> QED BY <2>1 DEF OwnInv, CallInv
<1>7. CASE \/ TimeOut \/ Reopen \/ Reading \/ EventTimeout \/ Arrive \/ DeliverEvent \/ LoseFrame
           \/ Glitch \/ Watchdog \/ Publish \/ UNCHANGED vars
  <2>1. UNCHANGED <<ops, current, reply, nextBlock>> /\ (state' # "writing" \/ state' = state)
    <3>1. CASE TimeOut \/ Reopen \/ EventTimeout
      BY <3>1 DEF TimeOut, Reopen, EventTimeout, registers, engine, cursor
    <3>2. CASE TakePending \/ ReceiveEvent \/ CopyBlock
      BY <3>2 DEF TakePending, ReceiveEvent, CopyBlock, registers, engine, cursor
    <3>3. CASE CopyInvalid \/ SendAck \/ ReadRangeEnd \/ Glitch
      BY <3>3 DEF CopyInvalid, SendAck, ReadRangeEnd, Glitch, ReadSpoilt, registers, engine, cursor
    <3>4. CASE Arrive \/ DeliverEvent \/ LoseFrame
      BY <3>4 DEF Arrive, DeliverEvent, LoseFrame, registers, engine, cursor
    <3>5. CASE Watchdog \/ Publish \/ UNCHANGED vars
      BY <3>5 DEF Watchdog, StopStream, Publish, vars, registers, engine, cursor
    <3> QED BY <1>7, <3>1, <3>2, <3>3, <3>4, <3>5 DEF Reading
  <2> QED BY <2>1 DEF OwnInv
<1> QED BY <1>1, <1>2, <1>3, <1>4, <1>5, <1>6, <1>7 DEF Next, Mcu, Engine, Fault

(* A slot that is only freed stays in place. *)
LEMMA StreamKept ==
  ASSUME TypeOK, StreamInv, UNCHANGED <<ops, call, nextSeq, nextBlock>>,
         toRead' = toRead \/ toRead' = 0,
         \A k \in 0 .. 1 : slot'[k].ready => slot'[k] = slot[k]
  PROVE  StreamInv'
<1>1. toRead \in Nat
  BY DEF TypeOK, EngineTypeOK
<1>2. call.count \in Nat /\ nextBlock.index \in Nat
  BY DEF TypeOK, McuTypeOK, EngineTypeOK, NoCall, Requests, Blocks
<1>3. SUFFICES ASSUME nextBlock.range = ops /\ ops > 0
               PROVE  (/\ call.op \in Ranges
                       /\ nextBlock.index > 0 /\ toRead + nextBlock.index - 1 <= call.count
                       /\ nextSeq = At(nextBlock.index)
                       /\ \A k \in 0 .. 1 : InPlace(slot[k]))'
  BY DEF StreamInv
<1>4. \A k \in 0 .. 1 : InPlace(slot[k])'
  BY <1>3 DEF StreamInv, InPlace, At
<1> QED BY <1>1, <1>2, <1>3, <1>4 DEF StreamInv, At

LEMMA FreedSlots ==
  ASSUME TypeOK, NEW k \in 0 .. 1
  PROVE  /\ Cleared[k].ready = FALSE
         /\ \A t : AckSlots(t)[k].ready => AckSlots(t)[k] = slot[k]
<1>1. [slot[k] EXCEPT !.ready = FALSE].ready = FALSE
  BY DEF TypeOK, EngineTypeOK, Places
<1> QED BY <1>1 DEF Cleared, AckSlots

LEMMA StreamStep ==
  ASSUME IInv, [Next]_vars
  PROVE  StreamInv'
<1>0. /\ TypeOK /\ CallInv /\ WireInv /\ OwnInv /\ StreamInv
      /\ nextBlock.range \in Nat /\ nextBlock \in Blocks
  BY DEF IInv, TypeOK, EngineTypeOK, Blocks
<1>1. CASE Caller \/ ReadRangeAbort \/ Leave
  <2>1. PICK op \in Operations, n \in Nat : Call(op, n)
    BY <1>1, CallerCalls
  <2>2. ops' = ops + 1 /\ UNCHANGED nextBlock
    BY <1>0, <2>1, CallSends DEF engine, cursor
  <2>3. nextBlock.range <= ops
    BY <1>0, NumbersAreNats DEF OwnInv, WireInv
  <2> QED BY <1>0, <2>2, <2>3, NumbersAreNats DEF StreamInv
<1>2. CASE Arrive
  <2>1. \A k \in 0 .. 1 : slot'[k].ready => slot'[k] = slot[k]
    BY <1>0, <1>2, FreedSlots DEF Arrive
  <2> QED BY <1>0, <1>2, <2>1, StreamKept DEF Arrive
<1>3. CASE Refuse \/ StartWrite \/ Abort \/ Exit
  <2>1. UNCHANGED slot \/ slot' = Cleared
    BY <1>3 DEF Refuse, StartWrite, Abort, Exit, StopStream, cursor
  <2>2. \A k \in 0 .. 1 : slot'[k].ready => slot'[k] = slot[k]
    BY <1>0, <2>1, FreedSlots
  <2>3. /\ UNCHANGED <<ops, call, nextSeq, nextBlock>>
        /\ toRead' = toRead \/ toRead' = 0
    <3>1. CASE Refuse
      BY <3>1 DEF Refuse, Take, cursor
    <3>2. CASE StartWrite
      BY <3>2 DEF StartWrite, Take, StopStream
    <3>3. CASE Abort
      BY <3>3 DEF Abort, Take, StopStream
    <3>4. CASE Exit
      BY <3>4 DEF Exit, Take, StopStream, cursor
    <3> QED BY <1>3, <3>1, <3>2, <3>3, <3>4
  <2> QED BY <1>0, <2>2, <2>3, StreamKept
<1>4. CASE Watchdog
  <2>1. /\ UNCHANGED <<ops, call, nextSeq, nextBlock>>
        /\ toRead' = 0 /\ slot' = Cleared
    BY <1>4 DEF Watchdog, StopStream
  <2>2. \A k \in 0 .. 1 : slot'[k].ready => slot'[k] = slot[k]
    BY <1>0, <2>1, FreedSlots
  <2> QED BY <1>0, <2>1, <2>2, StreamKept
<1>5. CASE StartRange
  <2>1. /\ request.op \in Ranges /\ request # NoCall /\ UNCHANGED <<ops, call>>
        /\ toRead' = request.count /\ nextSeq' = request.tag /\ slot' = Cleared
        /\ nextBlock' = [range |-> request.id, index |-> 1]
    BY <1>5 DEF StartRange, Take, Accepts
  <2>2. SUFFICES ASSUME request.id = ops PROVE StreamInv'
    BY <2>1 DEF StreamInv
  <2>3. request = call /\ call \in Requests
    BY <1>0, <2>1, <2>2, NumbersAreNats DEF WireInv, Ours
  <2>4. nextSeq' = At(1)
    <3>1. call.tag \in Seqs /\ call.tag \in Int /\ call.tag < SeqCount
      BY <2>3, Sizes DEF Requests, Seqs
    <3>2. Plus(call.tag, 0) = call.tag
      BY <3>1, PlusIs, Empties
    <3> QED BY <2>1, <2>3, <3>2 DEF At
  <2>5. \A k \in 0 .. 1 : ~slot'[k].ready
    BY <1>0, <2>1, FreedSlots
  <2>6. call.count \in Nat /\ toRead' = call.count /\ nextBlock'.index = 1
    BY <2>1, <2>3 DEF Requests
  <2> QED BY <2>1, <2>3, <2>4, <2>5, <2>6 DEF StreamInv, InPlace, At
<1>6. CASE ReadBlock
  <2>1. /\ UNCHANGED <<ops, call>> /\ toRead > 0 /\ toRead' = toRead - 1
        /\ nextSeq' = Plus(nextSeq, 1)
        /\ nextBlock' = [nextBlock EXCEPT !.index = @ + 1]
        /\ slot' = [slot EXCEPT ![nextSeq % 2] =
                      [ready |-> TRUE, seq |-> nextSeq, block |-> nextBlock]]
    BY <1>6 DEF ReadBlock, CanRead
  <2>2. nextBlock'.range = nextBlock.range /\ nextBlock'.index = nextBlock.index + 1
    BY <1>0, <2>1 DEF Blocks
  <2>3. SUFFICES ASSUME nextBlock.range = ops, ops > 0 PROVE StreamInv'
    BY <2>1, <2>2 DEF StreamInv
  <2>4. /\ call.op \in Ranges /\ call # NoCall
        /\ nextBlock.index > 0 /\ toRead + nextBlock.index - 1 <= call.count
        /\ nextSeq = At(nextBlock.index)
        /\ \A k \in 0 .. 1 : InPlace(slot[k])
    BY <1>0, <2>3 DEF StreamInv, CallInv, NoCall
  <2>5. /\ call.tag \in Seqs /\ call.count \in Nat /\ call.count < SeqCount
        /\ toRead \in Nat /\ nextBlock.index \in Nat
    BY <1>0, <2>3, <2>4, Sizes DEF TypeOK, McuTypeOK, EngineTypeOK, Requests, CallInv, Numbered,
       Blocks
  <2>6. nextBlock.index \in 1 .. SeqCount /\ nextBlock.index < SeqCount
    BY <2>1, <2>4, <2>5, Sizes
  <2>7. nextSeq' = At(nextBlock.index + 1)
    BY <2>1, <2>4, <2>5, <2>6, AtIs
  <2>8. InPlace([ready |-> TRUE, seq |-> nextSeq, block |-> nextBlock])
    BY <2>1, <2>3, <2>4, <2>5, <2>6 DEF InPlace
  <2>9. \A k \in 0 .. 1 : InPlace(slot'[k])
    BY <1>0, <2>1, <2>4, <2>8 DEF TypeOK, EngineTypeOK
  <2> QED BY <2>1, <2>2, <2>3, <2>4, <2>5, <2>7, <2>9 DEF StreamInv, InPlace, At
<1>7. CASE \/ Answered \/ Unasked \/ LoseAnswer \/ TimeOut \/ Reopen \/ Reading \/ EventTimeout
           \/ DeliverEvent \/ LoseFrame \/ Glitch \/ WriteDone \/ Publish \/ UNCHANGED vars
  <2>1. UNCHANGED <<ops, call, nextSeq, nextBlock, toRead, slot>>
    <3>1. CASE TimeOut \/ Reopen \/ EventTimeout
      BY <3>1 DEF TimeOut, Reopen, EventTimeout, engine, cursor
    <3>2. CASE TakePending \/ ReceiveEvent \/ CopyBlock
      BY <3>2 DEF TakePending, ReceiveEvent, CopyBlock, engine, cursor
    <3>3. CASE CopyInvalid \/ SendAck \/ ReadRangeEnd \/ Glitch
      BY <3>3 DEF CopyInvalid, SendAck, ReadRangeEnd, Glitch, ReadSpoilt, engine, cursor
    <3>4. CASE DeliverEvent \/ LoseFrame \/ LoseAnswer
      BY <3>4 DEF DeliverEvent, LoseFrame, LoseAnswer, engine, cursor
    <3>5. CASE Answered \/ Unasked
      BY <3>5 DEF Answered, Unasked, engine, cursor
    <3>6. CASE WriteDone \/ Publish \/ UNCHANGED vars
      BY <3>6 DEF WriteDone, Publish, vars, engine, cursor
    <3> QED BY <1>7, <3>1, <3>2, <3>3, <3>4, <3>5, <3>6 DEF Reading
  <2> QED BY <1>0, <2>1, StreamKept
<1> QED BY <1>1, <1>2, <1>3, <1>4, <1>5, <1>6, <1>7 DEF Next, Mcu, Engine, Fault

------------------------------------------------------------------------------
(* What the MCU reads.                                                     *)
LEMMA ReadSame ==
  ASSUME ReadInv,
         UNCHANGED <<pc, ops, call, got, remaining, expected, pending, batch>>,
         nextBlock'.range = nextBlock.range
  PROVE  ReadInv'
  BY DEF ReadInv, InRange, Right, Nth, At, BatchCount

LEMMA RangeBegins ==
  ASSUME IInv, Answered, InRange'
  PROVE  /\ pc' = "next" /\ pc = "wait" /\ ops > 0
         /\ nextBlock.range = ops /\ got' = <<>> /\ batch' = <<>> /\ pending' = NoBlock
         /\ remaining' = call.count /\ expected' = At(1)
         /\ call.op \in Ranges /\ call \in Requests /\ call.count \in Counts
         /\ UNCHANGED <<ops, call, nextBlock>>
<1>0. TypeOK /\ CallInv /\ WireInv /\ OwnInv
  BY DEF IInv
<1>1. Matches(reply) /\ call.op \in Ranges /\ reply.ok /\ StreamStarts
  BY DEF Answered, InRange, Failed
<1>2. /\ pc' = "next" /\ pc = "wait" /\ got' = <<>> /\ batch' = <<>> /\ pending' = NoBlock
      /\ remaining' = call.count /\ expected' = call.tag
      /\ reply.tag = call.tag /\ reply.op = call.op
      /\ UNCHANGED <<ops, call, nextBlock>>
  BY <1>1 DEF Answered, StreamStarts, Matches, engine, cursor
<1>3. ops > 0 /\ call # NoCall /\ call \in Requests /\ reply # NoReply
  BY <1>0, <1>1, <1>2, NoReplySaysNothing DEF CallInv, NoCall, TypeOK, McuTypeOK
<1>4. call.tag = (ops - 1) % SeqCount /\ call.count \in Counts
  BY <1>0, <1>1, <1>3 DEF CallInv, Numbered
<1>5. reply.tag = (reply.id - 1) % SeqCount /\ Recent(reply.id)
  BY <1>0, <1>3 DEF WireInv
<1>6. reply.id = ops
  <2>1. /\ reply.id - 1 \in Int /\ ops - 1 \in Int /\ reply.id - 1 <= ops - 1
        /\ (ops - 1) - (reply.id - 1) < SeqCount
    BY <1>0, <1>5, NumbersAreNats, Sizes DEF Recent
  <2>2. reply.id - 1 = ops - 1
    BY <1>2, <1>4, <1>5, <2>1, TagsTellApart
  <2> QED BY <1>0, <2>2, NumbersAreNats
<1>7. nextBlock.range = ops
  BY <1>0, <1>1, <1>2, <1>6 DEF OwnInv
<1>8. At(1) = call.tag
  <2>1. call.tag \in Seqs /\ call.tag \in Int /\ call.tag < SeqCount
    BY <1>3, Sizes DEF Requests, Seqs
  <2>2. Plus(call.tag, 0) = call.tag
    BY <2>1, PlusIs, Empties
  <2> QED BY <2>2 DEF At
<1> QED BY <1>1, <1>2, <1>3, <1>4, <1>7, <1>8

(* What is known of a range under way. *)
LEMMA InRangeFacts ==
  ASSUME IInv, InRange
  PROVE  /\ ops \in Nat /\ ops > 0 /\ call.id = ops /\ call \in Requests
         /\ call.op \in Ranges /\ call.count \in Counts
         /\ call.count \in Nat /\ call.count < SeqCount /\ call.tag \in Seqs
         /\ got \in Seq(Blocks) /\ batch \in Seq(Blocks)
         /\ remaining \in Nat /\ Len(got) + remaining = call.count
         /\ BatchCount \in {1, 2} /\ (BatchCount <= remaining \/ remaining = 0)
         /\ NoBlock # Nth(Len(got) + 1)
<1>1. TypeOK /\ CallInv /\ StreamInv /\ ReadInv
  BY DEF IInv
<1>2. ops \in Nat /\ ops > 0 /\ call.id = ops /\ call # NoCall
  BY <1>1 DEF InRange, CallInv, NoCall, TypeOK, McuTypeOK
<1>3. call \in Requests /\ call.tag \in Seqs /\ call.op \in Ranges
  BY <1>1, <1>2 DEF TypeOK, McuTypeOK, StreamInv, ReadInv, Requests
<1>4. call.count \in Counts /\ call.count \in Nat /\ call.count < SeqCount
  <2>1. call.count \in Counts
    BY <1>1, <1>2, <1>3 DEF CallInv, Numbered
  <2> QED BY <2>1, InCounts
<1>5. got \in Seq(Blocks) /\ batch \in Seq(Blocks) /\ remaining \in Nat
  BY <1>1 DEF TypeOK, McuTypeOK, QueueTypeOK
<1>6. Len(got) + remaining = call.count
  BY <1>1 DEF ReadInv
<1>7. BatchCount \in {1, 2} /\ (BatchCount <= remaining \/ remaining = 0)
  BY <1>5 DEF BatchCount
<1>8. NoBlock # Nth(Len(got) + 1)
  BY <1>2 DEF NoBlock, Nth
<1> QED BY <1>2, <1>3, <1>4, <1>5, <1>6, <1>7, <1>8

LEMMA GiveRight ==
  ASSUME IInv, InRange, remaining > 0, Give(Nth(Len(got) + 1)), UNCHANGED <<ops, call>>
  PROVE  /\ Len(got') = Len(got) + 1 /\ remaining' = remaining - 1
         /\ Len(got') + remaining' = call.count
         /\ Right'
         /\ remaining' > 0 => expected' = At(Len(got') + 1)
<1>1. /\ got' = Append(got, Nth(Len(got) + 1)) /\ expected' = Plus(expected, 1)
      /\ remaining' = remaining - 1
  BY DEF Give
<1>2. Right /\ expected = At(Len(got) + 1)
  BY DEF IInv, ReadInv
<1>3. Len(got') = Len(got) + 1 /\ Len(got) \in Nat
  BY <1>1, InRangeFacts
<1>4. Right'
  <2>1. SUFFICES ASSUME NEW i \in 1 .. Len(got')
                 PROVE  got'[i] = [range |-> call.id, index |-> i]
    BY DEF Right
  <2>2. CASE i = Len(got) + 1
    BY <1>1, <1>3, <2>2, InRangeFacts DEF Nth
  <2>3. CASE i \in 1 .. Len(got)
    BY <1>1, <1>2, <2>3, InRangeFacts DEF Right
  <2> QED BY <1>3, <2>1, <2>2, <2>3
<1>5. remaining' > 0 => expected' = At(Len(got') + 1)
  <2>1. SUFFICES ASSUME remaining - 1 > 0 PROVE Plus(At(Len(got) + 1), 1) = At(Len(got) + 2)
    BY <1>1, <1>2, <1>3
  <2>2. Len(got) + 1 \in 1 .. SeqCount /\ Len(got) + 1 < SeqCount
    BY <1>3, <2>1, InRangeFacts, Sizes
  <2> QED BY <1>3, <2>2, AtIs, InRangeFacts
<1> QED BY <1>1, <1>3, <1>4, <1>5, InRangeFacts

(* A number names one block of the range. *)
LEMMA CopyRight ==
  ASSUME IInv, CopyBlock
  PROVE  batch' = Append(batch, Nth(Len(got) + Len(batch) + 1))
<1> DEFINE n == Len(got) + Len(batch) + 1
           p == slot[Plus(expected, Len(batch)) % 2]
<1>1. /\ InRange /\ pc = "read" /\ p.ready /\ p.seq = Plus(expected, Len(batch))
      /\ batch' = Append(batch, p.block)
  BY DEF CopyBlock, InRange, Valid
<1>2. /\ remaining > 0 /\ Len(batch) < BatchCount /\ expected = At(Len(got) + 1)
      /\ nextBlock.range = ops
  BY <1>1 DEF IInv, ReadInv
<1>3. Len(got) \in Nat /\ Len(batch) \in Nat
  BY <1>1, InRangeFacts
<1>4. /\ Len(batch) \in {0, 1} /\ n \in 1 .. SeqCount /\ n <= call.count
      /\ Len(got) + 1 \in 1 .. SeqCount /\ (Len(batch) = 1 => Len(got) + 1 < SeqCount)
  <2>1. /\ SeqCount \in Nat /\ call.count \in Nat /\ call.count < SeqCount /\ remaining \in Nat
        /\ Len(got) + remaining = call.count /\ Len(batch) + 1 <= remaining
        /\ Len(batch) + 1 <= 2
    BY <1>1, <1>2, <1>3, InRangeFacts, Sizes
  <2>2. Len(batch) \in {0, 1}
    <3>1. \A a \in Nat : a + 1 <= 2 => a \in {0, 1}
      OBVIOUS
    <3> QED BY <1>3, <2>1, <3>1
  <2>3. Len(got) + 1 <= call.count /\ (Len(batch) = 1 => Len(got) + 2 <= call.count)
    <3>1. \A g, r, c, b \in Nat :
            g + r = c /\ b + 1 <= r => g + 1 <= c /\ (b = 1 => g + 2 <= c)
      OBVIOUS
    <3> QED BY <1>3, <2>1, <3>1
  <2> QED BY <1>3, <2>1, <2>2, <2>3
<1>5. Plus(expected, Len(batch)) = At(n)
  <2>1. CASE Len(batch) = 0
    <3>1. At(Len(got) + 1) \in Seqs
      BY <1>1, <1>4, AtIs, InRangeFacts
    <3>2. Plus(At(Len(got) + 1), 0) = At(Len(got) + 1)
      BY <3>1, PlusIs, Empties, Sizes DEF Seqs
    <3> QED BY <1>2, <1>3, <2>1, <3>2
  <2>2. CASE Len(batch) = 1
    BY <1>1, <1>2, <1>3, <1>4, <2>2, AtIs, InRangeFacts
  <2> QED BY <1>4, <2>1, <2>2
<1>6. p \in Places /\ InPlace(p)
  <2>1. Plus(expected, Len(batch)) % 2 \in 0 .. 1
    <3>1. Plus(expected, Len(batch)) \in Int
      BY <1>3, PlusIsSeq, Sizes DEF IInv, TypeOK, McuTypeOK, Seqs
    <3> QED BY <3>1
  <2> QED BY <1>1, <1>2, <2>1, InRangeFacts DEF IInv, StreamInv, TypeOK, EngineTypeOK
<1>7. p.block.index \in 1 .. SeqCount /\ p.block.range = ops /\ At(p.block.index) = At(n)
  <2>1. p.block.index \in 1 .. call.count /\ p.block.range = ops /\ p.seq = At(p.block.index)
    BY <1>1, <1>6 DEF InPlace
  <2>2. call.count \in Nat /\ call.count < SeqCount /\ SeqCount \in Nat
    BY <1>1, InRangeFacts, Sizes
  <2> QED BY <1>1, <1>5, <2>1, <2>2
<1>8. p.block.index = n
  BY <1>1, <1>4, <1>7, AtTells, InRangeFacts
<1>9. p.block = Nth(n)
  BY <1>6, <1>7, <1>8 DEF Places, Blocks, Nth
<1> QED BY <1>1, <1>9

LEMMA ReadStep ==
  ASSUME IInv, [Next]_vars
  PROVE  ReadInv'
<1>0. /\ TypeOK /\ CallInv /\ WireInv /\ OwnInv /\ ReadInv
      /\ nextBlock.range \in Nat /\ nextBlock \in Blocks
  BY DEF IInv, TypeOK, EngineTypeOK, Blocks
<1>1. CASE Caller \/ ReadRangeAbort \/ Leave \/ TimeOut \/ Reopen
  <2>1. CASE Caller \/ ReadRangeAbort \/ Leave
    <3>1. PICK op \in Operations, n \in Nat : Call(op, n)
      BY <2>1, CallerCalls
    <3> QED BY <3>1 DEF Call, ReadInv, InRange
  <2>2. CASE TimeOut \/ Reopen
    BY <2>2 DEF TimeOut, Reopen, ReadInv, InRange
  <2> QED BY <1>1, <2>1, <2>2
<1>2. CASE Answered
  <2>1. SUFFICES ASSUME InRange' PROVE ReadInv'
    BY DEF ReadInv
  <2>2. call.count \in Nat /\ call.count > 0 /\ call.count \in Counts
    BY <1>2, <2>1, RangeBegins, InCounts
  <2>3. Right' /\ Len(got') = 0 /\ Len(batch') = 0
    BY <1>2, <2>1, RangeBegins DEF Right
  <2> QED BY <1>2, <2>1, <2>2, <2>3, RangeBegins DEF ReadInv, InRange, At
<1>3. CASE TakePending
  <2>1. /\ InRange /\ pc' = "next" /\ pc = "next" /\ pending # NoBlock /\ Give(pending)
        /\ pending' = NoBlock
        /\ UNCHANGED <<ops, call, batch, nextBlock>>
    BY <1>3 DEF TakePending, InRange, engine, cursor
  <2>2. pending = Nth(Len(got) + 1) /\ remaining > 0 /\ batch = <<>> /\ nextBlock.range = ops
    BY <1>0, <2>1 DEF ReadInv
  <2>3. /\ Len(got') + remaining' = call.count /\ Right'
        /\ remaining' > 0 => expected' = At(Len(got') + 1)
    BY <2>1, <2>2, GiveRight
  <2> QED BY <2>1, <2>2, <2>3 DEF ReadInv, InRange, At
<1>4. CASE ReceiveEvent
  <2>1. /\ Waiting /\ (pc' = "read" \/ pc' = "failed")
        /\ UNCHANGED <<ops, call, got, remaining, expected, pending, batch, nextBlock>>
    BY <1>4 DEF ReceiveEvent, Failed, bulk, engine, cursor
  <2>2. InRange /\ batch = <<>> /\ BatchCount \in {1, 2}
    <3>1. InRange /\ batch = <<>>
      BY <1>0, <2>1 DEF Waiting, InRange, ReadInv
    <3> QED BY <3>1 DEF BatchCount
  <2> QED BY <1>0, <2>1, <2>2 DEF ReadInv, InRange, Right, Nth, At, BatchCount, Waiting
<1>5. CASE EventTimeout
  <2>1. /\ pc = "next" /\ (pc' = "next" \/ pc' = "failed")
        /\ UNCHANGED <<ops, call, got, remaining, expected, pending, batch, nextBlock>>
    BY <1>5 DEF EventTimeout, Waiting, bulk, engine, cursor
  <2> QED BY <1>0, <2>1 DEF ReadInv, InRange, Right, Nth, At, BatchCount
<1>6. CASE CopyBlock
  <2>1. batch' = Append(batch, Nth(Len(got) + Len(batch) + 1)) /\ InRange
    BY <1>6, CopyRight DEF CopyBlock, InRange
  <2>2. /\ pc = "read" /\ pc' = IF Len(batch') = BatchCount THEN "ack" ELSE "read"
        /\ UNCHANGED <<ops, call, got, remaining, expected, pending, nextBlock>>
    BY <1>6 DEF CopyBlock, engine, cursor
  <2>3. /\ remaining > 0 /\ pending = NoBlock /\ Len(batch) < BatchCount /\ batch \in Seq(Blocks)
        /\ BatchCount \in {1, 2}
    BY <1>0, <2>1, <2>2, InRangeFacts DEF ReadInv
  <2>4. Len(batch') = Len(batch) + 1 /\ Len(batch') <= BatchCount
    BY <2>1, <2>3
  <2>5. ASSUME NEW i \in 1 .. Len(batch') PROVE batch'[i] = Nth(Len(got) + i)
    <3>1. CASE i = Len(batch) + 1
      <4>1. batch'[i] = Nth(Len(got) + Len(batch) + 1)
        BY <2>1, <2>3, <3>1
      <4>2. Len(got) + Len(batch) + 1 = Len(got) + i
        BY <2>1, <2>3, <3>1, InRangeFacts
      <4> QED BY <4>1, <4>2
    <3>2. CASE i \in 1 .. Len(batch)
      BY <1>0, <2>1, <2>3, <3>2 DEF ReadInv
    <3> QED BY <2>3, <2>4, <3>1, <3>2
  <2>6. BatchCount' = BatchCount
    BY <2>2 DEF BatchCount
  <2>7. pc' = "read" => Len(batch') < BatchCount
    BY <2>2, <2>3, <2>4
  <2> QED BY <1>0, <2>1, <2>2, <2>3, <2>5, <2>6, <2>7 DEF ReadInv, InRange, Right, Nth, At
<1>7. CASE CopyInvalid \/ Glitch
  <2>1. /\ pc = "read" /\ (pc' = "failed" \/ (pc' = pc /\ batch' = batch))
        /\ UNCHANGED <<ops, call, got, remaining, expected, pending, nextBlock>>
    BY <1>7 DEF CopyInvalid, Glitch, ReadSpoilt, engine, cursor
  <2> QED BY <1>0, <2>1 DEF ReadInv, InRange, Right, Nth, At, BatchCount
<1>8. CASE SendAck
  <2>1. /\ InRange /\ pc = "ack" /\ pc' = "next" /\ Give(batch[1]) /\ batch' = <<>>
        /\ pending' = IF Len(batch) = 2 THEN batch[2] ELSE NoBlock
        /\ UNCHANGED <<ops, call, nextBlock>>
    BY <1>8 DEF SendAck, InRange, engine, cursor
  <2>2. /\ Len(batch) = BatchCount /\ BatchCount \in {1, 2} /\ remaining > 0
        /\ nextBlock.range = ops
        /\ \A i \in 1 .. Len(batch) : batch[i] = Nth(Len(got) + i)
    BY <1>0, <2>1, InRangeFacts DEF ReadInv
  <2>3. batch[1] = Nth(Len(got) + 1) /\ (Len(batch) = 2 => batch[2] = Nth(Len(got) + 2))
    BY <2>2
  <2>4. /\ Len(got') = Len(got) + 1 /\ remaining' = remaining - 1
        /\ Len(got') + remaining' = call.count /\ Right'
        /\ remaining' > 0 => expected' = At(Len(got') + 1)
    BY <2>1, <2>2, <2>3, GiveRight
  <2>5. pending' # NoBlock => pending' = Nth(Len(got') + 1) /\ remaining' > 0
    <3>1. Len(batch) = 2 => remaining >= 2
      BY <2>1, <2>2, InRangeFacts
    <3>2. Len(got) \in Nat /\ remaining \in Nat /\ Len(got) + 2 = Len(got') + 1
      BY <2>1, <2>4, InRangeFacts
    <3> QED BY <2>1, <2>3, <2>4, <3>1, <3>2
  <2>6. ops' = ops /\ call' = call /\ nextBlock'.range = ops' /\ Len(batch') = 0
    BY <2>1, <2>2
  <2> QED BY <2>1, <2>4, <2>5, <2>6 DEF ReadInv, InRange, At, Nth
<1>9. CASE ReadRangeEnd
  BY <1>9 DEF ReadRangeEnd, ReadInv, InRange
<1>10. CASE StartRange
  <2>1. /\ UNCHANGED <<pc, ops, call, got, remaining, expected, pending, batch>>
        /\ nextBlock'.range = request.id /\ request # NoCall
    BY <1>10 DEF StartRange, Take, Accepts, bulk
  <2>2. InRange => nextBlock'.range = nextBlock.range
    <3>1. nextBlock.range <= request.id /\ request.id <= ops
      BY <1>0, <2>1, NumbersAreNats DEF OwnInv, WireInv, Recent
    <3>2. InRange => nextBlock.range = ops
      BY <1>0 DEF ReadInv
    <3> QED BY <1>0, <2>1, <3>1, <3>2, NumbersAreNats
  <2>3. CASE InRange
    BY <1>0, <2>1, <2>2, <2>3, ReadSame
  <2>4. CASE ~InRange
    BY <2>1, <2>4 DEF ReadInv, InRange
  <2> QED BY <2>3, <2>4
<1>11. CASE ReadBlock
  <2>1. /\ UNCHANGED <<pc, ops, call, got, remaining, expected, pending, batch>>
        /\ nextBlock'.range = nextBlock.range
    <3>1. nextBlock' = [nextBlock EXCEPT !.index = @ + 1]
      BY <1>11 DEF ReadBlock
    <3> QED BY <1>0, <1>11, <3>1 DEF ReadBlock, bulk, Blocks
  <2> QED BY <1>0, <2>1, ReadSame
<1>12. CASE \/ Unasked \/ Arrive \/ DeliverEvent \/ Refuse \/ StartWrite \/ Abort \/ Exit
            \/ WriteDone \/ Publish \/ Watchdog \/ LoseFrame \/ LoseAnswer \/ UNCHANGED vars
  <2>1. UNCHANGED <<pc, ops, call, got, remaining, expected, pending, batch, nextBlock>>
    <3>1. CASE Unasked \/ Arrive \/ DeliverEvent
      BY <3>1 DEF Unasked, Arrive, DeliverEvent, bulk, engine, cursor
    <3>2. CASE Refuse \/ StartWrite \/ Abort \/ Exit
      BY <3>2 DEF Refuse, StartWrite, Abort, Exit, Take, StopStream, bulk, cursor
    <3>3. CASE WriteDone \/ Publish \/ Watchdog
      BY <3>3 DEF WriteDone, Publish, Watchdog, StopStream, bulk, cursor
    <3>4. CASE LoseFrame \/ LoseAnswer \/ UNCHANGED vars
      BY <3>4 DEF LoseFrame, LoseAnswer, vars, bulk, engine, cursor
    <3> QED BY <1>12, <3>1, <3>2, <3>3, <3>4
  <2> QED BY <1>0, <2>1, ReadSame
<1> QED BY <1>1, <1>2, <1>3, <1>4, <1>5, <1>6, <1>7, <1>8, <1>9, <1>10, <1>11, <1>12
        DEF Next, Mcu, Reading, Engine, Fault

(* IInv is an invariant: what the MCU holds of a range is that range's. *)
THEOREM Invariance == Spec => []IInv
<1>1. ASSUME IInv, [Next]_vars PROVE IInv'
  <2>1. TypeOK /\ CallInv /\ UpInv /\ WireInv /\ OwnInv /\ ReadInv
    BY <1>1 DEF IInv
  <2> QED BY <1>1, <2>1, McuTypes, QueueTypes, WireTypes, EngineTypes, CallStep, UpStep, WireStep,
             OwnStep, StreamStep, ReadStep DEF IInv, TypeOK
<1> QED BY <1>1, InitInv, PTL DEF Spec

(* Every variable keeps its type; an attempt is never made when none is left. *)
THEOREM TypeCorrect == Spec => []TypeOK
  BY Invariance, PTL DEF IInv

------------------------------------------------------------------------------
(* The refinement.  Begin is the answer to READ_RANGE, Take a block given  *)
(* to the caller, Finish the end of the range, Fail whatever ends it       *)
(* early; everything else stutters.                                        *)
Size == IF InRange THEN call.count ELSE 0
Taken == IF ~InRange THEN 0 ELSE IF Right THEN Len(got) ELSE -1

LEMMA Reads ==
  ASSUME IInv
  PROVE  /\ InRange => Size = call.count /\ Taken = Len(got) /\ Size \in Nat \ {0}
         /\ ~InRange => Size = 0 /\ Taken = 0
<1>1. InRange => Right
  BY DEF IInv, ReadInv
<1> QED BY <1>1, InRangeFacts, Sizes DEF Size, Taken

LEMMA Stutters ==
  ASSUME IInv, IInv', UNCHANGED <<pc, call, got>>
  PROVE  UNCHANGED <<Size, Taken>>
  BY DEF Size, Taken, InRange, Right

LEMMA RefinementStep ==
  ASSUME IInv, IInv', [Next]_vars
  PROVE  \/ Size = 0 /\ Size' \in Counts /\ Taken' = 0
         \/ Taken < Size /\ Taken' = Taken + 1 /\ Size' = Size
         \/ Size # 0 /\ Taken = Size /\ Size' = 0 /\ Taken' = 0
         \/ Size # 0 /\ Size' = 0 /\ Taken' = 0
         \/ UNCHANGED <<Size, Taken>>
<1>0. /\ InRange' => Size' = call'.count /\ Taken' = Len(got')
      /\ ~InRange' => Size' = 0 /\ Taken' = 0
  <2>1. InRange' => Right'
    BY DEF IInv, ReadInv
  <2> QED BY <2>1 DEF Size, Taken
<1>1. CASE Caller \/ ReadRangeAbort \/ Leave \/ TimeOut \/ Reopen
  <2>1. ~InRange /\ ~InRange'
    <3>1. CASE Caller \/ ReadRangeAbort \/ Leave
      <4>1. PICK op \in Operations, n \in Nat : Call(op, n)
        BY <3>1, CallerCalls
      <4> QED BY <3>1, <4>1, CallerCalls DEF Call, InRange
    <3>2. CASE TimeOut \/ Reopen
      BY <3>2 DEF TimeOut, Reopen, InRange
    <3> QED BY <1>1, <3>1, <3>2
  <2> QED BY <1>0, <2>1, Reads
<1>2. CASE Answered
  <2>1. ~InRange
    BY <1>2 DEF Answered, Matches, InRange
  <2>2. CASE InRange'
    BY <1>0, <1>2, <2>1, <2>2, Reads, RangeBegins
  <2>3. CASE ~InRange'
    BY <1>0, <2>1, <2>3, Reads
  <2> QED BY <2>2, <2>3
<1>3. CASE TakePending \/ SendAck
  <2>1. /\ InRange /\ InRange' /\ call' = call /\ \E b \in Blocks : got' = Append(got, b)
        /\ remaining > 0
    <3>1. CASE TakePending
      BY <3>1 DEF TakePending, Give, InRange, IInv, TypeOK, McuTypeOK, ReadInv
    <3>2. CASE SendAck
      <4>1. Len(batch) >= 1 /\ batch \in Seq(Blocks)
        BY <3>2, InRangeFacts DEF SendAck, IInv, ReadInv, InRange
      <4>2. batch[1] \in Blocks
        BY <4>1
      <4> QED BY <3>2, <4>2 DEF SendAck, Give, InRange, IInv, ReadInv
    <3> QED BY <1>3, <3>1, <3>2
  <2>2. Len(got') = Len(got) + 1 /\ Len(got) < call.count
    BY <2>1, InRangeFacts
  <2> QED BY <1>0, <2>1, <2>2, Reads
<1>4. CASE ReadRangeEnd
  <2>1. InRange /\ ~InRange' /\ remaining = 0
    BY <1>4 DEF ReadRangeEnd, InRange
  <2> QED BY <1>0, <2>1, Reads
<1>5. CASE ReceiveEvent \/ EventTimeout \/ CopyBlock \/ CopyInvalid \/ Glitch
  <2>1. InRange /\ UNCHANGED <<call, got>>
    <3>1. CASE ReceiveEvent \/ EventTimeout
      BY <3>1 DEF ReceiveEvent, EventTimeout, Waiting, InRange, bulk
    <3>2. CASE CopyBlock \/ CopyInvalid \/ Glitch
      BY <3>2 DEF CopyBlock, CopyInvalid, Glitch, ReadSpoilt, InRange
    <3> QED BY <1>5, <3>1, <3>2
  <2>2. CASE InRange'
    BY <1>0, <2>1, <2>2, Reads
  <2>3. CASE ~InRange'
    BY <1>0, <2>1, <2>3, Reads
  <2> QED BY <2>2, <2>3
<1>6. CASE \/ Unasked \/ Arrive \/ DeliverEvent \/ Engine \/ Watchdog \/ LoseFrame \/ LoseAnswer
           \/ UNCHANGED vars
  <2>1. UNCHANGED <<pc, call, got>>
    <3>1. CASE Unasked \/ Arrive \/ DeliverEvent
      BY <3>1 DEF Unasked, Arrive, DeliverEvent, bulk
    <3>2. CASE Engine
      BY <3>2 DEF Engine, Refuse, StartRange, StartWrite, Abort, Exit, Take, WriteDone, ReadBlock,
         Publish, bulk
    <3>3. CASE Watchdog \/ LoseFrame \/ LoseAnswer \/ UNCHANGED vars
      BY <3>3 DEF Watchdog, LoseFrame, LoseAnswer, vars, bulk
    <3> QED BY <1>6, <3>1, <3>2, <3>3
  <2> QED BY <2>1, Stutters
<1> QED BY <1>1, <1>2, <1>3, <1>4, <1>5, <1>6 DEF Next, Mcu, Reading, Fault

(* A range read gives the blocks of that range, in order and once, or      *)
(* fails, whatever was lost, repeated or is left of an earlier range.      *)
THEOREM Refinement == Spec => ReadsInOrder
<1>1. Init => R!RInit
  BY DEF Init, R!RInit, InRange
<1>2. ASSUME IInv, IInv', [Next]_vars
      PROVE  [R!RNext]_<<IF InRange THEN call.count ELSE 0,
                         IF ~InRange THEN 0 ELSE IF Right THEN Len(got) ELSE -1>>
  BY <1>2, RefinementStep DEF R!RNext, R!Begin, R!Take, R!Finish, R!Fail, Size, Taken
<1> QED BY <1>1, <1>2, Invariance, PTL DEF Spec, ReadsInOrder, R!RSpec

------------------------------------------------------------------------------
(* No mishap, no failure.  Fewer frames and reads are lost than the MCU    *)
(* tries again:                                                            *)
FewerLost == LossBudget < Attempts /\ LossBudget < AckRetries /\ LossBudget < QspiAttempts

(* Then the engine stays in step with the MCU.  n blocks of the range were *)
(* acknowledged, the engine read Done of it, and what goes from one to the *)
(* other is where the next step takes it from, or was lost and is counted. *)
Base == Len(got) + (IF pending = NoBlock THEN 0 ELSE 1)
Done == nextBlock.index - 1
BatchAt(n) == IF call.count - n >= 2 THEN 2 ELSE 1
AtRest == state = "idle" /\ event = None /\ queue = <<>>

(* Where the engine is with the batch after the first n blocks: the last   *)
(* acknowledgement is not there yet, nothing is read, one block is, all    *)
(* are; and then the event is on its way.                                  *)
Unfreed(n) == /\ n >= 2 /\ Done = n /\ ~pair /\ AtRest
              /\ Valid(At(n)) /\ Valid(At(n - 1))
Freed(n) == /\ Done = n /\ ~pair /\ AtRest
            /\ \A k \in 0 .. 1 : ~slot[k].ready
Half(n) == /\ Done = n + 1 /\ n + 2 <= call.count /\ pair /\ AtRest
           /\ Valid(At(n + 1)) /\ ~slot[At(n + 2) % 2].ready
Full(n) == /\ Done = n + BatchAt(n) /\ ~pair
           /\ Valid(At(n + 1)) /\ (n + 2 <= call.count => Valid(At(n + 2)))
Telling(n) == \/ state = "publish" /\ event = None /\ queue = <<>>
              \/ state = "idle" /\ event = At(n + BatchAt(n)) /\ queue = <<>>
              \/ state = "idle" /\ event = None /\ queue = <<At(n + BatchAt(n))>>
Stage(n) == Unfreed(n) \/ Freed(n) \/ Half(n) \/ (Full(n) /\ Telling(n))
Finished == Done = call.count /\ AtRest
Streaming == active /\ stream /\ toRead = call.count - Done

(* Of the acknowledgements on their way those at the end are of the last   *)
(* pair, sent as often as "left" tells; an older one frees nothing.        *)
OnlyAcks == \A i \in 1 .. Len(up) : up[i].op = "ack"
AcksTried(n) == \E k \in 0 .. Len(up) :
                  /\ \A i \in k + 1 .. Len(up) : up[i].tag = At(n)
                  /\ Len(up) - k + losses >= 1 + AckRetries - left
Old(n, t) == \E j \in 1 .. n : j # n - 1 /\ t = At(j)
AcksOld(n) == \A i \in 1 .. Len(up) : Old(n, up[i].tag)

(* Where a request is: behind acknowledgements on the wire, before the     *)
(* engine, in its hands, answered, or lost.                                *)
Parked == AtRest /\ active /\ ~Busy
Unsaid == request = NoCall /\ reply = NoReply
Asked == /\ Unsaid /\ Parked
         /\ Len(up) > 0 /\ up[Len(up)] = call /\ \A i \in 1 .. Len(up) - 1 : up[i].op = "ack"
Heard == up = <<>> /\ request = call /\ reply = NoReply /\ Parked
Writing == /\ up = <<>> /\ Unsaid /\ current = call /\ active
           /\ state = "writing" /\ event = None /\ queue = <<>>
           /\ ~pair /\ \A k \in 0 .. 1 : ~slot[k].ready
           /\ call.op \in Ranges => Streaming /\ Done = 0
           /\ call.op = "write" => ~stream
Told == /\ up = <<>> /\ request = NoCall /\ reply = Result(call, TRUE)
        /\ call.op \in Ranges => Streaming /\ Stage(0)
        /\ call.op = "write" => Parked
Unheard == Unsaid /\ Parked /\ OnlyAcks /\ losses >= Attempts - left

Rests == Unsaid /\ Parked /\ OnlyAcks
Waits == /\ call.op \in Ranges \cup {"write"}
         /\ losses >= Attempts - 1 - left
         /\ Asked \/ Heard \/ Writing \/ Told \/ Unheard
(* The MCU was given, or holds, n blocks that it acknowledged. *)
FollowsAt(n) ==
  /\ n = Base
  /\ Streaming /\ Unsaid /\ OnlyAcks
  /\ n < call.count => AcksOld(n)
  /\ pc = "next" =>
       /\ left <= AckRetries
       /\ lastAck = IF n = 0 THEN None ELSE At(n)
       /\ n = call.count => Finished
       /\ n < call.count => Stage(n) /\ (Unfreed(n) => AcksTried(n))
  /\ pc # "next" => n < call.count /\ Full(n) /\ AtRest
  /\ pc = "read" => losses >= QspiAttempts - left
Follows == \E n \in 0 .. call.count : FollowsAt(n)
Calm == /\ pc \in {"idle", "wait", "next", "read", "ack"}
        /\ pc = "idle" => Rests
        /\ pc = "wait" => Waits
        /\ InRange => Follows
CalmInv == losses <= LossBudget /\ (FewerLost /\ ~mishap => Calm)

(* What is known of the engine while it reads the range of the last call.  *)
Known == /\ call \in Requests /\ call.op \in Ranges /\ call.tag \in Seqs
         /\ call.count \in Nat /\ call.count > 0 /\ call.count < SeqCount
         /\ Done \in Nat /\ toRead \in Nat /\ nextSeq = At(Done + 1)
         /\ slot \in [0 .. 1 -> Places]

LEMMA StreamKnown ==
  ASSUME IInv, nextBlock.range = ops, ops > 0
  PROVE  Known
<1>1. /\ call # NoCall /\ call \in Requests /\ call.op \in Ranges
      /\ nextBlock.index > 0 /\ nextSeq = At(nextBlock.index)
  BY DEF IInv, StreamInv, CallInv, NoCall, TypeOK, McuTypeOK
<1>2. call.tag \in Seqs /\ call.count \in Counts
  BY <1>1 DEF IInv, CallInv, Numbered, Requests
<1>3. /\ nextBlock.index \in Nat /\ toRead \in Nat
      /\ slot \in [0 .. 1 -> Places]
  BY DEF IInv, TypeOK, EngineTypeOK, Blocks
<1>4. Done \in Nat /\ Done + 1 = nextBlock.index
  BY <1>1, <1>3 DEF Done
<1> QED BY <1>1, <1>2, <1>3, <1>4, InCounts DEF Known

LEMMA InRangeKnown ==
  ASSUME IInv, InRange
  PROVE  Known
  BY InRangeFacts, StreamKnown DEF IInv, ReadInv

(* Neighbours in a range have slots of their own. *)
LEMMA Flips ==
  ASSUME call.tag \in Seqs, NEW i \in 1 .. SeqCount, i < SeqCount
  PROVE  /\ At(i) % 2 \in 0 .. 1 /\ At(i + 1) % 2 \in 0 .. 1
         /\ At(i + 1) % 2 # At(i) % 2
<1>1. At(i) \in Seqs /\ At(i + 1) = Plus(At(i), 1)
  BY AtIs
<1>2. ASSUME NEW n \in Nat, n > 1, n % 2 = 0, NEW a \in 0 .. n - 1,
             NEW b, b = IF a + 1 < n THEN a + 1 ELSE a + 1 - n
      PROVE  a % 2 \in 0 .. 1 /\ b % 2 \in 0 .. 1 /\ b % 2 # a % 2
  <2>1. CASE a + 1 < n
    BY <1>2, <2>1
  <2>2. CASE a + 1 = n
    BY <1>2, <2>2
  <2> QED BY <1>2, <2>1, <2>2
<1>3. Plus(At(i), 1) = IF At(i) + 1 < SeqCount THEN At(i) + 1 ELSE At(i) + 1 - SeqCount
  BY <1>1, PlusIs, Empties
<1>4. SeqCount \in Nat /\ SeqCount > 1 /\ SeqCount % 2 = 0
  BY Sizes, StreamAssumption
<1> QED BY <1>1, <1>2, <1>3, <1>4 DEF Seqs

LEMMA Alternate ==
  ASSUME call.tag \in Seqs, NEW i \in 1 .. SeqCount, i + 1 < SeqCount
  PROVE  At(i + 2) % 2 = At(i) % 2
<1>1. /\ i + 1 \in 1 .. SeqCount /\ i < SeqCount /\ i + 1 + 1 = i + 2
  BY Sizes
<1>2. /\ At(i) % 2 \in 0 .. 1 /\ At(i + 1) % 2 \in 0 .. 1 /\ At(i + 1) % 2 # At(i) % 2
      /\ At(i + 2) % 2 \in 0 .. 1 /\ At(i + 2) % 2 # At(i + 1) % 2
  BY <1>1, Flips
<1> QED BY <1>2

(* The number that the event of a pair tells. *)
LEMMA OneBack ==
  ASSUME call.tag \in Seqs, NEW i \in 1 .. SeqCount, i < SeqCount
  PROVE  Plus(At(i + 1), SeqCount - 1) = At(i)
<1>1. At(i) \in Seqs /\ At(i + 1) \in Seqs /\ SeqCount - 1 \in Seqs
  <2>1. i + 1 \in 1 .. SeqCount
    BY Sizes
  <2> QED BY <2>1, AtIs, Sizes DEF Seqs
<1>2. At(i + 1) = IF At(i) + 1 < SeqCount THEN At(i) + 1 ELSE At(i) + 1 - SeqCount
  BY <1>1, AtIs, PlusIs, Empties
<1>3. Plus(At(i + 1), SeqCount - 1)
        = IF At(i + 1) + SeqCount - 1 < SeqCount THEN At(i + 1) + SeqCount - 1
          ELSE At(i + 1) + SeqCount - 1 - SeqCount
  BY <1>1, PlusIs, Sizes DEF Seqs
<1> QED BY <1>1, <1>2, <1>3, Sizes DEF Seqs

LEMMA BatchIs ==
  ASSUME Known, NEW n \in Nat, n < call.count
  PROVE  /\ BatchAt(n) \in {1, 2} /\ n + BatchAt(n) <= call.count
         /\ n + 1 \in 1 .. SeqCount /\ n + 1 < SeqCount + 1
         /\ n + BatchAt(n) \in 1 .. SeqCount /\ n + BatchAt(n) < SeqCount
         /\ BatchAt(n) = 2 <=> n + 2 <= call.count
         /\ BatchAt(n) = 1 <=> n + 1 = call.count
  BY Sizes DEF Known, BatchAt

------------------------------------------------------------------------------
(* The engine, batch by batch. *)
LEMMA StageSame ==
  ASSUME NEW n, UNCHANGED <<call, nextBlock, pair, slot, state, event, queue>>
  PROVE  /\ Stage(n) => Stage(n)'
         /\ Unfreed(n)' => Unfreed(n)
         /\ Full(n) => Full(n)'
  BY DEF Stage, Unfreed, Freed, Half, Full, Telling, Done, Valid, At, AtRest, BatchAt

LEMMA ReadEffect ==
  ASSUME TypeOK, Known, ReadBlock, NEW i \in Nat, i = Done + 1
  PROVE  /\ toRead > 0 /\ toRead' = toRead - 1 /\ Done' = i /\ state = "idle" /\ stream
         /\ ~slot[At(i) % 2].ready /\ Valid(At(i))'
         /\ \A m \in 0 .. 1 : m # At(i) % 2 => slot'[m] = slot[m]
         /\ pair' <=> ~pair /\ toRead > 1
         /\ pair' => state' = "idle"
         /\ ~pair' => state' = "publish"
         /\ UNCHANGED <<call, pc, active, stream, event, queue>>
<1>1. /\ nextBlock \in Blocks /\ nextSeq = At(i) /\ At(i) % 2 \in 0 .. 1
      /\ nextBlock' = [nextBlock EXCEPT !.index = @ + 1]
      /\ slot' = [slot EXCEPT ![At(i) % 2] =
                    [ready |-> TRUE, seq |-> At(i), block |-> nextBlock]]
  <2>1. nextSeq \in Seqs /\ nextSeq = At(i)
    BY DEF TypeOK, EngineTypeOK, Known
  <2>2. nextSeq % 2 \in 0 .. 1
    BY <2>1, Sizes DEF Seqs
  <2> QED BY <2>1, <2>2 DEF TypeOK, EngineTypeOK, ReadBlock
<1>2. nextBlock'.index = nextBlock.index + 1 /\ nextBlock.index \in Nat
  BY <1>1 DEF Blocks
<1>3. Done' = i
  BY <1>2 DEF Done
<1>4. UNCHANGED <<call, pc, active, stream, event, queue>>
  BY DEF ReadBlock, registers
<1>5. Valid(At(i))'
  BY <1>1, <1>4 DEF Known, Valid, At
<1>6. \A m \in 0 .. 1 : m # At(i) % 2 => slot'[m] = slot[m]
  BY <1>1 DEF Known
<1> QED BY <1>1, <1>3, <1>4, <1>5, <1>6 DEF ReadBlock, CanRead

(* A step may read where CanRead allows, and nowhere else. *)
LEMMA FullWaits ==
  ASSUME Known, NEW n \in Nat, n < call.count, Streaming, Full(n), TypeOK
  PROVE  ~CanRead
<1>1. CASE n + BatchAt(n) = call.count
  BY <1>1 DEF Full, Streaming, CanRead, Known
<1>2. CASE n + BatchAt(n) # call.count
  <2>1. BatchAt(n) = 2 /\ n + 3 <= call.count
    BY <1>2, BatchIs DEF Known
  <2>2. n + 1 \in 1 .. SeqCount /\ n + 1 + 1 < SeqCount /\ Done + 1 = n + 1 + 2
    BY <2>1, Sizes DEF Known, Full
  <2>3. nextSeq % 2 = At(n + 1) % 2
    BY <2>2, Alternate DEF Known
  <2> QED BY <2>3 DEF Full, Valid, CanRead
<1> QED BY <1>1, <1>2

LEMMA UnfreedWaits ==
  ASSUME Known, NEW n \in Nat, n < call.count, Unfreed(n)
  PROVE  ~CanRead
<1>1. n - 1 \in 1 .. SeqCount /\ n - 1 + 1 < SeqCount /\ Done + 1 = n - 1 + 2
  BY Sizes DEF Known, Unfreed
<1>2. nextSeq % 2 = At(n - 1) % 2
  BY <1>1, Alternate DEF Known
<1> QED BY <1>2 DEF Unfreed, Valid, CanRead

LEMMA StageReads ==
  ASSUME TypeOK, Known, NEW n \in Nat, n < call.count, Streaming, Stage(n), ReadBlock
  PROVE  Streaming' /\ Stage(n)' /\ ~Unfreed(n)'
<1>0. CanRead /\ UNCHANGED call
  BY DEF ReadBlock
<1>1. Freed(n) \/ Half(n)
  BY <1>0, FullWaits, UnfreedWaits DEF Stage
<1>2. Done + 1 \in Nat
  BY DEF Known
<1>3. PICK i \in Nat : i = Done + 1
  BY <1>2
<1>4. /\ toRead > 0 /\ toRead' = toRead - 1 /\ Done' = i /\ Valid(At(i))'
      /\ \A m \in 0 .. 1 : m # At(i) % 2 => slot'[m] = slot[m]
      /\ pair' <=> ~pair /\ toRead > 1
      /\ pair' => state' = "idle"
      /\ ~pair' => state' = "publish"
      /\ UNCHANGED <<call, active, stream, event, queue>>
  BY <1>3, ReadEffect
<1>5. Streaming'
  BY <1>3, <1>4 DEF Streaming, Known
<1>6. CASE Freed(n)
  <2>1. i = n + 1 /\ i \in 1 .. SeqCount /\ i < SeqCount /\ toRead = call.count - n
    BY <1>3, <1>6, Sizes DEF Freed, Known, Streaming
  <2>2. CASE n + 2 <= call.count
    <3>1. pair' /\ AtRest'
      <4>1. toRead > 1 /\ ~pair /\ AtRest
        BY <1>6, <2>1, <2>2 DEF Freed, Known
      <4> QED BY <1>4, <4>1 DEF AtRest
    <3>2. ~slot'[At(n + 2) % 2].ready
      <4>1. /\ At(i) % 2 \in 0 .. 1 /\ At(i + 1) % 2 \in 0 .. 1
            /\ At(i + 1) % 2 # At(i) % 2
        BY <2>1, Flips DEF Known
      <4>2. i + 1 = n + 2
        BY <2>1
      <4> QED BY <1>4, <1>6, <4>1, <4>2 DEF Freed
    <3>3. At(n + 2)' = At(n + 2)
      BY <1>4 DEF At
    <3>4. Half(n)' /\ Done' # n
      BY <1>4, <2>1, <2>2, <3>1, <3>2, <3>3 DEF Half
    <3> QED BY <1>5, <3>4 DEF Stage, Unfreed
  <2>3. CASE ~(n + 2 <= call.count)
    <3>1. BatchAt(n) = 1 /\ n + 1 = call.count /\ ~(toRead > 1)
      BY <2>1, <2>3, BatchIs DEF Known
    <3>2. BatchAt(n)' = 1
      BY <1>4, <3>1 DEF BatchAt
    <3>3. Full(n)' /\ Done' # n
      <4>1. ~(n + 2 <= call'.count)
        BY <1>4, <2>3
      <4> QED BY <1>4, <2>1, <3>1, <3>2, <4>1 DEF Full
    <3>4. Telling(n)'
      BY <1>4, <1>6, <3>1 DEF Telling, Freed, AtRest
    <3> QED BY <1>5, <3>3, <3>4 DEF Stage, Unfreed
  <2> QED BY <2>2, <2>3
<1>7. CASE Half(n)
  <2>1. i = n + 2 /\ n + 1 \in 1 .. SeqCount /\ n + 1 < SeqCount /\ n + 1 + 1 = i
    BY <1>3, <1>7, Sizes DEF Half, Known
  <2>2. BatchAt(n) = 2
    BY <1>7 DEF Half, BatchAt, Known
  <2>3. Valid(At(n + 1))'
    <3>1. At(n + 1) % 2 \in 0 .. 1 /\ At(i) % 2 # At(n + 1) % 2
      BY <2>1, Flips DEF Known
    <3>2. Valid(At(n + 1)) /\ At(n + 1)' = At(n + 1)
      BY <1>4, <1>7 DEF Half, At
    <3> QED BY <1>4, <3>1, <3>2 DEF Valid
  <2>4. BatchAt(n)' = 2
    BY <1>4, <2>2 DEF BatchAt
  <2>5. Full(n)' /\ Done' # n
    <3>1. ~pair'
      BY <1>4, <1>7 DEF Half
    <3> QED BY <1>4, <2>1, <2>3, <2>4, <3>1 DEF Full
  <2>6. Telling(n)'
    BY <1>4, <1>7 DEF Telling, Half, AtRest
  <2> QED BY <1>5, <2>5, <2>6 DEF Stage, Unfreed
<1> QED BY <1>1, <1>6, <1>7

LEMMA StagePublishes ==
  ASSUME Known, NEW n \in Nat, n < call.count, Streaming, Stage(n), Publish
  PROVE  Streaming' /\ Stage(n)' /\ ~Unfreed(n)'
<1>1. Full(n) /\ state' = "idle" /\ queue = <<>> /\ queue' = <<>>
  BY DEF Publish, Stage, Unfreed, Freed, Half, Telling, AtRest
<1>2. UNCHANGED <<call, active, cursor>>
  BY DEF Publish
<1>3. event' = At(n + BatchAt(n))
  <2>1. n + BatchAt(n) \in 1 .. SeqCount /\ n + BatchAt(n) < SeqCount
        /\ Done = n + BatchAt(n)
    BY <1>1, BatchIs DEF Full
  <2> QED BY <2>1, OneBack DEF Publish, Known
<1>4. Full(n)' /\ Streaming' /\ Done' = Done
  BY <1>1, <1>2 DEF Full, Streaming, Done, Valid, At, BatchAt, cursor
<1>5. Telling(n)' /\ ~AtRest'
  <2>1. At(n + BatchAt(n))' = At(n + BatchAt(n))
    BY <1>2 DEF At, BatchAt
  <2>2. n + BatchAt(n) \in 1 .. SeqCount
    BY BatchIs
  <2>3. At(n + BatchAt(n)) \in Seqs /\ None \notin Seqs
    BY <2>2, AtIs, Empties DEF Known
  <2> QED BY <1>1, <1>3, <2>1, <2>3 DEF Telling, AtRest
<1> QED BY <1>4, <1>5 DEF Stage, Unfreed

LEMMA StageDelivers ==
  ASSUME Known, NEW n \in Nat, n < call.count, Streaming, Stage(n), DeliverEvent
  PROVE  Streaming' /\ Stage(n)' /\ ~Unfreed(n)'
<1>1. /\ Full(n) /\ state = "idle" /\ event = At(n + BatchAt(n)) /\ queue = <<>>
  BY DEF DeliverEvent, Stage, Unfreed, Freed, Half, Telling, AtRest
<1>2. UNCHANGED <<call, engine>> /\ event' = None /\ queue' = <<At(n + BatchAt(n))>>
  BY <1>1, Sizes DEF DeliverEvent
<1>3. Full(n)' /\ Streaming' /\ state' = "idle"
  BY <1>1, <1>2 DEF Full, Streaming, Done, Valid, At, BatchAt, cursor, engine
<1>4. Telling(n)' /\ ~AtRest'
  <2>1. At(n + BatchAt(n))' = At(n + BatchAt(n))
    BY <1>2 DEF At, BatchAt
  <2> QED BY <1>2, <1>3, <2>1 DEF Telling, AtRest
<1> QED BY <1>3, <1>4 DEF Stage, Unfreed

(* An acknowledgement frees its own block and the one before it. *)
LEMMA AckSpares ==
  ASSUME TypeOK, Known, NEW j \in 1 .. call.count, NEW m \in 1 .. call.count, m # j, m # j - 1,
         Valid(At(m)), UNCHANGED call, slot' = AckSlots(At(j))
  PROVE  Valid(At(m))'
<1>1. j \in 1 .. SeqCount /\ m \in 1 .. SeqCount /\ m < SeqCount /\ j \in Nat /\ m \in Nat
      /\ j < SeqCount
  BY Sizes DEF Known
<1>2. At(m) # At(j)
  BY <1>1, AtTells DEF Known
<1>3. At(m) # Plus(At(j), SeqCount - 1)
  <2>1. CASE j > 1
    <3>1. j - 1 \in 1 .. SeqCount /\ j - 1 < SeqCount /\ j - 1 + 1 = j
      BY <1>1, <2>1, Sizes
    <3>2. Plus(At(j), SeqCount - 1) = At(j - 1)
      <4>1. Plus(At(j - 1 + 1), SeqCount - 1) = At(j - 1)
        BY <3>1, OneBack DEF Known
      <4> QED BY <3>1, <4>1
    <3> QED BY <1>1, <3>1, <3>2, AtTells DEF Known
  <2>2. CASE j = 1
    <3>1. At(1) = call.tag
      <4>1. Plus(call.tag, 0) = call.tag
        <5>1. call.tag \in Int /\ 0 <= call.tag /\ call.tag < SeqCount
          BY Sizes DEF Known, Seqs
        <5> QED BY <5>1, PlusIs, Empties DEF Known
      <4> QED BY <4>1 DEF At
    <3>2. At(SeqCount) = Plus(call.tag, SeqCount - 1) /\ SeqCount \in 1 .. SeqCount
      BY Sizes DEF At
    <3> QED BY <1>1, <2>2, <3>1, <3>2, AtTells DEF Known
  <2> QED BY <1>1, <2>1, <2>2
<1>4. At(m) % 2 \in 0 .. 1
  BY <1>1, Flips DEF Known
<1>5. AckSlots(At(j))[At(m) % 2] = slot[At(m) % 2]
  BY <1>2, <1>3, <1>4 DEF AckSlots, Valid
<1> QED BY <1>5 DEF Valid, At

LEMMA AckFrees ==
  ASSUME TypeOK, Known, stream, NEW n \in 2 .. call.count,
         Valid(At(n)), Valid(At(n - 1)), slot' = AckSlots(At(n))
  PROVE  \A k \in 0 .. 1 : ~slot'[k].ready
<1>1. n - 1 \in 1 .. SeqCount /\ n - 1 < SeqCount /\ n - 1 + 1 = n
  BY Sizes DEF Known
<1>2. Plus(At(n), SeqCount - 1) = At(n - 1)
  <2>1. Plus(At(n - 1 + 1), SeqCount - 1) = At(n - 1)
    BY <1>1, OneBack DEF Known
  <2> QED BY <1>1, <2>1
<1>3. At(n - 1) % 2 \in 0 .. 1 /\ At(n) % 2 \in 0 .. 1 /\ At(n) % 2 # At(n - 1) % 2
  <2>1. /\ At(n - 1) % 2 \in 0 .. 1 /\ At(n - 1 + 1) % 2 \in 0 .. 1
        /\ At(n - 1 + 1) % 2 # At(n - 1) % 2
    BY <1>1, Flips DEF Known
  <2> QED BY <1>1, <2>1
<1>4. SUFFICES ASSUME NEW k \in 0 .. 1 PROVE ~slot'[k].ready
  OBVIOUS
<1>5. k = At(n) % 2 \/ k = At(n - 1) % 2
  BY <1>3
<1>6. slot'[k] = [slot[k] EXCEPT !.ready = FALSE]
  BY <1>2, <1>5 DEF AckSlots, Valid
<1> QED BY <1>6 DEF Known, Places

LEMMA AckArrives ==
  ASSUME TypeOK, Known, NEW n \in Nat, n < call.count, stream, NEW t, Old(n, t),
         slot' = AckSlots(t), UNCHANGED <<call, nextBlock, pair, state, event, queue>>
  PROVE  /\ Stage(n) => Stage(n)'
         /\ Full(n) => Full(n)'
         /\ Unfreed(n)' /\ Stage(n) => Unfreed(n) /\ t # At(n)
<1>1. PICK j \in 1 .. n : j # n - 1 /\ t = At(j)
  BY DEF Old
<1>2. /\ j \in 1 .. call.count /\ j \in Nat /\ Done' = Done /\ AtRest' = AtRest
      /\ \A i : At(i)' = At(i)
      /\ BatchAt(n)' = BatchAt(n)
  BY <1>1 DEF Known, Done, AtRest, At, BatchAt
<1>3. \A k \in 0 .. 1 : slot'[k].ready => slot[k].ready
  BY FreedSlots
<1>4. \A m \in 1 .. call.count : m # j /\ m # j - 1 /\ Valid(At(m)) => Valid(At(m))'
  BY <1>1, <1>2, AckSpares
<1>5. Full(n) => Full(n)'
  <2>1. BatchAt(n) \in {1, 2} /\ n + BatchAt(n) <= call.count /\ call.count \in Nat
    BY BatchIs DEF Known
  <2>2. /\ n + 1 \in 1 .. call.count /\ n + 1 # j /\ n + 1 # j - 1
        /\ n + 2 <= call.count => n + 2 \in 1 .. call.count /\ n + 2 # j /\ n + 2 # j - 1
    BY <1>1, <2>1
  <2>3. Valid(At(n + 1)) => Valid(At(n + 1))'
    BY <1>4, <2>2
  <2>4. n + 2 <= call.count /\ Valid(At(n + 2)) => Valid(At(n + 2))'
    BY <1>4, <2>2
  <2> QED BY <1>2, <2>3, <2>4 DEF Full
<1>6. CASE Unfreed(n)
  <2>1. n >= 2 /\ n \in 2 .. call.count /\ Valid(At(n)) /\ Valid(At(n - 1))
    BY <1>6 DEF Unfreed, Known
  <2>2. CASE j = n
    <3>1. \A k \in 0 .. 1 : ~slot'[k].ready
      BY <1>1, <2>1, <2>2, AckFrees
    <3>2. Freed(n)'
      BY <1>2, <1>6, <3>1 DEF Unfreed, Freed
    <3>3. ~Unfreed(n)'
      <4>1. At(n) % 2 \in 0 .. 1
        <5>1. n \in 1 .. SeqCount /\ n < SeqCount
          BY <2>1, Sizes DEF Known
        <5> QED BY <5>1, Flips DEF Known
      <4> QED BY <1>2, <3>1, <4>1 DEF Unfreed, Valid
    <3> QED BY <1>5, <3>2, <3>3 DEF Stage
  <2>3. CASE j # n
    <3>1. /\ n \in 1 .. call.count /\ n # j /\ n # j - 1
          /\ n - 1 \in 1 .. call.count /\ n - 1 # j /\ n - 1 # j - 1
      <4>1. j \in Nat /\ j <= n /\ j # n - 1 /\ j # n /\ n >= 2
        BY <1>1, <2>1, <2>3
      <4> QED BY <4>1 DEF Known
    <3>2. Valid(At(n))' /\ Valid(At(n - 1))'
      BY <1>4, <2>1, <3>1
    <3>3. Unfreed(n)'
      BY <1>2, <1>6, <3>2 DEF Unfreed
    <3>4. t # At(n)
      <4>1. j \in 1 .. SeqCount /\ n \in 1 .. SeqCount
        BY <1>2, <2>1, Sizes DEF Known
      <4> QED BY <1>1, <2>3, <4>1, AtTells DEF Known
    <3> QED BY <1>5, <1>6, <3>3, <3>4 DEF Stage
  <2> QED BY <2>2, <2>3
<1>7. CASE Freed(n)
  <2>1. \A k \in 0 .. 1 : ~slot'[k].ready
    BY <1>3, <1>7 DEF Freed
  <2>2. Freed(n)'
    BY <1>2, <1>7, <2>1 DEF Freed
  <2>3. ~Unfreed(n)'
    <3>1. n >= 2 => At(n) % 2 \in 0 .. 1
      <4>1. n >= 2 => n \in 1 .. SeqCount /\ n < SeqCount
        BY Sizes DEF Known
      <4> QED BY <4>1, Flips DEF Known
    <3> QED BY <1>2, <2>1, <3>1 DEF Unfreed, Valid
  <2> QED BY <1>5, <2>2, <2>3 DEF Stage
<1>8. CASE Half(n)
  <2>1. n + 1 \in 1 .. call.count /\ n + 1 # j /\ n + 1 # j - 1
    BY <1>1, <1>8 DEF Half, Known
  <2>2. Valid(At(n + 1))'
    BY <1>4, <1>8, <2>1 DEF Half
  <2>3. ~slot'[At(n + 2) % 2].ready
    <3>1. n + 1 \in 1 .. SeqCount /\ n + 1 < SeqCount /\ n + 1 + 1 = n + 2
      BY <1>8, Sizes DEF Half, Known
    <3>2. At(n + 2) % 2 \in 0 .. 1
      BY <3>1, Flips DEF Known
    <3> QED BY <1>3, <1>8, <3>2 DEF Half
  <2>4. Half(n)' /\ ~Unfreed(n)'
    BY <1>2, <1>8, <2>2, <2>3 DEF Half, Unfreed
  <2> QED BY <1>5, <2>4 DEF Stage
<1>9. CASE Full(n) /\ Telling(n)
  <2>1. Telling(n)'
    BY <1>2, <1>9 DEF Telling
  <2>2. Done' # n
    BY <1>2, <1>9, BatchIs DEF Full
  <2> QED BY <1>5, <1>9, <2>1, <2>2 DEF Stage, Unfreed
<1> QED BY <1>5, <1>6, <1>7, <1>8, <1>9 DEF Stage

------------------------------------------------------------------------------
(* The MCU. *)
LEMMA BatchNumbers ==
  ASSUME IInv, InRange, pending = NoBlock, remaining > 0, NEW n, n = Len(got)
  PROVE  /\ n \in Nat /\ n < call.count /\ Known
         /\ BatchCount = BatchAt(n)
         /\ Plus(expected, 0) = At(n + 1)
         /\ BatchAt(n) = 2 => Plus(expected, 1) = At(n + 2)
         /\ Completion = At(n + BatchAt(n))
<1>1. /\ n \in Nat /\ n < call.count /\ n + remaining = call.count /\ Known
  BY InRangeFacts, InRangeKnown
<1>2. BatchCount = BatchAt(n) /\ BatchAt(n) \in {1, 2}
  BY <1>1, InRangeFacts DEF BatchCount, BatchAt
<1>3. expected = At(n + 1) /\ n + 1 \in 1 .. SeqCount /\ At(n + 1) \in Seqs
  <2>1. expected = At(n + 1) /\ n + 1 \in 1 .. SeqCount
    BY <1>1, Sizes DEF IInv, ReadInv, Known
  <2> QED BY <2>1, AtIs, <1>1 DEF Known
<1>4. Plus(expected, 0) = At(n + 1)
  BY <1>3, PlusIs, Empties, Sizes DEF Seqs
<1>5. ASSUME BatchAt(n) = 2 PROVE Plus(expected, 1) = At(n + 2)
  <2>1. n + 1 < SeqCount
    BY <1>1, Sizes DEF Known
  <2>2. Plus(At(n + 1), 1) = At(n + 1 + 1) /\ n + 1 + 1 = n + 2
    BY <1>1, <1>3, <2>1, AtIs DEF Known
  <2> QED BY <1>3, <2>2
<1>6. Completion = At(n + BatchAt(n))
  <2>1. CASE BatchAt(n) = 1
    BY <1>2, <1>4, <2>1 DEF Completion
  <2>2. CASE BatchAt(n) = 2
    BY <1>2, <1>5, <2>2 DEF Completion
  <2> QED BY <1>2, <2>1, <2>2
<1> QED BY <1>1, <1>2, <1>4, <1>5, <1>6

LEMMA CalmCalls ==
  ASSUME IInv, CalmInv, Calm, Caller \/ ReadRangeAbort \/ Leave
  PROVE  Calm'
<1>0. TypeOK
  BY DEF IInv
<1>1. pc = "idle" /\ Rests /\ ~ReadRangeAbort /\ ~Leave
  BY CallerCalls DEF Calm, ReadRangeAbort, Leave
<1>2. PICK op \in Ranges \cup {"write"}, n \in Nat : Call(op, n) /\ queue' = <<>>
  <2>1. CASE BeginRange
    <3>1. PICK op \in Ranges, n \in Counts : Call(op, n)
      BY <2>1 DEF BeginRange
    <3> QED BY <2>1, <3>1, InCounts DEF BeginRange
  <2>2. CASE MapperWrite
    BY <1>1, <2>2 DEF MapperWrite, Rests, Parked, AtRest
  <2> QED BY <1>1, <2>1, <2>2 DEF Caller
<1>3. op \in Operations
  BY DEF Operations
<1>4. /\ pc' = "wait" /\ call' \in Requests /\ call'.op = op /\ up' = Append(up, call')
      /\ UNCHANGED <<registers, engine, history>>
  BY <1>0, <1>2, <1>3, CallSends
<1>5. left' = Attempts - 1
  BY <1>2 DEF Call
<1>6. Unsaid' /\ Parked'
  BY <1>1, <1>2, <1>4 DEF Rests, Unsaid, Parked, AtRest, Busy, BlockReady, registers, engine, cursor
<1>7. /\ Len(up') > 0 /\ up'[Len(up')] = call'
      /\ \A i \in 1 .. Len(up') - 1 : up'[i].op = "ack"
  <2>1. up \in Seq(Requests \cup Acks) /\ call' \in Requests \cup Acks
    BY <1>0, <1>4 DEF TypeOK, WireTypeOK
  <2>2. \A i \in 1 .. Len(up) : up'[i] = up[i]
    BY <1>4, <2>1
  <2>3. Len(up') = Len(up) + 1 /\ up'[Len(up) + 1] = call'
    BY <1>4, <2>1
  <2> QED BY <1>1, <2>1, <2>2, <2>3 DEF Rests, OnlyAcks
<1>8. losses' >= Attempts' - 1 - left'
  BY <1>0, <1>4, <1>5, Sizes DEF TypeOK, WireTypeOK, history
<1>9. Waits'
  BY <1>4, <1>6, <1>7, <1>8 DEF Waits, Asked
<1> QED BY <1>4, <1>9 DEF Calm, InRange

(* A reply that the MCU takes is the answer to its request. *)
LEMMA CalmReplies ==
  ASSUME IInv, Calm, reply # NoReply
  PROVE  /\ pc = "wait" /\ Told /\ reply.ok /\ Matches(reply)
         /\ call.op \in Ranges \cup {"write"}
<1>1. pc = "wait" /\ Told /\ call.op \in Ranges \cup {"write"}
  BY DEF Calm, Rests, Waits, Follows, FollowsAt, Unsaid, InRange, Asked, Heard, Writing, Unheard
<1> QED BY <1>1 DEF Told, Result, Matches

LEMMA CalmAnswers ==
  ASSUME IInv, Calm, Answered
  PROVE  Calm'
<1>1. Matches(reply) /\ reply' = NoReply /\ UNCHANGED <<ops, call, up, request, event, engine, history>>
  BY DEF Answered
<1>2. reply # NoReply
  <2>1. pc = "wait" /\ reply.op = call.op
    BY <1>1 DEF Matches
  <2>2. call.op # "none"
    BY <2>1 DEF Calm, Waits, Ranges
  <2> QED BY <2>1, <2>2 DEF NoReply
<1>3. /\ pc = "wait" /\ Told /\ reply.ok /\ call.op \in Ranges \cup {"write"}
  BY <1>2, CalmReplies
<1>4. CASE call.op \in Ranges
  <2>1. StreamStarts /\ UNCHANGED queue
    BY <1>3, <1>4 DEF Answered, Ranges
  <2>2. InRange' /\ pc' = "next" /\ left' = AckRetries /\ lastAck' = None
    BY <2>1 DEF StreamStarts, InRange
  <2>3. call.count \in Counts /\ got' = <<>> /\ pending' = NoBlock /\ nextBlock.range = ops /\ ops > 0
    BY <2>2, RangeBegins
  <2>4. call.count > 0 /\ call.count \in Nat
    BY <2>3, InCounts
  <2>5. Base' = 0
    BY <2>3 DEF Base
  <2>6. Streaming' /\ Unsaid' /\ OnlyAcks' /\ up' = <<>>
    BY <1>1, <1>3, <1>4 DEF Told, Streaming, Unsaid, OnlyAcks, Done, engine, cursor
  <2>7. Stage(0)' /\ ~Unfreed(0)'
    <3>1. Stage(0) /\ UNCHANGED <<call, nextBlock, pair, slot, state, event, queue>>
      BY <1>1, <1>3, <1>4, <2>1 DEF Told, engine, cursor
    <3> QED BY <3>1, StageSame DEF Unfreed
  <2>8. AcksOld(0)'
    BY <2>6 DEF AcksOld
  <2>9. FollowsAt(0)'
    BY <1>1, <2>2, <2>4, <2>5, <2>6, <2>7, <2>8, Sizes DEF FollowsAt
  <2>10. Follows'
    BY <1>1, <2>4, <2>9 DEF Follows
  <2> QED BY <2>2, <2>10 DEF Calm, InRange
<1>5. CASE call.op = "write"
  <2>1. pc' = "idle" /\ UNCHANGED queue
    BY <1>3, <1>5 DEF Answered, Ranges
  <2>2. Unsaid' /\ OnlyAcks'
    BY <1>1, <1>3 DEF Told, Unsaid, OnlyAcks
  <2>3. Parked'
    BY <1>1, <1>3, <1>5, <2>1 DEF Told, Parked, AtRest, Busy, BlockReady, engine, cursor
  <2> QED BY <2>1, <2>2, <2>3 DEF Calm, Rests, InRange
<1> QED BY <1>3, <1>4, <1>5

LEMMA CalmTimeOut ==
  ASSUME IInv, CalmInv, FewerLost, Calm, TimeOut, ~mishap'
  PROVE  Calm'
<1>0. /\ losses \in Nat /\ left \in Nat /\ losses <= LossBudget /\ LossBudget < Attempts
      /\ LossBudget \in Nat /\ Attempts \in Nat
  BY Sizes DEF IInv, TypeOK, WireTypeOK, McuTypeOK, CalmInv, FewerLost
<1>1. pc = "wait" /\ Quiet /\ Waits
  BY DEF TimeOut, Calm
<1>2. call # NoCall
  BY <1>1 DEF Waits, NoCall, Ranges
<1>3. Unheard /\ up = <<>>
  <2>1. ~Told
    BY <1>1 DEF Told, Quiet, Result, NoReply, Waits, Ranges
  <2> QED BY <1>1, <1>2, <2>1 DEF Waits, Quiet, Asked, Heard, Writing
<1>4. left > 0 /\ Transmit(call) /\ left' = left - 1
      /\ UNCHANGED <<pc, ops, call, queue, registers, engine, losses>>
  BY <1>0, <1>3 DEF Unheard, TimeOut
<1>5. up' = <<call>>
  BY <1>3, <1>4 DEF Transmit
<1>6. Unsaid' /\ Parked'
  BY <1>3, <1>4 DEF Unheard, Unsaid, Parked, AtRest, Busy, BlockReady, registers, engine, cursor
<1>7. Asked'
  BY <1>4, <1>5, <1>6 DEF Asked
<1>8. losses' >= Attempts' - 1 - left'
  BY <1>0, <1>3, <1>4 DEF Unheard
<1> QED BY <1>1, <1>4, <1>7, <1>8 DEF Calm, Waits, InRange

LEMMA Following ==
  ASSUME IInv, Calm, InRange
  PROVE  Known /\ \E n \in 0 .. call.count : n \in Nat /\ n <= call.count /\ FollowsAt(n)
<1>1. Known
  BY InRangeKnown
<1>2. PICK n \in 0 .. call.count : FollowsAt(n)
  BY DEF Calm, Follows
<1>3. n \in Nat /\ n <= call.count
  BY <1>1 DEF Known
<1> QED BY <1>1, <1>2, <1>3

LEMMA StillFollows ==
  ASSUME NEW n \in 0 .. call.count, FollowsAt(n)', UNCHANGED call, pc' \in {"next", "read", "ack"}
  PROVE  Calm'
  BY DEF Calm, Follows, InRange

(* A step that leaves the engine and the wire alone. *)
LEMMA EngineStill ==
  ASSUME NEW n, FollowsAt(n), UNCHANGED <<call, up, registers, engine>>
  PROVE  /\ (Streaming /\ Unsaid /\ OnlyAcks)'
         /\ AcksOld(n) => AcksOld(n)'
         /\ Full(n) => Full(n)'
         /\ queue' = queue => (AtRest => AtRest') /\ (Finished => Finished')
         /\ queue' = queue => (Stage(n) => Stage(n)') /\ (Unfreed(n)' => Unfreed(n))
         /\ \A t : Valid(t) => Valid(t)'
         /\ Done' = Done
<1>1. UNCHANGED <<nextBlock, pair, slot, state, event, active, stream, toRead, request, reply>>
  BY DEF registers, engine, cursor
<1>2. (Streaming /\ Unsaid /\ OnlyAcks)'
  BY <1>1 DEF FollowsAt, Streaming, Unsaid, OnlyAcks, Done
<1>3. AcksOld(n) => AcksOld(n)'
  BY DEF AcksOld, Old, At
<1>4. Full(n) => Full(n)'
  BY <1>1 DEF Full, Done, Valid, At, BatchAt
<1>5. queue' = queue => (AtRest => AtRest') /\ (Finished => Finished')
  BY <1>1 DEF AtRest, Finished, Done
<1>6. queue' = queue => (Stage(n) => Stage(n)') /\ (Unfreed(n)' => Unfreed(n))
  BY <1>1, StageSame
<1>7. \A t : Valid(t) => Valid(t)'
  BY <1>1 DEF Valid
<1> QED BY <1>1, <1>2, <1>3, <1>4, <1>5, <1>6, <1>7 DEF Done

LEMMA CalmTakes ==
  ASSUME IInv, Calm, TakePending
  PROVE  Calm'
<1>1. InRange /\ pc = "next" /\ pc' = "next" /\ pending # NoBlock /\ pending' = NoBlock
  BY DEF TakePending, InRange
<1>2. PICK n \in 0 .. call.count : FollowsAt(n) /\ n \in Nat
  BY <1>1, Following
<1>3. UNCHANGED <<ops, call, lastAck, queue, up, registers, engine, history>>
      /\ left' = AckRetries /\ got' = Append(got, pending)
  BY DEF TakePending, Give
<1>4. /\ left \in Nat /\ losses \in Nat /\ AckRetries \in Nat /\ got \in Seq(Blocks)
      /\ pending \in Blocks /\ up \in Seq(Requests \cup Acks)
  BY Sizes DEF IInv, TypeOK, McuTypeOK, WireTypeOK, QueueTypeOK
<1>5. n = Base'
  BY <1>1, <1>2, <1>3, <1>4 DEF FollowsAt, Base
<1>6. AcksTried(n) => AcksTried(n)'
  <2>1. SUFFICES ASSUME AcksTried(n) PROVE AcksTried(n)'
    OBVIOUS
  <2>2. PICK k \in 0 .. Len(up) : /\ \A i \in k + 1 .. Len(up) : up[i].tag = At(n)
                                  /\ Len(up) - k + losses >= 1 + AckRetries - left
    BY <2>1 DEF AcksTried
  <2>3. left <= AckRetries
    BY <1>1, <1>2 DEF FollowsAt
  <2>4. Len(up) - k + losses >= 1 + AckRetries - left'
    BY <1>3, <1>4, <2>2, <2>3
  <2> QED BY <1>3, <2>2, <2>4 DEF AcksTried, At, history
<1>7. lastAck' = IF n = 0 THEN None ELSE At(n)'
  BY <1>1, <1>2, <1>3 DEF FollowsAt, At
<1>8. FollowsAt(n)'
  BY <1>1, <1>2, <1>3, <1>4, <1>5, <1>6, <1>7, EngineStill DEF FollowsAt
<1> QED BY <1>1, <1>3, <1>8, StillFollows

(* While the MCU waits nothing is given: the next block is the first of    *)
(* the batch.                                                              *)
LEMMA WaitingAt ==
  ASSUME IInv, Calm, InRange, pending = NoBlock, remaining > 0
  PROVE  /\ Known /\ \E n \in 0 .. call.count :
              /\ n \in Nat /\ n < call.count /\ FollowsAt(n) /\ n = Len(got)
              /\ BatchCount = BatchAt(n)
              /\ Plus(expected, 0) = At(n + 1)
              /\ BatchAt(n) = 2 => Plus(expected, 1) = At(n + 2)
              /\ Completion = At(n + BatchAt(n))
<1>1. PICK n \in 0 .. call.count : FollowsAt(n)
  BY Following
<1>2. n = Len(got)
  BY <1>1, InRangeFacts DEF FollowsAt, Base
<1> QED BY <1>1, <1>2, BatchNumbers

LEMMA CalmReceives ==
  ASSUME IInv, Calm, ReceiveEvent
  PROVE  Calm'
<1>1. /\ InRange /\ pc = "next" /\ pending = NoBlock /\ remaining > 0 /\ queue # <<>>
      /\ queue' = Tail(queue) /\ UNCHANGED <<call, bulk, up, registers, engine, history>>
  BY DEF ReceiveEvent, Waiting, InRange
<1>2. PICK n \in 0 .. call.count :
        /\ n \in Nat /\ n < call.count /\ FollowsAt(n)
        /\ Completion = At(n + BatchAt(n))
  BY <1>1, WaitingAt
<1>3. /\ Full(n) /\ state = "idle" /\ event = None /\ queue = <<At(n + BatchAt(n))>>
  BY <1>1, <1>2 DEF FollowsAt, Stage, Unfreed, Freed, Half, AtRest, Telling
<1>4. Head(queue) = Completion /\ queue' = <<>>
  BY <1>1, <1>2, <1>3
<1>5. pc' = "read" /\ left' = QspiAttempts
  BY <1>4 DEF ReceiveEvent
<1>6. n = Base'
  BY <1>1, <1>2 DEF FollowsAt, Base, bulk
<1>7. AtRest' /\ losses' >= QspiAttempts' - left'
  BY <1>1, <1>3, <1>4, <1>5, Sizes DEF AtRest, engine, registers, history, IInv, TypeOK, WireTypeOK
<1>8. FollowsAt(n)'
  BY <1>1, <1>2, <1>3, <1>5, <1>6, <1>7, EngineStill DEF FollowsAt
<1> QED BY <1>1, <1>5, <1>8, StillFollows

(* Waiting longer brings what the MCU waits for, unless every              *)
(* acknowledgement it sent was lost.                                       *)
LEMMA WaitPays ==
  ASSUME IInv, Known, NEW n \in Nat, n < call.count, FollowsAt(n), pc = "next", Quiet, queue = <<>>
  PROVE  Unfreed(n) /\ losses >= 1 + AckRetries - left
<1>1. Stage(n) /\ Streaming
  BY DEF FollowsAt
<1>2. ~CanRead /\ state = "idle" /\ event = None /\ up = <<>>
  BY DEF Quiet
<1>3. ~Freed(n)
  <2>1. SUFFICES ASSUME Freed(n) PROVE FALSE
    OBVIOUS
  <2>2. n + 1 \in 1 .. SeqCount /\ n + 1 < SeqCount + 1 /\ Done = n /\ toRead > 0
    BY <1>1, <2>1, Sizes DEF Known, Freed, Streaming
  <2>3. At(n + 1) \in Seqs
    BY <2>2, AtIs DEF Known
  <2>4. At(n + 1) % 2 \in 0 .. 1
    BY <2>3, Sizes DEF Seqs
  <2> QED BY <1>1, <1>2, <2>1, <2>2, <2>4 DEF CanRead, Known, Streaming, Freed
<1>4. ~Half(n)
  <2>1. SUFFICES ASSUME Half(n) PROVE FALSE
    OBVIOUS
  <2>2. Done + 1 = n + 2 /\ toRead > 0
    BY <1>1, <2>1 DEF Known, Half, Streaming
  <2> QED BY <1>1, <1>2, <2>1, <2>2 DEF CanRead, Known, Streaming, Half
<1>5. ~(Full(n) /\ Telling(n))
  <2>1. n + BatchAt(n) \in 1 .. SeqCount
    BY BatchIs
  <2>2. At(n + BatchAt(n)) \in Seqs /\ None \notin Seqs
    BY <2>1, AtIs, Empties DEF Known
  <2> QED BY <1>2, <2>2 DEF Telling
<1>6. Unfreed(n)
  BY <1>1, <1>3, <1>4, <1>5 DEF Stage
<1>7. losses >= 1 + AckRetries - left
  <2>1. PICK k \in 0 .. Len(up) : Len(up) - k + losses >= 1 + AckRetries - left
    BY <1>6 DEF FollowsAt, AcksTried
  <2>2. k = 0 /\ Len(up) = 0
    BY <1>2, <2>1
  <2> QED BY <2>1, <2>2 DEF IInv, TypeOK, WireTypeOK
<1> QED BY <1>6, <1>7

LEMMA CalmWaits ==
  ASSUME IInv, CalmInv, FewerLost, Calm, EventTimeout, ~mishap'
  PROVE  Calm'
<1>1. /\ InRange /\ pc = "next" /\ pending = NoBlock /\ remaining > 0 /\ queue = <<>>
      /\ left' = left - 1
      /\ UNCHANGED <<call, bulk, queue, registers, engine, losses>>
  BY DEF EventTimeout, Waiting, InRange
<1>2. PICK n \in 0 .. call.count : n \in Nat /\ n < call.count /\ FollowsAt(n) /\ n = Len(got)
  BY <1>1, WaitingAt
<1>3. /\ left \in Nat /\ left > 0 /\ losses \in Nat /\ AckRetries \in Nat /\ losses < AckRetries
      /\ up \in Seq(Requests \cup Acks) /\ Known
  BY <1>1, InRangeKnown, Sizes DEF IInv, TypeOK, McuTypeOK, WireTypeOK, CalmInv, FewerLost
<1>4. pc' = "next"
  <2>1. left # 1
    <3>1. left = 1 => Quiet
      BY DEF EventTimeout
    <3>2. left = 1 => losses >= 1 + AckRetries - left
      BY <1>1, <1>2, <1>3, <3>1, WaitPays
    <3> QED BY <1>3, <3>2
  <2> QED BY <1>1, <2>1 DEF EventTimeout
<1>5. n = Base'
  BY <1>1, <1>2 DEF FollowsAt, Base, bulk
<1>6. UNCHANGED <<nextBlock, pair, slot, state, event, active, stream, toRead, request, reply, lastAck>>
  BY <1>1 DEF registers, engine, cursor, bulk
<1>7. /\ Streaming' /\ Unsaid' /\ Stage(n)' /\ (Unfreed(n)' => Unfreed(n))
      /\ lastAck' = IF n = 0 THEN None ELSE At(n)'
  BY <1>1, <1>2, <1>6, StageSame DEF FollowsAt, Streaming, Unsaid, Done, At
<1>8. CASE n = 0
  <2>1. up' = up
    BY <1>1, <1>2, <1>8 DEF EventTimeout, FollowsAt
  <2>2. OnlyAcks' /\ AcksOld(n)' /\ ~Unfreed(n)'
    BY <1>1, <1>2, <1>8, <2>1 DEF FollowsAt, OnlyAcks, AcksOld, Old, At, Unfreed
  <2>3. FollowsAt(n)'
    BY <1>1, <1>2, <1>3, <1>4, <1>5, <1>7, <2>2 DEF FollowsAt
  <2> QED BY <1>1, <1>4, <2>3, StillFollows
<1>9. CASE n > 0
  <2>1. lastAck = At(n) /\ lastAck # None
    <3>1. n \in 1 .. SeqCount
      BY <1>2, <1>3, <1>9, Sizes DEF Known
    <3> QED BY <1>1, <1>2, <1>3, <1>9, <3>1, AtIs, Empties DEF FollowsAt, Known
  <2>2. PICK m \in Acks : m = [op |-> "ack", tag |-> At(n)] /\ up' = Append(up, m)
    <3>1. At(n) \in Seqs
      BY <2>1 DEF IInv, TypeOK, McuTypeOK
    <3> QED BY <2>1, <3>1 DEF EventTimeout, Transmit, Acks
  <2>3. /\ Len(up') = Len(up) + 1 /\ up'[Len(up) + 1] = m
        /\ \A i \in 1 .. Len(up) : up'[i] = up[i]
    BY <1>3, <2>2
  <2>4. OnlyAcks'
    BY <1>2, <1>3, <2>2, <2>3 DEF FollowsAt, OnlyAcks
  <2>5. AcksOld(n)'
    <3>1. Old(n, At(n))
      BY <1>2, <1>9 DEF Old
    <3>2. \A i \in 1 .. Len(up') : Old(n, up'[i].tag)
      BY <1>2, <1>3, <2>2, <2>3, <3>1 DEF FollowsAt, AcksOld
    <3> QED BY <1>1, <3>2 DEF AcksOld, Old, At
  <2>6. Unfreed(n) => AcksTried(n)'
    <3>1. SUFFICES ASSUME AcksTried(n) PROVE AcksTried(n)'
      BY <1>1, <1>2 DEF FollowsAt
    <3>2. PICK k \in 0 .. Len(up) : /\ \A i \in k + 1 .. Len(up) : up[i].tag = At(n)
                                    /\ Len(up) - k + losses >= 1 + AckRetries - left
      BY <3>1 DEF AcksTried
    <3>3. k \in 0 .. Len(up') /\ Len(up') - k + losses >= 1 + AckRetries - left'
      BY <1>1, <1>3, <2>3, <3>2
    <3>4. \A i \in k + 1 .. Len(up') : up'[i].tag = At(n)
      BY <1>3, <2>2, <2>3, <3>2
    <3> QED BY <1>1, <3>3, <3>4 DEF AcksTried, At
  <2>7. FollowsAt(n)'
    BY <1>1, <1>2, <1>3, <1>4, <1>5, <1>7, <2>4, <2>5, <2>6 DEF FollowsAt
  <2> QED BY <1>1, <1>4, <2>7, StillFollows
<1> QED BY <1>2, <1>8, <1>9

(* The blocks of a batch are there to be copied; only a spoilt read fails. *)
LEMMA CopyValid ==
  ASSUME IInv, Calm, pc = "read"
  PROVE  Valid(Plus(expected, Len(batch)))
<1>1. InRange /\ pending = NoBlock /\ remaining > 0 /\ Len(batch) < BatchCount
  BY DEF InRange, IInv, ReadInv
<1>2. PICK n \in 0 .. call.count :
        /\ n \in Nat /\ n < call.count /\ FollowsAt(n) /\ Known
        /\ BatchCount = BatchAt(n)
        /\ Plus(expected, 0) = At(n + 1)
        /\ BatchAt(n) = 2 => Plus(expected, 1) = At(n + 2)
  BY <1>1, WaitingAt
<1>3. Full(n)
  BY <1>2 DEF FollowsAt
<1>4. Len(batch) \in {0, 1} /\ (Len(batch) = 1 => BatchAt(n) = 2) /\ BatchAt(n) \in {1, 2}
  <2>1. Len(batch) \in Nat /\ BatchAt(n) \in {1, 2}
    BY <1>1, <1>2, InRangeFacts
  <2>2. Len(batch) < BatchAt(n)
    BY <1>1, <1>2
  <2>3. \A a \in Nat, b \in {1, 2} : a < b => a \in {0, 1} /\ (a = 1 => b = 2)
    OBVIOUS
  <2> QED BY <2>1, <2>2, <2>3
<1>5. CASE Len(batch) = 0
  BY <1>2, <1>3, <1>5 DEF Full
<1>6. CASE Len(batch) = 1
  BY <1>2, <1>3, <1>4, <1>6, BatchIs DEF Full
<1> QED BY <1>4, <1>5, <1>6

LEMMA CalmCopies ==
  ASSUME IInv, CalmInv, FewerLost, Calm, CopyBlock \/ CopyInvalid \/ Glitch
  PROVE  Calm'
<1>1. pc = "read" /\ InRange /\ pending = NoBlock
  BY DEF CopyBlock, CopyInvalid, Glitch, InRange, IInv, ReadInv
<1>2. PICK n \in 0 .. call.count : n \in Nat /\ FollowsAt(n)
  BY <1>1, Following
<1>3. /\ left \in Nat /\ losses \in Nat /\ QspiAttempts \in Nat /\ LossBudget < QspiAttempts
      /\ LossBudget \in Nat /\ losses >= QspiAttempts - left
  BY <1>1, <1>2, Sizes DEF IInv, TypeOK, McuTypeOK, WireTypeOK, FewerLost, FollowsAt
<1>4. ~CopyInvalid
  BY <1>1, CopyValid DEF CopyInvalid
<1>5. UNCHANGED <<call, got, pending, queue, up, registers, engine>>
  <2>1. CASE CopyBlock
    BY <2>1 DEF CopyBlock
  <2>2. CASE Glitch
    BY <2>2 DEF Glitch, ReadSpoilt
  <2> QED BY <1>4, <2>1, <2>2
<1>6. pc' \in {"read", "ack"} /\ (pc' = "read" => losses' >= QspiAttempts' - left')
  <2>1. CASE CopyBlock
    BY <1>3, <2>1 DEF CopyBlock, history
  <2>2. CASE Glitch
    <3>1. losses' = losses + 1 /\ losses < LossBudget /\ left' = left - 1
      BY <2>2 DEF Glitch, Lose, ReadSpoilt
    <3>2. left # 1
      BY <1>3, <3>1
    <3> QED BY <1>1, <1>3, <2>2, <3>1, <3>2 DEF Glitch, ReadSpoilt
  <2> QED BY <1>4, <2>1, <2>2
<1>7. n = Base'
  BY <1>2, <1>5 DEF FollowsAt, Base
<1>8. FollowsAt(n)'
  BY <1>1, <1>2, <1>5, <1>6, <1>7, EngineStill DEF FollowsAt
<1> QED BY <1>5, <1>6, <1>8, StillFollows

LEMMA CalmAcks ==
  ASSUME IInv, Calm, SendAck
  PROVE  Calm'
<1>1. /\ pc = "ack" /\ InRange /\ pending = NoBlock /\ remaining > 0
      /\ Len(batch) = BatchCount /\ \A i \in 1 .. Len(batch) : batch[i] = Nth(Len(got) + i)
  BY DEF SendAck, InRange, IInv, ReadInv
<1>2. PICK n \in 0 .. call.count :
        /\ n \in Nat /\ n < call.count /\ FollowsAt(n) /\ n = Len(got) /\ Known
        /\ BatchCount = BatchAt(n)
        /\ Completion = At(n + BatchAt(n))
  BY <1>1, WaitingAt
<1>3. BatchAt(n) \in {1, 2} /\ n + BatchAt(n) <= call.count
  BY <1>2, BatchIs
<1>4. PICK m \in 1 .. call.count : m = n + BatchAt(n)
  BY <1>2, <1>3 DEF Known
<1>5. /\ pc' = "next" /\ left' = AckRetries /\ lastAck' = At(m)
      /\ UNCHANGED <<call, queue, registers, engine, history>>
      /\ got' = Append(got, batch[1])
      /\ pending' = IF Len(batch) = 2 THEN batch[2] ELSE NoBlock
      /\ up' = Append(up, [op |-> "ack", tag |-> At(m)])
  BY <1>2, <1>4 DEF SendAck, Give, Transmit
<1>6. m = Base'
  <2>1. Len(got') = Len(got) + 1
    BY <1>5, InRangeFacts, <1>1
  <2>2. BatchAt(n) = 2 => pending' # NoBlock
    <3>1. BatchAt(n) = 2 => batch[2] = Nth(Len(got) + 2)
      BY <1>1, <1>2
    <3>2. NoBlock # Nth(Len(got) + 2)
      BY <1>1, InRangeFacts DEF NoBlock, Nth
    <3> QED BY <1>1, <1>2, <1>5, <3>1, <3>2
  <2>3. BatchAt(n) = 1 => pending' = NoBlock
    BY <1>1, <1>2, <1>5
  <2> QED BY <1>2, <1>3, <1>4, <2>1, <2>2, <2>3 DEF Base
<1>7. /\ Full(n) /\ AtRest /\ Streaming /\ Unsaid /\ OnlyAcks /\ AcksOld(n)
  BY <1>1, <1>2 DEF FollowsAt
<1>8. UNCHANGED <<nextBlock, pair, slot, state, event, active, stream, toRead, request, reply>>
  BY <1>5 DEF registers, engine, cursor
<1>9. Streaming' /\ Unsaid' /\ AtRest' /\ Done' = m /\ ~pair'
  BY <1>4, <1>5, <1>7, <1>8 DEF Streaming, Unsaid, AtRest, Done, Full
<1>10. /\ up \in Seq(Requests \cup Acks) /\ losses \in Nat /\ AckRetries \in Nat
       /\ At(m) \in Seqs /\ m \in Nat /\ call.count \in Nat
  <2>1. m \in 1 .. SeqCount
    BY <1>2, Sizes DEF Known
  <2> QED BY <1>2, <2>1, AtIs, Sizes DEF Known, IInv, TypeOK, WireTypeOK
<1>11. PICK a \in Acks : a = [op |-> "ack", tag |-> At(m)] /\ up' = Append(up, a)
  BY <1>5, <1>10 DEF Acks
<1>12. /\ Len(up') = Len(up) + 1 /\ up'[Len(up) + 1] = a
       /\ \A i \in 1 .. Len(up) : up'[i] = up[i]
  BY <1>10, <1>11
<1>13. OnlyAcks'
  BY <1>7, <1>10, <1>11, <1>12 DEF OnlyAcks
<1>14. CASE m = call.count
  <2>1. Finished'
    BY <1>5, <1>9, <1>14 DEF Finished
  <2>2. lastAck' = At(m)' /\ m # 0
    BY <1>5 DEF At
  <2>3. FollowsAt(m)'
    BY <1>5, <1>6, <1>9, <1>10, <1>13, <1>14, <2>1, <2>2 DEF FollowsAt
  <2> QED BY <1>5, <2>3, StillFollows
<1>15. CASE m < call.count
  <2>1. m = n + 2 /\ n + 2 <= call.count /\ m - 1 = n + 1
    BY <1>2, <1>3, <1>4, <1>15, BatchIs
  <2>2. Valid(At(m)) /\ Valid(At(m - 1))
    BY <1>7, <2>1 DEF Full
  <2>3. Valid(At(m))' /\ Valid(At(m - 1))'
    BY <1>5, <1>8, <2>2 DEF Valid, At
  <2>4. Unfreed(m)' /\ Stage(m)'
    BY <1>2, <1>9, <2>1, <2>3 DEF Unfreed, Stage
  <2>5. AcksTried(m)'
    <3>1. /\ Len(up) \in 0 .. Len(up') /\ Len(up') - Len(up) + losses' >= 1 + AckRetries - left'
      BY <1>5, <1>10, <1>12 DEF history
    <3>2. \A i \in Len(up) + 1 .. Len(up') : up'[i].tag = At(m)
      BY <1>10, <1>11, <1>12
    <3> QED BY <1>5, <3>1, <3>2 DEF AcksTried, At
  <2>6. AcksOld(m)'
    <3>1. \A t : Old(n, t) => Old(m, t)
      <4>1. SUFFICES ASSUME NEW j \in 1 .. n, j # n - 1 PROVE j \in 1 .. m /\ j # m - 1
        BY DEF Old
      <4> QED BY <1>2, <2>1
    <3>2. Old(m, At(m))
      BY <1>10 DEF Old
    <3>3. \A i \in 1 .. Len(up') : Old(m, up'[i].tag)
      BY <1>7, <1>10, <1>11, <1>12, <3>1, <3>2 DEF AcksOld
    <3> QED BY <1>5, <3>3 DEF AcksOld, Old, At
  <2>7. lastAck' = At(m)' /\ m # 0
    BY <1>5 DEF At
  <2>8. FollowsAt(m)'
    BY <1>5, <1>6, <1>9, <1>10, <1>13, <1>15, <2>4, <2>5, <2>6, <2>7 DEF FollowsAt
  <2> QED BY <1>5, <2>8, StillFollows
<1> QED BY <1>10, <1>14, <1>15

LEMMA CalmEnds ==
  ASSUME IInv, Calm, ReadRangeEnd
  PROVE  Calm'
<1>1. /\ pc = "next" /\ InRange /\ remaining = 0 /\ pending = NoBlock /\ pc' = "idle"
      /\ UNCHANGED <<call, queue, up, registers, engine, history>>
  BY DEF ReadRangeEnd, InRange
<1>2. PICK n \in 0 .. call.count : FollowsAt(n) /\ n \in Nat
  BY <1>1, Following
<1>3. n = call.count /\ Known
  BY <1>1, <1>2, InRangeFacts, InRangeKnown DEF FollowsAt, Base
<1>4. Finished /\ Streaming /\ Unsaid /\ OnlyAcks
  BY <1>1, <1>2, <1>3 DEF FollowsAt
<1>5. toRead = 0 /\ stream /\ active /\ AtRest
  BY <1>3, <1>4 DEF Finished, Streaming, Known
<1>6. Parked'
  BY <1>1, <1>5 DEF Parked, AtRest, Busy, BlockReady, registers, engine, cursor
<1>7. Unsaid' /\ OnlyAcks'
  BY <1>1, <1>4 DEF Unsaid, OnlyAcks, registers
<1> QED BY <1>1, <1>6, <1>7 DEF Calm, Rests, InRange

------------------------------------------------------------------------------
(* The wire. *)
LEMMA Popped ==
  ASSUME IInv, up # <<>>, up' = Tail(up)
  PROVE  /\ Len(up) \in Nat /\ Len(up) > 0 /\ Len(up') = Len(up) - 1 /\ Head(up) = up[1]
         /\ \A i \in 1 .. Len(up') : up'[i] = up[i + 1] /\ i + 1 \in 1 .. Len(up)
         /\ Len(up) = 1 => up' = <<>>
<1>1. up \in Seq(Requests \cup Acks)
  BY DEF IInv, TypeOK, WireTypeOK
<1> QED BY <1>1

(* A frame leaves the wire: it is an acknowledgement, unless it is the     *)
(* request of the running call.                                            *)
LEMMA WireHolds ==
  ASSUME IInv, Calm, up # <<>>, up' = Tail(up)
  PROVE  /\ pc = "idle" => Rests /\ OnlyAcks' /\ Head(up).op = "ack"
         /\ pc = "wait" =>
              \/ Unheard /\ OnlyAcks' /\ Head(up).op = "ack"
              \/ /\ Asked /\ Head(up).op = "ack"
                 /\ Len(up') > 0 /\ up'[Len(up')] = call
                 /\ \A i \in 1 .. Len(up') - 1 : up'[i].op = "ack"
              \/ Asked /\ Head(up) = call /\ call.op # "ack" /\ up' = <<>>
         /\ InRange => Head(up).op = "ack" /\ OnlyAcks /\ OnlyAcks'
<1>1. /\ Len(up) \in Nat /\ Len(up) > 0 /\ Len(up') = Len(up) - 1 /\ Head(up) = up[1]
      /\ \A i \in 1 .. Len(up') : up'[i] = up[i + 1] /\ i + 1 \in 1 .. Len(up)
      /\ Len(up) = 1 => up' = <<>>
  BY Popped
<1>2. OnlyAcks => Head(up).op = "ack" /\ OnlyAcks'
  <2>1. SUFFICES ASSUME OnlyAcks PROVE Head(up).op = "ack" /\ OnlyAcks'
    OBVIOUS
  <2>2. 1 \in 1 .. Len(up)
    BY <1>1
  <2> QED BY <1>1, <2>1, <2>2 DEF OnlyAcks
<1>3. pc = "idle" => Rests /\ OnlyAcks
  BY DEF Calm, Rests
<1>4. InRange => OnlyAcks
  BY DEF Calm, Follows, FollowsAt
<1>5. ASSUME pc = "wait" PROVE (Unheard /\ OnlyAcks) \/ Asked
  BY <1>5 DEF Calm, Waits, Heard, Writing, Told, Unheard
<1>6. ASSUME Asked, Len(up) = 1 PROVE Head(up) = call /\ up' = <<>>
  BY <1>1, <1>6 DEF Asked
<1>7. ASSUME Asked, Len(up) # 1
      PROVE  /\ Head(up).op = "ack" /\ Len(up') > 0 /\ up'[Len(up')] = call
             /\ \A i \in 1 .. Len(up') - 1 : up'[i].op = "ack"
  <2>1. up[Len(up)] = call /\ \A i \in 1 .. Len(up) - 1 : up[i].op = "ack"
    BY <1>7 DEF Asked
  <2>2. Len(up') \in Nat /\ Len(up') > 0 /\ Len(up') \in 1 .. Len(up') /\ 1 \in 1 .. Len(up) - 1
        /\ Len(up') + 1 = Len(up)
    BY <1>1, <1>7
  <2>3. Head(up).op = "ack" /\ up'[Len(up')] = call
    BY <1>1, <2>1, <2>2
  <2>4. ASSUME NEW i \in 1 .. Len(up') - 1 PROVE up'[i].op = "ack"
    <3>1. i \in 1 .. Len(up') /\ i + 1 \in 1 .. Len(up) - 1
      BY <1>1, <2>2
    <3> QED BY <1>1, <2>1, <3>1
  <2> QED BY <2>2, <2>3, <2>4
<1>8. pc = "wait" => call.op # "ack"
  BY DEF Calm, Waits, Ranges
<1> QED BY <1>2, <1>3, <1>4, <1>5, <1>6, <1>7, <1>8

(* One frame less on the wire.                                             *)
LEMMA AcksPopped ==
  ASSUME IInv, up # <<>>, up' = Tail(up), NEW n, UNCHANGED <<call, left>>
  PROVE  /\ AcksOld(n) => AcksOld(n)' /\ Old(n, Head(up).tag)
         /\ AcksTried(n) /\ losses' = losses + 1 => AcksTried(n)'
         /\ AcksTried(n) /\ losses' = losses /\ Head(up).tag # At(n) => AcksTried(n)'
<1>1. /\ Len(up) \in Nat /\ Len(up) > 0 /\ Len(up') = Len(up) - 1 /\ Head(up) = up[1]
      /\ \A i \in 1 .. Len(up') : up'[i] = up[i + 1] /\ i + 1 \in 1 .. Len(up)
      /\ 1 \in 1 .. Len(up)
  BY Popped
<1>2. AcksOld(n) => AcksOld(n)' /\ Old(n, Head(up).tag)
  BY <1>1 DEF AcksOld, Old, At
<1>3. losses \in Nat /\ left \in Nat /\ AckRetries \in Nat
  BY Sizes DEF IInv, TypeOK, McuTypeOK, WireTypeOK
<1>4. ASSUME AcksTried(n), losses' = losses + 1 \/ (losses' = losses /\ Head(up).tag # At(n))
      PROVE  AcksTried(n)'
  <2>1. PICK k \in 0 .. Len(up) : /\ \A i \in k + 1 .. Len(up) : up[i].tag = At(n)
                                  /\ Len(up) - k + losses >= 1 + AckRetries - left
    BY <1>4 DEF AcksTried
  <2>2. CASE k > 0
    <3>1. k - 1 \in 0 .. Len(up') /\ Len(up') - (k - 1) + losses' >= 1 + AckRetries - left'
      BY <1>1, <1>3, <1>4, <2>1, <2>2
    <3>2. \A i \in k - 1 + 1 .. Len(up') : up'[i].tag = At(n)
      <4>1. SUFFICES ASSUME NEW i \in k - 1 + 1 .. Len(up') PROVE up'[i].tag = At(n)
        OBVIOUS
      <4>2. i \in 1 .. Len(up') /\ i + 1 \in k + 1 .. Len(up)
        BY <1>1, <2>1, <2>2
      <4> QED BY <1>1, <2>1, <4>2
    <3> QED BY <3>1, <3>2 DEF AcksTried, At
  <2>3. CASE k = 0
    <3>1. losses' = losses + 1
      BY <1>1, <1>4, <2>1, <2>3
    <3>2. 0 \in 0 .. Len(up') /\ Len(up') - 0 + losses' >= 1 + AckRetries - left'
      BY <1>1, <1>3, <2>1, <2>3, <3>1
    <3>3. \A i \in 0 + 1 .. Len(up') : up'[i].tag = At(n)
      <4>1. SUFFICES ASSUME NEW i \in 0 + 1 .. Len(up') PROVE up'[i].tag = At(n)
        OBVIOUS
      <4>2. i \in 1 .. Len(up') /\ i + 1 \in k + 1 .. Len(up)
        BY <1>1, <2>3
      <4> QED BY <1>1, <2>1, <4>2
    <3> QED BY <3>2, <3>3 DEF AcksTried, At
  <2> QED BY <2>1, <2>2, <2>3
<1> QED BY <1>2, <1>4

LEMMA CalmLoses ==
  ASSUME IInv, Calm, LoseFrame
  PROVE  Calm'
<1>1. /\ up # <<>> /\ up' = Tail(up) /\ losses' = losses + 1
      /\ UNCHANGED <<pc, ops, call, left, bulk, queue, registers, engine>>
  BY DEF LoseFrame, Lose
<1>2. /\ losses \in Nat /\ left \in Nat /\ Attempts \in Nat /\ QspiAttempts \in Nat
  BY Sizes DEF IInv, TypeOK, McuTypeOK, WireTypeOK
<1>3. (Parked => Parked') /\ (Unsaid => Unsaid')
  BY <1>1 DEF Parked, Unsaid, AtRest, Busy, BlockReady, registers, engine, cursor
<1>4. CASE pc = "idle"
  BY <1>1, <1>3, <1>4, WireHolds DEF Calm, Rests, InRange
<1>5. CASE pc = "wait"
  <2>1. call.op \in Ranges \cup {"write"} /\ losses >= Attempts - 1 - left
    BY <1>5 DEF Calm, Waits
  <2>2. losses' >= Attempts' - 1 - left' /\ losses' >= Attempts' - left'
    BY <1>1, <1>2, <2>1
  <2>3. Unheard' \/ Asked'
    <3>1. CASE Unheard /\ OnlyAcks'
      BY <1>3, <2>2, <3>1 DEF Unheard
    <3>2. CASE /\ Asked /\ Len(up') > 0 /\ up'[Len(up')] = call
               /\ \A i \in 1 .. Len(up') - 1 : up'[i].op = "ack"
      BY <1>1, <1>3, <3>2 DEF Asked
    <3>3. CASE Asked /\ up' = <<>>
      BY <1>3, <2>2, <3>3 DEF Asked, Unheard, OnlyAcks
    <3> QED BY <1>1, <1>5, <3>1, <3>2, <3>3, WireHolds
  <2> QED BY <1>1, <1>5, <2>1, <2>2, <2>3 DEF Calm, Waits, InRange
<1>6. CASE InRange
  <2>1. PICK n \in 0 .. call.count : FollowsAt(n) /\ n \in Nat
    BY <1>6, Following
  <2>2. OnlyAcks' /\ (AcksOld(n) => AcksOld(n)') /\ (AcksTried(n) => AcksTried(n)')
    BY <1>1, <1>6, WireHolds, AcksPopped
  <2>3. UNCHANGED <<nextBlock, pair, slot, state, event, active, stream, toRead, queue,
                    got, pending, lastAck>>
    BY <1>1 DEF registers, engine, cursor, bulk
  <2>4. /\ (Stage(n) => Stage(n)') /\ (Unfreed(n)' => Unfreed(n)) /\ (Full(n) => Full(n)')
    BY <1>1, <2>3, StageSame
  <2>5. n = Base' /\ Streaming' /\ Unsaid' /\ (Finished => Finished') /\ (AtRest => AtRest')
        /\ At(n)' = At(n)
    BY <1>1, <1>3, <2>1, <2>3
       DEF FollowsAt, Base, Streaming, Done, Finished, AtRest, At
  <2>6. pc' = "read" => losses' >= QspiAttempts' - left'
    BY <1>1, <1>2, <2>1 DEF FollowsAt
  <2>7. FollowsAt(n)'
    BY <1>1, <2>1, <2>2, <2>3, <2>4, <2>5, <2>6 DEF FollowsAt
  <2> QED BY <1>1, <1>6, <2>7, StillFollows DEF InRange
<1> QED BY <1>4, <1>5, <1>6 DEF Calm, InRange

LEMMA CalmArrives ==
  ASSUME IInv, Calm, Arrive
  PROVE  Calm'
<1>1. /\ up # <<>> /\ up' = Tail(up)
      /\ UNCHANGED <<pc, ops, call, left, bulk, queue, reply, event, active, state, current,
                     stream, toRead, nextSeq, nextBlock, pair, losses>>
  BY DEF Arrive, history
<1>2. ASSUME Head(up).op = "ack"
      PROVE  /\ request' = request /\ (slot' = slot \/ (active /\ slot' = AckSlots(Head(up).tag)))
             /\ ~stream => slot' = slot
             /\ active => slot' = AckSlots(Head(up).tag)
  BY <1>2 DEF Arrive, AckSlots
<1>3. ASSUME Head(up).op = "ack" PROVE (Parked => Parked') /\ (Unsaid => Unsaid')
  BY <1>1, <1>2, <1>3 DEF Parked, Unsaid, AtRest, Busy, BlockReady
<1>4. CASE pc = "idle"
  BY <1>1, <1>3, <1>4, WireHolds DEF Calm, Rests, InRange
<1>5. CASE pc = "wait"
  <2>1. call.op \in Ranges \cup {"write"} /\ losses' >= Attempts' - 1 - left'
    BY <1>1, <1>5 DEF Calm, Waits
  <2>2. Unheard' \/ Asked' \/ Heard'
    <3>1. CASE Unheard /\ OnlyAcks' /\ Head(up).op = "ack"
      BY <1>1, <1>3, <3>1 DEF Unheard
    <3>2. CASE /\ Asked /\ Head(up).op = "ack" /\ Len(up') > 0 /\ up'[Len(up')] = call
               /\ \A i \in 1 .. Len(up') - 1 : up'[i].op = "ack"
      BY <1>1, <1>3, <3>2 DEF Asked
    <3>3. CASE Asked /\ Head(up) = call /\ call.op # "ack" /\ up' = <<>>
      <4>1. request' = call /\ slot' = slot
        BY <3>3 DEF Arrive, Asked, Unsaid
      <4>2. Parked' /\ reply' = NoReply
        BY <1>1, <3>3, <4>1 DEF Asked, Unsaid, Parked, AtRest, Busy, BlockReady
      <4> QED BY <1>1, <3>3, <4>1, <4>2 DEF Heard
    <3> QED BY <1>1, <1>5, <3>1, <3>2, <3>3, WireHolds
  <2> QED BY <1>1, <1>5, <2>1, <2>2 DEF Calm, Waits, InRange
<1>6. CASE InRange
  <2>1. Known /\ \E n \in 0 .. call.count : n \in Nat /\ n <= call.count /\ FollowsAt(n)
    BY <1>6, Following
  <2>2. PICK n \in 0 .. call.count : n \in Nat /\ n <= call.count /\ FollowsAt(n)
    BY <2>1
  <2>3. /\ Head(up).op = "ack" /\ OnlyAcks' /\ (AcksOld(n) => AcksOld(n)' /\ Old(n, Head(up).tag))
        /\ AcksTried(n) /\ Head(up).tag # At(n) => AcksTried(n)'
    BY <1>1, <1>6, WireHolds, AcksPopped
  <2>4. Unsaid' /\ slot' = AckSlots(Head(up).tag) /\ stream
    BY <1>2, <1>3, <2>2, <2>3 DEF FollowsAt, Streaming
  <2>5. n = Base' /\ Streaming' /\ (Finished => Finished') /\ (AtRest => AtRest') /\ At(n)' = At(n)
        /\ lastAck' = lastAck
    BY <1>1, <2>2 DEF FollowsAt, Base, Streaming, Done, Finished, AtRest, At, bulk
  <2>6. pc' = "read" => losses' >= QspiAttempts' - left'
    BY <1>1, <2>2 DEF FollowsAt
  <2>7. n < call.count => /\ Stage(n) => Stage(n)'
                          /\ Full(n) => Full(n)'
                          /\ Unfreed(n)' /\ Stage(n) => Unfreed(n) /\ Head(up).tag # At(n)
    <3>1. SUFFICES ASSUME n < call.count
                   PROVE  /\ Stage(n) => Stage(n)'
                          /\ Full(n) => Full(n)'
                          /\ Unfreed(n)' /\ Stage(n) => Unfreed(n) /\ Head(up).tag # At(n)
      OBVIOUS
    <3>2. Old(n, Head(up).tag) /\ TypeOK
      BY <2>2, <2>3, <3>1 DEF FollowsAt, IInv
    <3> QED BY <1>1, <2>1, <2>2, <2>4, <3>1, <3>2, AckArrives
  <2>8. FollowsAt(n)'
    BY <1>1, <2>2, <2>3, <2>4, <2>5, <2>6, <2>7 DEF FollowsAt
  <2> QED BY <1>1, <1>6, <2>8, StillFollows DEF InRange
<1> QED BY <1>4, <1>5, <1>6 DEF Calm, InRange

------------------------------------------------------------------------------
(* The engine. *)
(* What it takes is the request of the running call. *)
LEMMA TakesTheCall ==
  ASSUME IInv, Calm, Take
  PROVE  /\ pc = "wait" /\ Heard /\ request = call /\ call.op \in Ranges \cup {"write"}
         /\ losses >= Attempts - 1 - left /\ call \in Requests
<1>1. request # NoCall
  BY DEF Take, Accepts
<1>2. pc = "wait" /\ Heard
  BY <1>1 DEF Calm, Rests, Waits, Follows, FollowsAt, Unsaid, InRange, Asked, Writing, Told, Unheard
<1>3. request = call /\ call \in Requests
  BY <1>1, <1>2 DEF Heard, IInv, TypeOK, WireTypeOK
<1> QED BY <1>2, <1>3 DEF Calm, Waits

LEMMA NotRefused ==
  ASSUME IInv, Calm
  PROVE  ~Refuse /\ ~Abort /\ ~Exit
<1>1. ASSUME Take PROVE /\ active /\ ~Busy
                        /\ request.op \in Ranges \cup {"write"}
  BY <1>1, TakesTheCall DEF Heard, Parked
<1>2. \A op \in Ranges \cup {"write"} : op # "abort" /\ op # "exit"
  BY DEF Ranges
<1>3. ~Refuse
  BY <1>1, <1>2 DEF Refuse
<1> QED BY <1>1, <1>2, <1>3 DEF Abort, Exit

LEMMA CalmStarts ==
  ASSUME IInv, Calm, StartRange \/ StartWrite
  PROVE  Calm'
<1>0. TypeOK
  BY DEF IInv
<1>1. Take
  BY DEF StartRange, StartWrite
<1>2. /\ pc = "wait" /\ Heard /\ request = call /\ call.op \in Ranges \cup {"write"}
      /\ losses >= Attempts - 1 - left /\ call \in Requests
  BY <1>1, TakesTheCall
<1>3. /\ request' = NoCall /\ current' = call
      /\ UNCHANGED <<pc, ops, call, left, bulk, queue, up, history>>
      /\ up = <<>> /\ reply = NoReply /\ AtRest /\ active /\ call.count \in Nat
  BY <1>1, <1>2 DEF Take, Heard, Parked, Requests
<1>4. slot' = Cleared /\ pair' = FALSE /\ active' = active /\ event' = event
  BY DEF StartRange, StartWrite, StopStream
<1>5. \A k \in 0 .. 1 : ~slot'[k].ready
  BY <1>0, <1>4, FreedSlots
<1>6. CASE StartRange
  <2>1. /\ call.op \in Ranges /\ stream' /\ toRead' = call.count
        /\ nextBlock' = [range |-> call.id, index |-> 1]
    BY <1>2, <1>6 DEF StartRange
  <2>2. Done' = 0
    BY <2>1 DEF Done
  <2>3. Streaming'
    BY <1>3, <1>4, <2>1, <2>2 DEF Streaming
  <2>4. call.op # "write"
    BY <2>1 DEF Ranges
  <2>5. CASE call.op = "mapped"
    <3>1. state' = "writing" /\ reply' = NoReply
      BY <1>2, <1>3, <1>6, <2>5 DEF StartRange
    <3>2. Writing'
      BY <1>3, <1>4, <1>5, <2>2, <2>3, <2>4, <3>1 DEF Writing, Unsaid, AtRest
    <3> QED BY <1>2, <1>3, <3>2 DEF Calm, Waits, InRange, history
  <2>6. CASE call.op # "mapped"
    <3>1. state' = state /\ reply' = Result(call, TRUE)
      BY <1>2, <1>6, <2>6 DEF StartRange
    <3>2. Freed(0)'
      BY <1>3, <1>4, <1>5, <2>2, <3>1 DEF Freed, AtRest
    <3>3. Told'
      BY <1>3, <2>3, <2>4, <3>1, <3>2 DEF Told, Stage, Result
    <3> QED BY <1>2, <1>3, <3>3 DEF Calm, Waits, InRange, history
  <2> QED BY <2>5, <2>6
<1>7. CASE StartWrite
  <2>1. call.op = "write" /\ ~stream' /\ state' = "writing" /\ reply' = NoReply
    BY <1>2, <1>3, <1>7 DEF StartWrite, StopStream
  <2>2. call.op \notin Ranges
    BY <2>1 DEF Ranges
  <2>3. Writing'
    BY <1>3, <1>4, <1>5, <2>1, <2>2 DEF Writing, Unsaid, AtRest
  <2> QED BY <1>2, <1>3, <2>3 DEF Calm, Waits, InRange, history
<1> QED BY <1>6, <1>7

LEMMA CalmWrites ==
  ASSUME IInv, Calm, WriteDone
  PROVE  Calm'
<1>1. /\ state = "writing" /\ state' = "idle" /\ reply' = Result(current, TRUE)
      /\ UNCHANGED <<pc, ops, call, left, bulk, queue, up, request, event,
                     active, current, cursor, history>>
  BY DEF WriteDone
<1>2. pc = "wait" /\ Waits /\ Writing
  <2>1. reply = NoReply /\ ~AtRest /\ ~Parked
    BY <1>1 DEF IInv, WireInv, AtRest, Parked
  <2>2. ~InRange
    <3>1. \A n : Stage(n) => state # "writing"
      BY DEF Stage, Unfreed, Freed, Half, Telling, AtRest
    <3>2. SUFFICES ASSUME InRange PROVE FALSE
      OBVIOUS
    <3>3. PICK n \in 0 .. call.count : FollowsAt(n) /\ n <= call.count /\ Known
      BY <3>2, Following
    <3>4. n < call.count \/ n = call.count
      BY <3>3 DEF Known
    <3> QED BY <1>1, <2>1, <3>1, <3>3, <3>4 DEF FollowsAt, Finished
  <2>3. pc = "wait" /\ Waits
    BY <2>1, <2>2 DEF Calm, Rests, InRange
  <2>4. ~Told
    BY <2>1, <2>3 DEF Told, Result, NoReply, Waits, Ranges
  <2> QED BY <2>1, <2>3, <2>4 DEF Waits, Asked, Heard, Unheard
<1>3. UNCHANGED <<stream, toRead, nextSeq, nextBlock, pair, slot>> /\ current = call
  BY <1>1, <1>2 DEF cursor, Writing
<1>4. ASSUME call.op \in Ranges PROVE Streaming' /\ Stage(0)'
  BY <1>1, <1>2, <1>3, <1>4 DEF Writing, Streaming, Stage, Freed, Done, AtRest
<1>5. ASSUME call.op = "write" PROVE Parked'
  BY <1>1, <1>2, <1>3, <1>5 DEF Writing, Parked, AtRest, Busy, BlockReady
<1>6. Told'
  BY <1>1, <1>2, <1>3, <1>4, <1>5 DEF Told, Writing, Unsaid, Result
<1> QED BY <1>1, <1>2, <1>6 DEF Calm, Waits, InRange, history

(* Blocks are read, told and heard of while a range is read, and only then. *)
LEMMA StageGoes ==
  ASSUME IInv, Known, NEW n \in Nat, n < call.count, Streaming, Stage(n),
         ReadBlock \/ Publish \/ DeliverEvent
  PROVE  Streaming' /\ Stage(n)' /\ ~Unfreed(n)'
<1>1. TypeOK
  BY DEF IInv
<1> QED BY <1>1, StageReads, StagePublishes, StageDelivers

LEMMA EngineIdles ==
  ASSUME IInv, ReadBlock \/ Publish \/ DeliverEvent
  PROVE  /\ ~Parked
         /\ ~Writing
         /\ ~(Finished /\ Streaming /\ Known)
         /\ \A n \in Nat : n < call.count /\ Streaming /\ Known => ~(Full(n) /\ AtRest)
<1>1. \/ CanRead
      \/ state = "publish" /\ event = None
      \/ event # None
  BY DEF ReadBlock, Publish, DeliverEvent
<1>2. ~Parked /\ ~Writing
  BY <1>1 DEF Parked, AtRest, Busy, Writing, CanRead
<1>3. ~(Finished /\ Streaming /\ Known)
  <2>1. SUFFICES ASSUME Finished, Streaming, Known PROVE FALSE
    OBVIOUS
  <2>2. toRead = 0
    BY <2>1 DEF Finished, Streaming, Known
  <2> QED BY <1>1, <2>1, <2>2 DEF Finished, AtRest, CanRead
<1>4. ASSUME NEW n \in Nat, n < call.count, Streaming, Known, Full(n), AtRest PROVE FALSE
  <2>1. ~CanRead
    BY <1>4, FullWaits DEF IInv
  <2> QED BY <1>1, <1>4, <2>1 DEF AtRest
<1> QED BY <1>2, <1>3, <1>4

LEMMA CalmGoesOn ==
  ASSUME IInv, Calm, ReadBlock \/ Publish \/ DeliverEvent
  PROVE  Calm'
<1>1. UNCHANGED <<pc, ops, call, left, bulk, up, request, reply, history>>
  BY DEF ReadBlock, Publish, DeliverEvent, registers
<1>2. CASE pc = "idle"
  BY <1>2, EngineIdles DEF Calm, Rests
<1>3. CASE pc = "wait"
  <2>1. Waits /\ Told /\ call.op \in Ranges
    BY <1>3, EngineIdles DEF Calm, Waits, Asked, Heard, Unheard, Told
  <2>2. reply.ok /\ reply.op \in Ranges /\ reply.id = ops /\ ops > 0
    <3>1. reply.ok /\ reply.op = call.op /\ reply.id = call.id
      BY <2>1 DEF Told, Result
    <3> QED BY <1>3, <2>1, <3>1 DEF IInv, CallInv
  <2>3. Known /\ 0 < call.count
    <3>1. nextBlock.range = ops
      BY <2>2 DEF IInv, OwnInv
    <3> QED BY <2>2, <3>1, StreamKnown DEF Known
  <2>4. Streaming' /\ Stage(0)'
    BY <2>1, <2>3, StageGoes DEF Told
  <2>5. call.op # "write"
    BY <2>1 DEF Ranges
  <2>6. Told'
    BY <1>1, <2>1, <2>4, <2>5 DEF Told, Result
  <2> QED BY <1>1, <1>3, <2>1, <2>6 DEF Calm, Waits, InRange, history
<1>4. CASE InRange
  <2>1. Known /\ \E n \in 0 .. call.count : n \in Nat /\ n <= call.count /\ FollowsAt(n)
    BY <1>4, Following
  <2>2. PICK n \in 0 .. call.count : n \in Nat /\ n <= call.count /\ FollowsAt(n)
    BY <2>1
  <2>3. pc = "next" /\ n < call.count /\ Stage(n) /\ Streaming
    <3>1. pc = "next"
      BY <2>1, <2>2, EngineIdles DEF FollowsAt
    <3>2. n # call.count
      BY <2>1, <2>2, <3>1, EngineIdles DEF FollowsAt
    <3>3. n < call.count
      BY <2>1, <2>2, <3>2 DEF Known
    <3> QED BY <2>2, <3>1, <3>3 DEF FollowsAt
  <2>4. Streaming' /\ Stage(n)' /\ ~Unfreed(n)'
    BY <2>1, <2>2, <2>3, StageGoes
  <2>5. n = Base' /\ Unsaid' /\ OnlyAcks' /\ (AcksOld(n) => AcksOld(n)') /\ At(n)' = At(n)
        /\ lastAck' = lastAck
    BY <1>1, <2>2 DEF FollowsAt, Base, Unsaid, OnlyAcks, AcksOld, Old, At, bulk
  <2>6. FollowsAt(n)'
    BY <1>1, <2>1, <2>2, <2>3, <2>4, <2>5 DEF FollowsAt, Known
  <2> QED BY <1>1, <2>3, <2>6, StillFollows
<1> QED BY <1>2, <1>3, <1>4 DEF Calm, InRange

------------------------------------------------------------------------------
LEMMA CalmInit == Init => CalmInv
<1>1. SUFFICES ASSUME Init PROVE CalmInv
  OBVIOUS
<1>2. Rests
  BY <1>1 DEF Init, Rests, Unsaid, Parked, AtRest, Busy, BlockReady, OnlyAcks, Empty
<1> QED BY <1>1, <1>2, Sizes DEF Init, CalmInv, Calm, InRange

LEMMA CalmStep ==
  ASSUME IInv, CalmInv, [Next]_vars
  PROVE  CalmInv'
<1>1. losses' <= LossBudget /\ (mishap => mishap')
  <2>1. losses \in Nat /\ LossBudget \in Nat /\ losses <= LossBudget
    BY Sizes DEF IInv, TypeOK, WireTypeOK, CalmInv
  <2>2. CASE Caller \/ ReadRangeAbort \/ Leave
    <3>1. PICK op \in Operations, n \in Nat : Call(op, n)
      BY <2>2, CallerCalls
    <3> QED BY <2>1, <3>1 DEF Call, history
  <2>3. CASE Answered \/ Unasked \/ Reopen \/ TimeOut \/ EventTimeout
    <3>1. CASE Answered \/ Unasked \/ Reopen
      BY <2>1, <3>1 DEF Answered, Unasked, Reopen, history
    <3>2. CASE TimeOut
      <4>1. losses' = losses /\ mishap' = (mishap \/ ~Quiet)
        BY <3>2 DEF TimeOut
      <4> QED BY <2>1, <4>1
    <3>3. CASE EventTimeout
      <4>1. losses' = losses /\ mishap' = (mishap \/ (left = 1 /\ ~Quiet))
        BY <3>3 DEF EventTimeout
      <4> QED BY <2>1, <4>1
    <3> QED BY <2>3, <3>1, <3>2, <3>3
  <2>4. CASE TakePending \/ ReceiveEvent \/ CopyBlock
    BY <2>1, <2>4 DEF TakePending, ReceiveEvent, CopyBlock, history
  <2>5. CASE CopyInvalid \/ SendAck \/ ReadRangeEnd \/ Arrive \/ DeliverEvent \/ Watchdog
    BY <2>1, <2>5 DEF CopyInvalid, SendAck, ReadRangeEnd, Arrive, DeliverEvent, Watchdog, history
  <2>6. CASE Engine
    <3>1. CASE Take
      BY <2>1, <3>1 DEF Take, history
    <3>2. CASE WriteDone \/ ReadBlock \/ Publish
      <4>1. CASE WriteDone
        BY <2>1, <4>1 DEF WriteDone, history
      <4>2. CASE ReadBlock
        <5>1. UNCHANGED history
          BY <4>2 DEF ReadBlock
        <5> QED BY <2>1, <5>1 DEF history
      <4>3. CASE Publish
        BY <2>1, <4>3 DEF Publish, history
      <4> QED BY <3>2, <4>1, <4>2, <4>3
    <3> QED BY <2>6, <3>1, <3>2 DEF Engine, Refuse, StartRange, StartWrite, Abort, Exit
  <2>7. CASE Fault
    BY <2>1, <2>7 DEF Fault, LoseFrame, LoseAnswer, Glitch, Lose
  <2>8. CASE UNCHANGED vars
    BY <2>1, <2>8 DEF vars, history
  <2> QED BY <2>2, <2>3, <2>4, <2>5, <2>6, <2>7, <2>8 DEF Next, Mcu, Reading
<1>2. SUFFICES ASSUME FewerLost, ~mishap' PROVE Calm'
  BY <1>1 DEF CalmInv, FewerLost
<1>3. Calm
  BY <1>1, <1>2 DEF CalmInv
<1>4. CASE Caller \/ ReadRangeAbort \/ Leave
  BY <1>3, <1>4, CalmCalls
<1>5. CASE Answered
  BY <1>3, <1>5, CalmAnswers
<1>6. CASE Unasked
  BY <1>3, <1>6, CalmReplies DEF Unasked
<1>7. CASE TimeOut
  BY <1>2, <1>3, <1>7, CalmTimeOut
<1>8. CASE Reopen \/ Watchdog
  BY <1>3, <1>8 DEF Reopen, Watchdog, Calm
<1>9. CASE Reading \/ Glitch
  BY <1>2, <1>3, <1>9, CalmTakes, CalmReceives, CalmCopies, CalmAcks, CalmEnds DEF Reading
<1>10. CASE EventTimeout
  BY <1>2, <1>3, <1>10, CalmWaits
<1>11. CASE Arrive
  BY <1>3, <1>11, CalmArrives
<1>12. CASE Engine \/ DeliverEvent
  BY <1>3, <1>12, NotRefused, CalmStarts, CalmWrites, CalmGoesOn DEF Engine
<1>13. CASE LoseFrame \/ LoseAnswer
  BY <1>2, <1>3, <1>13, CalmLoses DEF LoseAnswer
<1>14. CASE UNCHANGED vars
  <2>1. UNCHANGED <<pc, ops, call, left, bulk, queue, up, registers, engine, history>>
    BY <1>14 DEF vars
  <2>2. pc' = pc /\ (Rests => Rests') /\ (Waits => Waits') /\ (Follows => Follows')
    BY <2>1 DEF Rests, Waits, Follows, FollowsAt, Base, Done, BatchAt, AtRest, Unfreed, Freed, Half,
       Full, Telling, Stage, Finished, Streaming, OnlyAcks, AcksTried, Old, AcksOld, Parked, Unsaid,
       Asked, Heard, Writing, Told, Unheard, Busy, BlockReady, Valid, At, Result, bulk, registers,
       engine, cursor, history
  <2> QED BY <1>3, <2>2 DEF Calm, InRange
<1> QED BY <1>4, <1>5, <1>6, <1>7, <1>8, <1>9, <1>10, <1>11, <1>12, <1>13, <1>14
        DEF Next, Mcu, Fault

(* A range never fails because requests, acknowledgements or QSPI reads    *)
(* were lost, as long as fewer are lost than the code tries: a failure of  *)
(* CartBulk_ReadRangeNext or of a request means a lost answer, a lost      *)
(* event or a wait cut short.                                              *)
THEOREM LossesRepaired ==
  ASSUME FewerLost
  PROVE  Spec => []LossesAreRepaired
<1>1. IInv /\ CalmInv /\ [Next]_vars => CalmInv'
  BY CalmStep
<1>2. CalmInv => LossesAreRepaired
  <2>1. ASSUME ~mishap, Calm PROVE pc # "failed"
    BY <2>1 DEF Calm
  <2> QED BY <2>1 DEF CalmInv, LossesAreRepaired
<1> QED BY <1>1, <1>2, CalmInit, Invariance, PTL DEF Spec
=============================================================================

--------------------------- MODULE CartLinkProofs ---------------------------
(***************************************************************************)
(* For any number of tags, attempts and calls, an answer that              *)
(* CartLink_TransactionRequest returns was made for that call, as long as  *)
(* nothing stays under way for TagCount calls.                             *)
(***************************************************************************)
EXTENDS CartLink, TLAPS

(* Two calls less than TagCount apart have different tags. *)
LEMMA TagsTellApart ==
  ASSUME NEW a \in Nat, NEW b \in Nat,
         a <= b, b - a < TagCount, SameTag(a, b)
  PROVE  a = b
<1> DEFINE n == TagCount
           p == a \div n
           q == b \div n
<1>1. n \in Nat /\ n > 0
  BY LinkAssumption
<1>2. /\ p \in Int /\ a = n * p + (a % n)
      /\ q \in Int /\ b = n * q + (b % n)
  BY <1>1
<1>3. a % n = b % n /\ b - a < n
  BY DEF SameTag, Tag
<1> HIDE DEF n, p, q
<1>4. b - a = n * (q - p)
  BY <1>1, <1>2, <1>3
<1>5. CASE q - p >= 1
  <2>1. n * (q - p) >= n
    BY <1>1, <1>2, <1>5
  <2> QED BY <2>1, <1>1, <1>2, <1>3, <1>4
<1>6. CASE q - p <= -1
  <2>1. n * (q - p) <= 0 - n
    BY <1>1, <1>2, <1>6
  <2> QED BY <2>1, <1>1, <1>4
<1>7. CASE q - p = 0
  BY <1>1, <1>2, <1>4, <1>7
<1> QED BY <1>2, <1>5, <1>6, <1>7

LEMMA TagType == \A k \in Nat : Tag(k) \in Nat
  BY LinkAssumption DEF Tag

-----------------------------------------------------------------------------
(* Types. *)

LEMMA InitTypes == Init => TypeOK
<1> SUFFICES ASSUME Init PROVE TypeOK
  OBVIOUS
<1> USE LinkAssumption DEF Numbers, NoCall
<1>1. NoRequest \in Requests /\ NoReply \in Replies
  BY DEF NoRequest, NoReply, Requests, Replies, Operations, Statuses
<1>2. call \in [op : Operations, seq : Numbers, left : 0 .. Attempts]
  BY DEF Init, Operations
<1>3. up \in Seq(Requests) /\ down \in Seq(Replies)
  BY DEF Init
<1>4. 0 \in Numbers
  OBVIOUS
<1> QED BY <1>1, <1>2, <1>3, <1>4 DEF Init, TypeOK

LEMMA McuTypes ==
  ASSUME TypeOK, pc = "send" => call.left > 0,
         Calling \/ Running \/ SendFails
  PROVE  TypeOK'
<1> USE LinkAssumption DEF TypeOK, Numbers, NoCall, mcu, wire, monitor, engine, history
<1>1. ASSUME NEW o \in Operations, NEW k \in {1, Attempts}, StartCall(o, k)
      PROVE  TypeOK'
  <2>1. call' \in [op : Operations, seq : Numbers, left : 0 .. Attempts]
    BY <1>1 DEF StartCall
  <2>2. calls' \in Numbers /\ block' \in Numbers
    BY <1>1 DEF StartCall
  <2> QED BY <1>1, <2>1, <2>2 DEF StartCall
<1>2. CASE Send
  <2>1. [call |-> calls, op |-> call.op, seq |-> call.seq] \in Requests
    BY DEF Requests
  <2>2. up' \in Seq(Requests)
    BY <1>2, <2>1 DEF Send
  <2>3. call' \in [op : Operations, seq : Numbers, left : 0 .. Attempts]
    <3>1. call.left - 1 \in 0 .. Attempts
      BY <1>2 DEF Send
    <3> QED BY <1>2, <3>1 DEF Send
  <2> QED BY <1>2, <2>2, <2>3 DEF Send, Replies, NoReply, Operations, Statuses
<1>3. CASE SendFails
  BY <1>3 DEF SendFails, Replies, NoReply, Operations, Statuses
<1>4. CASE Accept
  BY <1>4 DEF Accept, Replies, NoReply, Operations, Statuses
<1>5. CASE Discard
  BY <1>5 DEF Discard, Replies, NoReply, Operations, Statuses
<1>6. CASE TimeOut
  BY <1>6 DEF TimeOut
<1> QED BY <1>1, <1>2, <1>3, <1>4, <1>5, <1>6 DEF Calling, Running

LEMMA WireTypes ==
  ASSUME TypeOK, Wire \/ AnswerVirtual \/ LoseRequest \/ LoseReply
  PROVE  TypeOK'
<1> USE DEF TypeOK, mcu, wire, monitor, engine, history
<1>1. NoRequest \in Requests /\ NoReply \in Replies
  BY LinkAssumption
     DEF NoRequest, NoReply, Requests, Replies, Operations, Statuses, Numbers, NoCall
<1>2. CASE Arrive
  <2>1. Head(up) \in Requests /\ Tail(up) \in Seq(Requests)
    BY <1>2 DEF Arrive
  <2> QED BY <1>2, <2>1 DEF Arrive
<1>3. CASE Deliver
  <2>1. Head(down) \in Replies /\ Tail(down) \in Seq(Replies)
    BY <1>3 DEF Deliver
  <2> QED BY <1>3, <2>1 DEF Deliver
<1>4. CASE Transmit
  <2>1. Append(down, virtual) \in Seq(Replies) /\ Append(down, reply) \in Seq(Replies)
    OBVIOUS
  <2>2. /\ down' \in Seq(Replies) /\ virtual' \in Replies /\ reply' \in Replies
        /\ queued' \in BOOLEAN
    BY <1>1, <1>4, <2>1 DEF Transmit
  <2> QED BY <1>4, <2>2 DEF Transmit
<1>5. CASE AnswerVirtual
  <2>1. virtual' \in Replies
    BY <1>5 DEF AnswerVirtual, Replies, Requests, Operations, Statuses
  <2> QED BY <1>1, <1>5, <2>1 DEF AnswerVirtual
<1>6. CASE LoseRequest
  <2>1. Tail(up) \in Seq(Requests)
    BY <1>6 DEF LoseRequest
  <2> QED BY <1>6, <2>1 DEF LoseRequest
<1>7. CASE LoseReply
  <2>1. Tail(down) \in Seq(Replies)
    BY <1>7 DEF LoseReply
  <2> QED BY <1>7, <2>1 DEF LoseReply
<1> QED BY <1>2, <1>3, <1>4, <1>5, <1>6, <1>7 DEF Wire

LEMMA AnswerTypes ==
  ASSUME TypeOK, NEW r \in Requests, NEW status \in Statuses, Respond(r, status)
  PROVE  reply' \in Replies /\ queued' \in BOOLEAN /\ verdicts' \subseteq Statuses
<1>1. reply' \in Replies
  BY DEF Respond, Reply, Requests, Replies
<1>2. queued' \in BOOLEAN
  BY DEF Respond, Reply
<1>3. verdicts' \subseteq Statuses
  BY DEF Respond, TypeOK
<1> QED BY <1>1, <1>2, <1>3

LEMMA TakeTypes ==
  ASSUME TypeOK, Take
  PROVE  /\ pending' \in Requests /\ current' \in Requests
         /\ UNCHANGED <<mcu, wire, virtual, cart, lapsed>>
<1>1. NoRequest \in Requests
  BY LinkAssumption DEF NoRequest, Requests, Operations, Numbers, NoCall
<1> QED BY <1>1 DEF TypeOK, Take

LEMMA TakeAndRespondTypes ==
  ASSUME TypeOK, NEW status \in Statuses, TakeAndRespond(status),
         ready' \in Numbers, lastAck' \in Numbers
  PROVE  TypeOK'
<1>1. Take /\ Respond(pending, status) /\ pending \in Requests
  BY DEF TakeAndRespond, TypeOK
<1>2. /\ pending' \in Requests /\ current' \in Requests
      /\ UNCHANGED <<mcu, wire, virtual, cart, lapsed>>
  BY <1>1, TakeTypes
<1>3. reply' \in Replies /\ queued' \in BOOLEAN /\ verdicts' \subseteq Statuses
  BY <1>1, AnswerTypes
<1>4. UNCHANGED <<state, active, sd, enterTag, release>>
  BY DEF TakeAndRespond
<1> QED BY <1>2, <1>3, <1>4 DEF TypeOK, mcu, wire

LEMMA EngineTypes ==
  ASSUME TypeOK, Engine \/ Watchdog \/ PullCart \/ InsertCart
  PROVE  TypeOK'
<1> USE DEF TypeOK, mcu, wire, monitor, engine, history
<1>1. NoRequest \in Requests /\ NoReply \in Replies /\ 0 \in Numbers
  BY LinkAssumption
     DEF NoRequest, NoReply, Requests, Replies, Operations, Statuses, Numbers, NoCall
<1>2. /\ Tag(pending.call) \in Nat
      /\ current.call \in Numbers /\ pending.seq \in Numbers
  BY TagType DEF Requests, Numbers
<1> DEFINE Answers(r, status) == [call |-> r.call, op |-> r.op, status |-> status]
<1>3. \A r \in Requests, status \in Statuses : Answers(r, status) \in Replies
  BY DEF Requests, Replies
<1>4. CASE Ping
  BY <1>4, TakeAndRespondTypes DEF Ping, Statuses
<1>5. CASE Enter
  BY <1>5, <1>1, <1>2 DEF Enter, TakeAndStart, Take, NoCall
<1>6. CASE EnterAgain
  BY <1>6, TakeAndRespondTypes DEF EnterAgain, Statuses
<1>7. CASE EnterNothing
  BY <1>7, TakeAndRespondTypes DEF EnterNothing, Statuses
<1>8. CASE Refuse
  BY <1>8, TakeAndRespondTypes DEF Refuse, Statuses
<1>9. CASE Read
  BY <1>9, <1>1 DEF Read, TakeAndStart, Take, NoCall
<1>10. CASE ReadAgain
  BY <1>10, TakeAndRespondTypes DEF ReadAgain, Statuses
<1>11. CASE Write
  BY <1>11, <1>1 DEF Write, TakeAndStart, Take
<1>12. CASE WriteBusy
  BY <1>12, TakeAndRespondTypes DEF WriteBusy, Statuses
<1>13. CASE Ack
  BY <1>13, <1>1, <1>2, TakeAndRespondTypes DEF Ack, Statuses, NoCall
<1>14. CASE AckAgain
  BY <1>14, TakeAndRespondTypes DEF AckAgain, Statuses
<1>15. CASE Exit
  BY <1>15, <1>1 DEF Exit, Close, Take, NoCall
<1>16. CASE ExitAgain
  BY <1>16, TakeAndRespondTypes DEF ExitAgain, Statuses
<1>17. CASE Entered
  BY <1>17, AnswerTypes DEF Entered, Statuses
<1>18. CASE BusDone
  BY <1>18, <1>1, <1>2, <1>3 DEF BusDone, Respond, Reply, Statuses, NoCall
<1>19. CASE Released
  BY <1>19, <1>3 DEF Released, Respond, Reply, Statuses
<1>20. CASE Watchdog
  BY <1>20, <1>1 DEF Watchdog, Silent, Close, NoCall
<1>21. CASE PullCart
  <2>1. UNCHANGED <<mcu, wire, queued, virtual, current, reply>>
    BY <1>21 DEF PullCart
  <2>2. /\ cart' \in BOOLEAN /\ verdicts' \subseteq Statuses
        /\ pending' \in Requests
    BY <1>21, <1>1 DEF PullCart
  <2>3. /\ state' \in {"idle", "enter_wait", "bus", "exit_wait"}
        /\ active' \in BOOLEAN /\ sd' \in BOOLEAN /\ lapsed' \in BOOLEAN
        /\ enterTag' \in Nat /\ ready' \in Numbers /\ lastAck' \in Numbers
        /\ release' \in {"none", "ok", "no_cartridge"}
    <3>1. CASE active /\ ~sd /\ state # "exit_wait"
      BY <1>21, <1>1, <3>1 DEF PullCart, Close, NoCall
    <3>2. CASE ~(active /\ ~sd /\ state # "exit_wait")
      BY <1>21, <3>2 DEF PullCart
    <3> QED BY <3>1, <3>2
  <2> QED BY <2>1, <2>2, <2>3
<1>22. CASE InsertCart
  BY <1>22 DEF InsertCart
<1> QED
  BY <1>4, <1>5, <1>6, <1>7, <1>8, <1>9, <1>10, <1>11, <1>12, <1>13, <1>14, <1>15,
     <1>16, <1>17, <1>18, <1>19, <1>20, <1>21, <1>22 DEF Engine

-----------------------------------------------------------------------------
(* The window. *)

(* What a step of the engine may do to the rest: it takes the waiting      *)
(* request, and its answer carries the number of that request or of the    *)
(* one it was working on.                                                  *)
EngineStep ==
  /\ UNCHANGED <<mcu, wire, virtual>>
  /\ pending' \in {pending, NoRequest}
  /\ current' = current \/ (pending # NoRequest /\ current' = pending)
  /\ \/ reply' = reply /\ queued' = queued
     \/ pending # NoRequest /\ reply'.call = pending.call
     \/ state # "idle" /\ reply'.call = current.call
  /\ Answerable' =>
        \/ Answerable
        \/ pending # NoRequest /\ current' = pending

LEMMA EngineOnly ==
  ASSUME Engine \/ Watchdog \/ PullCart \/ InsertCart
  PROVE  EngineStep
<1> USE DEF mcu, wire, monitor, engine, history, EngineStep, Take, Accepts, ForEngine
<1> USE DEF TakeAndRespond, Respond, Reply, Answerable
<1>1. CASE Ping \/ EnterNothing \/ EnterAgain \/ Refuse
  BY <1>1 DEF Ping, EnterNothing, EnterAgain, Refuse
<1>2. CASE ReadAgain \/ WriteBusy \/ Ack \/ AckAgain \/ ExitAgain
  BY <1>2 DEF ReadAgain, WriteBusy, Ack, AckAgain, ExitAgain
<1>3. CASE Enter \/ Read \/ Write
  BY <1>3 DEF Enter, Read, Write, TakeAndStart
<1>4. CASE Exit
  BY <1>4 DEF Exit, Close
<1>5. CASE Entered \/ BusDone
  BY <1>5 DEF Entered, BusDone
<1>6. CASE Released
  BY <1>6 DEF Released
<1>7. CASE Watchdog
  BY <1>7 DEF Watchdog, Silent, Close
<1>8. CASE PullCart
  BY <1>8 DEF PullCart, Close
<1>9. CASE InsertCart
  BY <1>9 DEF InsertCart
<1> QED
  BY <1>1, <1>2, <1>3, <1>4, <1>5, <1>6, <1>7, <1>8, <1>9 DEF Engine

LEMMA EngineKeeps ==
  ASSUME IInv, EngineStep, TypeOK'
  PROVE  IInv'
<1> USE DEF IInv, EngineStep, mcu, wire
<1>1. \A n : Recent(n) <=> Recent(n)'
  BY DEF Recent
<1>2. /\ pending' # NoRequest => Recent(pending'.call)
      /\ Answerable' => Recent(current'.call)
  BY DEF InWindow, Answerable
<1>3. reply' # NoReply => Recent(reply'.call)
  BY DEF InWindow, Answerable
<1>4. InWindow'
  BY <1>1, <1>2, <1>3 DEF InWindow, Answerable
<1>5. queued' => Valid'
  <2>1. CASE reply' = reply /\ queued' = queued
    BY <2>1 DEF Valid
  <2>2. CASE ~(reply' = reply /\ queued' = queued)
    <3>1. Recent(reply'.call)
      BY <2>2 DEF InWindow, Answerable
    <3>2. reply' # NoReply
      BY <3>1 DEF Recent, NoReply, NoCall
    <3> QED BY <3>2 DEF Valid
  <2> QED BY <2>1, <2>2
<1> QED BY <1>4, <1>5 DEF AnswersTheCall

(* A frame that arrives was sent recently, so an equal tag is the tag of   *)
(* the running call.                                                       *)
LEMMA RecentMatches ==
  ASSUME calls \in Nat, NEW n, Recent(n), SameTag(n, calls)
  PROVE  n = calls
<1>1. n \in Nat /\ n <= calls /\ calls - n < TagCount
  BY LinkAssumption DEF Recent
<1> QED BY <1>1, TagsTellApart

LEMMA McuKeeps ==
  ASSUME IInv, TypeOK', Calling \/ Running \/ SendFails
  PROVE  IInv'
<1> USE DEF IInv, mcu, wire, monitor, engine, history
<1>0. calls \in Nat
  BY LinkAssumption DEF TypeOK, Numbers
<1>1. ASSUME NEW o \in Operations, NEW k \in {1, Attempts}, StartCall(o, k)
      PROVE  IInv'
  <2>1. /\ calls' = calls + 1 /\ pc' = "send" /\ outcome' = "none"
        /\ call'.left = k
        /\ UNCHANGED <<inbox, answer, up, down, pending, queued, virtual, state,
                       current, reply, active>>
    BY <1>1 DEF StartCall
  <2>2. \A n : Recent(n) /\ n > calls + 1 - TagCount => Recent(n)'
    BY <1>0, <2>1, LinkAssumption DEF Recent
  <2>3. \A n : Recent(n) => n # NoCall
    BY DEF Recent, NoCall
  <2>4. InWindow'
    <3>1. \A i \in 1 .. Len(up) : Recent(up[i].call)'
      <4> SUFFICES ASSUME NEW i \in 1 .. Len(up) PROVE Recent(up[i].call)'
        OBVIOUS
      <4>1. up[i] \in Elements(up)
        BY DEF Elements
      <4> QED BY <1>1, <2>1, <2>2, <2>3, <4>1
              DEF StartCall, NothingAncient, InWindow, Answerable
    <3>2. \A i \in 1 .. Len(down) : Recent(down[i].call)'
      <4> SUFFICES ASSUME NEW i \in 1 .. Len(down) PROVE Recent(down[i].call)'
        OBVIOUS
      <4>1. down[i] \in Elements(down)
        BY DEF Elements
      <4> QED BY <1>1, <2>1, <2>2, <2>3, <4>1
              DEF StartCall, NothingAncient, InWindow, Answerable
    <3>3. /\ pending # NoRequest => Recent(pending.call)'
          /\ Answerable => Recent(current.call)'
          /\ virtual # NoReply => Recent(virtual.call)'
          /\ reply # NoReply => Recent(reply.call)'
      BY <1>1, <2>1, <2>2, <2>3 DEF StartCall, NothingAncient, InWindow, Answerable
    <3> QED BY <2>1, <3>1, <3>2, <3>3 DEF InWindow, Answerable
  <2>5. k > 0 /\ calls' > 0
    BY <1>0, <2>1, LinkAssumption
  <2> QED BY <2>1, <2>4, <2>5 DEF AnswersTheCall, Valid
<1>2. CASE Send
  <2>1. /\ inbox' = NoReply /\ pc' = "wait"
        /\ up' = Append(up, [call |-> calls, op |-> call.op, seq |-> call.seq])
        /\ UNCHANGED <<calls, outcome, answer, down, pending, queued, virtual, state,
                       current, reply, active>>
    BY <1>2 DEF Send
  <2>2. Recent(calls)
    BY <1>0, <1>2, LinkAssumption DEF Send, Recent
  <2>3. \A i \in 1 .. Len(up') : Recent(up'[i].call)
    BY <2>1, <2>2 DEF InWindow, Answerable, TypeOK
  <2>4. InWindow'
    BY <2>1, <2>3 DEF InWindow, Answerable, Recent
  <2> QED BY <1>2, <2>1, <2>4 DEF Send, AnswersTheCall, Valid
<1>3. CASE SendFails
  BY <1>3 DEF SendFails, InWindow, Answerable, Recent, AnswersTheCall, Valid
<1>4. CASE Accept
  <2>1. inbox.call = calls
    BY <1>0, <1>4, RecentMatches DEF Accept, Matches, InWindow, Answerable
  <2> QED BY <1>4, <2>1 DEF Accept, InWindow, Answerable, Recent, AnswersTheCall, Valid
<1>5. CASE Discard
  BY <1>5 DEF Discard, InWindow, Answerable, Recent, AnswersTheCall, Valid
<1>6. CASE TimeOut
  BY <1>6 DEF TimeOut, InWindow, Answerable, Recent, AnswersTheCall, Valid
<1> QED BY <1>1, <1>2, <1>3, <1>4, <1>5, <1>6 DEF Calling, Running

LEMMA WireKeeps ==
  ASSUME IInv, TypeOK', Wire \/ AnswerVirtual \/ LoseRequest \/ LoseReply
  PROVE  IInv'
<1> USE DEF IInv, mcu, wire, monitor, engine, history
<1>1. \A n : Recent(n) <=> Recent(n)'
  BY DEF Recent, Wire, Arrive, Deliver, Transmit, AnswerVirtual, LoseRequest, LoseReply
<1>2. CASE Arrive
  <2>1. Recent(Head(up).call) /\ \A i \in 1 .. Len(Tail(up)) : Recent(Tail(up)[i].call)
    BY <1>2 DEF Arrive, InWindow, Answerable, TypeOK
  <2> QED BY <1>1, <1>2, <2>1 DEF Arrive, InWindow, Answerable, AnswersTheCall, Valid
<1>3. CASE Deliver
  <2>1. Recent(Head(down).call) /\ \A i \in 1 .. Len(Tail(down)) : Recent(Tail(down)[i].call)
    BY <1>3 DEF Deliver, InWindow, Answerable, TypeOK
  <2> QED BY <1>1, <1>3, <2>1 DEF Deliver, InWindow, Answerable, AnswersTheCall, Valid
<1>4. CASE Transmit
  <2>1. PICK r \in Replies : down' = Append(down, r) /\ Recent(r.call)
    BY <1>4 DEF Transmit, InWindow, Answerable, TypeOK, Valid
  <2>2. \A i \in 1 .. Len(down') : Recent(down'[i].call)
    BY <2>1 DEF InWindow, Answerable, TypeOK
  <2> QED BY <1>1, <1>4, <2>2 DEF Transmit, InWindow, Answerable, AnswersTheCall, Valid
<1>5. CASE AnswerVirtual
  <2>1. pending # NoRequest
    BY <1>5 DEF AnswerVirtual, NoRequest
  <2>2. virtual' # NoReply
    BY <1>5 DEF AnswerVirtual, NoReply
  <2> QED BY <1>1, <1>5, <2>1, <2>2
          DEF AnswerVirtual, InWindow, Answerable, AnswersTheCall, Valid
<1>6. CASE LoseRequest
  <2>1. \A i \in 1 .. Len(Tail(up)) : Recent(Tail(up)[i].call)
    BY <1>6 DEF LoseRequest, InWindow, Answerable, TypeOK
  <2> QED BY <1>1, <1>6, <2>1 DEF LoseRequest, InWindow, Answerable, AnswersTheCall, Valid
<1>7. CASE LoseReply
  <2>1. \A i \in 1 .. Len(Tail(down)) : Recent(Tail(down)[i].call)
    BY <1>7 DEF LoseReply, InWindow, Answerable, TypeOK
  <2> QED BY <1>1, <1>7, <2>1 DEF LoseReply, InWindow, Answerable, AnswersTheCall, Valid
<1> QED BY <1>2, <1>3, <1>4, <1>5, <1>6, <1>7 DEF Wire

-----------------------------------------------------------------------------
LEMMA InitInv == Init => IInv
<1> SUFFICES ASSUME Init PROVE IInv
  OBVIOUS
<1>1. TypeOK
  BY InitTypes
<1>2. InWindow
  BY DEF Init, InWindow, Answerable
<1> QED BY <1>1, <1>2 DEF Init, IInv, Valid, AnswersTheCall

LEMMA StepInv == IInv /\ [Next]_vars => IInv'
<1> SUFFICES ASSUME IInv, [Next]_vars PROVE IInv'
  OBVIOUS
<1>1. CASE Calling \/ Running \/ SendFails
  BY <1>1, McuTypes, McuKeeps DEF IInv
<1>2. CASE Wire \/ AnswerVirtual \/ LoseRequest \/ LoseReply
  BY <1>2, WireTypes, WireKeeps DEF IInv
<1>3. CASE Engine \/ Watchdog \/ PullCart \/ InsertCart
  BY <1>3, EngineTypes, EngineOnly, EngineKeeps DEF IInv
<1>4. CASE UNCHANGED vars
  BY <1>4
  DEF vars, mcu, wire, monitor, engine, history, IInv, TypeOK, InWindow, Answerable,
      Recent, AnswersTheCall, Valid
<1> QED BY <1>1, <1>2, <1>3, <1>4 DEF Next, Fault

(* Every reachable state satisfies the inductive invariant. *)
THEOREM Invariance == Spec => []IInv
  BY InitInv, StepInv, PTL DEF Spec

(* The registers, frames and variables of both ends keep their types. *)
THEOREM TypeCorrect == Spec => []TypeOK
  BY Invariance, PTL DEF IInv

(* The answer CartLink_TransactionRequest returns was made for this call. *)
THEOREM RightAnswer == Spec => []AnswersTheCall
  BY Invariance, PTL DEF IInv

-----------------------------------------------------------------------------
(* The session.  What is on its way keeps the order of the calls, so once  *)
(* the engine took a request of the running call nothing older reaches it. *)
InOrder ==
  /\ current.call <= calls
  /\ pending # NoRequest => current.call <= pending.call
  /\ \A i \in 1 .. Len(up) : /\ current.call <= up[i].call
                             /\ pending.call <= up[i].call
                             /\ \A j \in i .. Len(up) : up[i].call <= up[j].call

(* All requests of the running call are the same. *)
Ours(m) == m.call = calls => m.op = call.op /\ m.seq = call.seq
Alike == /\ Ours(pending) /\ Ours(current) /\ \A i \in 1 .. Len(up) : Ours(up[i])
         /\ call.op = "ack" => call.seq # NoCall
         /\ calls = 0 => call.op = "ping" /\ call.seq = NoCall

(* An answer to the running call is one to a request the engine took, and  *)
(* what it says of the session still holds.                                *)
Entry == {"enter", "enter_sd"}
Stands(r) ==
  /\ r.call <= calls
  /\ r.call = calls /\ calls > 0 =>
       /\ r.op = call.op
       /\ r.op # "virtual" => current.call = calls
       /\ r.op \in Entry /\ r.status = "ok" => active \/ lapsed
Standing == /\ Stands(reply) /\ Stands(virtual) /\ Stands(inbox) /\ Stands(answer)
            /\ \A i \in 1 .. Len(down) : Stands(down[i])
Left == call.op = "exit" /\ current.call = calls => ~active

(* The states of the engine. *)
AtWork ==
  /\ state = "enter_wait" => /\ active /\ enterTag = Tag(current.call)
                             /\ \/ current.op = "enter_sd" /\ sd
                                \/ current.op = "enter" /\ ~sd /\ cart
                             /\ verdicts = {}
  /\ state = "bus" => /\ active /\ cart /\ ~sd /\ ready = NoCall
                      /\ current.op = "write" \/ (current.op = "read" /\ verdicts = {})
  /\ state = "exit_wait" /\ release = "ok" => current.op = "exit"

(* What the running call was told it would be told again. *)
Says(v) ==
  /\ call.op \in {"ping", "exit"} => v = "ok"
  /\ call.op \in Entry =>
       /\ cart \/ call.op = "enter_sd" => active
       /\ v = IF ~(cart \/ call.op = "enter_sd") THEN "no_cartridge"
              ELSE IF enterTag = Tag(calls) THEN "ok" ELSE "already_active"
  /\ call.op \in {"read", "write", "ack"} /\ ~active => v = "not_active"
  /\ call.op \in {"read", "write"} /\ active /\ (~cart \/ sd) => v = "no_cartridge"
  /\ call.op = "read" /\ active /\ cart /\ ~sd =>
       ready # NoCall /\ v = IF SameTag(calls, ready) THEN "ok" ELSE "block_busy"
  /\ call.op = "write" /\ active /\ cart /\ ~sd =>
       v = IF ready = NoCall THEN "ok" ELSE "block_busy"
  /\ call.op = "ack" /\ active =>
       /\ ready = NoCall \/ ~SameTag(call.seq, ready)
       /\ v = IF lastAck # NoCall /\ SameTag(call.seq, lastAck) THEN "ok"
              ELSE IF ready # NoCall THEN "sequence" ELSE "no_block"
ToldAgain == /\ verdicts # {} => current.call = calls /\ calls > 0 /\ call.op # "virtual"
             /\ \A v \in verdicts : Says(v)

SInv == IInv /\ InOrder /\ Alike /\ Standing /\ Left /\ AtWork /\ ToldAgain

-----------------------------------------------------------------------------
(* The numbers on the way are those of calls that were made. *)
LEMMA Made ==
  ASSUME IInv, InOrder
  PROVE  /\ calls \in Nat /\ current.call \in 0 .. calls /\ pending.call \in 0 .. calls
         /\ \A i \in 1 .. Len(up) : up[i] \in Requests /\ up[i].call \in 1 .. calls
<1>1. calls \in Nat /\ current.call \in Nat /\ pending.call \in Nat
  BY LinkAssumption DEF IInv, TypeOK, Requests, Numbers
<1>2. pending.call <= calls
  BY <1>1 DEF IInv, InWindow, Recent, NoRequest, NoCall
<1>3. \A i \in 1 .. Len(up) : up[i] \in Requests /\ up[i].call \in 1 .. calls
  BY DEF IInv, InWindow, Recent, TypeOK
<1> QED BY <1>1, <1>2, <1>3 DEF InOrder

LEMMA McuOrder ==
  ASSUME SInv, Calling \/ Running \/ SendFails
  PROVE  InOrder' /\ Alike'
<1> USE DEF SInv, InOrder, Alike, Ours, mcu, wire, monitor, engine, history, NoCall
<1>1. /\ calls \in Nat /\ current.call \in 0 .. calls /\ pending.call \in 0 .. calls
      /\ \A i \in 1 .. Len(up) : up[i] \in Requests /\ up[i].call \in 1 .. calls
  BY Made
<1>2. ASSUME NEW o \in Operations, NEW k \in {1, Attempts}, StartCall(o, k)
      PROVE  InOrder' /\ Alike'
  BY <1>1, <1>2 DEF StartCall
<1>3. CASE Send
  <2> DEFINE m == [call |-> calls, op |-> call.op, seq |-> call.seq]
  <2>1. /\ up' = Append(up, m) /\ up \in Seq(Requests)
        /\ UNCHANGED <<calls, current, pending>> /\ call'.op = call.op /\ call'.seq = call.seq
    BY <1>3 DEF Send, IInv, TypeOK
  <2>2. /\ Len(up') = Len(up) + 1 /\ up'[Len(up) + 1] = m
        /\ \A i \in 1 .. Len(up) : up'[i] = up[i]
    BY <2>1
  <2>3. Len(up) \in Nat
    BY <2>1
  <2>4. \A i \in 1 .. Len(up') : up'[i] = m \/ (i \in 1 .. Len(up) /\ up'[i] = up[i])
    BY <2>2, <2>3
  <2>5. m.call = calls /\ m.op = call.op /\ m.seq = call.seq
    OBVIOUS
  <2>6. Alike'
    BY <2>1, <2>4, <2>5
  <2>7. \A i \in 1 .. Len(up') : current.call <= up'[i].call /\ pending.call <= up'[i].call
    BY <1>1, <2>4, <2>5
  <2>8. ASSUME NEW i \in 1 .. Len(up'), NEW j \in i .. Len(up')
        PROVE  up'[i].call <= up'[j].call
    <3>1. CASE j \in 1 .. Len(up)
      BY <2>2, <2>3, <3>1
    <3>2. CASE j = Len(up) + 1
      BY <1>1, <2>2, <2>4, <2>5, <3>2
    <3> QED BY <2>2, <2>3, <3>1, <3>2
  <2> QED BY <2>1, <2>6, <2>7, <2>8
<1>4. CASE Accept \/ Discard \/ TimeOut \/ SendFails
  BY <1>4 DEF Accept, Discard, TimeOut, SendFails
<1> QED BY <1>2, <1>3, <1>4 DEF Calling, Running

LEMMA WireOrder ==
  ASSUME SInv, Wire \/ AnswerVirtual \/ LoseRequest \/ LoseReply
  PROVE  InOrder' /\ Alike'
<1> USE DEF SInv, InOrder, Alike, Ours, mcu, wire, monitor, engine, history, NoCall
<1>1. /\ calls \in Nat /\ current.call \in 0 .. calls /\ pending.call \in 0 .. calls
      /\ \A i \in 1 .. Len(up) : up[i] \in Requests /\ up[i].call \in 1 .. calls
  BY Made
<1>2. CASE Arrive \/ LoseRequest
  <2>1. /\ up \in Seq(Requests) /\ up # <<>> /\ up' = Tail(up)
        /\ UNCHANGED <<calls, call, current>> /\ pending' \in {pending, Head(up)}
    BY <1>2 DEF Arrive, LoseRequest, IInv, TypeOK
  <2>2. /\ Len(up') = Len(up) - 1 /\ Len(up) \in Nat \ {0} /\ Head(up) = up[1]
        /\ \A i \in 1 .. Len(up') : up'[i] = up[i + 1]
    BY <2>1
  <2> QED BY <1>1, <2>1, <2>2
<1>3. CASE Deliver \/ Transmit \/ LoseReply
  BY <1>3 DEF Deliver, Transmit, LoseReply
<1>4. CASE AnswerVirtual
  BY <1>1, <1>4 DEF AnswerVirtual, NoRequest
<1> QED BY <1>2, <1>3, <1>4 DEF Wire

LEMMA EngineOrder ==
  ASSUME SInv, EngineStep
  PROVE  InOrder' /\ Alike'
<1>1. /\ calls \in Nat /\ current.call \in 0 .. calls /\ pending.call \in 0 .. calls
      /\ \A i \in 1 .. Len(up) : up[i] \in Requests /\ up[i].call \in 1 .. calls
  BY Made DEF SInv
<1> QED BY <1>1 DEF SInv, InOrder, Alike, Ours, EngineStep, mcu, wire, NoCall, NoRequest

-----------------------------------------------------------------------------
LEMMA NothingStands == ASSUME calls \in Nat PROVE Stands(NoReply)
BY DEF Stands, NoReply, NoCall

Session == <<calls, call.op, call.seq, current, active, lapsed, enterTag, ready, lastAck,
             sd, cart, state, release, verdicts>>

LEMMA SessionKept ==
  ASSUME SInv, UNCHANGED Session
  PROVE  /\ Left' /\ AtWork' /\ ToldAgain'
         /\ \A r : Stands(r) => Stands(r)'
BY DEF SInv, Session, Left, AtWork, ToldAgain, Says, Stands

LEMMA McuSession ==
  ASSUME SInv, Calling \/ Running \/ SendFails
  PROVE  Standing' /\ Left' /\ AtWork' /\ ToldAgain'
<1> USE DEF mcu, wire, monitor, engine, history
<1>1. /\ calls \in Nat /\ current.call \in 0 .. calls /\ Stands(NoReply)
      /\ \A r : Stands(r) => r.call <= calls
  BY Made, NothingStands DEF SInv, Stands
<1>2. ASSUME NEW o \in Operations, NEW k \in {1, Attempts}, StartCall(o, k)
      PROVE  Standing' /\ Left' /\ AtWork' /\ ToldAgain'
  <2>1. /\ calls' = calls + 1 /\ verdicts' = {}
        /\ UNCHANGED <<inbox, answer, down, virtual, reply, current, state, active, sd,
                       enterTag, ready, lastAck, release, cart>>
    BY <1>2 DEF StartCall
  <2>2. /\ reply.call \in Int /\ virtual.call \in Int /\ inbox.call \in Int
        /\ answer.call \in Int /\ \A i \in 1 .. Len(down) : down[i].call \in Int
    <3>1. \A r \in Replies : r.call \in Int
      BY LinkAssumption DEF Replies, Numbers
    <3>2. /\ reply \in Replies /\ virtual \in Replies /\ inbox \in Replies
          /\ answer \in Replies /\ \A i \in 1 .. Len(down) : down[i] \in Replies
      BY DEF SInv, IInv, TypeOK
    <3> QED BY <3>1, <3>2
  <2> DEFINE Older(r) == r.call <= calls' /\ r.call # calls'
  <2>3. /\ Older(reply) /\ Older(virtual) /\ Older(inbox) /\ Older(answer)
        /\ \A i \in 1 .. Len(down) : Older(down[i])
    <3>1. ASSUME NEW r, r.call \in Int, Stands(r) PROVE Older(r)
      <4>1. r.call <= calls
        BY <3>1 DEF Stands
      <4> QED BY <1>1, <2>1, <3>1, <4>1
    <3> HIDE DEF Older
    <3> QED BY <2>2, <3>1 DEF SInv, Standing
  <2>4. Standing'
    BY <2>1, <2>3 DEF Standing, Stands
  <2> QED BY <1>1, <2>1, <2>4 DEF SInv, Left, AtWork, ToldAgain
<1>3. CASE Running \/ SendFails
  <2>0. call \in [op : Operations, seq : Numbers, left : 0 .. Attempts]
    BY DEF SInv, IInv, TypeOK
  <2>1. UNCHANGED Session
    BY <1>3, <2>0 DEF Session, Running, Send, Accept, Discard, TimeOut, SendFails
  <2>2. /\ UNCHANGED <<reply, virtual, down>>
        /\ inbox' \in {inbox, NoReply} /\ answer' \in {answer, inbox}
    BY <1>3 DEF Running, Send, Accept, Discard, TimeOut, SendFails
  <2> QED BY <1>1, <2>1, <2>2, SessionKept DEF SInv, Standing
<1> QED BY <1>2, <1>3 DEF Calling

LEMMA WireSession ==
  ASSUME SInv, Wire \/ AnswerVirtual \/ LoseRequest \/ LoseReply
  PROVE  Standing' /\ Left' /\ AtWork' /\ ToldAgain'
<1> USE DEF mcu, wire, monitor, engine, history
<1>1. UNCHANGED Session
  BY DEF Session, Wire, Arrive, Deliver, Transmit, AnswerVirtual, LoseRequest, LoseReply
<1>2. Left' /\ AtWork' /\ ToldAgain' /\ \A r : Stands(r) => Stands(r)'
  BY <1>1, SessionKept
<1>3. calls \in Nat /\ Stands(NoReply) /\ pending.call \in 0 .. calls
  BY Made, NothingStands DEF SInv
<1>4. CASE Arrive \/ LoseRequest
  BY <1>2, <1>4 DEF SInv, Standing, Arrive, LoseRequest
<1>5. CASE Deliver \/ LoseReply
  <2>1. /\ down \in Seq(Replies) /\ down # <<>> /\ down' = Tail(down)
        /\ UNCHANGED <<reply, virtual, answer>> /\ inbox' \in {inbox, Head(down)}
    BY <1>5 DEF Deliver, LoseReply, SInv, IInv, TypeOK
  <2>2. /\ Len(down') = Len(down) - 1 /\ Len(down) \in Nat \ {0} /\ Head(down) = down[1]
        /\ \A i \in 1 .. Len(down') : down'[i] = down[i + 1]
    BY <2>1
  <2>3. \A i \in 1 .. Len(down') : Stands(down[i + 1])
    BY <2>2 DEF SInv, Standing
  <2>4. Stands(Head(down))
    BY <2>2 DEF SInv, Standing
  <2> QED BY <1>2, <2>1, <2>2, <2>3, <2>4 DEF SInv, Standing
<1>6. CASE Transmit
  <2>1. PICK r : /\ down \in Seq(Replies) /\ r \in Replies /\ down' = Append(down, r)
                 /\ Stands(r)
                 /\ UNCHANGED <<inbox, answer>>
                 /\ reply' \in {reply, NoReply} /\ virtual' \in {virtual, NoReply}
    BY <1>6 DEF Transmit, SInv, IInv, TypeOK, Standing
  <2>2. \A i \in 1 .. Len(down') : \/ down'[i] = r
                                   \/ i \in 1 .. Len(down) /\ down'[i] = down[i]
    BY <2>1
  <2>3. \A i \in 1 .. Len(down') : Stands(down'[i])
    BY <2>1, <2>2 DEF SInv, Standing
  <2> QED BY <1>1, <1>2, <1>3, <2>1, <2>3 DEF SInv, Standing, Stands, Session
<1>7. CASE AnswerVirtual
  <2>1. /\ virtual' = [call |-> pending.call, op |-> "virtual", status |-> "ok"]
        /\ pending.op = "virtual" /\ UNCHANGED <<reply, inbox, answer, down>>
    BY <1>7 DEF AnswerVirtual
  <2>2. Stands(virtual')
    BY <1>3, <2>1 DEF Stands, SInv, Alike, Ours, Entry
  <2> QED BY <1>2, <2>1, <2>2 DEF SInv, Standing
<1> QED BY <1>4, <1>5, <1>6, <1>7 DEF Wire

-----------------------------------------------------------------------------
(* The engine takes a request of the running call: since it took one, or   *)
(* answered one, there is no other.                                        *)
LEMMA TakesOurs ==
  ASSUME SInv, pending # NoRequest, calls > 0, current.call = calls
  PROVE  pending.call = calls /\ pending.op = call.op /\ pending.seq = call.seq
<1>1. pending.call \in 0 .. calls /\ calls \in Nat
  BY Made DEF SInv
<1>2. calls <= pending.call
  BY DEF SInv, InOrder
<1> QED BY <1>1, <1>2 DEF SInv, Alike, Ours

(* An answer at once. *)
LEMMA AnswerSession ==
  ASSUME SInv, NEW status, TakeAndRespond(status), pending # NoRequest,
         UNCHANGED <<ready, lastAck>>,
         pending.op # "virtual",
         pending.call = calls => Says(status),
         pending.op \in Entry /\ status = "ok" => active,
         pending.op = "exit" => ~active
  PROVE  Standing' /\ Left' /\ AtWork' /\ ToldAgain'
<1> USE DEF mcu, wire
<1>1. /\ calls \in Nat /\ current.call \in 0 .. calls /\ pending.call \in 0 .. calls
      /\ \A i \in 1 .. Len(up) : up[i] \in Requests /\ up[i].call \in 1 .. calls
  BY Made DEF SInv
<1>2. /\ current' = pending /\ state = "idle"
      /\ reply' = [call |-> pending.call, op |-> pending.op, status |-> status]
      /\ verdicts' = IF pending.call = calls THEN verdicts \cup {status} ELSE verdicts
      /\ UNCHANGED <<calls, call, inbox, answer, virtual, down, state, active, sd, enterTag,
                     release, ready, lastAck, cart, lapsed>>
  BY DEF TakeAndRespond, Take, Accepts, Respond, Reply
<1>3. pending.call \in 1 .. calls
  BY <1>1 DEF SInv, IInv, InWindow, Recent
<1>4. current.call = calls => pending.call = calls
  BY <1>1, <1>3, TakesOurs
<1>5. pending.call = calls => pending.op = call.op
  BY DEF SInv, Alike, Ours
<1>6. Left'
  BY <1>2, <1>5 DEF Left
<1>7. AtWork'
  BY <1>2 DEF AtWork, SInv
<1>8. ToldAgain'
  <2>1. \A v : Says(v) => Says(v)'
    BY <1>2 DEF Says
  <2>2. verdicts' # {} => pending.call = calls
    BY <1>2, <1>4 DEF ToldAgain, SInv
  <2>3. \A v \in verdicts' : Says(v)
    BY <1>2, <2>2 DEF ToldAgain, SInv
  <2>4. \A v \in verdicts' : Says(v)'
    BY <2>1, <2>3
  <2>5. verdicts' # {} => current'.call = calls' /\ calls' > 0 /\ call'.op # "virtual"
    BY <1>1, <1>2, <1>3, <1>5, <2>2
  <2> QED BY <2>4, <2>5 DEF ToldAgain
<1>9. Stands(reply)'
  BY <1>1, <1>2, <1>3, <1>5 DEF Stands
<1>10. ASSUME NEW r, Stands(r) PROVE Stands(r)'
  <2>1. current.call = calls => current'.call = calls
    BY <1>2, <1>4
  <2> QED BY <1>2, <1>10, <2>1 DEF Stands
<1>11. Standing'
  BY <1>2, <1>9, <1>10 DEF SInv, Standing
<1> QED BY <1>6, <1>7, <1>8, <1>11

LEMMA StandsKept ==
  ASSUME SInv, UNCHANGED <<calls, call, inbox, answer, virtual, down>>,
         current.call = calls /\ calls > 0 => current'.call = calls,
         current.call = calls /\ calls > 0 /\ call.op \in Entry /\ (active \/ lapsed)
           => active' \/ lapsed',
         Stands(reply)'
  PROVE  Standing'
<1>1. ASSUME NEW r, Stands(r) PROVE Stands(r)'
  BY <1>1 DEF Stands, Entry
<1> QED BY <1>1 DEF SInv, Standing

LEMMA ReplyKept ==
  ASSUME SInv, UNCHANGED <<calls, call, reply>>,
         current.call = calls /\ calls > 0 => current'.call = calls,
         current.call = calls /\ calls > 0 /\ call.op \in Entry /\ (active \/ lapsed)
           => active' \/ lapsed'
  PROVE  Stands(reply)'
BY DEF SInv, Standing, Stands, Entry

LEMMA AckSession ==
  ASSUME SInv, Ack, pending # NoRequest
  PROVE  Standing' /\ Left' /\ AtWork' /\ ToldAgain'
<1> USE DEF mcu, wire
<1>1. calls \in Nat /\ current.call \in 0 .. calls
  BY Made DEF SInv
<1>2. /\ current' = pending /\ state = "idle" /\ pending.op = "ack" /\ active
      /\ reply' = [call |-> pending.call, op |-> pending.op, status |-> "ok"]
      /\ verdicts' = IF pending.call = calls THEN verdicts \cup {"ok"} ELSE verdicts
      /\ ready # NoCall /\ SameTag(pending.seq, ready)
      /\ ready' = NoCall /\ lastAck' = pending.seq
      /\ UNCHANGED <<calls, call, inbox, answer, virtual, down, state, active, sd, enterTag,
                     release, cart, lapsed>>
  BY DEF Ack, TakeAndRespond, Take, Accepts, Respond, Reply
<1>3. pending.call \in 1 .. calls
  BY <1>1 DEF SInv, IInv, InWindow, Recent
<1>4. current.call = calls => pending.call = calls
  BY <1>1, <1>3, TakesOurs
<1>5. pending.call = calls => pending.op = call.op /\ pending.seq = call.seq
  BY DEF SInv, Alike, Ours
<1>6. Left' /\ AtWork'
  BY <1>2, <1>5 DEF Left, AtWork, SInv
<1>7. verdicts # {} => FALSE
  <2> SUFFICES ASSUME NEW v \in verdicts PROVE FALSE
    OBVIOUS
  <2>1. pending.call = calls
    BY <1>4 DEF SInv, ToldAgain
  <2>2. Says(v)
    BY DEF SInv, ToldAgain
  <2> QED BY <1>2, <1>5, <2>1, <2>2 DEF Says
<1>8. ToldAgain'
  <2>1. pending.call = calls => Says("ok")'
    <3> SUFFICES ASSUME pending.call = calls PROVE Says("ok")'
      OBVIOUS
    <3>1. call.op = "ack" /\ call.seq # NoCall /\ lastAck' = call.seq
      BY <1>2, <1>5 DEF SInv, Alike
    <3> QED BY <1>2, <3>1 DEF Says, Entry, SameTag
  <2> QED BY <1>1, <1>2, <1>3, <1>5, <1>7, <2>1 DEF ToldAgain
<1>9. Stands(reply)'
  BY <1>1, <1>2, <1>3, <1>5 DEF Stands, Entry
<1> QED BY <1>2, <1>4, <1>6, <1>8, <1>9, StandsKept

(* What is started now was not answered before. *)
LEMMA StartSession ==
  ASSUME SInv, Enter \/ Read \/ Write \/ Exit, pending # NoRequest
  PROVE  Standing' /\ Left' /\ AtWork' /\ ToldAgain'
<1> USE DEF mcu, wire
<1>1. calls \in Nat /\ current.call \in 0 .. calls
  BY Made DEF SInv
<1>2. /\ current' = pending /\ state = "idle"
      /\ UNCHANGED <<calls, call, inbox, answer, virtual, down, reply, cart, lapsed, verdicts>>
  BY DEF Enter, Read, Write, Exit, TakeAndStart, Take, Accepts
<1>3. pending.call \in 1 .. calls
  BY <1>1 DEF SInv, IInv, InWindow, Recent
<1>4. current.call = calls => pending.call = calls
  BY <1>1, <1>3, TakesOurs
<1>5. pending.call = calls => pending.op = call.op /\ pending.seq = call.seq
  BY DEF SInv, Alike, Ours
<1>6. verdicts # {} => pending.call = calls
  BY <1>4 DEF SInv, ToldAgain
<1>7. verdicts = {} \/ Write \/ Exit
  <2> SUFFICES ASSUME NEW v \in verdicts, Enter \/ Read PROVE FALSE
    OBVIOUS
  <2>1. Says(v)
    BY DEF SInv, ToldAgain
  <2> QED BY <1>5, <1>6, <2>1
          DEF Enter, Entering, MayEnter, Read, BusIsMine, OnBus, Says, Entry
<1>8. call.op \in Entry /\ pending.call = calls /\ active => active'
  BY <1>5 DEF Enter, TakeAndStart, Read, Write, Exit, Entry
<1>9. Standing'
  BY <1>2, <1>4, <1>8, ReplyKept, StandsKept
<1>10. Left'
  BY <1>2, <1>5 DEF Left, Enter, Entering, Read, Write, Exit, Close
<1>11. AtWork'
  <2>1. CASE Enter
    BY <1>2, <1>7, <2>1 DEF AtWork, Enter, Entering, MayEnter, TakeAndStart, Write, Exit
  <2>2. CASE Read \/ Write
    BY <1>2, <1>7, <2>2 DEF AtWork, Read, BusIsMine, OnBus, Write, Exit, TakeAndStart
  <2>3. CASE Exit
    BY <1>2, <2>3 DEF AtWork, Exit, Close
  <2> QED BY <2>1, <2>2, <2>3
<1>12. ToldAgain'
  BY <1>1, <1>2, <1>3, <1>5, <1>6, <1>7
  DEF SInv, ToldAgain, Says, Write, OnBus, TakeAndStart, Exit,
         Close, Entry
<1> QED BY <1>9, <1>10, <1>11, <1>12

AtOnce == \/ Ping \/ EnterAgain \/ EnterNothing \/ Refuse \/ ReadAgain \/ WriteBusy
          \/ AckAgain \/ ExitAgain

LEMMA AtOnceSession ==
  ASSUME SInv, AtOnce, pending # NoRequest
  PROVE  Standing' /\ Left' /\ AtWork' /\ ToldAgain'
<1> USE DEF Says, Entry
<1>1. pending.call = calls => pending.op = call.op /\ pending.seq = call.seq
  BY DEF SInv, Alike, Ours
<1>2. CASE Ping
  BY <1>1, <1>2, AnswerSession DEF Ping
<1>3. CASE EnterAgain
  BY <1>1, <1>3, AnswerSession DEF EnterAgain, Entering, MayEnter
<1>4. CASE EnterNothing
  BY <1>1, <1>4, AnswerSession DEF EnterNothing, Entering, MayEnter
<1>5. CASE Refuse
  BY <1>1, <1>5, AnswerSession DEF Refuse, OnBus
<1>6. CASE ReadAgain
  BY <1>1, <1>6, AnswerSession DEF ReadAgain, BusIsMine, OnBus, SameTag
<1>7. CASE WriteBusy
  BY <1>1, <1>7, AnswerSession DEF WriteBusy, BusIsMine, OnBus
<1>8. CASE AckAgain
  BY <1>1, <1>8, AnswerSession DEF AckAgain
<1>9. CASE ExitAgain
  BY <1>1, <1>9, AnswerSession DEF ExitAgain
<1> QED BY <1>2, <1>3, <1>4, <1>5, <1>6, <1>7, <1>8, <1>9 DEF AtOnce

(* The answer to what the engine was at. *)
LEMMA DoneSession ==
  ASSUME SInv, Entered \/ BusDone \/ Released
  PROVE  Standing' /\ Left' /\ AtWork' /\ ToldAgain'
<1> USE DEF mcu, wire
<1>1. calls \in Nat /\ current.call \in 0 .. calls
  BY Made DEF SInv
<1>2. /\ state' = "idle"
      /\ UNCHANGED <<calls, call, inbox, answer, virtual, down, current, active, sd, enterTag,
                     lastAck, cart, lapsed>>
  BY DEF Entered, BusDone, Released
<1>3. state # "idle"
  BY DEF Entered, BusDone, Released
<1>4. current.call \in 1 .. calls
  BY <1>1, <1>3 DEF SInv, IInv, InWindow, Recent, Answerable
<1>5. current.call = calls => current.op = call.op /\ current.seq = call.seq
  BY DEF SInv, Alike, Ours
<1>6. Left' /\ AtWork'
  BY <1>2 DEF SInv, Left, AtWork
<1>7. \/ UNCHANGED <<reply, verdicts>>
      \/ /\ \E st : reply' = [call |-> current.call, op |-> current.op, status |-> st]
         /\ reply'.op \in Entry /\ reply'.status = "ok" => active
         /\ \/ verdicts' = verdicts
            \/ /\ reply'.status = "ok"
               /\ verdicts' = IF current.call = calls THEN verdicts \cup {"ok"}
                              ELSE verdicts
  BY DEF SInv, AtWork, Entry, Entered, BusDone, Released, Respond, Reply
<1>8. Standing'
  BY <1>1, <1>2, <1>4, <1>5, <1>7, StandsKept DEF SInv, Standing, Stands
<1>9. current.call = calls => \A v \in verdicts' : Says(v)'
  <2> SUFFICES ASSUME current.call = calls, NEW v \in verdicts' PROVE Says(v)'
    OBVIOUS
  <2> USE DEF SInv, AtWork, ToldAgain, Says, Respond, Reply, Entry
  <2>1. CASE Entered
    BY <1>2, <1>5, <2>1 DEF Entered
  <2>2. CASE BusDone
    BY <1>2, <1>4, <1>5, <2>2 DEF BusDone, SameTag, NoCall
  <2>3. CASE Released
    BY <1>2, <1>5, <2>3 DEF Released
  <2> QED BY <2>1, <2>2, <2>3
<1>10. ToldAgain'
  <2>1. CASE current.call = calls
    <3>1. current.op \in {"enter", "enter_sd", "read", "write", "exit"} \/ verdicts' = verdicts
      BY DEF SInv, AtWork, Entered, BusDone, Released
    <3>2. verdicts' # {} => call.op # "virtual"
      BY <1>5, <2>1, <3>1 DEF SInv, ToldAgain
    <3> QED BY <1>2, <1>4, <1>9, <2>1, <3>2 DEF ToldAgain
  <2>2. CASE current.call # calls
    <3>1. verdicts = {} /\ verdicts' = {}
      BY <1>7, <2>2 DEF SInv, ToldAgain
    <3> QED BY <3>1 DEF ToldAgain
  <2> QED BY <2>1, <2>2
<1> QED BY <1>6, <1>8, <1>10

LEMMA FaultSession ==
  ASSUME SInv, Watchdog \/ PullCart \/ InsertCart
  PROVE  Standing' /\ Left' /\ AtWork' /\ ToldAgain'
<1>1. /\ UNCHANGED <<calls, call, inbox, answer, virtual, down, reply, current>>
      /\ verdicts' = {}
      /\ active' = active \/ (active' = FALSE /\ lapsed')
      /\ lapsed => lapsed'
  BY DEF Watchdog, PullCart, InsertCart, Close, mcu, wire, monitor, engine
<1>2. Standing'
  BY <1>1, ReplyKept, StandsKept
<1>3. AtWork'
  BY DEF SInv, AtWork, Watchdog, PullCart, InsertCart, Close, engine
<1> QED BY <1>1, <1>2, <1>3 DEF SInv, Left, ToldAgain

(* Whatever the engine takes is a request. *)
LEMMA EngineSession ==
  ASSUME SInv, Engine
  PROVE  Standing' /\ Left' /\ AtWork' /\ ToldAgain'
<1>1. CASE AtOnce
  <2>1. pending # NoRequest
    BY <1>1 DEF AtOnce, Ping, EnterAgain, EnterNothing, Refuse, ReadAgain, WriteBusy,
           AckAgain, ExitAgain, TakeAndRespond, Take, Accepts, ForEngine
  <2> QED BY <1>1, <2>1, AtOnceSession
<1>2. CASE Ack
  <2>1. pending # NoRequest
    BY <1>2 DEF Ack, TakeAndRespond, Take, Accepts, ForEngine
  <2> QED BY <1>2, <2>1, AckSession
<1>3. CASE Enter \/ Read \/ Write \/ Exit
  <2>1. pending # NoRequest
    BY <1>3 DEF Enter, Read, Write, Exit, TakeAndStart, Take, Accepts, ForEngine
  <2> QED BY <1>3, <2>1, StartSession
<1>4. CASE Entered \/ BusDone \/ Released
  BY <1>4, DoneSession
<1> QED BY <1>1, <1>2, <1>3, <1>4 DEF Engine, AtOnce

LEMMA InitSession == Init => SInv
<1> SUFFICES ASSUME Init PROVE SInv
  OBVIOUS
<1>1. IInv
  BY InitInv
<1>2. InOrder /\ Alike
  BY DEF Init, InOrder, Alike, Ours, NoRequest, NoCall
<1>3. Standing
  BY DEF Init, Standing, Stands, NoReply, NoCall
<1>4. Left /\ AtWork /\ ToldAgain
  BY DEF Init, Left, AtWork, ToldAgain
<1> QED BY <1>1, <1>2, <1>3, <1>4 DEF SInv

LEMMA StepSession == SInv /\ [Next]_vars => SInv'
<1> SUFFICES ASSUME SInv, [Next]_vars PROVE SInv'
  OBVIOUS
<1>1. IInv'
  BY StepInv DEF SInv
<1>2. CASE Calling \/ Running \/ SendFails
  BY <1>1, <1>2, McuOrder, McuSession DEF SInv
<1>3. CASE Wire \/ AnswerVirtual \/ LoseRequest \/ LoseReply
  BY <1>1, <1>3, WireOrder, WireSession DEF SInv
<1>4. CASE Engine \/ Watchdog \/ PullCart \/ InsertCart
  <2>1. InOrder' /\ Alike'
    BY <1>4, EngineOnly, EngineOrder
  <2>2. Standing' /\ Left' /\ AtWork' /\ ToldAgain'
    BY <1>4, EngineSession, FaultSession
  <2> QED BY <1>1, <2>1, <2>2 DEF SInv
<1>5. CASE UNCHANGED vars
  <2> USE <1>5 DEF vars, mcu, wire, monitor, engine, history
  <2>1. InOrder' /\ Alike'
    BY DEF SInv, InOrder, Alike, Ours
  <2>2. UNCHANGED Session
    BY DEF Session
  <2>3. Left' /\ AtWork' /\ ToldAgain' /\ \A r : Stands(r) => Stands(r)'
    BY <2>2, SessionKept
  <2>4. Standing'
    BY <2>3 DEF SInv, Standing
  <2> QED BY <1>1, <2>1, <2>3, <2>4 DEF SInv
<1> QED BY <1>2, <1>3, <1>4, <1>5 DEF Next, Fault

(* Every reachable state satisfies the invariant of the session. *)
THEOREM SessionInvariance == Spec => []SInv
  BY InitSession, StepSession, PTL DEF Spec

(* An answered call is a call. *)
Called == outcome = "answered" => calls > 0

LEMMA AnswerIsToACall == Spec => []Called
<1>1. Init => Called
  BY DEF Init, Called
<1>2. ASSUME IInv, Called, [Next]_vars PROVE Called'
  <2> USE <1>2 DEF Called, mcu, wire, monitor, engine
  <2>1. calls \in Nat
    BY LinkAssumption DEF IInv, TypeOK, Numbers
  <2>2. CASE Calling \/ Running \/ SendFails
    BY <2>1, <2>2
    DEF Calling, StartCall, Running, Send, Accept, Discard, TimeOut, SendFails, IInv
  <2>3. CASE Wire \/ AnswerVirtual \/ LoseRequest \/ LoseReply
    BY <2>3 DEF Wire, Arrive, Deliver, Transmit, AnswerVirtual, LoseRequest, LoseReply
  <2>4. CASE Engine \/ Watchdog \/ PullCart \/ InsertCart
    BY <2>4, EngineOnly DEF EngineStep
  <2>5. CASE UNCHANGED vars
    BY <2>5 DEF vars
  <2> QED BY <2>2, <2>3, <2>4, <2>5 DEF Next, Fault
<1> QED BY <1>1, <1>2, Invariance, PTL DEF Spec

(* A retry is told what the first attempt was told: whatever frames were   *)
(* lost or came late, the engine's answers to the attempts of one call are *)
(* the same (the recognition of ENTER, READ and BLOCK_ACK retries in       *)
(* cart_maintenance_engine.sv).                                            *)
THEOREM RetriesAgreeSafe == Spec => []RetriesAgree
<1>1. ASSUME SInv PROVE RetriesAgree
  <2> SUFFICES ASSUME NEW a \in verdicts, NEW b \in verdicts PROVE a = b
    BY DEF RetriesAgree
  <2>1. Says(a) /\ Says(b) /\ call.op # "virtual"
    BY <1>1 DEF SInv, ToldAgain
  <2>2. call.op \in Operations /\ active \in BOOLEAN /\ cart \in BOOLEAN /\ sd \in BOOLEAN
    BY <1>1 DEF SInv, IInv, TypeOK
  <2> QED BY <2>1, <2>2 DEF Says, Entry, Operations
<1> QED BY <1>1, SessionInvariance, PTL

(* What CartLink_TransactionRequest told its caller about the session is   *)
(* so: it is closed after EXIT, and open after ENTER unless it lapsed on   *)
(* its own.                                                                *)
THEOREM SessionSafe == Spec => []SessionAsAnswered
<1>1. ASSUME SInv, Called PROVE SessionAsAnswered
  <2> SUFFICES ASSUME outcome = "answered"
               PROVE  /\ answer.op = "exit" => ~active
                      /\ answer.op \in Entry /\ answer.status = "ok" => active \/ lapsed
    BY DEF SessionAsAnswered, Entry
  <2>1. answer.call = calls /\ calls > 0 /\ Stands(answer)
    BY <1>1 DEF SInv, IInv, AnswersTheCall, Standing, Called
  <2> QED BY <1>1, <2>1 DEF Stands, Left, SInv
<1> QED BY <1>1, SessionInvariance, AnswerIsToACall, PTL
=============================================================================

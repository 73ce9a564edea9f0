-------------------------- MODULE VirtualSaveProofs --------------------------
(* For any games, blocks, sequence numbers, writes and lost messages, and  *)
(* whatever a command, a card or the power does: the card never has a      *)
(* mixture of two saves, nothing the game wrote is forgotten, a game is    *)
(* left only with its save on the card, and one that was not left goes on  *)
(* and is watched; but for a load whose card could not be unmounted.       *)
EXTENDS VirtualSave, TLAPS

-----------------------------------------------------------------------------
(* The inductive invariant.  One flush at a time serves the request for a  *)
(* first block; the flag is down only while PSRAM has what the game sees.  *)
Flushes == \/ request # None /\ request.block = FirstBlock
           \/ stage = "waiting"

PortInv ==
  /\ request # None => stage = "idle"
  /\ stage # "waiting" => ~flush_asked /\ ~flushing /\ ~flush_done
  /\ flush_asked => ~flushing /\ ~flush_done
  /\ flushing => ~flush_done
  /\ flushing /\ wrote => dirty
  /\ stage # "idle" => ready = None
  /\ ~dirty => psram = ram
  /\ ~enabled => ~dirty /\ request = None /\ stage = "idle"

(* What is enabled and what of the game's state outlives it.               *)
SessionInv ==
  /\ enabled => prepared = "none" /\ game \in Games /\ ram \in images[game]
  /\ ~enabled => ~booted /\ ~hold /\ ~quiesced /\ ~hung
  /\ booted => ~hung
  /\ quiesced => hold
  /\ Active => path \in Games
  /\ Active /\ enabled => path = game

(* Which job is at which step.                                             *)
Copying == {"open", "save", "read", "check", "publish"}
Persisting == Copying \cup {"query"}
Answered == reply # None /\ reply.ok

JobInv ==
  /\ pc = "idle" <=> job = "none"
  /\ pc = "poll_status" => job = "poll"
  /\ pc \in {"quiesce", "freeze", "rtc", "resume"} => job \in {"load", "stop"}
  /\ pc = "stop" => job = "stop"
  /\ pc \in {"prepare", "reset", "upload", "start", "boot", "unmount", "abort", "dismiss"} =>
       job = "load"
  /\ job = "load" => target \in Games
  /\ (job = "poll" \/ pc \in Persisting \cup {"quiesce", "freeze", "rtc", "resume"}
        \/ (job = "stop" /\ pc = "mount")) => Active
  /\ pc \in Copying => pending
  /\ pc \in Copying \ {"open"} => file \in Saves
  /\ pc \in {"save", "read"} => block \in Blocks
  /\ ~AtCommand => tries = 0
  /\ tries <= lost

(* While the flag is down, the blocks read so far are the RAM the game sees, *)
(* as no write can hide behind another flush than the copy's own; so a copy *)
(* whose last answer says clean is one the RAM has held.                   *)
CopyInv ==
  /\ \/ pc \in {"read", "check", "publish"}
     \/ pc = "save" /\ (Answered \/ block # FirstBlock)
     => enabled
  /\ pc = "read" \/ (pc = "save" /\ Answered) =>
       /\ request # None => request.block = block
       /\ request = None =>
           /\ stage # "idle" => left \subseteq LinesOf(block)
           /\ stage = "waiting" => left = LinesOf(block) /\ block = FirstBlock
           /\ stage # "waiting" /\ ~dirty =>
                \A l \in LinesOf(block) : stage = "idle" \/ l \notin left => buffer[l] = ram[l]
  /\ pc \in {"save", "read"} /\ block # FirstBlock =>
       /\ ~Flushes
       /\ ~dirty => \A l \in Lines : BlockOf[l] < block => file[l] = ram[l]
  /\ pc \in {"check", "publish"} => ~Flushes /\ (~dirty => file = ram)
  /\ pc = "publish" \/ (pc = "check" /\ Answered /\ ~reply.dirty) => file \in images[path]

(* A flush lowers the FPGA's flag only while the firmware's is up.         *)
FlagInv == Active /\ Flushes => pending

(* A frozen game stays frozen until it is resumed or dropped, and past the *)
(* save nothing of it is dirty or pending.                                 *)
Left == {"rtc", "prepare", "stop", "abort"}
SwitchInv ==
  /\ Active /\ enabled /\ job # "poll" /\ pc \in Left \cup Persisting => quiesced
  /\ Active /\ enabled /\ pc \in Left => ~dirty /\ ~pending
  /\ pc = "freeze" /\ Answered /\ reply.quiesced => quiesced
  /\ enabled /\ job # "poll" /\ pc \in {"query", "check"} /\ Answered /\ dirty => reply.dirty
  /\ job # "poll" /\ pc = "publish" => ~dirty

(* Who froze a game resumes it, unless the command is lost with its retries. *)
HoldInv ==
  Active /\ enabled /\ hold /\ lost < Attempts =>
    /\ job \in {"load", "stop"}
    /\ pc # "mount"
    /\ pc = "resume" => reply = None

(* From PREPARE to the first frame the new game has the save it was given, *)
(* and a second try at it finds the RAM as the first did.                  *)
LoadInv ==
  /\ pc \in {"reset", "upload"} => ~enabled
  /\ pc \in {"prepare", "stop"} /\ Answered => ~enabled
  /\ pc = "upload" \/ (pc = "reset" /\ Answered /\ reply.prepared) => prepared = "ready"
  /\ pc \in {"upload", "start", "boot"} \/ (pc \in {"prepare", "reset"} /\ boots > 0) => ~Active
  /\ pc \in {"start", "boot"} \/ (pc \in {"prepare", "reset"} /\ boots > 0) =>
       /\ game = target /\ ~hold /\ request = None /\ stage = "idle"
       /\ ~dirty => ram = sd[target]
       /\ ~booted => ~dirty
  /\ pc = "prepare" /\ boots > 0 /\ enabled => hung
  /\ boots > 0 => pc \in {"prepare", "reset", "start", "boot", "unmount", "abort", "dismiss"}
  /\ pc \in {"unmount", "dismiss"} => Active /\ (enabled => ~hold)

(* A game nobody watches has cost a STOP with all its transmissions.       *)
WatchInv ==
  /\ enabled /\ ~hung /\ pc \in {"abort", "dismiss"} =>
       lost >= (IF reply = None THEN tries ELSE Attempts)
  /\ enabled /\ ~hung /\ ~Active /\ pc \notin {"start", "boot", "abort", "dismiss"} =>
       lost >= Attempts

IInv == /\ TypeOK /\ PortInv /\ SessionInv /\ JobInv /\ CopyInv /\ FlagInv /\ SwitchInv
        /\ HoldInv /\ LoadInv /\ WatchInv /\ NoTornSave /\ CleanMeansSaved

-----------------------------------------------------------------------------
(* The steps, in groups.  Between two commands the microcontroller changes *)
(* nothing of the FPGA.                                                    *)
Beginning == StartPoll \/ StartLoad \/ StartStop
Polling == PollAnswered \/ PollMissed \/ Mount \/ MountFails
Opening == Queried \/ QueryMissed \/ OpenTemp \/ OpenTempFails
Reading == BlockAsked \/ BlockNotAsked \/ ReadBlock \/ ReadBlockFails
Checking == Checked \/ WrittenMeanwhile \/ CheckMissed
Publishing == Publish \/ PublishFails
Freezing == QuiesceAnswered \/ QuiesceMissed \/ Frozen \/ AskAgain \/ FreezeTimesOut
Leaving == SaveRtc \/ SaveRtcFails \/ Resumed \/ Stopped \/ StopMissed
Loading == Prepared \/ ResetSeen \/ StartAnswered \/ FrameSeen \/ Unmounted
Failing == BootTimesOut \/ LoadMissed \/ UploadFails \/ UnmountFails \/ Aborted
Inside == \/ Beginning \/ Polling \/ Opening \/ Reading \/ Checking \/ Publishing
          \/ Freezing \/ Leaving \/ Loading \/ Failing
Core == CoreResets \/ BootGame \/ GameHangs \/ GameFreezes

(* A step is of one of the groups, or the upload, a command or the FPGA's. *)
LEMMA Cases ==
  Next => \/ Inside \/ UploadGame \/ PowerCut \/ Exchange \/ MessageLost
          \/ Core \/ GameWrites \/ SaveRam
  BY DEF Next, Firmware, Fault, Inside, Beginning, Polling, Opening, Reading, Checking,
     Publishing, Freezing, Leaving, Loading, Failing, Core

(* Between two commands only the firmware's own state changes.             *)
LEMMA Quiet == Inside => UNCHANGED <<fpgaVars, tries, images, writes, lost>>
<1> USE DEF Local
<1>1. Beginning \/ Polling \/ Opening => UNCHANGED <<fpgaVars, tries, images, writes, lost>>
  BY DEF Beginning, StartPoll, StartLoad, StartStop, Begin, Polling, PollAnswered,
     PollMissed, Mount, MountFails, Opening, Queried, QueryMissed, OpenTemp, OpenTempFails
<1>2. Reading \/ Checking \/ Publishing => UNCHANGED <<fpgaVars, tries, images, writes, lost>>
  BY DEF Reading, BlockAsked, BlockNotAsked, ReadBlock, ReadBlockFails, Discard, Checking,
     Checked, WrittenMeanwhile, CheckMissed, Publishing, Publish, PublishFails
<1>3. Freezing \/ Leaving => UNCHANGED <<fpgaVars, tries, images, writes, lost>>
  BY DEF Freezing, QuiesceAnswered, QuiesceMissed, Frozen, AskAgain, PollAgain, BootIsSlow,
     FreezeTimesOut, Leaving, SaveRtc, SaveRtcFails, Resumed, Stopped, StopMissed
<1>4. Loading \/ Failing => UNCHANGED <<fpgaVars, tries, images, writes, lost>>
  BY DEF Loading, Prepared, ResetSeen, StartAnswered, FrameSeen, Unmounted, Failing,
     BootTimesOut, LoadMissed, UploadFails, UnmountFails, Aborted
<1> QED
  BY <1>1, <1>2, <1>3, <1>4 DEF Inside

(* From here on the small parts of the actions are read as they stand. *)
USE DEF Local, GoTo, Done, Got, Missed, Return, Discard, Commands, fpgaVars, memoryVars,
        portVars, servingVars, hostVars, sessionVars, activeVars, loopVars, jobVars,
        worldVars

(* The parts of the assumption, one for each kind of use.                  *)
LEMMA Bounds ==
  /\ Attempts \in Nat /\ Attempts > 0 /\ Passes \in Nat /\ Passes > 0
  /\ Boots \in Nat /\ Boots > 0 /\ Polls \in Nat /\ MaxWrites \in Nat /\ LossBudget \in Nat
  BY VirtualAssumption

(* None is none of what a variable that may be None holds else.            *)
LEMMA NotNone ==
  None \notin Games /\ None \notin Blocks /\ None \notin Requests /\ None \notin Replies
  BY VirtualAssumption

(* Blocks and sequence numbers go on within their sets.                    *)
LEMMA BlockFacts ==
  /\ FirstBlock \in Blocks /\ NextSequence \in [Sequences -> Sequences]
  /\ NextBlock \in [Blocks -> Blocks \cup {None}]
  BY PortAssumption, VirtualAssumption

(* The blocks up to one are those before the next. *)
LEMMA UpTo ==
  ASSUME NEW c \in Blocks, NEW d \in Blocks,
         NextBlock[c] = None \/ (NextBlock[c] # None /\ d < NextBlock[c])
  PROVE  d <= c
<1>1. c \in Nat /\ d \in Nat /\ (NextBlock[c] # None => NextBlock[c] \in Nat)
  BY VirtualAssumption
<1>2. c < d <=> NextBlock[c] # None /\ NextBlock[c] <= d
  BY VirtualAssumption
<1> QED
  BY <1>1, <1>2

(* What the FPGA does for a command. *)
LEMMA Executed ==
  ASSUME AtCommand, Execute(Command)
  PROVE  \/ UNCHANGED fpgaVars
         \/ pc = "save" /\ enabled /\ AskBlock(block, seq) /\ UNCHANGED sessionVars
         \/ /\ pc = "quiesce" /\ enabled /\ hold'
            /\ UNCHANGED <<memoryVars, prepared, quiesced, booted, hung, game>>
         \/ /\ pc = "resume" /\ enabled /\ ~hold' /\ ~quiesced'
            /\ UNCHANGED <<memoryVars, prepared, booted, hung, game>>
         \/ pc = "prepare" /\ prepared = "none" /\ prepared' = "pending" /\ SessionEnds
         \/ /\ pc = "start" /\ prepared = "ready" /\ prepared' = "none" /\ Enable
            /\ UNCHANGED <<hold, quiesced, booted, hung, game>>
         \/ pc \in {"stop", "abort", "dismiss"} /\ prepared' = "none" /\ SessionEnds
  BY DEF AtCommand, Execute, Command, Perform, Refused

(* A command leaves the FPGA's memory in its types.                        *)
LEMMA ExecutedTypes == ASSUME IInv, AtCommand, Execute(Command) PROVE MemoryTypeOK'
<1> USE PortAssumption DEF IInv, TypeOK, MemoryTypeOK, PortTypeOK, Saves
<1>1. CASE pc = "save" /\ AskBlock(block, seq)
  BY <1>1 DEF AskBlock, RequestBlock, Requests, JobInv, LoopTypeOK
<1>2. CASE SessionEnds
  BY <1>2 DEF SessionEnds, Disable, PortOff
<1>3. CASE Enable
  BY <1>3 DEF Enable
<1>4. CASE UNCHANGED memoryVars
  BY <1>4
<1> QED
  BY <1>1, <1>2, <1>3, <1>4, Executed

(* The end of a session resets what the game's state was.                  *)
LEMMA SessionIsOver == ASSUME IInv, SessionEnds
                       PROVE  ~enabled' /\ ~hold' /\ ~quiesced' /\ ~booted' /\ ~hung' /\ ~dirty'
  BY DEF IInv, SessionEnds, Disable, SessionInv, PortInv

-----------------------------------------------------------------------------
(* Types, one lemma for each part of the state.                            *)
LEMMA MemoryTypes == ASSUME IInv, Next PROVE MemoryTypeOK'
<1> USE PortAssumption, VirtualAssumption
<1> USE DEF IInv, TypeOK, MemoryTypeOK, PortTypeOK, Saves
<1>1. CASE Inside
  BY <1>1, Quiet
<1>2. CASE UploadGame
  BY <1>2 DEF UploadGame, WorldTypeOK, JobInv
<1>3. CASE PowerCut
  BY <1>3 DEF PowerCut, ClearActive, Disable, PortOff
<1>4. CASE Exchange
  BY <1>4, ExecutedTypes DEF Exchange
<1>5. CASE MessageLost
  BY <1>5, ExecutedTypes DEF MessageLost
<1>6. CASE Core
  BY <1>6 DEF Core, CoreResets, BootGame, GameHangs, GameFreezes
<1>7. CASE GameWrites
  BY <1>7 DEF GameWrites, Write, SessionInv, WorldTypeOK
<1>8. CASE SaveRam
  <2>1. CASE StartFlush \/ EndFlush
    BY <1>8, <2>1 DEF SaveRam, StartFlush, EndFlush
  <2>2. CASE enabled /\ (PickRequest \/ FlushSeen) /\ UNCHANGED hostVars
    BY <2>2 DEF PickRequest, FlushSeen, Requests, LinesOf
  <2>3. CASE CopyLine /\ UNCHANGED hostVars
    BY <2>3 DEF CopyLine
  <2>4. CASE \E l \in Lines : Drain(l)
    BY <2>4 DEF Drain
  <2> QED
    BY <1>8, <2>1, <2>2, <2>3, <2>4 DEF SaveRam, MemoryStep, ServeSnapshot, PortStep
<1> QED
  BY <1>1, <1>2, <1>3, <1>4, <1>5, <1>6, <1>7, <1>8, Cases

LEMMA SessionTypes == ASSUME IInv, Next PROVE SessionTypeOK'
<1> USE PortAssumption, VirtualAssumption
<1> USE DEF IInv, TypeOK, SessionTypeOK
<1>1. CASE Inside
  BY <1>1, Quiet
<1>2. CASE UploadGame
  BY <1>2 DEF UploadGame, JobInv
<1>3. CASE PowerCut
  BY <1>3 DEF PowerCut, ClearActive, Disable, PortOff
<1>4. CASE Exchange
  BY <1>4 DEF Exchange, Execute, Perform, Refused, Command, AtCommand, Answer, NoAnswer,
     AskBlock, RequestBlock, Requests, SessionEnds, Disable, Enable, PortOff
<1>5. CASE MessageLost
  BY <1>5 DEF MessageLost, Execute, Perform, Refused, Command, AtCommand, Answer, NoAnswer,
     AskBlock, RequestBlock, Requests, SessionEnds, Disable, Enable, PortOff
<1>6. CASE Core
  BY <1>6 DEF Core, CoreResets, BootGame, GameHangs, GameFreezes
<1>7. CASE GameWrites
  BY <1>7 DEF GameWrites, Write
<1>8. CASE SaveRam
  BY <1>8 DEF SaveRam, MemoryStep, StartFlush, EndFlush, ServeSnapshot, PortStep,
     PickRequest, FlushSeen, CopyLine, Drain, Requests, LinesOf
<1> QED
  BY <1>1, <1>2, <1>3, <1>4, <1>5, <1>6, <1>7, <1>8, Cases

LEMMA JobTypes == ASSUME IInv, Next PROVE JobTypeOK'
<1> USE Bounds
<1> USE DEF IInv, TypeOK, JobTypeOK
<1>1. CASE Beginning
  BY <1>1 DEF Beginning, StartPoll, StartLoad, StartStop, Begin
<1>2. CASE Polling
  BY <1>2 DEF Polling, PollAnswered, PollMissed, Mount, MountFails
<1>3. CASE Opening
  BY <1>3 DEF Opening, Queried, QueryMissed, OpenTemp, OpenTempFails
<1>4. CASE Reading
  BY <1>4 DEF Reading, BlockAsked, BlockNotAsked, ReadBlock, ReadBlockFails
<1>5. CASE Checking
  BY <1>5 DEF Checking, Checked, WrittenMeanwhile, CheckMissed
<1>6. CASE Publishing
  BY <1>6 DEF Publishing, Publish, PublishFails
<1>7. CASE Freezing
  BY <1>7 DEF Freezing, QuiesceAnswered, QuiesceMissed, Frozen, AskAgain, PollAgain,
     BootIsSlow, FreezeTimesOut
<1>8. CASE Leaving
  BY <1>8 DEF Leaving, SaveRtc, SaveRtcFails, Resumed, Stopped, StopMissed, ClearActive
<1>9. CASE Loading
  BY <1>9 DEF Loading, Prepared, ResetSeen, StartAnswered, FrameSeen, Unmounted, ClearActive
<1>10. CASE Failing
  BY <1>10 DEF Failing, BootTimesOut, LoadMissed, UploadFails, UnmountFails, Aborted,
     ClearActive
<1>11. CASE UploadGame
  BY <1>11 DEF UploadGame
<1>12. CASE PowerCut
  <2>1. /\ Active' = FALSE /\ pending' = FALSE /\ path' = None
        /\ job' = "none" /\ target' = None
        /\ pc' = "idle" /\ reply' = None /\ tries' = 0
    BY <1>12 DEF PowerCut, ClearActive
  <2>2. 0 \in 0 .. Attempts - 1
    OBVIOUS
  <2>3. Active' \in BOOLEAN /\ pending' \in BOOLEAN 
    BY <2>1
  <2>4. /\ path' \in Games \cup {None} /\ target' \in Games \cup {None}
        /\ reply' \in Replies \cup {None}
    BY <2>1
  <2>5. job' \in {"none", "poll", "load", "stop"} /\ pc' \in Commands \cup
                       {"idle", "mount", "open", "read", "publish", "rtc", "upload",
                        "unmount"}
    BY <2>1
  <2> QED
    BY <2>1, <2>2, <2>3, <2>4, <2>5
<1>13. CASE Exchange
  <2>1. reply' = Answer(Command) /\ tries' = 0 /\ UNCHANGED <<activeVars, job, target, pc>>
    BY <1>13 DEF Exchange
  <2>2. reply' \in Replies
    BY <2>1 DEF Answer, NoAnswer, Replies, MemoryTypeOK, SessionTypeOK
  <2> QED
    BY <2>1, <2>2
<1>14. CASE MessageLost
  <2>1. /\ UNCHANGED <<activeVars, job, target, pc>>
        /\ \/ reply' = NoAnswer /\ tries' = 0
           \/ tries + 1 # Attempts /\ tries' = tries + 1 /\ reply' = reply
    BY <1>14 DEF MessageLost
  <2>2. NoAnswer \in Replies
    BY DEF NoAnswer, Replies
  <2> QED
    BY <2>1, <2>2
<1>15. CASE Core
  BY <1>15 DEF Core, CoreResets, BootGame, GameHangs, GameFreezes
<1>16. CASE GameWrites
  BY <1>16 DEF GameWrites
<1>17. CASE SaveRam
  BY <1>17 DEF SaveRam
<1> QED
  BY <1>1, <1>2, <1>3, <1>4, <1>5, <1>6, <1>7, <1>8, <1>9, <1>10, <1>11, <1>12, <1>13,
     <1>14, <1>15, <1>16, <1>17, Cases DEF Inside

LEMMA LoopTypes == ASSUME IInv, Next PROVE LoopTypeOK'
<1> USE Bounds, BlockFacts
<1> USE DEF IInv, TypeOK, LoopTypeOK
<1>1. CASE Beginning
  BY <1>1 DEF Beginning, StartPoll, StartLoad, StartStop, Begin
<1>2. CASE Polling
  BY <1>2 DEF Polling, PollAnswered, PollMissed, Mount, MountFails
<1>3. CASE Queried \/ QueryMissed \/ OpenTempFails
  BY <1>3 DEF Queried, QueryMissed, OpenTempFails
<1>4. CASE OpenTemp
  <2>1. path \in Games /\ sd[path] \in Saves
    BY <1>4 DEF OpenTemp, JobInv, SessionInv, WorldTypeOK, Copying, Persisting
  <2> QED
    BY <1>4, <2>1 DEF OpenTemp
<1>5. CASE BlockAsked \/ BlockNotAsked \/ ReadBlockFails
  BY <1>5 DEF BlockAsked, BlockNotAsked, ReadBlockFails
<1>6. CASE ReadBlock
  <2>1. file \in Saves /\ buffer \in Saves /\ block \in Blocks
    BY <1>6 DEF ReadBlock, JobInv, Copying, Saves, MemoryTypeOK, PortTypeOK
  <2>2. file' \in Saves
    BY <1>6, <2>1 DEF ReadBlock, Saves
  <2>3. block' \in Blocks /\ seq' \in Sequences
    BY <1>6, <2>1 DEF ReadBlock
  <2> QED
    BY <1>6, <2>2, <2>3 DEF ReadBlock
<1>7. CASE Checking
  BY <1>7 DEF Checking, Checked, WrittenMeanwhile, CheckMissed
<1>8. CASE Publishing
  BY <1>8 DEF Publishing, Publish, PublishFails
<1>9. CASE Freezing
  BY <1>9 DEF Freezing, QuiesceAnswered, QuiesceMissed, Frozen, AskAgain, PollAgain,
     BootIsSlow, FreezeTimesOut
<1>10. CASE Leaving
  BY <1>10 DEF Leaving, SaveRtc, SaveRtcFails, Resumed, Stopped, StopMissed, ClearActive
<1>11. CASE Loading
  BY <1>11 DEF Loading, Prepared, ResetSeen, StartAnswered, FrameSeen, Unmounted,
     ClearActive
<1>12. CASE Failing
  BY <1>12 DEF Failing, BootTimesOut, LoadMissed, UploadFails, UnmountFails, Aborted,
     ClearActive
<1>13. CASE UploadGame
  BY <1>13 DEF UploadGame
<1>14. CASE PowerCut
  BY <1>14 DEF PowerCut
<1>15. CASE Exchange
  BY <1>15 DEF Exchange
<1>16. CASE MessageLost
  BY <1>16 DEF MessageLost
<1>17. CASE Core
  BY <1>17 DEF Core, CoreResets, BootGame, GameHangs, GameFreezes
<1>18. CASE GameWrites
  BY <1>18 DEF GameWrites
<1>19. CASE SaveRam
  BY <1>19 DEF SaveRam
<1> QED
  BY <1>1, <1>2, <1>3, <1>4, <1>5, <1>6, <1>7, <1>8, <1>9, <1>10, <1>11, <1>12, <1>13,
     <1>14, <1>15, <1>16, <1>17, <1>18, <1>19, Cases DEF Inside, Opening, Reading

LEMMA WorldTypes == ASSUME IInv, Next PROVE WorldTypeOK'
<1> USE Bounds
<1> USE DEF IInv, TypeOK, WorldTypeOK
<1>1. CASE Beginning
  BY <1>1 DEF Beginning, StartPoll, StartLoad, StartStop, Begin
<1>2. CASE Polling
  BY <1>2 DEF Polling, PollAnswered, PollMissed, Mount, MountFails
<1>3. CASE Opening
  BY <1>3 DEF Opening, Queried, QueryMissed, OpenTemp, OpenTempFails
<1>4. CASE Reading
  BY <1>4 DEF Reading, BlockAsked, BlockNotAsked, ReadBlock, ReadBlockFails
<1>5. CASE Checking
  BY <1>5 DEF Checking, Checked, WrittenMeanwhile, CheckMissed
<1>6. CASE Publishing
  <2>1. path \in Games /\ file \in Saves
    BY <1>6 DEF Publishing, Publish, PublishFails, JobInv, SessionInv, Copying, Persisting
  <2> QED
    BY <1>6, <2>1 DEF Publishing, Publish, PublishFails
<1>7. CASE Freezing
  BY <1>7 DEF Freezing, QuiesceAnswered, QuiesceMissed, Frozen, AskAgain, PollAgain,
     BootIsSlow, FreezeTimesOut
<1>8. CASE Leaving
  BY <1>8 DEF Leaving, SaveRtc, SaveRtcFails, Resumed, Stopped, StopMissed, ClearActive
<1>9. CASE Loading
  BY <1>9 DEF Loading, Prepared, ResetSeen, StartAnswered, FrameSeen, Unmounted, ClearActive
<1>10. CASE Failing
  BY <1>10 DEF Failing, BootTimesOut, LoadMissed, UploadFails, UnmountFails, Aborted,
     ClearActive
<1>11. CASE UploadGame
  BY <1>11 DEF UploadGame
<1>12. CASE PowerCut
  <2>1. pc = "publish" => path \in Games /\ file \in Saves
    BY DEF JobInv, SessionInv, Copying, Persisting
  <2> QED
    BY <1>12, <2>1 DEF PowerCut
<1>13. CASE Exchange
  BY <1>13 DEF Exchange
<1>14. CASE MessageLost
  BY <1>14 DEF MessageLost
<1>15. CASE Core
  BY <1>15 DEF Core, CoreResets, BootGame, GameHangs, GameFreezes
<1>16. CASE GameWrites
  <2>1. game \in Games /\ ram' \in Saves
    BY <1>16, MemoryTypes DEF GameWrites, SessionInv, MemoryTypeOK
  <2> QED
    BY <1>16, <2>1 DEF GameWrites
<1>17. CASE SaveRam
  BY <1>17 DEF SaveRam
<1> QED
  BY <1>1, <1>2, <1>3, <1>4, <1>5, <1>6, <1>7, <1>8, <1>9, <1>10, <1>11, <1>12, <1>13,
     <1>14, <1>15, <1>16, <1>17, Cases DEF Inside
-----------------------------------------------------------------------------
(* Each part of the invariant is kept by every step.                       *)
(*                                                                         *)
(* The snapshot port and the flag.                                         *)
LEMMA FlushStep == ASSUME IInv, Next PROVE PortInv'
<1> USE PortAssumption, VirtualAssumption
<1> USE DEF IInv, PortInv, TypeOK, MemoryTypeOK, PortTypeOK
<1>1. CASE Inside
  BY <1>1, Quiet
<1>2. CASE UploadGame
  BY <1>2 DEF UploadGame
<1>3. CASE PowerCut
  BY <1>3 DEF PowerCut, ClearActive, Disable, PortOff
<1>4. CASE Exchange
  BY <1>4 DEF Exchange, Execute, Perform, Refused, Command, AtCommand, Answer, NoAnswer,
     AskBlock, RequestBlock, Requests, SessionEnds, Disable, Enable, PortOff
<1>5. CASE MessageLost
  BY <1>5 DEF MessageLost, Execute, Perform, Refused, Command, AtCommand, Answer, NoAnswer,
     AskBlock, RequestBlock, Requests, SessionEnds, Disable, Enable, PortOff
<1>6. CASE Core
  BY <1>6 DEF Core, CoreResets, BootGame, GameHangs, GameFreezes
<1>7. CASE GameWrites
  BY <1>7 DEF GameWrites, Write
<1>8. CASE SaveRam
  BY <1>8 DEF SaveRam, MemoryStep, StartFlush, EndFlush, ServeSnapshot, PortStep,
     PickRequest, FlushSeen, CopyLine, Drain, Requests, LinesOf
<1> QED
  BY <1>1, <1>2, <1>3, <1>4, <1>5, <1>6, <1>7, <1>8, Cases

(* The session of the FPGA: START enables a game whose RAM is a save of its *)
(* own, as the upload or the try before left it.                           *)
LEMMA SessionStep == ASSUME IInv, Next PROVE SessionInv'
<1> USE PortAssumption, VirtualAssumption
<1> USE DEF IInv, SessionInv, TypeOK, SessionTypeOK, JobTypeOK, WorldTypeOK, JobInv, PortInv
<1>1. CASE Beginning
  BY <1>1 DEF Beginning, StartPoll, StartLoad, StartStop, Begin
<1>2. CASE Polling
  BY <1>2 DEF Polling, PollAnswered, PollMissed, Mount, MountFails
<1>3. CASE Opening
  BY <1>3 DEF Opening, Queried, QueryMissed, OpenTemp, OpenTempFails
<1>4. CASE Reading
  BY <1>4 DEF Reading, BlockAsked, BlockNotAsked, ReadBlock, ReadBlockFails
<1>5. CASE Checking
  BY <1>5 DEF Checking, Checked, WrittenMeanwhile, CheckMissed
<1>6. CASE Publishing
  BY <1>6 DEF Publishing, Publish, PublishFails
<1>7. CASE Freezing
  BY <1>7 DEF Freezing, QuiesceAnswered, QuiesceMissed, Frozen, AskAgain, PollAgain,
     BootIsSlow, FreezeTimesOut
<1>8. CASE Leaving
  BY <1>8 DEF Leaving, SaveRtc, SaveRtcFails, Resumed, Stopped, StopMissed, ClearActive
<1>9. CASE Loading
  BY <1>9 DEF Loading, Prepared, ResetSeen, StartAnswered, FrameSeen, Unmounted,
     ClearActive, LoadInv
<1>10. CASE Failing
  BY <1>10 DEF Failing, BootTimesOut, LoadMissed, UploadFails, UnmountFails, Aborted,
     ClearActive
<1>11. CASE UploadGame
  BY <1>11 DEF UploadGame, LoadInv
<1>12. CASE PowerCut
  BY <1>12 DEF PowerCut, ClearActive, Disable, PortOff
<1>13. CASE Exchange
  BY <1>13 DEF Exchange, Execute, Perform, Refused, Command, AtCommand, AskBlock,
     RequestBlock, SessionEnds, Disable, Enable, PortOff, LoadInv, NoTornSave
<1>14. CASE MessageLost
  <2>1. CASE UNCHANGED fpgaVars
    BY <1>14, <2>1 DEF MessageLost
  <2>2. CASE Execute(Command)
    BY <1>14, <2>2 DEF MessageLost, Execute, Perform, Refused, Command, AtCommand, AskBlock,
       RequestBlock, SessionEnds, Disable, Enable, PortOff, LoadInv, NoTornSave
  <2> QED
    BY <1>14, <2>1, <2>2 DEF MessageLost
<1>15. CASE Core
  BY <1>15 DEF Core, CoreResets, BootGame, GameHangs, GameFreezes
<1>16. CASE GameWrites
  BY <1>16 DEF GameWrites, Write
<1>17. CASE SaveRam
  BY <1>17 DEF SaveRam, MemoryStep, StartFlush, EndFlush, ServeSnapshot, PortStep,
     PickRequest, FlushSeen, CopyLine, Drain, Requests, LinesOf
<1> QED
  BY <1>1, <1>2, <1>3, <1>4, <1>5, <1>6, <1>7, <1>8, <1>9, <1>10, <1>11, <1>12, <1>13,
     <1>14, <1>15, <1>16, <1>17, Cases DEF Inside

(* The firmware's jobs.                                                    *)
LEMMA JobStep == ASSUME IInv, Next PROVE JobInv'
<1> USE PortAssumption, VirtualAssumption
<1> USE DEF IInv, JobInv, TypeOK, LoopTypeOK, JobTypeOK, Persisting, Copying, AtCommand,
      Saves
<1>1. CASE Beginning
  BY <1>1 DEF Beginning, StartPoll, StartLoad, StartStop, Begin
<1>2. CASE Polling
  BY <1>2 DEF Polling, PollAnswered, PollMissed, Mount, MountFails
<1>3. CASE Opening
  BY <1>3 DEF Opening, Queried, QueryMissed, OpenTemp, OpenTempFails, SessionInv,
     WorldTypeOK
<1>4. CASE Reading
  BY <1>4, LoopTypes DEF Reading, BlockAsked, BlockNotAsked, ReadBlock, ReadBlockFails,
     MemoryTypeOK, PortTypeOK
<1>5. CASE Checking
  BY <1>5 DEF Checking, Checked, WrittenMeanwhile, CheckMissed
<1>6. CASE Publishing
  BY <1>6 DEF Publishing, Publish, PublishFails
<1>7. CASE Freezing
  BY <1>7 DEF Freezing, QuiesceAnswered, QuiesceMissed, Frozen, AskAgain, PollAgain,
     BootIsSlow, FreezeTimesOut
<1>8. CASE Leaving
  BY <1>8 DEF Leaving, SaveRtc, SaveRtcFails, Resumed, Stopped, StopMissed, ClearActive
<1>9. CASE Loading
  BY <1>9 DEF Loading, Prepared, ResetSeen, StartAnswered, FrameSeen, Unmounted, ClearActive
<1>10. CASE Failing
  BY <1>10 DEF Failing, BootTimesOut, LoadMissed, UploadFails, UnmountFails, Aborted,
     ClearActive
<1>11. CASE UploadGame
  BY <1>11 DEF UploadGame
<1>12. CASE PowerCut
  BY <1>12 DEF PowerCut, ClearActive, WorldTypeOK
<1>13. CASE Exchange
  BY <1>13 DEF Exchange, WorldTypeOK
<1>14. CASE MessageLost
  BY <1>14 DEF MessageLost, WorldTypeOK
<1>15. CASE Core
  BY <1>15 DEF Core, CoreResets, BootGame, GameHangs, GameFreezes
<1>16. CASE GameWrites
  BY <1>16 DEF GameWrites
<1>17. CASE SaveRam
  BY <1>17 DEF SaveRam
<1> QED
  BY <1>1, <1>2, <1>3, <1>4, <1>5, <1>6, <1>7, <1>8, <1>9, <1>10, <1>11, <1>12, <1>13,
     <1>14, <1>15, <1>16, <1>17, Cases DEF Inside

(* The two dirty flags.                                                    *)
LEMMA FlagStep == ASSUME IInv, Next PROVE FlagInv'
<1> USE PortAssumption, VirtualAssumption
<1> USE DEF IInv, FlagInv, Flushes, TypeOK, MemoryTypeOK, PortTypeOK, JobTypeOK, PortInv,
      SessionInv, JobInv, CopyInv, Copying, Persisting, LoadInv
<1>1. CASE Beginning
  BY <1>1 DEF Beginning, StartPoll, StartLoad, StartStop, Begin
<1>2. CASE Polling
  BY <1>2 DEF Polling, PollAnswered, PollMissed, Mount, MountFails
<1>3. CASE Opening
  BY <1>3 DEF Opening, Queried, QueryMissed, OpenTemp, OpenTempFails
<1>4. CASE Reading
  BY <1>4 DEF Reading, BlockAsked, BlockNotAsked, ReadBlock, ReadBlockFails
<1>5. CASE Checking
  BY <1>5 DEF Checking, Checked, WrittenMeanwhile, CheckMissed
<1>6. CASE Publishing
  BY <1>6 DEF Publishing, Publish, PublishFails
<1>7. CASE Freezing
  BY <1>7 DEF Freezing, QuiesceAnswered, QuiesceMissed, Frozen, AskAgain, PollAgain,
     BootIsSlow, FreezeTimesOut
<1>8. CASE Leaving
  BY <1>8 DEF Leaving, SaveRtc, SaveRtcFails, Resumed, Stopped, StopMissed, ClearActive
<1>9. CASE Loading
  BY <1>9 DEF Loading, Prepared, ResetSeen, StartAnswered, FrameSeen, Unmounted, ClearActive
<1>10. CASE Failing
  BY <1>10 DEF Failing, BootTimesOut, LoadMissed, UploadFails, UnmountFails, Aborted,
     ClearActive
<1>11. CASE UploadGame
  BY <1>11 DEF UploadGame
<1>12. CASE PowerCut
  BY <1>12 DEF PowerCut, ClearActive, Disable, PortOff
<1>13. CASE Exchange
  BY <1>13 DEF Exchange, Execute, Perform, Refused, Command, AtCommand, Answer, NoAnswer,
     AskBlock, RequestBlock, Requests, SessionEnds, Disable, Enable, PortOff
<1>14. CASE MessageLost
  BY <1>14 DEF MessageLost, Execute, Perform, Refused, Command, AtCommand, Answer, NoAnswer,
     AskBlock, RequestBlock, Requests, SessionEnds, Disable, Enable, PortOff
<1>15. CASE Core
  BY <1>15 DEF Core, CoreResets, BootGame, GameHangs, GameFreezes
<1>16. CASE GameWrites
  BY <1>16 DEF GameWrites, Write
<1>17. CASE SaveRam
  BY <1>17 DEF SaveRam, MemoryStep, StartFlush, EndFlush, ServeSnapshot, PortStep,
     PickRequest, FlushSeen, CopyLine, Drain, Requests, LinesOf
<1> QED
  BY <1>1, <1>2, <1>3, <1>4, <1>5, <1>6, <1>7, <1>8, <1>9, <1>10, <1>11, <1>12, <1>13,
     <1>14, <1>15, <1>16, <1>17, Cases DEF Inside

(* The frozen game.                                                        *)
LEMMA SwitchStep == ASSUME IInv, Next PROVE SwitchInv'
<1> USE PortAssumption, VirtualAssumption
<1> USE DEF IInv, SwitchInv, TypeOK, MemoryTypeOK, JobTypeOK, PortInv, SessionInv, JobInv,
      Left, Answered, AtCommand, Persisting, Copying
<1>1. CASE Beginning
  BY <1>1 DEF Beginning, StartPoll, StartLoad, StartStop, Begin
<1>2. CASE Polling
  BY <1>2 DEF Polling, PollAnswered, PollMissed, Mount, MountFails
<1>3. CASE Opening
  BY <1>3 DEF Opening, Queried, QueryMissed, OpenTemp, OpenTempFails
<1>4. CASE Reading
  BY <1>4 DEF Reading, BlockAsked, BlockNotAsked, ReadBlock, ReadBlockFails
<1>5. CASE Checking
  BY <1>5 DEF Checking, Checked, WrittenMeanwhile, CheckMissed
<1>6. CASE Publishing
  BY <1>6 DEF Publishing, Publish, PublishFails
<1>7. CASE Freezing
  BY <1>7 DEF Freezing, QuiesceAnswered, QuiesceMissed, Frozen, AskAgain, PollAgain,
     BootIsSlow, FreezeTimesOut
<1>8. CASE Leaving
  BY <1>8 DEF Leaving, SaveRtc, SaveRtcFails, Resumed, Stopped, StopMissed, ClearActive
<1>9. CASE Loading
  BY <1>9 DEF Loading, Prepared, ResetSeen, StartAnswered, FrameSeen, Unmounted, ClearActive
<1>10. CASE Failing
  BY <1>10 DEF Failing, BootTimesOut, LoadMissed, UploadFails, UnmountFails, Aborted,
     ClearActive, LoadInv
<1>11. CASE UploadGame
  BY <1>11 DEF UploadGame
<1>12. CASE PowerCut
  BY <1>12 DEF PowerCut, ClearActive, Disable, PortOff
<1>13. CASE Exchange
  <2>1. /\ AtCommand /\ Execute(Command) /\ reply' = Answer(Command)
        /\ UNCHANGED <<Active, pending, job, pc>>
    BY <1>13 DEF Exchange
  <2>2. CASE Command = "status"
    BY <2>1, <2>2 DEF Execute, Refused, Perform, Answer, Command
  <2>3. CASE Command # "status"
    <3>1. pc \notin {"freeze", "query", "check"}
      BY <2>3 DEF Command
    <3>2. CASE SessionEnds
      BY <2>1, <3>1, <3>2, SessionIsOver
    <3>3. CASE ~SessionEnds
      <4>1. \/ pc \in {"resume", "start"}
            \/ UNCHANGED <<enabled, quiesced, dirty>>
        BY <2>1, <3>3, Executed DEF AskBlock
      <4> QED
        BY <2>1, <3>1, <4>1
    <3> QED
      BY <3>2, <3>3
  <2> QED
    BY <2>2, <2>3
<1>14. CASE MessageLost
  <2>1. CASE UNCHANGED fpgaVars
    BY <1>14, <2>1 DEF MessageLost, NoAnswer
  <2>2. CASE Execute(Command)
    BY <1>14, <2>2 DEF MessageLost, Execute, Perform, Refused, Command, AtCommand, AskBlock,
       RequestBlock, SessionEnds, Disable, Enable, PortOff, Answer, NoAnswer
  <2> QED
    BY <1>14, <2>1, <2>2 DEF MessageLost
<1>15. CASE Core
  BY <1>15 DEF Core, CoreResets, BootGame, GameHangs, GameFreezes
<1>16. CASE GameWrites
  BY <1>16 DEF GameWrites, Write
<1>17. CASE SaveRam
  BY <1>17 DEF SaveRam, MemoryStep, StartFlush, EndFlush, ServeSnapshot, PortStep,
     PickRequest, FlushSeen, CopyLine, Drain, Requests, LinesOf
<1> QED
  BY <1>1, <1>2, <1>3, <1>4, <1>5, <1>6, <1>7, <1>8, <1>9, <1>10, <1>11, <1>12, <1>13,
     <1>14, <1>15, <1>16, <1>17, Cases DEF Inside

(* The way out of the freeze.                                              *)
LEMMA HoldStep == ASSUME IInv, Next PROVE HoldInv'
<1> USE Bounds
<1> USE DEF IInv, HoldInv, TypeOK, JobTypeOK, WorldTypeOK, JobInv, SessionInv,
      SessionTypeOK, LoadInv, AtCommand, Answered, Persisting, Copying
<1>1. CASE Beginning
  BY <1>1 DEF Beginning, StartPoll, StartLoad, StartStop, Begin
<1>2. CASE Polling
  BY <1>2 DEF Polling, PollAnswered, PollMissed, Mount, MountFails
<1>3. CASE Opening
  BY <1>3 DEF Opening, Queried, QueryMissed, OpenTemp, OpenTempFails
<1>4. CASE Reading
  BY <1>4 DEF Reading, BlockAsked, BlockNotAsked, ReadBlock, ReadBlockFails
<1>5. CASE Checking
  BY <1>5 DEF Checking, Checked, WrittenMeanwhile, CheckMissed
<1>6. CASE Publishing
  BY <1>6 DEF Publishing, Publish, PublishFails
<1>7. CASE Freezing
  BY <1>7 DEF Freezing, QuiesceAnswered, QuiesceMissed, Frozen, AskAgain, PollAgain,
     BootIsSlow, FreezeTimesOut
<1>8. CASE Leaving
  BY <1>8 DEF Leaving, SaveRtc, SaveRtcFails, Resumed, Stopped, StopMissed, ClearActive
<1>9. CASE Loading
  BY <1>9 DEF Loading, Prepared, ResetSeen, StartAnswered, FrameSeen, Unmounted, ClearActive
<1>10. CASE Failing
  BY <1>10 DEF Failing, BootTimesOut, LoadMissed, UploadFails, UnmountFails, Aborted,
     ClearActive
<1>11. CASE UploadGame
  BY <1>11 DEF UploadGame
<1>12. CASE PowerCut
  BY <1>12 DEF PowerCut, ClearActive, Disable, PortOff
<1>13. CASE Exchange
  BY <1>13 DEF Exchange, Execute, Perform, Refused, Command, AtCommand, AskBlock,
     RequestBlock, SessionEnds, Disable, Enable, PortOff, NoAnswer
<1>14. CASE MessageLost
  <2>1. /\ AtCommand /\ UNCHANGED <<Active, job, pc>> /\ lost' = lost + 1
        /\ UNCHANGED reply \/ tries + 1 = Attempts
    BY <1>14 DEF MessageLost
  <2>2. CASE UNCHANGED fpgaVars
    BY <2>1, <2>2
  <2>3. CASE Execute(Command)
    <3>1. \/ UNCHANGED <<enabled, hold>>
          \/ pc \in {"start", "quiesce"}
          \/ ~enabled' \/ ~hold'
      BY <2>1, <2>3, Executed, SessionIsOver DEF AskBlock
    <3>2. CASE UNCHANGED <<enabled, hold>>
      BY <2>1, <3>2
    <3>3. CASE pc \in {"start", "quiesce"}
      BY <2>1, <3>3
    <3>4. CASE ~enabled' \/ ~hold'
      BY <2>1, <3>4
    <3> QED
      BY <3>1, <3>2, <3>3, <3>4
  <2> QED
    BY <1>14, <2>2, <2>3 DEF MessageLost
<1>15. CASE Core
  BY <1>15 DEF Core, CoreResets, BootGame, GameHangs, GameFreezes
<1>16. CASE GameWrites
  BY <1>16 DEF GameWrites, Write
<1>17. CASE SaveRam
  BY <1>17 DEF SaveRam, MemoryStep, StartFlush, EndFlush, ServeSnapshot, PortStep,
     PickRequest, FlushSeen, CopyLine, Drain, Requests, LinesOf
<1> QED
  BY <1>1, <1>2, <1>3, <1>4, <1>5, <1>6, <1>7, <1>8, <1>9, <1>10, <1>11, <1>12, <1>13,
     <1>14, <1>15, <1>16, <1>17, Cases DEF Inside

(* The messages it took to lose sight of a game.                           *)
LEMMA WatchStep == ASSUME IInv, Next PROVE WatchInv'
<1> USE Bounds
<1> USE DEF IInv, WatchInv, TypeOK, JobTypeOK, WorldTypeOK, MemoryTypeOK, JobInv,
      SessionInv, SessionTypeOK, LoadInv, AtCommand, Answered, Persisting, Copying
<1>1. CASE Beginning
  BY <1>1 DEF Beginning, StartPoll, StartLoad, StartStop, Begin
<1>2. CASE Polling
  BY <1>2 DEF Polling, PollAnswered, PollMissed, Mount, MountFails
<1>3. CASE Opening
  BY <1>3 DEF Opening, Queried, QueryMissed, OpenTemp, OpenTempFails
<1>4. CASE Reading
  BY <1>4 DEF Reading, BlockAsked, BlockNotAsked, ReadBlock, ReadBlockFails
<1>5. CASE Checking
  BY <1>5 DEF Checking, Checked, WrittenMeanwhile, CheckMissed
<1>6. CASE Publishing
  BY <1>6 DEF Publishing, Publish, PublishFails
<1>7. CASE Freezing
  BY <1>7 DEF Freezing, QuiesceAnswered, QuiesceMissed, Frozen, AskAgain, PollAgain,
     BootIsSlow, FreezeTimesOut
<1>8. CASE Leaving
  BY <1>8 DEF Leaving, SaveRtc, SaveRtcFails, Resumed, Stopped, StopMissed, ClearActive
<1>9. CASE Loading
  BY <1>9 DEF Loading, Prepared, ResetSeen, StartAnswered, FrameSeen, Unmounted, ClearActive
<1>10. CASE Failing
  BY <1>10 DEF Failing, BootTimesOut, LoadMissed, UploadFails, UnmountFails, Aborted,
     ClearActive
<1>11. CASE UploadGame
  BY <1>11 DEF UploadGame
<1>12. CASE PowerCut
  BY <1>12 DEF PowerCut, ClearActive, Disable, PortOff
<1>13. CASE Exchange
  <2>1. /\ AtCommand /\ Execute(Command) /\ UNCHANGED <<Active, pc, lost>> /\ tries' = 0
        /\ reply' = Answer(Command)
    BY <1>13 DEF Exchange
  <2>2. CASE Command = "status"
    BY <2>1, <2>2 DEF Execute, Refused, Perform, Answer, Command
  <2>3. CASE Command # "status"
    <3>1. reply' # None /\ (reply'.ok <=> ~Refused(Command))
      <4>1. Answer(Command) \in Replies
        BY <2>3 DEF Answer, NoAnswer, Replies, Refused, SessionTypeOK
      <4> QED
        BY <2>1, <2>3, <4>1, NotNone DEF Answer, NoAnswer
    <3>2. CASE Refused(Command)
      <4>1. /\ UNCHANGED <<enabled, prepared, hung>>
            /\ \/ pc \in {"save", "quiesce", "resume"}
               \/ pc = "prepare" /\ prepared # "none"
               \/ pc = "start" /\ prepared # "ready"
        BY <2>1, <2>3, <3>2 DEF Execute, Refused, Command
      <4> QED
        BY <2>1, <3>1, <4>1
    <3>3. CASE ~Refused(Command)
      <4>1. /\ pc \in {"save", "quiesce", "resume"} => UNCHANGED <<enabled, prepared, hung>>
            /\ pc \in {"prepare", "stop", "abort", "dismiss"} => ~enabled'
        BY <2>1, <2>3, <3>3, SessionIsOver DEF Execute, Perform, Command, AskBlock
      <4>2. pc \in {"save", "quiesce", "resume", "prepare", "start", "stop", "abort",
                    "dismiss"}
        BY <2>1, <2>3 DEF Command
      <4> QED
        BY <2>1, <3>1, <3>3, <4>1, <4>2
    <3> QED
      BY <3>2, <3>3
  <2> QED
    BY <2>2, <2>3
<1>14. CASE MessageLost
  <2>1. CASE UNCHANGED fpgaVars
    BY <1>14, <2>1 DEF MessageLost, NoAnswer
  <2>2. CASE Execute(Command)
    BY <1>14, <2>2 DEF MessageLost, Execute, Perform, Refused, Command, AtCommand, AskBlock,
       RequestBlock, SessionEnds, Disable, Enable, PortOff, Answer, NoAnswer
  <2> QED
    BY <1>14, <2>1, <2>2 DEF MessageLost
<1>15. CASE Core
  BY <1>15 DEF Core, CoreResets, BootGame, GameHangs, GameFreezes
<1>16. CASE GameWrites
  BY <1>16 DEF GameWrites, Write
<1>17. CASE SaveRam
  BY <1>17 DEF SaveRam, MemoryStep, StartFlush, EndFlush, ServeSnapshot, PortStep,
     PickRequest, FlushSeen, CopyLine, Drain, Requests, LinesOf
<1> QED
  BY <1>1, <1>2, <1>3, <1>4, <1>5, <1>6, <1>7, <1>8, <1>9, <1>10, <1>11, <1>12, <1>13,
     <1>14, <1>15, <1>16, <1>17, Cases DEF Inside

(* The load.                                                               *)
LEMMA LoadStep == ASSUME IInv, Next PROVE LoadInv'
<1> USE PortAssumption, VirtualAssumption
<1> USE DEF IInv, LoadInv, TypeOK, MemoryTypeOK, PortTypeOK, JobTypeOK, WorldTypeOK,
      LoopTypeOK, PortInv, SessionInv, JobInv, AtCommand, Answered
<1>1. CASE Beginning
  BY <1>1 DEF Beginning, StartPoll, StartLoad, StartStop, Begin
<1>2. CASE Polling
  BY <1>2 DEF Polling, PollAnswered, PollMissed, Mount, MountFails
<1>3. CASE Opening
  BY <1>3 DEF Opening, Queried, QueryMissed, OpenTemp, OpenTempFails
<1>4. CASE Reading
  BY <1>4 DEF Reading, BlockAsked, BlockNotAsked, ReadBlock, ReadBlockFails
<1>5. CASE Checking
  BY <1>5 DEF Checking, Checked, WrittenMeanwhile, CheckMissed
<1>6. CASE Publishing
  BY <1>6 DEF Publishing, Publish, PublishFails
<1>7. CASE Freezing
  BY <1>7 DEF Freezing, QuiesceAnswered, QuiesceMissed, Frozen, AskAgain, PollAgain,
     BootIsSlow, FreezeTimesOut
<1>8. CASE Leaving
  BY <1>8 DEF Leaving, SaveRtc, SaveRtcFails, Resumed, Stopped, StopMissed, ClearActive
<1>9. CASE Loading
  BY <1>9 DEF Loading, Prepared, ResetSeen, StartAnswered, FrameSeen, Unmounted, ClearActive
<1>10. CASE Failing
  BY <1>10 DEF Failing, BootTimesOut, LoadMissed, UploadFails, UnmountFails, Aborted,
     ClearActive
<1>11. CASE UploadGame
  BY <1>11 DEF UploadGame
<1>12. CASE PowerCut
  BY <1>12 DEF PowerCut, ClearActive, Disable, PortOff
<1>13. CASE Exchange
  BY <1>13 DEF Exchange, Execute, Perform, Refused, Command, AtCommand, Answer, NoAnswer,
     AskBlock, RequestBlock, Requests, SessionEnds, Disable, Enable, PortOff
<1>14. CASE MessageLost
  BY <1>14 DEF MessageLost, Execute, Perform, Refused, Command, AtCommand, Answer, NoAnswer,
     AskBlock, RequestBlock, Requests, SessionEnds, Disable, Enable, PortOff
<1>15. CASE Core
  BY <1>15 DEF Core, CoreResets, BootGame, GameHangs, GameFreezes
<1>16. CASE GameWrites
  BY <1>16 DEF GameWrites, Write
<1>17. CASE SaveRam
  BY <1>17 DEF SaveRam, MemoryStep, StartFlush, EndFlush, ServeSnapshot, PortStep,
     PickRequest, FlushSeen, CopyLine, Drain, Requests, LinesOf
<1> QED
  BY <1>1, <1>2, <1>3, <1>4, <1>5, <1>6, <1>7, <1>8, <1>9, <1>10, <1>11, <1>12, <1>13,
     <1>14, <1>15, <1>16, <1>17, Cases DEF Inside

(* What Publish puts on the card was in RAM.                               *)
LEMMA TornStep == ASSUME IInv, Next PROVE NoTornSave'
<1> USE PortAssumption, VirtualAssumption
<1> USE DEF IInv, NoTornSave, TypeOK, JobTypeOK, WorldTypeOK, SessionInv, JobInv, CopyInv,
      Copying, Persisting
<1>1. CASE Beginning
  BY <1>1 DEF Beginning, StartPoll, StartLoad, StartStop, Begin
<1>2. CASE Polling
  BY <1>2 DEF Polling, PollAnswered, PollMissed, Mount, MountFails
<1>3. CASE Opening
  BY <1>3 DEF Opening, Queried, QueryMissed, OpenTemp, OpenTempFails
<1>4. CASE Reading
  BY <1>4 DEF Reading, BlockAsked, BlockNotAsked, ReadBlock, ReadBlockFails
<1>5. CASE Checking
  BY <1>5 DEF Checking, Checked, WrittenMeanwhile, CheckMissed
<1>6. CASE Publishing
  BY <1>6 DEF Publishing, Publish, PublishFails
<1>7. CASE Freezing
  BY <1>7 DEF Freezing, QuiesceAnswered, QuiesceMissed, Frozen, AskAgain, PollAgain,
     BootIsSlow, FreezeTimesOut
<1>8. CASE Leaving
  BY <1>8 DEF Leaving, SaveRtc, SaveRtcFails, Resumed, Stopped, StopMissed, ClearActive
<1>9. CASE Loading
  BY <1>9 DEF Loading, Prepared, ResetSeen, StartAnswered, FrameSeen, Unmounted, ClearActive
<1>10. CASE Failing
  BY <1>10 DEF Failing, BootTimesOut, LoadMissed, UploadFails, UnmountFails, Aborted,
     ClearActive
<1>11. CASE UploadGame
  BY <1>11 DEF UploadGame
<1>12. CASE PowerCut
  BY <1>12 DEF PowerCut, ClearActive, Disable, PortOff
<1>13. CASE Exchange
  BY <1>13 DEF Exchange, Execute, Perform, Refused, Command, AtCommand, Answer, NoAnswer,
     AskBlock, RequestBlock, Requests, SessionEnds, Disable, Enable, PortOff
<1>14. CASE MessageLost
  BY <1>14 DEF MessageLost, Execute, Perform, Refused, Command, AtCommand, Answer, NoAnswer,
     AskBlock, RequestBlock, Requests, SessionEnds, Disable, Enable, PortOff
<1>15. CASE Core
  BY <1>15 DEF Core, CoreResets, BootGame, GameHangs, GameFreezes
<1>16. CASE GameWrites
  BY <1>16 DEF GameWrites, Write
<1>17. CASE SaveRam
  BY <1>17 DEF SaveRam, MemoryStep, StartFlush, EndFlush, ServeSnapshot, PortStep,
     PickRequest, FlushSeen, CopyLine, Drain, Requests, LinesOf
<1> QED
  BY <1>1, <1>2, <1>3, <1>4, <1>5, <1>6, <1>7, <1>8, <1>9, <1>10, <1>11, <1>12, <1>13,
     <1>14, <1>15, <1>16, <1>17, Cases DEF Inside

(* Two flags down mean that the card has it all.                           *)
LEMMA CleanStep == ASSUME IInv, Next PROVE CleanMeansSaved'
<1> USE PortAssumption, VirtualAssumption
<1> USE DEF IInv, CleanMeansSaved, TypeOK, MemoryTypeOK, PortTypeOK, WorldTypeOK, PortInv,
      FlagInv, Flushes, JobTypeOK, WorldTypeOK, JobInv, SessionInv, SessionTypeOK, LoadInv,
      AtCommand, Answered, Persisting, Copying, CopyInv
<1>1. CASE Beginning
  BY <1>1 DEF Beginning, StartPoll, StartLoad, StartStop, Begin
<1>2. CASE Polling
  BY <1>2 DEF Polling, PollAnswered, PollMissed, Mount, MountFails
<1>3. CASE Opening
  BY <1>3 DEF Opening, Queried, QueryMissed, OpenTemp, OpenTempFails
<1>4. CASE Reading
  BY <1>4 DEF Reading, BlockAsked, BlockNotAsked, ReadBlock, ReadBlockFails
<1>5. CASE Checking
  BY <1>5 DEF Checking, Checked, WrittenMeanwhile, CheckMissed
<1>6. CASE Publishing
  BY <1>6 DEF Publishing, Publish, PublishFails
<1>7. CASE Freezing
  BY <1>7 DEF Freezing, QuiesceAnswered, QuiesceMissed, Frozen, AskAgain, PollAgain,
     BootIsSlow, FreezeTimesOut
<1>8. CASE Leaving
  BY <1>8 DEF Leaving, SaveRtc, SaveRtcFails, Resumed, Stopped, StopMissed, ClearActive
<1>9. CASE Loading
  BY <1>9 DEF Loading, Prepared, ResetSeen, StartAnswered, FrameSeen, Unmounted, ClearActive
<1>10. CASE Failing
  BY <1>10 DEF Failing, BootTimesOut, LoadMissed, UploadFails, UnmountFails, Aborted,
     ClearActive
<1>11. CASE UploadGame
  BY <1>11 DEF UploadGame
<1>12. CASE PowerCut
  BY <1>12 DEF PowerCut, ClearActive, Disable, PortOff
<1>13. CASE Exchange
  BY <1>13 DEF Exchange, Execute, Perform, Refused, Command, AtCommand, Answer, NoAnswer,
     AskBlock, RequestBlock, Requests, SessionEnds, Disable, Enable, PortOff
<1>14. CASE MessageLost
  BY <1>14 DEF MessageLost, Execute, Perform, Refused, Command, AtCommand, Answer, NoAnswer,
     AskBlock, RequestBlock, Requests, SessionEnds, Disable, Enable, PortOff
<1>15. CASE Core
  BY <1>15 DEF Core, CoreResets, BootGame, GameHangs, GameFreezes
<1>16. CASE GameWrites
  BY <1>16 DEF GameWrites, Write
<1>17. CASE SaveRam
  BY <1>17 DEF SaveRam, MemoryStep, StartFlush, EndFlush, ServeSnapshot, PortStep,
     PickRequest, FlushSeen, CopyLine, Drain, Requests, LinesOf
<1> QED
  BY <1>1, <1>2, <1>3, <1>4, <1>5, <1>6, <1>7, <1>8, <1>9, <1>10, <1>11, <1>12, <1>13,
     <1>14, <1>15, <1>16, <1>17, Cases DEF Inside

(* The copy, block by block.                                               *)
LEMMA CopyStep == ASSUME IInv, Next PROVE CopyInv'
<1> USE PortAssumption
<1> USE DEF IInv, CopyInv, TypeOK, MemoryTypeOK, PortTypeOK, WorldTypeOK, PortInv, Flushes,
      JobTypeOK, LoopTypeOK, JobInv, SessionInv, AtCommand, Answered, Persisting, Copying,
      LinesOf
<1>1. CASE Beginning
  BY <1>1 DEF Beginning, StartPoll, StartLoad, StartStop, Begin
<1>2. CASE Polling
  BY <1>2 DEF Polling, PollAnswered, PollMissed, Mount, MountFails
<1>3. CASE Opening
  BY <1>3 DEF Opening, Queried, QueryMissed, OpenTemp, OpenTempFails
<1>4. CASE BlockAsked \/ BlockNotAsked \/ ReadBlockFails
  BY <1>4 DEF BlockAsked, BlockNotAsked, ReadBlockFails
<1>5. CASE ReadBlock
  <2>1. /\ block \in Blocks /\ seq \in Sequences /\ enabled /\ enabled' /\ request = None
        /\ stage = "idle" /\ ~Flushes
    BY <1>5, NotNone DEF ReadBlock, LoopTypeOK, Copying
  <2>2. file \in Saves /\ buffer \in Saves /\ ram \in Saves
    BY <1>5 DEF ReadBlock, Saves, Copying
  <2>3. ASSUME ~dirty, NEW l \in Lines, BlockOf[l] <= block PROVE file'[l] = ram[l]
    <3>1. CASE BlockOf[l] = block
      BY <1>5, <2>1, <2>3, <3>1 DEF ReadBlock
    <3>2. CASE BlockOf[l] # block
      <4>1. /\ BlockOf[l] \in Nat /\ block \in Nat
            /\ FirstBlock \in Nat /\ FirstBlock <= BlockOf[l]
        BY <2>1, PortAssumption, VirtualAssumption
      <4>2. BlockOf[l] < block /\ block # FirstBlock
        BY <2>3, <3>2, <4>1
      <4> QED
        BY <1>5, <2>1, <2>3, <3>2, <4>2 DEF ReadBlock
    <3> QED
      BY <3>1, <3>2
  <2>4. CASE NextBlock[block] = None
    <3>1. \A l \in Lines : BlockOf[l] <= block
      BY <2>1, <2>4, UpTo
    <3>2. ~dirty => file' = ram
      BY <1>5, <2>2, <2>3, <3>1 DEF ReadBlock, Saves
    <3> QED
      BY <1>5, <2>1, <2>4, <3>2 DEF ReadBlock, Flushes
  <2>5. CASE NextBlock[block] # None
    <3>1. \A l \in Lines : BlockOf[l] < NextBlock[block] => BlockOf[l] <= block
      BY <2>1, <2>5, UpTo
    <3> QED
      BY <1>5, <2>1, <2>3, <2>5, <3>1 DEF ReadBlock, Flushes
  <2> QED
    BY <2>4, <2>5
<1>6. CASE Checking
  BY <1>6 DEF Checking, Checked, WrittenMeanwhile, CheckMissed
<1>7. CASE Publishing
  BY <1>7 DEF Publishing, Publish, PublishFails
<1>8. CASE Freezing
  BY <1>8 DEF Freezing, QuiesceAnswered, QuiesceMissed, Frozen, AskAgain, PollAgain,
     BootIsSlow, FreezeTimesOut
<1>9. CASE Leaving
  BY <1>9 DEF Leaving, SaveRtc, SaveRtcFails, Resumed, Stopped, StopMissed, ClearActive
<1>10. CASE Loading
  BY <1>10 DEF Loading, Prepared, ResetSeen, StartAnswered, FrameSeen, Unmounted,
     ClearActive
<1>11. CASE Failing
  BY <1>11 DEF Failing, BootTimesOut, LoadMissed, UploadFails, UnmountFails, Aborted,
     ClearActive
<1>12. CASE UploadGame
  BY <1>12 DEF UploadGame
<1>13. CASE PowerCut
  BY <1>13 DEF PowerCut, ClearActive, Disable, PortOff
<1>14. CASE Exchange
  <2>1. /\ AtCommand /\ Execute(Command) /\ reply' = Answer(Command)
        /\ UNCHANGED <<pc, block, file, seq, path, Active, images>>
    BY <1>14 DEF Exchange
  <2>2. CASE pc = "save"
    <3>1. CASE ~enabled
      BY <2>1, <2>2, <3>1 DEF Execute, Refused, Command, Answer, NoAnswer
    <3>2. CASE enabled
      <4>1. AskBlock(block, seq)
        BY <2>1, <2>2, <3>2 DEF Execute, Refused, Perform, Command
      <4>2. /\ request' = [block |-> block, sequence |-> seq] /\ stage' = "idle" /\ enabled'
            /\ UNCHANGED <<dirty, ram>>
        BY <3>2, <4>1 DEF AskBlock, RequestBlock
      <4>3. request' # None /\ request'.block = block
        <5>1. block \in Blocks /\ seq \in Sequences
          BY <2>2 DEF LoopTypeOK
        <5> QED
          BY <4>2, <5>1, NotNone DEF Requests
      <4> QED
        BY <2>1, <2>2, <4>2, <4>3
    <3> QED
      BY <3>1, <3>2
  <2>3. CASE pc = "check"
    BY <2>1, <2>3 DEF Execute, Refused, Perform, Command, Answer
  <2>4. CASE pc \notin {"save", "check"}
    BY <2>1, <2>4
  <2> QED
    BY <2>2, <2>3, <2>4
<1>15. CASE MessageLost
  <2>1. CASE UNCHANGED fpgaVars
    BY <1>15, <2>1 DEF MessageLost, NoAnswer
  <2>2. CASE Execute(Command)
    BY <1>15, <2>2 DEF MessageLost, Execute, Perform, Refused, Command, AtCommand, AskBlock,
       RequestBlock, SessionEnds, Disable, Enable, PortOff, Answer, NoAnswer,
       CleanMeansSaved
  <2> QED
    BY <1>15, <2>1, <2>2 DEF MessageLost
<1>16. CASE Core
  BY <1>16 DEF Core, CoreResets, BootGame, GameHangs, GameFreezes
<1>17. CASE GameWrites
  BY <1>17 DEF GameWrites, Write
<1>18. CASE SaveRam
  BY <1>18 DEF SaveRam, MemoryStep, StartFlush, EndFlush, ServeSnapshot, PortStep,
     PickRequest, FlushSeen, CopyLine, Drain, Requests, LinesOf
<1> QED
  BY <1>1, <1>2, <1>3, <1>4, <1>5, <1>6, <1>7, <1>8, <1>9, <1>10, <1>11, <1>12, <1>13,
     <1>14, <1>15, <1>16, <1>17, <1>18, Cases DEF Inside, Reading

-----------------------------------------------------------------------------
(* The first save of a game, all zeroes, is a save.                        *)
LEMMA Blanks == \A x \in Games : Blank(x) \in Saves
<1>1. \A x \in Games : <<x, 0>> \in Games \X (0 .. MaxWrites)
  BY Bounds
<1> QED
  BY <1>1, VirtualAssumption DEF Blank, Saves

(* The console is switched on with saves on the card and nothing running.  *)
LEMMA InitInv == Init => IInv
<1> SUFFICES ASSUME Init PROVE IInv
  OBVIOUS
<1> USE DEF Init, Off
<1>1. psram \in Saves /\ ram \in Saves /\ buffer \in Saves
  BY Blanks
<1>2. MemoryTypeOK
  BY <1>1 DEF MemoryTypeOK, PortTypeOK, Saves
<1>3. /\ 0 \in 0 .. Attempts - 1 /\ 0 \in 0 .. Passes - 1
      /\ 0 \in 0 .. Boots - 1 /\ 0 \in 0 .. Polls
  BY Bounds
<1>4. SessionTypeOK /\ JobTypeOK /\ LoopTypeOK
  <2>1. SessionTypeOK
    BY DEF SessionTypeOK
  <2>2. JobTypeOK
    BY <1>3 DEF JobTypeOK
  <2>3. LoopTypeOK
    BY <1>3 DEF LoopTypeOK
  <2> QED
    BY <2>1, <2>2, <2>3
<1>5. WorldTypeOK
  BY Bounds, Blanks DEF WorldTypeOK
<1>6. PortInv /\ SessionInv
  BY DEF PortInv, SessionInv
<1>7. JobInv
  BY DEF JobInv, AtCommand, Persisting, Copying
<1>8. CopyInv /\ FlagInv /\ SwitchInv /\ HoldInv
  BY DEF CopyInv, FlagInv, SwitchInv, HoldInv, Left, Persisting, Copying
<1>9. LoadInv /\ WatchInv
  BY DEF LoadInv, WatchInv
<1>10. NoTornSave /\ CleanMeansSaved
  BY DEF NoTornSave, CleanMeansSaved
<1> QED
  BY <1>2, <1>4, <1>5, <1>6, <1>7, <1>8, <1>9, <1>10 DEF IInv, TypeOK

(* Every step, or none, keeps the invariant.                               *)
LEMMA StepInv == IInv /\ [Next]_vars => IInv'
<1>1. ASSUME IInv, Next PROVE IInv'
  <2>1. TypeOK'
    BY <1>1, MemoryTypes, SessionTypes, JobTypes, LoopTypes, WorldTypes DEF TypeOK
  <2> QED
    BY <1>1, <2>1, FlushStep, SessionStep, JobStep, CopyStep, FlagStep, SwitchStep,
       HoldStep, LoadStep, WatchStep, TornStep, CleanStep DEF IInv
<1>2. ASSUME IInv, UNCHANGED vars PROVE IInv'
  <2> USE <1>2 DEF IInv, vars
  <2>1. TypeOK'
    BY DEF TypeOK, MemoryTypeOK, PortTypeOK, SessionTypeOK, JobTypeOK, LoopTypeOK,
       WorldTypeOK
  <2>2. PortInv' /\ SessionInv' /\ JobInv' /\ CopyInv' /\ FlagInv'
    BY DEF PortInv, SessionInv, JobInv, CopyInv, FlagInv, Flushes, AtCommand, Answered
  <2>3. SwitchInv' /\ HoldInv' /\ LoadInv' /\ WatchInv'
    BY DEF SwitchInv, HoldInv, LoadInv, WatchInv, Answered
  <2>4. NoTornSave' /\ CleanMeansSaved'
    BY DEF NoTornSave, CleanMeansSaved
  <2> QED
    BY <2>1, <2>2, <2>3, <2>4
<1> QED
  BY <1>1, <1>2

-----------------------------------------------------------------------------
(* The inductive invariant of the virtual cartridge's save holds throughout. *)
THEOREM Invariance == Spec => []IInv
  BY InitInv, StepInv, PTL DEF Spec

(* Every variable of the save task, the session and the RAM has its type.  *)
THEOREM TypeCorrect == Spec => []TypeOK
  BY Invariance, PTL DEF IInv

(* The file PersistActiveSave publishes is one the game's RAM held at some *)
(* instant, however many copies were given up halfway.                     *)
THEOREM NeverTorn == Spec => []NoTornSave
  BY Invariance, PTL DEF IInv

(* While neither the FPGA's flag nor ActiveSavePending is up, the card has *)
(* what the game sees.                                                     *)
THEOREM CleanIsSaved == Spec => []CleanMeansSaved
  BY Invariance, PTL DEF IInv

(* A switch that failed has resumed the game it froze, as long as fewer    *)
(* messages are lost than one command is sent.                             *)
THEOREM SwitchResumes == Spec => []FailedSwitchResumes
<1>1. IInv => FailedSwitchResumes
  BY DEF IInv, HoldInv, JobInv, FailedSwitchResumes
<1> QED
  BY Invariance, <1>1, PTL

(* A game that runs between two jobs is the active one, as long as fewer   *)
(* messages are lost than one command is sent.                             *)
THEOREM Watched == Spec => []RunningIsWatched
<1>1. IInv => RunningIsWatched
  <2> SUFFICES ASSUME IInv, pc = "idle", booted, lost < Attempts PROVE Active
    BY DEF RunningIsWatched
  <2>1. enabled /\ ~hung
    BY DEF IInv, SessionInv
  <2> QED
    BY <2>1, Bounds DEF IInv, WatchInv, TypeOK, WorldTypeOK
<1> QED
  BY Invariance, <1>1, PTL

(* No command drops the active game before the card has its last write,    *)
(* but for the STOP of a load whose card could not be unmounted.           *)
THEOREM SwitchIsSafe == Spec => SwitchKeepsSave
<1>1. IInv /\ [Next]_vars =>
        [Active /\ enabled /\ ~enabled' /\ ~PowerCut /\ pc # "dismiss" => sd[path] = ram]_vars
  <2> SUFFICES ASSUME IInv, Next, Active, enabled, ~enabled', ~PowerCut, pc # "dismiss"
               PROVE  sd[path] = ram
    OBVIOUS
  <2>1. Exchange \/ MessageLost
    <3>1. Inside \/ UploadGame \/ Core \/ GameWrites \/ SaveRam => enabled' = enabled
      BY Quiet DEF UploadGame, Core, CoreResets, BootGame, GameHangs, GameFreezes,
         GameWrites, Write, SaveRam, MemoryStep, StartFlush, EndFlush, ServeSnapshot, Drain
    <3> QED
      BY <3>1, Cases
  <2>2. AtCommand /\ Execute(Command)
    BY <2>1 DEF Exchange, MessageLost
  <2>3. pc \in {"prepare", "stop", "abort", "dismiss"}
    BY <2>2, Executed DEF AskBlock, Enable
  <2> QED
    BY <2>3 DEF IInv, SwitchInv, Left, CleanMeansSaved
<1> QED
  BY Invariance, <1>1, PTL DEF Spec, SwitchKeepsSave
=============================================================================

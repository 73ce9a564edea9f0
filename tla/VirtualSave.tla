---------------------------- MODULE VirtualSave -----------------------------
(***************************************************************************)
(* A game that runs from a backup, and its save.  virtual_cart.c starts,   *)
(* watches and stops the game over the UART command link; SaveTask asks    *)
(* for the dirty flag every 250 ms and copies a changed save to the card;  *)
(* a switch to another game or a stop freezes the game, saves it, and only *)
(* then lets the FPGA drop it.                                             *)
(*                                                                         *)
(* The FPGA's save RAM is SaveMemory, which SaveCache implements; the card *)
(* is a function from games to saves whose replacement is atomic, which    *)
(* SavePublish implements.  One job runs at a time: SetRunning and         *)
(* LoadRequested keep the save task, a load and a stop apart.              *)
(*                                                                         *)
(* Bounds: MaxWrites game writes, LossBudget lost messages.                *)
(***************************************************************************)
EXTENDS SaveMemory, Integers

CONSTANTS Games,
          Attempts,    \* transmissions of one command, 3 in cart_link.c
          Passes,      \* kForcedSavePasses
          Boots,       \* kVirtualBootAttempts
          Polls,       \* kVirtualPreparePolls, kVirtualBootPolls
          NextBlock,   \* the block after each, None after the last
          NextSequence,\* ++SaveSequence, skipping 0
          MaxWrites,
          LossBudget

(* The status byte the firmware keeps of an answer, and whether there was one. *)
Replies == [ok : BOOLEAN, dirty : BOOLEAN, quiesced : BOOLEAN, prepared : BOOLEAN,
            booted : BOOLEAN]

ASSUME VirtualAssumption ==
  /\ None \notin Games \cup Blocks \cup Requests \cup Replies
  /\ Attempts \in Nat \ {0} /\ Passes \in Nat \ {0} /\ Boots \in Nat \ {0}
  /\ Polls \in Nat /\ MaxWrites \in Nat /\ LossBudget \in Nat
  /\ Games \X (0 .. MaxWrites) \subseteq Values
  /\ NextSequence \in [Sequences -> Sequences]
  /\ NextBlock \in [Blocks -> Blocks \cup {None}]
  /\ Blocks \subseteq Nat
  /\ \A c \in Blocks : FirstBlock <= c
  /\ \A c, d \in Blocks : c < d <=> NextBlock[c] # None /\ NextBlock[c] <= d

VARIABLES prepared,  \* FPGA: "pending" is start_pending_g, "ready" prepared_g
          hold,      \* FPGA: reset_request_g of an enabled game
          quiesced,  \* FPGA: the core has stopped at a safe point
          booted,    \* FPGA: all lifecycle bits up to the first frame
          hung,      \* the core will not get that far
          game,      \* the game whose ROM and save were uploaded last
          Active, path, pending,          \* Active, ActiveSavePath, ActiveSavePending
          job, target,                    \* who runs, and PendingPath
          pc, reply, tries, polls, passes, boots,
          block, seq, file,               \* PersistActiveSave's loop, and its .tmp
          sd,                             \* the save on the card
          images,                         \* history: every save a game's RAM held
          writes, lost                    \* the bounded counters

sessionVars == <<prepared, hold, quiesced, booted, hung, game>>
fpgaVars == <<memoryVars, sessionVars>>
activeVars == <<Active, path, pending>>
loopVars == <<polls, passes, boots, block, seq, file>>
jobVars == <<job, target, pc, reply, tries, loopVars>>
worldVars == <<sd, images, writes, lost>>
vars == <<fpgaVars, activeVars, jobVars, worldVars>>

Blank(g) == [l \in Lines |-> <<g, 0>>]

Init == /\ psram \in {Blank(g) : g \in Games}
        /\ ram = psram
        /\ buffer = psram
        /\ request = None /\ stage = "idle" /\ sequence = None
        /\ left = {} /\ ready = None
        /\ flush_asked = FALSE /\ flush_done = FALSE
        /\ Off
        /\ prepared = "none" /\ hold = FALSE /\ quiesced = FALSE
        /\ booted = FALSE /\ hung = FALSE /\ game = None
        /\ Active = FALSE /\ path = None /\ pending = FALSE
        /\ job = "none" /\ target = None
        /\ pc = "idle" /\ reply = None /\ tries = 0
        /\ polls = 0 /\ passes = 0 /\ boots = 0
        /\ block = None /\ seq \in Sequences /\ file = None
        /\ sd = [g \in Games |-> Blank(g)]
        /\ images = [g \in Games |-> {Blank(g)}]
        /\ writes = 0 /\ lost = 0

-----------------------------------------------------------------------------
(* The game and the FPGA on their own. *)

BootGame == /\ enabled /\ ~booted /\ ~hold /\ ~hung
            /\ booted' = TRUE
            /\ UNCHANGED <<memoryVars, prepared, hold, quiesced, hung, game,
                           activeVars, jobVars, worldVars>>

GameHangs == /\ enabled /\ ~booted /\ ~hung
             /\ hung' = TRUE
             /\ UNCHANGED <<memoryVars, prepared, hold, quiesced, booted, game,
                            activeVars, jobVars, worldVars>>

(* The core is held in reset: PREPARE has taken effect.                    *)
CoreResets == /\ prepared = "pending"
              /\ prepared' = "ready"
              /\ UNCHANGED <<memoryVars, hold, quiesced, booted, hung, game,
                             activeVars, jobVars, worldVars>>

GameWrites == \E l \in Lines :
  /\ booted /\ ~quiesced
  /\ writes < MaxWrites
  /\ writes' = writes + 1
  /\ Write(l, <<game, writes + 1>>)
  /\ images' = [images EXCEPT ![game] = @ \cup {ram'}]
  /\ UNCHANGED <<sessionVars, activeVars, jobVars, sd, lost>>

GameFreezes == /\ hold /\ ~quiesced
               /\ quiesced' = TRUE
               /\ UNCHANGED <<memoryVars, prepared, hold, booted, hung, game,
                              activeVars, jobVars, worldVars>>

SaveRam == MemoryStep /\ UNCHANGED <<sessionVars, activeVars, jobVars, worldVars>>

-----------------------------------------------------------------------------
(* One exchange of the command the job is at: VirtualCommand, cart_link.c, *)
(* and the FPGA's case on the command.                                     *)

Commands == {"poll_status", "query", "check", "quiesce", "freeze", "resume", "save",
             "prepare", "reset", "start", "boot", "stop", "abort", "dismiss"}

Command == IF pc \in {"poll_status", "query", "check", "freeze", "reset", "boot"}
             THEN "status" ELSE IF pc \in {"abort", "dismiss"} THEN "stop" ELSE pc

Refused(c) == \/ c \in {"save", "quiesce", "resume"} /\ ~enabled
              \/ c = "prepare" /\ prepared # "none"
              \/ c = "start" /\ prepared # "ready"

SessionEnds == /\ IF enabled THEN Disable ELSE UNCHANGED memoryVars
               /\ hold' = FALSE /\ quiesced' = FALSE
               /\ booted' = FALSE /\ hung' = FALSE
               /\ UNCHANGED game

(* What the FPGA does with an accepted command. *)
Perform(c) ==
  \/ c = "status" /\ UNCHANGED fpgaVars
  \/ c = "save" /\ AskBlock(block, seq) /\ UNCHANGED sessionVars
  \/ c = "quiesce" /\ hold' = TRUE
     /\ UNCHANGED <<memoryVars, prepared, quiesced, booted, hung, game>>
  \/ c = "resume" /\ hold' = FALSE /\ quiesced' = FALSE
     /\ UNCHANGED <<memoryVars, prepared, booted, hung, game>>
  \/ c = "prepare" /\ prepared' = "pending" /\ SessionEnds
  \/ c = "start" /\ prepared' = "none" /\ Enable
     /\ UNCHANGED <<hold, quiesced, booted, hung, game>>
  \/ c = "stop" /\ prepared' = "none" /\ SessionEnds

Execute(c) == IF Refused(c) THEN UNCHANGED fpgaVars ELSE Perform(c)

NoAnswer == [ok |-> FALSE, dirty |-> FALSE, quiesced |-> FALSE,
             prepared |-> FALSE, booted |-> FALSE]
Answer(c) == IF c = "status"
               THEN [ok |-> TRUE, dirty |-> dirty, quiesced |-> enabled /\ quiesced,
                     prepared |-> prepared = "ready", booted |-> enabled /\ booted]
               ELSE [NoAnswer EXCEPT !.ok = ~Refused(c)]

AtCommand == pc \in Commands /\ reply = None

Exchange == /\ AtCommand
            /\ Execute(Command)
            /\ reply' = Answer(Command)
            /\ tries' = 0
            /\ UNCHANGED <<activeVars, job, target, pc, loopVars, worldVars>>

(* The request or the answer is lost: the same command is sent again, and  *)
(* the caller is told after the last attempt.                              *)
MessageLost == /\ AtCommand
               /\ lost < LossBudget
               /\ lost' = lost + 1
               /\ Execute(Command) \/ UNCHANGED fpgaVars
               /\ IF tries + 1 = Attempts
                    THEN reply' = NoAnswer /\ tries' = 0
                    ELSE tries' = tries + 1 /\ UNCHANGED reply
               /\ UNCHANGED <<activeVars, job, target, pc, loopVars, sd, images, writes>>

-----------------------------------------------------------------------------
(* The microcontroller's steps between commands. *)

Got(step) == pc = step /\ reply # None /\ reply.ok
Missed(step) == pc = step /\ reply # None /\ ~reply.ok

(* The link and the FPGA are left alone by all of them. *)
Local == UNCHANGED <<fpgaVars, tries, images, writes, lost>>

GoTo(step) == /\ pc' = step
              /\ reply' = None
              /\ UNCHANGED <<job, target>>

(* The end of a job, whose locals are gone. *)
Done == /\ pc' = "idle" /\ reply' = None
        /\ job' = "none" /\ target' = None
        /\ polls' = 0 /\ passes' = 0 /\ boots' = 0
        /\ block' = None /\ file' = None
        /\ UNCHANGED seq

Begin(j, g, step) == /\ pc = "idle"
                     /\ job' = j /\ target' = g
                     /\ pc' = step /\ reply' = None
                     /\ UNCHANGED <<activeVars, loopVars, sd>>
                     /\ Local

StartPoll == Active /\ Begin("poll", None, "poll_status")
StartLoad == \E g \in Games : Begin("load", g, "mount")
StartStop == Begin("stop", None, IF Active THEN "mount" ELSE "stop")

\* Faulty variant: the FPGA's flag replaces the firmware's.
PollForgets == /\ Got("poll_status")
               /\ pending' = reply.dirty
               /\ IF pending' THEN GoTo("mount") /\ UNCHANGED loopVars ELSE Done
               /\ UNCHANGED <<Active, path, sd>>
               /\ Local

PollAnswered == /\ Got("poll_status")
                /\ pending' = (pending \/ reply.dirty)
                /\ IF pending' THEN GoTo("mount") /\ UNCHANGED loopVars ELSE Done
                /\ UNCHANGED <<Active, path, sd>>
                /\ Local

PollMissed == /\ Missed("poll_status")
              /\ Done
              /\ UNCHANGED <<activeVars, sd>>
              /\ Local

(* SDCard_Mount, the ROM's header and CartBulk_Begin. *)
Mount == /\ pc = "mount"
         /\ GoTo(IF job = "poll" THEN "query" ELSE IF Active THEN "quiesce" ELSE "prepare")
         /\ UNCHANGED <<activeVars, loopVars, sd>>
         /\ Local

MountFails == /\ pc = "mount"
              /\ Done
              /\ UNCHANGED <<activeVars, sd>>
              /\ Local

-----------------------------------------------------------------------------
(* PersistActiveSave. *)

\* Faulty variant: a switch goes on after a save that failed.
ReturnAnyway(result) ==
  IF job = "poll" THEN Done
  ELSE /\ GoTo("rtc") /\ file' = None /\ block' = None
       /\ UNCHANGED <<polls, passes, boots, seq>>

(* Its return to SaveTask, or to PersistActiveDataForTransition's passes.  *)
Return(result) ==
  IF job = "poll" THEN Done
  ELSE /\ file' = None /\ block' = None
       /\ UNCHANGED <<polls, boots, seq>>
       /\ IF result = "not_finished" /\ passes + 1 < Passes
            THEN GoTo("query") /\ passes' = passes + 1
            ELSE /\ GoTo(IF result = "ok" THEN "rtc" ELSE "resume")
                 /\ UNCHANGED passes

\* Faulty variant: a failed copy counts as done.
DiscardForgets(result) == /\ pending' = FALSE
                          /\ Return(result)
                          /\ UNCHANGED <<Active, path, sd>>
                          /\ Local

(* A failed copy leaves the save pending. *)
Discard(result) == /\ pending' = TRUE
                   /\ Return(result)
                   /\ UNCHANGED <<Active, path, sd>>
                   /\ Local

Queried == /\ Got("query")
           /\ pending' = (pending \/ reply.dirty)
           /\ IF pending' THEN GoTo("open") /\ UNCHANGED loopVars ELSE Return("ok")
           /\ UNCHANGED <<Active, path, sd>>
           /\ Local

QueryMissed == /\ Missed("query")
               /\ Return("failed")
               /\ UNCHANGED <<activeVars, sd>>
               /\ Local

OpenTemp == /\ pc = "open"
            /\ file' = sd[path]    \* overwritten block by block
            /\ block' = FirstBlock
            /\ seq' = NextSequence[seq]
            /\ GoTo("save")
            /\ UNCHANGED <<activeVars, polls, passes, boots, sd>>
            /\ Local

OpenTempFails == /\ pc = "open"
                 /\ Return("failed")
                 /\ UNCHANGED <<activeVars, sd>>
                 /\ Local

BlockAsked == /\ Got("save")
              /\ GoTo("read")
              /\ UNCHANGED <<activeVars, loopVars, sd>>
              /\ Local

BlockNotAsked == Missed("save") /\ Discard("failed")

(* CartBulk_ReadVirtualBlock: the buffer, once it carries our sequence.    *)
(* The request has been picked up by then: that takes a few clocks, the    *)
(* answer to it 100 us on the UART.                                        *)
ReadBlock == /\ pc = "read"
             /\ request = None
             /\ ready = seq
             /\ file' = [l \in Lines |-> IF BlockOf[l] = block THEN buffer[l] ELSE file[l]]
             /\ IF NextBlock[block] = None
                  THEN GoTo("check") /\ UNCHANGED <<block, seq>>
                  ELSE /\ GoTo("save")
                       /\ block' = NextBlock[block]
                       /\ seq' = NextSequence[seq]
             /\ UNCHANGED <<activeVars, polls, passes, boots, sd>>
             /\ Local

\* The polls run out, the two readings differ, or the card refuses the block.
ReadBlockFails == pc = "read" /\ Discard("failed")

\* Faulty variant: the copy is published whatever the game wrote meanwhile.
CheckedBlindly == /\ Got("check")
                  /\ GoTo("publish")
                  /\ UNCHANGED <<activeVars, loopVars, sd>>
                  /\ Local

Checked == /\ Got("check")
           /\ ~reply.dirty
           /\ GoTo("publish")
           /\ UNCHANGED <<activeVars, loopVars, sd>>
           /\ Local

WrittenMeanwhile == Got("check") /\ reply.dirty /\ Discard("not_finished")

CheckMissed == Missed("check") /\ Discard("failed")

Publish == /\ pc = "publish"
           /\ sd' = [sd EXCEPT ![path] = file]
           /\ pending' = FALSE
           /\ Return("ok")
           /\ UNCHANGED <<Active, path>>
           /\ Local

\* AtomicSave's failure: the card has the old save or the new one.
PublishFails == /\ pc = "publish"
                /\ sd' \in {sd, [sd EXCEPT ![path] = file]}
                /\ pending' = TRUE
                /\ Return("failed")
                /\ UNCHANGED <<Active, path>>
                /\ Local

-----------------------------------------------------------------------------
(* PersistActiveDataForTransition around it, and the ends of a switch. *)

QuiesceAnswered == /\ Got("quiesce")
                   /\ GoTo("freeze")
                   /\ polls' = 0
                   /\ UNCHANGED <<activeVars, passes, boots, block, seq, file, sd>>
                   /\ Local

QuiesceMissed == /\ Missed("quiesce") \/ Missed("freeze")
                 /\ GoTo("resume")
                 /\ UNCHANGED <<activeVars, loopVars, sd>>
                 /\ Local

Frozen == /\ Got("freeze")
          /\ reply.quiesced
          /\ GoTo("query")
          /\ passes' = 0
          /\ UNCHANGED <<activeVars, polls, boots, block, seq, file, sd>>
          /\ Local

\* Faulty variant: polls that are not counted.
PollForever(step, seen) == /\ Got(step)
                           /\ ~seen
                           /\ GoTo(step)
                           /\ UNCHANGED <<activeVars, loopVars, sd>>
                           /\ Local

(* The status does not show yet what step waits for: ask again. *)
PollAgain(step, seen) == /\ Got(step)
                         /\ ~seen
                         /\ polls < Polls
                         /\ polls' = polls + 1
                         /\ GoTo(step)
                         /\ UNCHANGED <<activeVars, passes, boots, block, seq, file, sd>>
                         /\ Local

(* The boot polls take two seconds, which a game that boots does not need. *)
BootIsSlow == /\ Got("boot")
              /\ ~reply.booted
              /\ polls = Polls
              /\ ~hung
              /\ GoTo("boot")
              /\ UNCHANGED <<activeVars, loopVars, sd>>
              /\ Local

AskAgain == \/ PollAgain("freeze", reply.quiesced)
            \/ PollAgain("reset", reply.prepared)
            \/ PollAgain("boot", reply.booted)
            \/ BootIsSlow

\* Faulty variant: the freeze that came too late is not called off.
FreezeGivenUp == /\ Got("freeze")
                 /\ ~reply.quiesced
                 /\ polls = Polls
                 /\ Done
                 /\ UNCHANGED <<activeVars, sd>>
                 /\ Local

FreezeTimesOut == /\ Got("freeze")
                  /\ ~reply.quiesced
                  /\ polls = Polls
                  /\ GoTo("resume")
                  /\ UNCHANGED <<activeVars, loopVars, sd>>
                  /\ Local

SaveRtc == /\ pc = "rtc"
           /\ GoTo(IF job = "stop" THEN "stop" ELSE "prepare")
           /\ UNCHANGED <<activeVars, loopVars, sd>>
           /\ Local

SaveRtcFails == /\ pc = "rtc"
                /\ GoTo("resume")
                /\ UNCHANGED <<activeVars, loopVars, sd>>
                /\ Local

(* ResumeActiveGame, whose answer nobody looks at. *)
Resumed == /\ pc = "resume"
           /\ reply # None
           /\ Done
           /\ UNCHANGED <<activeVars, sd>>
           /\ Local

ClearActive == Active' = FALSE /\ path' = None /\ pending' = FALSE

Stopped == /\ Got("stop")
           /\ ClearActive
           /\ Done
           /\ UNCHANGED sd
           /\ Local

StopMissed == /\ Missed("stop")
              /\ IF Active THEN GoTo("resume") /\ UNCHANGED loopVars ELSE Done
              /\ UNCHANGED <<activeVars, sd>>
              /\ Local

-----------------------------------------------------------------------------
(* RunLoad from PrepareAndWaitForReset on. *)

Prepared == /\ Got("prepare")
            /\ GoTo("reset")
            /\ polls' = 0
            /\ UNCHANGED <<activeVars, passes, boots, block, seq, file, sd>>
            /\ Local

(* The first time round the old game is given up and the new one uploaded. *)
ResetSeen == /\ Got("reset")
             /\ reply.prepared
             /\ IF boots = 0 THEN ClearActive /\ GoTo("upload")
                             ELSE UNCHANGED activeVars /\ GoTo("start")
             /\ UNCHANGED <<loopVars, sd>>
             /\ Local

UploadGame == /\ pc = "upload"
              /\ game' = target
              /\ psram' = sd[target] /\ ram' = sd[target]
              /\ GoTo("start")
              /\ UNCHANGED <<request, servingVars, flush_asked, flush_done, enabled,
                             dirty, flushing, wrote, prepared, hold, quiesced,
                              booted, hung>>
              /\ UNCHANGED <<activeVars, loopVars, tries, worldVars>>

StartAnswered == /\ Got("start")
                 /\ GoTo("boot")
                 /\ polls' = 0
                 /\ UNCHANGED <<activeVars, passes, boots, block, seq, file, sd>>
                 /\ Local

FrameSeen == /\ Got("boot")
             /\ reply.booted
             /\ Active' = TRUE /\ path' = target /\ pending' = FALSE
             /\ GoTo("unmount")
             /\ UNCHANGED <<loopVars, sd>>
             /\ Local

(* CartBulk_End and SDCard_Unmount, with the new game running. *)
Unmounted == /\ pc = "unmount"
             /\ Done
             /\ UNCHANGED <<activeVars, sd>>
             /\ Local

(* Its error fails the load, and the cleanup stops the new game as well.   *)
UnmountFails == /\ pc = "unmount"
                /\ GoTo("dismiss")
                /\ UNCHANGED <<activeVars, loopVars, sd>>
                /\ Local

BootTimesOut == /\ Got("boot")
                /\ ~reply.booted
                /\ polls = Polls
                /\ hung
                /\ IF boots + 1 < Boots
                     THEN GoTo("prepare") /\ boots' = boots + 1
                     ELSE GoTo("abort") /\ UNCHANGED boots
                /\ UNCHANGED <<activeVars, polls, passes, block, seq, file, sd>>
                /\ Local

\* Faulty variant: a load that fails leaves the FPGA as it is.
LoadGivenUp == /\ \/ \E step \in {"prepare", "reset", "start", "boot"} : Missed(step)
                  \/ Got("reset") /\ ~reply.prepared /\ polls = Polls
               /\ Done
               /\ UNCHANGED <<activeVars, sd>>
               /\ Local

LoadMissed == /\ \/ \E step \in {"prepare", "reset", "start", "boot"} : Missed(step)
                 \/ Got("reset") /\ ~reply.prepared /\ polls = Polls
              /\ GoTo("abort")
              /\ UNCHANGED <<activeVars, loopVars, sd>>
              /\ Local

UploadFails == /\ pc = "upload"
               /\ GoTo("abort")
               /\ UNCHANGED <<activeVars, loopVars, sd>>
               /\ Local

(* The Stop of RunLoad's cleanup, whose answer nobody looks at. *)
Aborted == /\ pc \in {"abort", "dismiss"}
           /\ reply # None
           /\ ClearActive
           /\ Done
           /\ UNCHANGED sd
           /\ Local

-----------------------------------------------------------------------------
PowerCut == /\ IF enabled THEN Disable ELSE UNCHANGED memoryVars
            /\ prepared' = "none" /\ hold' = FALSE /\ quiesced' = FALSE
            /\ booted' = FALSE /\ hung' = FALSE /\ UNCHANGED game
            /\ ClearActive
            /\ Done
            /\ tries' = 0
            /\ sd' \in {sd} \cup (IF pc = "publish" THEN {[sd EXCEPT ![path] = file]} ELSE {})
            /\ UNCHANGED <<images, writes, lost>>

Firmware == \/ Exchange
            \/ PollAnswered \/ PollMissed \/ Mount
            \/ Queried \/ QueryMissed \/ OpenTemp \/ BlockAsked \/ BlockNotAsked
            \/ ReadBlock \/ Checked \/ WrittenMeanwhile \/ CheckMissed \/ Publish
            \/ QuiesceAnswered \/ QuiesceMissed \/ Frozen \/ AskAgain \/ FreezeTimesOut
            \/ SaveRtc \/ Resumed \/ Stopped \/ StopMissed
            \/ Prepared \/ ResetSeen \/ UploadGame \/ StartAnswered \/ FrameSeen
            \/ Unmounted \/ BootTimesOut \/ LoadMissed \/ Aborted

Fault == \/ MessageLost \/ MountFails \/ OpenTempFails \/ ReadBlockFails
         \/ PublishFails \/ SaveRtcFails \/ UploadFails \/ UnmountFails
         \/ PowerCut

Next == \/ CoreResets \/ BootGame \/ GameHangs \/ GameWrites \/ GameFreezes \/ SaveRam
        \/ StartPoll \/ StartLoad \/ StartStop
        \/ Firmware \/ Fault

Spec == Init /\ [][Next]_vars

(* The firmware's tasks and the FPGA keep running; a core that is asked to *)
(* freeze or to start does, unless it hangs; and SaveTask, which wakes up  *)
(* four times a second, gets its turn between the jobs the user asks for.  *)
FairSpec == /\ Spec
            /\ WF_vars(Firmware) /\ WF_vars(SaveRam)
            /\ WF_vars(GameFreezes) /\ WF_vars(BootGame) /\ WF_vars(CoreResets)
            /\ SF_vars(StartPoll)

-----------------------------------------------------------------------------
Saves == [Lines -> Values]

MemoryTypeOK == /\ PortTypeOK
                /\ ram \in Saves
                /\ enabled \in BOOLEAN /\ dirty \in BOOLEAN
                /\ flushing \in BOOLEAN /\ wrote \in BOOLEAN

SessionTypeOK == /\ prepared \in {"none", "pending", "ready"}
                 /\ hold \in BOOLEAN /\ quiesced \in BOOLEAN
                 /\ booted \in BOOLEAN /\ hung \in BOOLEAN
                 /\ game \in Games \cup {None}

JobTypeOK == /\ Active \in BOOLEAN /\ pending \in BOOLEAN
             /\ path \in Games \cup {None}
             /\ job \in {"none", "poll", "load", "stop"}
             /\ target \in Games \cup {None}
             /\ pc \in Commands \cup
                       {"idle", "mount", "open", "read", "publish", "rtc", "upload",
                        "unmount"}
             /\ reply \in Replies \cup {None}
             /\ tries \in 0 .. Attempts - 1

LoopTypeOK == /\ polls \in 0 .. Polls
              /\ passes \in 0 .. Passes - 1
              /\ boots \in 0 .. Boots - 1
              /\ block \in Blocks \cup {None}
              /\ seq \in Sequences
              /\ file \in Saves \cup {None}

WorldTypeOK == /\ sd \in [Games -> Saves]
               /\ images \in [Games -> SUBSET Saves]
               /\ writes \in 0 .. MaxWrites
               /\ lost \in 0 .. LossBudget

TypeOK == MemoryTypeOK /\ SessionTypeOK /\ JobTypeOK /\ LoopTypeOK /\ WorldTypeOK

(* The save on the card is one the game's RAM held at some instant: never  *)
(* a mixture of two, although it is copied block by block while the game   *)
(* keeps writing, the cache keeps evicting and copies are given up halfway.*)
NoTornSave == \A g \in Games : sd[g] \in images[g]

(* Nothing the game wrote is forgotten: while neither the FPGA's flag nor  *)
(* the firmware's remembers a write, the card has everything.              *)
CleanMeansSaved == /\ Active /\ enabled => path = game
                   /\ Active /\ enabled /\ ~dirty /\ ~pending => sd[path] = ram

(* A game is dropped, for another or for none, only once the card has its  *)
(* last write, whatever gets lost or fails on the way.  The exception is a *)
(* game a load has only just started: when the card cannot be unmounted    *)
(* the cleanup stops it with what it wrote since its first frame.          *)
SwitchKeepsSave ==
  [][Active /\ enabled /\ ~enabled' /\ ~PowerCut /\ pc # "dismiss" => sd[path] = ram]_vars

(* A game that could not be left goes on: a failed save never leaves it    *)
(* frozen, as long as no command is lost with all its retries.             *)
FailedSwitchResumes ==
  pc = "idle" /\ Active /\ enabled /\ lost < Attempts => ~hold

(* A game that is left running is one SaveTask watches, until a command    *)
(* was lost with all its retries.  That is enough: it takes a load whose   *)
(* card cannot be unmounted and the STOP of its cleanup.                   *)
RunningIsWatched == pc = "idle" /\ booted /\ lost < Attempts => Active

(* Once nothing goes wrong any more, what the game wrote reaches the card. *)
WritesReachCard ==
  <>[][~Fault]_vars => [](Active /\ enabled => <>(~Active \/ ~enabled \/ sd[path] = ram))

(* Every load, stop and save comes to an end. *)
JobsEnd == pc # "idle" ~> pc = "idle"
=============================================================================

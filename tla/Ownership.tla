------------------------------ MODULE Ownership -----------------------------
(* Who may use the cartridge, the card and the display bus.  Six tasks run *)
(* the firmware's jobs: the menu, the console, PC mode's keepalive, the    *)
(* backup, the loading and the saving of a virtual cartridge.  They keep   *)
(* out of each other's way by flags and two mutexes, spread over           *)
(* pc_backup.c, cart_backup.c, virtual_cart.c, cart_bulk.c and sd_card.c,  *)
(* and by the FPGA, which refuses a second maintenance session.  Reading a *)
(* flag and writing one are steps of their own; what a job does with the   *)
(* cartridge is one step.                                                  *)
EXTENDS Integers

CONSTANTS
  MaxToggles,     (* bound: changes of the PC mode setting *)
  MaxStarts,      (* bound: jobs started from the menu *)
  MaxCommands,    (* bound: commands of the console *)
  MaxRequests,    (* bound: requests of the PC to back up or to download *)
  MaxEvents       (* bound: periods of the save task, and failures of the *)
                  (* link, the card, the memory or the session *)

ASSUME OwnershipAssumption ==
  {MaxToggles, MaxStarts, MaxCommands, MaxRequests, MaxEvents} \subseteq Nat

VARIABLES
  task,       (* where each task is, what it waits to return to, its locals *)
  s,          (* what the tasks share *)
  left,       (* what is left of each bound *)
  (* history *)
  unseen,     (* tasks that turn PC mode on although it was off meanwhile *)
  meddled,    (* two tasks passed CartBulk_Begin, or one ended another's *)
  intruded    (* one of the two was a diagnostic command *)

vars == <<task, s, left, unseen, meddled, intruded>>

None == "none"
Tasks == {"menu", "console", "keepalive", "backup", "load", "save"}
Procedures == {"off", "begin", "mode", "enable", "stop"}
Rest == [at |-> "idle", ret |-> [l \in Procedures |-> None], ok |-> TRUE,
         arg |-> FALSE, want |-> FALSE, seen |-> FALSE, bulk |-> FALSE, card |-> FALSE, mine |-> FALSE]

Init ==
  /\ task = [p \in Tasks |-> Rest]
  /\ \E on \in BOOLEAN :        \* a saved setting that is on is a first change
       /\ on => MaxToggles > 0
       /\ s = [on |-> on, Gate |-> None, ModeApplied |-> FALSE,
               AppliedEnabled |-> FALSE, SleepInhibited |-> FALSE,
               PCModeActive |-> FALSE, Running |-> FALSE, LoadRequested |-> FALSE,
               VRunning |-> FALSE, Active |-> FALSE, SessionActive |-> FALSE,
               SleepInhibitCount |-> 0, MountGate |-> None, hw |-> None]
       /\ left = [toggles |-> MaxToggles - IF on THEN 1 ELSE 0, starts |-> MaxStarts,
                  commands |-> MaxCommands, requests |-> MaxRequests,
                  events |-> MaxEvents]
  /\ unseen = {} /\ meddled = FALSE /\ intruded = FALSE

-----------------------------------------------------------------------------
(* A step of a task: it is at a label, goes on elsewhere, and changes what *)
(* is shared.  A call notes the label to return to.                        *)

Step(p, l, t, new) == /\ task[p].at = l
                      /\ task' = [task EXCEPT ![p] = t]
                      /\ s' = new
Plain == UNCHANGED <<left, unseen, meddled, intruded>>

Goto(p, l) == [task[p] EXCEPT !.at = l]
Fail(p, l) == [task[p] EXCEPT !.at = l, !.ok = FALSE]
Good(p, l) == [task[p] EXCEPT !.at = l, !.ok = TRUE]
Into(p, l, r) == [task[p] EXCEPT !.at = l, !.ret[l] = r]
Back(p, l, ok) == [task[p] EXCEPT !.at = task[p].ret[l], !.ret[l] = None, !.ok = ok]

Spend(b) == left[b] > 0 /\ left' = [left EXCEPT ![b] = @ - 1]
Fault == Spend("events") /\ UNCHANGED <<unseen, meddled, intruded>>

Inhibit(x) == [x EXCEPT !.SleepInhibitCount = @ + 1]
Allow(x) == [x EXCEPT !.SleepInhibitCount = IF @ > 0 THEN @ - 1 ELSE 0]
Busy == s.VRunning \/ s.LoadRequested
Claimed == [s EXCEPT !.VRunning = @ \/ ~Busy]

\* Faulty variant: the count follows the call and not the change.
SetActiveAlways(x, v) ==
  IF v THEN Inhibit([x EXCEPT !.Active = v]) ELSE Allow([x EXCEPT !.Active = v])

SetActive(x, v) == IF x.Active = v THEN x
                   ELSE IF v THEN Inhibit([x EXCEPT !.Active = v])
                   ELSE Allow([x EXCEPT !.Active = v])

Probing == task["console"].at \in {"probe", "probing"}

(* CartBulk_Begin tests the flag and then sets it. *)
Begin(p) == /\ Step(p, "begin", IF s.SessionActive THEN Back(p, "begin", FALSE)
                                ELSE Goto(p, "begun"), s)
            /\ Plain

Begun(p) == /\ Step(p, "begun", [Back(p, "begin", TRUE) EXCEPT !.bulk = TRUE],
                    Inhibit([s EXCEPT !.SessionActive = TRUE]))
            /\ meddled' = (meddled \/ s.SessionActive)
            /\ intruded' = (intruded \/ (/\ \E q \in Tasks \ {p} : task[q].bulk
                                         /\ \/ Probing
                                            \/ task[p].ret["begin"] = "probe"))
            /\ UNCHANGED <<left, unseen>>

(* CartBulk_End ends it whoever has begun it. *)
Ended(x) == IF x.SessionActive THEN Allow([x EXCEPT !.SessionActive = FALSE]) ELSE x

(* SDCard_Mount waits a quarter of a second for the gate, and may fail. *)
Mount(p, l, good, bad) ==
  \/ /\ s.MountGate = None
     /\ Step(p, l, [good EXCEPT !.card = TRUE], [s EXCEPT !.MountGate = p])
     /\ Plain
  \/ /\ s.MountGate # None
     /\ Step(p, l, bad, s)
     /\ Plain
  \/ /\ s.MountGate = None
     /\ Step(p, l, bad, s)
     /\ Fault

(* A job's release of its bus session and of the card, in this order. *)
Closed(p) == IF task[p].bulk THEN Ended(s) ELSE s
Released(p) == IF task[p].card THEN [Closed(p) EXCEPT !.MountGate = None]
               ELSE Closed(p)

(* PCBackup_IsEnabled() || CartBackup_IsPCModeActive() *)
ModeOff(p) ==
  \/ Step(p, "off", IF s.on THEN Back(p, "off", FALSE) ELSE Goto(p, "off_active"), s) /\ Plain
  \/ Step(p, "off_active", Back(p, "off", ~s.PCModeActive), s) /\ Plain

-----------------------------------------------------------------------------
(* CartBackup_SetPCMode, with the argument in "arg". *)

\* Faulty variant: the mode is set although a job has the cartridge.
ModeRunRegardless(p) ==
  /\ Step(p, "mode", Into(p, "begin", "mode_ping"), [s EXCEPT !.Running = TRUE])
  /\ Plain

ModeRun(p) == /\ Step(p, "mode", IF s.Running
                                 THEN [Back(p, "mode", FALSE) EXCEPT !.want = FALSE]
                                 ELSE Into(p, "begin", "mode_ping"),
                      [s EXCEPT !.Running = TRUE])
              /\ Plain

ModePing(p) ==
  \/ /\ Step(p, "mode_ping", IF task[p].ok THEN [Goto(p, "mode_act") EXCEPT
                                                   !.seen = s.hw # None]
                             ELSE Goto(p, "mode_end"), s)
     /\ Plain
  \/ /\ task[p].ok
     /\ Step(p, "mode_ping", Fail(p, "mode_end"), s)
     /\ Fault

ModeAct(p) ==
  /\ task[p].at = "mode_act"
  /\ LET opens == task[p].arg /\ ~(task[p].seen /\ s.PCModeActive)
         closes == task[p].seen /\ (opens \/ ~task[p].arg)
         hw == IF closes THEN None ELSE s.hw
     IN \/ /\ Step(p, "mode_act", [IF opens /\ hw # None THEN Fail(p, "mode_end")
                                   ELSE Goto(p, "mode_set") EXCEPT !.seen = FALSE],
                   [s EXCEPT !.hw = IF opens /\ hw = None THEN "pc" ELSE hw])
           /\ Plain
        \/ /\ opens \/ closes
           /\ Step(p, "mode_act", Fail(p, "mode_end"), s)
           /\ Fault

ModeSet(p) == /\ Step(p, "mode_set", Goto(p, "mode_end"),
                      [s EXCEPT !.PCModeActive = task[p].arg])
              /\ Plain

ModeEnd(p) == /\ Step(p, "mode_end", [Back(p, "mode", task[p].ok) EXCEPT !.want = FALSE,
                                                                           !.bulk = FALSE],
                      [Closed(p) EXCEPT !.Running = FALSE])
              /\ Plain

SetPCMode(p) == ModeRun(p) \/ ModePing(p) \/ ModeAct(p) \/ ModeSet(p) \/ ModeEnd(p)

(* PC mode is about to be turned on. *)
Turning(p, t) == [t EXCEPT !.arg = TRUE, !.want = TRUE]
Rising(p) == unseen' = IF s.on /\ (p = "keepalive" \/ s.AppliedEnabled) THEN unseen
                       ELSE unseen \cup {p}

(* EnableLocked.  It returns what CartBackup_SetPCMode returns. *)

EnableLast(p) == [Into(p, "mode", task[p].ret["enable"]) EXCEPT !.ret["enable"] = None]

Enable(p) == /\ Step(p, "enable", IF Busy THEN [Back(p, "enable", FALSE) EXCEPT
                                                  !.want = FALSE]
                                  ELSE Goto(p, "enable_stop"), s)
             /\ Plain

EnableStop(p) ==
  /\ Step(p, "enable_stop",
          IF s.Active THEN Into(p, "stop", "enable_mode") ELSE EnableLast(p),
          IF s.SleepInhibited THEN s ELSE Inhibit([s EXCEPT !.SleepInhibited = TRUE]))
  /\ Plain

EnableMode(p) == /\ Step(p, "enable_mode",
                         IF task[p].ok THEN EnableLast(p)
                         ELSE [Back(p, "enable", FALSE) EXCEPT !.want = FALSE], s)
                 /\ Plain

-----------------------------------------------------------------------------
(* VirtualCart_Stop.  A game without battery RAM or clock needs no card. *)

Stop(p) == /\ Step(p, "stop", IF Busy THEN Back(p, "stop", FALSE) ELSE Goto(p, "stop_mount"),
                   Claimed)
           /\ Plain

StopMount(p) ==
  \/ Step(p, "stop_mount", Good(p, "stop_run"), s) /\ Plain
  \/ s.Active /\ Mount(p, "stop_mount", Into(p, "begin", "stop_run"),
                       Fail(p, "stop_end"))

StopRun(p) ==
  \/ /\ Step(p, "stop_run", Goto(p, "stop_end"),
             IF task[p].ok THEN SetActive(s, FALSE) ELSE s)
     /\ Plain
  \/ /\ task[p].ok
     /\ Step(p, "stop_run", Fail(p, "stop_end"), s)
     /\ Fault

StopEnd(p) == /\ Step(p, "stop_end",
                      [Back(p, "stop", task[p].ok) EXCEPT !.bulk = FALSE, !.card = FALSE],
                      [Released(p) EXCEPT !.VRunning = FALSE])
              /\ Plain

VirtualCart_Stop(p) == Stop(p) \/ StopMount(p) \/ StopRun(p) \/ StopEnd(p)

-----------------------------------------------------------------------------
(* KeepaliveTask.  It takes the gate only when it is free, and gives it    *)
(* back at once when it finds nothing to do.                               *)

Pending == ~s.ModeApplied \/ s.AppliedEnabled # s.on

Wake(p) ==
  /\ s.Gate = None
  /\ \/ /\ Pending
        /\ Step(p, "idle", Goto(p, "apply"), [s EXCEPT !.Gate = p])
        /\ Plain
     \/ /\ ~Pending /\ s.on
        /\ Step(p, "idle", Turning(p, Into(p, "mode", "give")), [s EXCEPT !.Gate = p])
        /\ Rising(p) /\ UNCHANGED <<left, meddled, intruded>>

(* ApplyModeLocked *)
Apply(p) ==
  \/ /\ s.on
     /\ Step(p, "apply", Turning(p, Into(p, "enable", "applied")), s)
     /\ Rising(p) /\ UNCHANGED <<left, meddled, intruded>>
  \/ /\ ~s.on
     /\ Step(p, "apply", [IF s.PCModeActive THEN Into(p, "mode", "applied")
                          ELSE Good(p, "applied") EXCEPT !.arg = FALSE], s)
     /\ Plain

Rested(x, p) ==
  IF ~task[p].arg /\ task[p].ok /\ x.SleepInhibited
  THEN Allow([x EXCEPT !.SleepInhibited = FALSE]) ELSE x

\* Faulty variant: a transition that failed counts as done.
AppliedAnyway(p) ==
  /\ Step(p, "applied", Goto(p, "give"),
          Rested([s EXCEPT !.ModeApplied = TRUE, !.AppliedEnabled = task[p].arg], p))
  /\ Plain

Applied(p) ==
  /\ Step(p, "applied", Goto(p, "give"),
          Rested([s EXCEPT !.ModeApplied = task[p].ok,
                           !.AppliedEnabled = task[p].arg], p))
  /\ Plain

Give(p) == /\ Step(p, "give", Rest, [s EXCEPT !.Gate = None])
           /\ Plain

-----------------------------------------------------------------------------
(* CartBackup_Start and BackupTask *)

BackupAsk(p) ==
  \/ /\ Step(p, "backup", IF task[p].ok /\ ~s.Running THEN Goto(p, "backup_run")
                          ELSE Rest,
             [s EXCEPT !.Running = @ \/ task[p].ok])
     /\ Plain
  \/ /\ task[p].at = "backup_run"
     /\ task' = [task EXCEPT ![p] = Rest, !["backup"].at = "started"]
     /\ s' = s /\ Plain
  \/ Step(p, "backup_run", Rest, [s EXCEPT !.Running = FALSE]) /\ Fault

(* RunBackup: the card, the bus, the session, and all of it back. *)
BackupSteps(p) ==
  \/ Step(p, "started", Goto(p, "mount"), Inhibit(s)) /\ Plain
  \/ Mount(p, "mount", Into(p, "begin", "enter"), Goto(p, "leave"))
  \/ /\ Step(p, "enter", IF ~task[p].ok \/ s.hw # None THEN Goto(p, "leave")
                         ELSE [Goto(p, "copy") EXCEPT !.mine = TRUE],
             IF task[p].ok /\ s.hw = None THEN [s EXCEPT !.hw = "backup"] ELSE s)
     /\ Plain
  \/ Step(p, "enter", Goto(p, "leave"), s) /\ Fault
  \/ /\ Step(p, "copy", [Goto(p, "leave") EXCEPT !.mine = FALSE],
             [s EXCEPT !.hw = None])
     /\ Plain
  \/ /\ Step(p, "leave", Rest, Allow([Released(p) EXCEPT !.Running = FALSE]))
     /\ Plain

-----------------------------------------------------------------------------
(* VirtualCart_Start and LoadTask.  The FPGA refuses PREPARE while there   *)
(* is a maintenance session.                                               *)

LoadAsk(p) ==
  \/ /\ Step(p, "load", IF task[p].ok /\ ~s.LoadRequested
                        THEN Into(p, "off", "load_run") ELSE Rest,
             [s EXCEPT !.LoadRequested = @ \/ task[p].ok])
     /\ Plain
  \/ /\ task[p].at = "load_run" /\ task[p].ok
     /\ task' = [task EXCEPT ![p] = Rest, !["load"].at = "started"]
     /\ s' = s /\ Plain
  \/ /\ ~task[p].ok
     /\ Step(p, "load_run", Rest, [s EXCEPT !.LoadRequested = FALSE])
     /\ Plain
  \/ /\ task[p].ok
     /\ Step(p, "load_run", Rest, [s EXCEPT !.LoadRequested = FALSE])
     /\ Fault

LoadSteps(p) ==
  \/ /\ ~s.VRunning
     /\ Step(p, "started", Goto(p, "mount"), Inhibit([s EXCEPT !.VRunning = TRUE]))
     /\ Plain
  \/ Mount(p, "mount", Into(p, "begin", "prepare"), Goto(p, "leave"))
  \/ /\ Step(p, "prepare", IF ~task[p].ok THEN Goto(p, "leave")
                           ELSE [Goto(p, IF s.hw = None THEN "boot" ELSE "leave")
                                   EXCEPT !.mine = TRUE],
             IF task[p].ok /\ s.hw = None THEN SetActive(s, FALSE) ELSE s)
     /\ Plain
  \/ Step(p, "prepare", Goto(p, "leave"), s) /\ Fault
  \/ /\ Step(p, "boot", [Goto(p, "leave") EXCEPT !.mine = FALSE], SetActive(s, TRUE))
     /\ Plain
  \/ Step(p, "boot", Goto(p, "leave"), s) /\ Fault
  \/ /\ Step(p, "leave", [Goto(p, "undo") EXCEPT !.bulk = FALSE, !.card = FALSE],
             Released(p))
     /\ Plain
  \/ /\ Step(p, "undo", Rest,
             Allow([IF task[p].mine THEN SetActive(s, FALSE) ELSE s EXCEPT
                      !.VRunning = FALSE, !.LoadRequested = FALSE]))
     /\ Plain

(* SaveTask *)
SaveWake(p) == /\ s.Active
               /\ Step(p, "idle", Goto(p, "claim"), s)
               /\ Spend("events") /\ UNCHANGED <<unseen, meddled, intruded>>

SaveSteps(p) ==
  \/ /\ Step(p, "claim", IF Busy THEN Rest ELSE Goto(p, "mount"), Claimed)
     /\ Plain
  \/ Mount(p, "mount", Into(p, "begin", "copy"), Goto(p, "leave"))
  \/ Step(p, "mount", Goto(p, "leave"), s) /\ Plain
  \/ Step(p, "copy", Goto(p, "leave"), s) /\ Plain
  \/ Step(p, "leave", Rest, [Released(p) EXCEPT !.VRunning = FALSE]) /\ Plain

-----------------------------------------------------------------------------
(* The commands of PC mode.  They look at the setting and then wait for    *)
(* the gate.                                                               *)

CommandGate(p) ==
  /\ s.Gate = None
  /\ \/ /\ Step(p, "pc", Turning(p, Into(p, "enable", "transfer")),
                [s EXCEPT !.Gate = p])
        /\ Rising(p) /\ UNCHANGED <<left, meddled, intruded>>
     \/ Step(p, "sd", Goto(p, "files"), [s EXCEPT !.Gate = p]) /\ Plain

(* CartBackup_StreamToPC, _StreamToSD, _ImportSaveFromPC, _FlashSession.   *)
(* A backup to the card leaves the session and enters one of its own, and  *)
(* gives the PC mode's back.                                               *)
Transfer(p) ==
  \/ /\ Step(p, "transfer",
             IF task[p].ok /\ s.PCModeActive /\ ~s.Running
             THEN Into(p, "begin", "active") ELSE Goto(p, "closing"),
             IF task[p].ok /\ s.PCModeActive THEN [s EXCEPT !.Running = TRUE] ELSE s)
     /\ Plain
  \/ /\ task[p].ok /\ s.hw # None
     /\ IF task[p].card
        THEN Step(p, "active", Goto(p, "reenter"), [s EXCEPT !.hw = None])
        ELSE Step(p, "active", [Goto(p, "move") EXCEPT !.mine = TRUE], s)
     /\ Plain
  \/ /\ ~task[p].ok \/ s.hw = None
     /\ Step(p, "active", Fail(p, "moved"), s)
     /\ Plain
  \/ Step(p, "active", Fail(p, "moved"), s) /\ Fault
  \/ /\ Step(p, "reenter", IF s.hw = None THEN [Goto(p, "move") EXCEPT !.mine = TRUE]
                           ELSE Fail(p, "restore"),
             [s EXCEPT !.hw = IF @ = None THEN "pc" ELSE @])
     /\ Plain
  \/ /\ Step(p, "move", [Goto(p, IF task[p].card THEN "restore" ELSE "moved")
                          EXCEPT !.mine = FALSE], s)
     /\ Plain
  \/ /\ s.hw # None
     /\ Step(p, "restore", Goto(p, "restored"), [s EXCEPT !.hw = None])
     /\ Plain
  \/ s.hw = None /\ Step(p, "restore", Fail(p, "moved"), s) /\ Plain
  \/ /\ Step(p, "restored", IF s.hw = None THEN Goto(p, "moved") ELSE Fail(p, "moved"),
             [s EXCEPT !.hw = IF @ = None THEN "pc" ELSE @])
     /\ Plain
  \/ Step(p, "restored", Fail(p, "moved"), s) /\ Fault
  \/ /\ Step(p, "moved", [Goto(p, IF task[p].card /\ task[p].ok THEN "request"
                                   ELSE "closing") EXCEPT !.bulk = FALSE],
             [Closed(p) EXCEPT !.Running = FALSE])
     /\ Plain

(* SDCommand and PCSD_Run: requests to back up to the card and to download, *)
(* until one fails or the PC ends the session.                              *)
Files(p) ==
  \/ /\ Step(p, "files", IF Busy THEN Goto(p, "closing")
                         ELSE IF s.Active THEN Into(p, "stop", "card")
                         ELSE Good(p, "card"), s)
     /\ Plain
  \/ /\ task[p].ok
     /\ Mount(p, "card", Goto(p, "request"), Goto(p, "closing"))
  \/ ~task[p].ok /\ Step(p, "card", Goto(p, "closing"), s) /\ Plain
  \/ Step(p, "request", Goto(p, "closing"), s) /\ Plain
  \/ /\ ~task[p].bulk
     /\ Step(p, "request", Turning(p, Into(p, "mode", "transfer")), s)
     /\ Rising(p) /\ Spend("requests") /\ UNCHANGED <<meddled, intruded>>
  \/ /\ Step(p, "request", IF task[p].bulk THEN [Goto(p, "down_send") EXCEPT
                                                                 !.mine = s.hw = "sd"]
                           ELSE [Into(p, "mode", "down") EXCEPT !.arg = FALSE], s)
     /\ Spend("requests") /\ UNCHANGED <<unseen, meddled, intruded>>
  \/ /\ Step(p, "down", IF task[p].ok THEN Into(p, "begin", "down_enter")
                        ELSE Goto(p, "closing"), s)
     /\ Plain
  \/ /\ Step(p, "down_enter", IF task[p].ok /\ s.hw = None
                              THEN [Goto(p, "down_send") EXCEPT !.mine = TRUE]
                              ELSE Goto(p, "closing"),
             IF task[p].ok /\ s.hw = None THEN [s EXCEPT !.hw = "sd"] ELSE s)
     /\ Plain
  \/ Step(p, "down_send", [Goto(p, "request") EXCEPT !.mine = FALSE], s) /\ Plain

Closing(p) ==
  /\ Step(p, "closing", Rest, [Released(p) EXCEPT
                                 !.hw = IF task[p].bulk THEN None ELSE @,
                                 !.Gate = None])
  /\ Plain

(* cartprobe and cartstress end the bus session also when they did not     *)
(* get it.                                                                 *)
Probe(p) ==
  \/ /\ task[p].ok /\ s.hw = None
     /\ Step(p, "probe", Goto(p, "probing"), [s EXCEPT !.hw = "probe"])
     /\ Plain
  \/ /\ ~task[p].ok \/ s.hw # None
     /\ Step(p, "probe", Rest, Ended(s))
     /\ meddled' = (meddled \/ ~task[p].ok)
     /\ UNCHANGED <<left, unseen, intruded>>
  \/ Step(p, "probing", Rest, Ended([s EXCEPT !.hw = None])) /\ Plain

Stopped(p) == Step(p, "stopped", Rest, s) /\ Plain

Command(p) ==
  /\ Spend("commands") /\ UNCHANGED <<unseen, meddled, intruded>>
  /\ \/ s.on /\ \E l \in {"pc", "sd"} : Step(p, "idle", Goto(p, l), s)
     \/ Step(p, "idle", Into(p, "begin", "probe"), s)
     \/ \E l \in {"backup", "load"} : Step(p, "idle", Into(p, "off", l), s)
     \/ Step(p, "idle", Into(p, "stop", "stopped"), s)

-----------------------------------------------------------------------------
(* The menu, and the FPGA's watchdog. *)

(* Turning it on again before the keepalive saw it off hides the change. *)
Toggle ==
  /\ task["menu"].at = "idle"
  /\ Spend("toggles")
  /\ s' = [s EXCEPT !.on = ~@]
  /\ unseen' = unseen \cup (IF s.on THEN {p \in Tasks : task[p].want}
                            ELSE IF s.AppliedEnabled THEN {"keepalive"} ELSE {})
  /\ UNCHANGED <<task, meddled, intruded>>

MenuStart == \E l \in {"backup", "load"} :
  /\ Step("menu", "idle", Into("menu", "off", l), s)
  /\ Spend("starts") /\ UNCHANGED <<unseen, meddled, intruded>>

SessionLost ==
  /\ s.hw # None
  /\ s' = [s EXCEPT !.hw = None]
  /\ task' = [p \in Tasks |-> IF p = "load" THEN task[p]
                              ELSE [task[p] EXCEPT !.mine = FALSE]]
  /\ Fault

Job(p) ==
  \/ Begin(p) \/ Begun(p)
  \/ p \in {"menu", "console"} /\ (ModeOff(p) \/ BackupAsk(p) \/ LoadAsk(p))
  \/ p \in {"console", "keepalive"} /\ \/ SetPCMode(p) \/ VirtualCart_Stop(p)
                                        \/ Enable(p) \/ EnableStop(p) \/ EnableMode(p)
  \/ p = "console" /\ \/ CommandGate(p) \/ Transfer(p) \/ Files(p) \/ Closing(p)
                       \/ Probe(p) \/ Stopped(p)
  \/ p = "keepalive" /\ (Apply(p) \/ Applied(p) \/ Give(p))
  \/ p = "backup" /\ BackupSteps(p)
  \/ p = "load" /\ LoadSteps(p)
  \/ p = "save" /\ SaveSteps(p)

Go(p) == \/ task[p].at # "idle" /\ Job(p)
         \/ p = "keepalive" /\ Wake(p)
         \/ p = "save" /\ SaveWake(p)

Next == (\E p \in Tasks : Go(p)) \/ Command("console") \/ Toggle \/ MenuStart
        \/ SessionLost

Spec == Init /\ [][Next]_vars

(* Every task is scheduled. *)
FairSpec == Spec /\ \A p \in Tasks : WF_vars(Go(p))

-----------------------------------------------------------------------------
(* While a job works on the cartridge the session is the one it was given, *)
(* unless the FPGA ended it: no other task leaves it or enters its own.    *)
Owner == [backup |-> "backup", console |-> IF task["console"].at = "down_send"
                                           THEN "sd" ELSE "pc"]
JobsKeepTheirSession == \A p \in {"backup", "console"} :
                          task[p].mine => s.hw = Owner[p]

(* In PC mode no virtual cartridge is loaded or plays (VirtualCart_Start   *)
(* against EnableLocked).                                                  *)
PCModeExcludesGames == ~(s.PCModeActive /\ (s.Active \/ task["load"].at # "idle"))

(* Nobody who was given the cartridge loses it to another.  That two jobs  *)
(* passed CartBulk_Begin at once does not change it; a diagnostic command  *)
(* that passed it together with a job may.  A game and PC mode may meet    *)
(* only when the setting was off for a while that a task turning the mode  *)
(* on did not see.                                                         *)
OwnersKeepTheCart == /\ ~intruded => JobsKeepTheirSession
                     /\ unseen = {} => PCModeExcludesGames

(* The MCU may sleep when nothing runs, and never while something does,    *)
(* as long as no diagnostic command ended another task's bus session.      *)
Working == \/ s.Active
           \/ s.PCModeActive /\ s.ModeApplied /\ s.AppliedEnabled
           \/ task["backup"].at \notin {"idle", "started"}
           \/ task["load"].at \notin {"idle", "started"}
AtRest == /\ \A p \in Tasks : task[p].at = "idle"
          /\ ~s.Active /\ ~s.SleepInhibited
SleepAccounted ==
  ~meddled => /\ Working => s.SleepInhibitCount > 0
              /\ AtRest => s.SleepInhibitCount = 0

(* PC mode ends up as the user left the setting, through every refusal and *)
(* failure, unless a command turned it on that had seen an older setting.  *)
ModeIsApplied ==
  <>[](s.PCModeActive = s.on \/ "console" \in unseen)

(* What the host test says of the setting: once it is off and the gate is  *)
(* free, PC mode ends (pc_mode_test.c).                                    *)
OffIsApplied == <>[](s.PCModeActive => s.on)
=============================================================================

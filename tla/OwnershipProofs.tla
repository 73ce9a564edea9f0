--------------------------- MODULE OwnershipProofs --------------------------
(* Proofs about Ownership, for every number of setting changes, jobs,      *)
(* commands, requests and failures: a job that was given the cartridge     *)
(* keeps its session, PC mode excludes games, and the MCU is kept awake by *)
(* what works and by nothing else.  The invariant says where a task can be *)
(* and what it has there (Local), which flag or mutex that takes and that  *)
(* no other task has it (Locks), what the sleep count is made of (Ending,  *)
(* Counted, Awake), whose the FPGA's session is (Sessions), and what the   *)
(* tasks that turn PC mode on or off have found out (Modal).  A step of a  *)
(* task is shown to obey what the others rely on (Obeys, CalmStep), action *)
(* by action and from what that task alone can know (Own); the other tasks *)
(* then keep what they had.                                                *)
EXTENDS Ownership, TLAPS

-----------------------------------------------------------------------------
(* The variables. *)
Labels ==
  {None, "idle", "off", "off_active", "begin", "begun", "mode", "mode_ping", "mode_act",
   "mode_set", "mode_end", "enable", "enable_stop", "enable_mode", "stop", "stop_mount",
   "stop_run", "stop_end", "apply", "applied", "give", "backup", "backup_run", "started",
   "mount", "enter", "copy", "leave", "load", "load_run", "prepare", "boot", "undo",
   "claim", "pc", "sd", "transfer", "active", "reenter", "move", "restore", "restored",
   "moved", "files", "card", "request", "down", "down_enter", "down_send", "closing",
   "probe", "probing", "stopped"}
TaskType == [at : Labels, ret : [Procedures -> Labels], ok : BOOLEAN, arg : BOOLEAN,
             want : BOOLEAN, seen : BOOLEAN, bulk : BOOLEAN, card : BOOLEAN,
             mine : BOOLEAN]
SharedType == [on : BOOLEAN, Gate : Tasks \cup {None}, ModeApplied : BOOLEAN,
               AppliedEnabled : BOOLEAN, SleepInhibited : BOOLEAN,
               PCModeActive : BOOLEAN, Running : BOOLEAN, LoadRequested : BOOLEAN,
               VRunning : BOOLEAN, Active : BOOLEAN, SessionActive : BOOLEAN,
               SleepInhibitCount : Nat, MountGate : Tasks \cup {None},
               hw : {None, "pc", "sd", "probe", "backup"}]
Bounds == {"toggles", "starts", "commands", "requests", "events"}
TypeOK == /\ task \in [Tasks -> TaskType]
          /\ s \in SharedType
          /\ left \in [Bounds -> Nat]
          /\ unseen \subseteq Tasks /\ meddled \in BOOLEAN /\ intruded \in BOOLEAN

-----------------------------------------------------------------------------
(* Where a task is. *)

(* At a label of L, or in a call that returns to one. *)
UpTo(t, L) == \/ t.at \in L
              \/ t.ret["off"] \in L \/ t.ret["begin"] \in L \/ t.ret["mode"] \in L
              \/ t.ret["enable"] \in L \/ t.ret["stop"] \in L

Modes(t) == t.ret["mode"] # None
Stops(t) == t.ret["stop"] # None
Enables(t) == t.ret["enable"] # None

(* A task has noted where to return to from the calls it is in, and from   *)
(* no other.                                                               *)
Calls(t) ==
  /\ t.ret["off"] # None <=> t.at \in {"off", "off_active"}
  /\ t.ret["begin"] # None <=> t.at \in {"begin", "begun"}
  /\ Modes(t) <=> \/ t.at \in {"mode", "mode_ping", "mode_act", "mode_set", "mode_end"}
                  \/ t.ret["begin"] = "mode_ping"
  /\ Stops(t) <=> \/ t.at \in {"stop", "stop_mount", "stop_run", "stop_end"}
                  \/ t.ret["begin"] = "stop_run"
  /\ Enables(t) <=> \/ t.at \in {"enable", "enable_stop", "enable_mode"}
                    \/ t.ret["stop"] = "enable_mode"

Returns(p, t) ==
  /\ t.ret["off"] \in {None, "backup", "load", "load_run"}
  /\ t.ret["begin"] \in IF p = "backup" THEN {None, "enter"}
                        ELSE {None, "mode_ping", "stop_run", "prepare", "copy", "active",
                              "down_enter", "probe"}
  /\ t.ret["mode"] \in IF p = "keepalive" THEN {None, "give", "applied"}
                       ELSE IF p = "console" THEN {None, "transfer", "down"} ELSE {None}
  /\ t.ret["enable"] \in IF p = "keepalive" THEN {None, "applied"}
                         ELSE IF p = "console" THEN {None, "transfer"} ELSE {None}
  /\ t.ret["stop"] \in IF p \in {"console", "keepalive"}
                       THEN {None, "enable_mode", "card", "stopped"} ELSE {None}

Moving == {"active", "reenter", "move", "restore", "restored", "moved"}
Serving == {"request", "down", "down_enter", "down_send"}

WithBulk == {"mode_ping", "mode_act", "mode_set", "mode_end", "stop_run", "stop_end",
             "enter", "copy", "leave", "prepare", "boot", "probe", "probing",
             "down_enter", "down_send", "request", "closing"} \cup Moving

(* What a task has where it is. *)
Carries(p, t) ==
  /\ t.bulk => t.at \in WithBulk
  /\ p = "backup" =>
       /\ t.mine => t.at = "copy"
       /\ t.at = "copy" \/ (t.at = "enter" /\ t.ok) => t.bulk
       /\ t.at \in {"copy", "enter", "begin", "begun"} => t.card
  /\ p = "console" =>
       /\ t.mine => t.at \in {"move", "down_send"}
       /\ t.at = "probing" \/ (t.at \in {"probe", "down_enter"} /\ t.ok) => t.bulk
       /\ UpTo(t, Serving) \/ (t.at = "closing" /\ t.bulk) => t.card
       /\ t.card => \/ t.at \in {"stop_run", "stop_end", "closing"}
                    \/ t.ret["begin"] = "stop_run"
                    \/ UpTo(t, {"transfer"} \cup Moving \cup Serving) /\ ~Enables(t)
  /\ Modes(t) /\ t.arg => t.want
  /\ Enables(t) => t.arg /\ t.want
  /\ p = "keepalive" /\ UpTo(t, {"give"}) /\ t.at # "give" => t.arg

Local(p, t) == Calls(t) /\ Returns(p, t) /\ Carries(p, t)

-----------------------------------------------------------------------------
(* The locks: Running, LoadRequested, the gate of PC mode and the card's. *)
HoldsRun(p, t) == \/ Modes(t) /\ t.at # "mode"
                  \/ UpTo(t, Moving)
                  \/ t.at = "backup_run"
                  \/ p = "backup" /\ t.at # "idle"
HoldsLoad(p, t) == UpTo(t, {"load_run"}) \/ (p = "load" /\ t.at # "idle")
HoldsGate(p, t) == \/ p = "keepalive" /\ t.at # "idle"
                   \/ /\ p = "console"
                      /\ UpTo(t, {"transfer", "files", "card", "closing"} \cup Moving \cup Serving)

Holds(p, t, x) == /\ HoldsRun(p, t) => x.Running
                  /\ HoldsLoad(p, t) => x.LoadRequested
                  /\ HoldsGate(p, t) => x.Gate = p
                  /\ t.card => x.MountGate = p

Alone(p, t) == \A q \in Tasks \ {p} : /\ HoldsRun(p, t) => ~HoldsRun(q, task[q])
                                      /\ HoldsLoad(p, t) => ~HoldsLoad(q, task[q])

Locks == \A p \in Tasks : Holds(p, task[p], s) /\ Alone(p, task[p])

(* The bus session, and what keeps the MCU awake. *)
Ending == s.SessionActive => \E p \in Tasks : task[p].bulk

One(b) == IF b THEN 1 ELSE 0
Inside(p, t) == p \in {"backup", "load"} /\ t.at \notin {"idle", "started"}
Flagged(x) == One(x.Active) + One(x.SleepInhibited) + One(x.SessionActive)
Counted == ~meddled =>
   s.SleepInhibitCount = Flagged(s) + One(Inside("backup", task["backup"]))
                         + One(Inside("load", task["load"]))

Awake(t, x) ==
  /\ x.ModeApplied /\ x.AppliedEnabled => x.SleepInhibited
  /\ t.arg /\ \/ UpTo(t, {"applied"}) /\ t.at \notin {"enable", "enable_stop", "applied"}
              \/ t.at = "applied" /\ t.ok
     => x.SleepInhibited

(* The session of the FPGA. *)
Tenant(p, t, h) ==
  /\ p = "backup" /\ h = "backup" => t.at = "copy"
  /\ p = "console" /\ h = "probe" => t.at = "probing"
  /\ p = "console" /\ h = "sd" => t.at \in {"down_send", "request", "closing"} /\ t.bulk
Keeps(p, t, h) ==
  /\ p = "backup" /\ t.mine => h = "backup"
  /\ p = "console" /\ t.mine => h = IF t.at = "down_send" THEN "sd" ELSE "pc"
Diagnoses(p, t) == p = "console" /\ t.at \in {"probe", "probing"} /\ t.bulk
Sessions ==
  /\ s.hw \in {None, "pc", "sd", "probe", "backup"}
  /\ \A p \in Tasks : Tenant(p, task[p], s.hw)
  /\ ~intruded => \A p \in Tasks :
       /\ Keeps(p, task[p], s.hw)
       /\ Diagnoses(p, task[p]) => \A q \in Tasks \ {p} : ~task[q].bulk

(* PC mode and games.  A load has begun once the setting and the mode were *)
(* found off, and it is about to when only the setting was.                *)
Loads(p, t) == \/ p = "load" /\ t.at # "idle"
               \/ p \in {"menu", "console"} /\ t.at = "load_run" /\ t.ok
LoadsSoon(p, t) == t.at = "off_active" /\ t.ret["off"] = "load_run" /\ p = "console"
Loading == \E p \in Tasks : Loads(p, task[p])
LoadingSoon == \E p \in Tasks : LoadsSoon(p, task[p])

Filing(t) == \/ UpTo(t, Serving)
             \/ t.at = "card" /\ t.ok
             \/ UpTo(t, {"transfer"} \cup Moving) /\ t.card /\ ~Enables(t)

Quiet(x, now) == ~x.Active /\ ~now
Safe(x, now, soon) == Quiet(x, now) /\ (soon => x.PCModeActive)

Mode(p, t, x, now, soon) ==
  /\ t.want => x.on
  /\ Modes(t) /\ t.at # "mode_end" /\ t.arg => Safe(x, now, soon)
  /\ Enables(t) /\ t.at # "enable" => ~now /\ ~soon
  /\ Enables(t) /\ t.at \in {"stop_end", "enable_mode"} /\ t.ok => ~x.Active
  /\ p = "keepalive" /\ UpTo(t, {"applied"}) /\ ~t.arg /\ x.on => ~x.AppliedEnabled
  /\ p = "console" /\ x.on /\ x.AppliedEnabled =>
       /\ Filing(t) => Quiet(x, now)
       /\ t.ret["stop"] = "card" => ~now /\ (t.at = "stop_end" /\ t.ok => ~x.Active)

Settled(p, t, x) ==
  /\ p = "menu" /\ t.at = "off_active" /\ t.ret["off"] = "load_run" => ~x.on
  /\ p = "keepalive" /\ t.arg /\ t.ok /\ t.at \in {"mode_end", "applied"} => x.PCModeActive

Decided(x, now, soon) ==
  /\ x.PCModeActive => Quiet(x, now)
  /\ x.on /\ x.ModeApplied /\ x.AppliedEnabled => Safe(x, now, soon)

Modal ==
  /\ \A p \in Tasks : Settled(p, task[p], s)
  /\ unseen = {} => /\ Decided(s, Loading, LoadingSoon)
                    /\ \A p \in Tasks : Mode(p, task[p], s, Loading, LoadingSoon)

IInv == /\ TypeOK
        /\ \A p \in Tasks : Local(p, task[p])
        /\ Locks
        /\ Ending /\ Counted /\ Awake(task["keepalive"], s)
        /\ Sessions
        /\ Modal

-----------------------------------------------------------------------------
(* What a step makes of the record of a task: the label, the calls it is   *)
(* in, and what it has.                                                    *)
Went(u, t, l) == /\ u.at = l
                 /\ \A m \in Procedures : u.ret[m] = t.ret[m]
Called(u, t, m, l) == /\ u.at = m /\ u.ret[m] = l
                      /\ \A n \in Procedures \ {m} : u.ret[n] = t.ret[n]
CameBack(u, t, m) == /\ u.at = t.ret[m] /\ u.ret[m] = None
                     /\ \A n \in Procedures \ {m} : u.ret[n] = t.ret[n]
Rests(u) == /\ u.at = "idle" /\ \A m \in Procedures : u.ret[m] = None
            /\ u.ok /\ ~u.arg /\ ~u.want /\ ~u.bulk /\ ~u.card /\ ~u.mine
Has(u, arg, want, bulk, card, mine) ==
  (u.arg = arg) /\ (u.want = want) /\ (u.bulk = bulk) /\ (u.card = card) /\ (u.mine = mine)
Same(u, t) == Has(u, t.arg, t.want, t.bulk, t.card, t.mine)

Only(p) == /\ task' \in [Tasks -> TaskType]
           /\ \A q \in Tasks \ {p} : task'[q] = task[q]

(* A step changes one record.                                              *)
LEMMA StepIs ==
  ASSUME TypeOK, NEW p \in Tasks, NEW k, NEW t \in TaskType, NEW x, Step(p, k, t, x)
  PROVE  Only(p) /\ task[p].at = k /\ task'[p] = t /\ s' = x
BY DEF TypeOK, Step, Only

(* What the record of a task holds. *)
LEMMA RecordIs ==
  ASSUME TypeOK, NEW p \in Tasks
  PROVE  /\ task[p] \in TaskType /\ task[p].ok \in BOOLEAN
         /\ task[p].ret \in [Procedures -> Labels]
         /\ \A m \in Procedures : task[p].ret[m] \in Labels
         /\ Procedures \subseteq Labels /\ None \in Labels /\ "idle" \in Labels
<1>1. task[p] \in TaskType
  BY DEF TypeOK
<1>2. task[p].ret \in [Procedures -> Labels] /\ task[p].ok \in BOOLEAN
  BY <1>1 DEF TaskType
<1>3. Procedures \subseteq Labels /\ None \in Labels /\ "idle" \in Labels
  BY DEF Procedures, Labels
<1> QED BY <1>1, <1>2, <1>3

(* It goes on at another label, the last call having gone as it says. *)
LEMMA GotoIs ==
  ASSUME TypeOK, NEW p \in Tasks, NEW l \in Labels
  PROVE  /\ Goto(p, l) \in TaskType /\ Went(Goto(p, l), task[p], l)
         /\ Same(Goto(p, l), task[p]) /\ Goto(p, l).ok = task[p].ok
BY RecordIs DEF TaskType, Goto, Went, Same, Has

(* It goes on there, and the call has failed. *)
LEMMA FailIs ==
  ASSUME TypeOK, NEW p \in Tasks, NEW l \in Labels
  PROVE  /\ Fail(p, l) \in TaskType /\ Went(Fail(p, l), task[p], l)
         /\ Same(Fail(p, l), task[p]) /\ ~Fail(p, l).ok
BY RecordIs DEF TaskType, Fail, Went, Same, Has

(* It goes on there, and all is well. *)
LEMMA GoodIs ==
  ASSUME TypeOK, NEW p \in Tasks, NEW l \in Labels
  PROVE  /\ Good(p, l) \in TaskType /\ Went(Good(p, l), task[p], l)
         /\ Same(Good(p, l), task[p]) /\ Good(p, l).ok
BY RecordIs DEF TaskType, Good, Went, Same, Has

(* It calls a procedure, and notes where to return to. *)
LEMMA IntoIs ==
  ASSUME TypeOK, NEW p \in Tasks, NEW m \in Procedures, NEW l \in Labels
  PROVE  /\ Into(p, m, l) \in TaskType /\ Called(Into(p, m, l), task[p], m, l)
         /\ Same(Into(p, m, l), task[p]) /\ Into(p, m, l).ok = task[p].ok
<1>1. task[p] \in TaskType /\ task[p].ret \in [Procedures -> Labels] /\ m \in Labels
  BY RecordIs
<1>2. PICK r : r = [task[p].ret EXCEPT ![m] = l]
  OBVIOUS
<1>3. r \in [Procedures -> Labels] /\ r[m] = l
      /\ \A n \in Procedures \ {m} : r[n] = task[p].ret[n]
  BY <1>1, <1>2
<1>4. Into(p, m, l) = [task[p] EXCEPT !.at = m, !.ret = r]
  BY <1>1, <1>2 DEF Into, TaskType
<1>5. Into(p, m, l) \in TaskType
  BY <1>1, <1>3, <1>4 DEF TaskType
<1> QED BY <1>1, <1>3, <1>4, <1>5 DEF TaskType, Called, Same, Has

(* It returns from one. *)
LEMMA BackIs ==
  ASSUME TypeOK, NEW p \in Tasks, NEW m \in Procedures, NEW ok \in BOOLEAN
  PROVE  /\ Back(p, m, ok) \in TaskType /\ CameBack(Back(p, m, ok), task[p], m)
         /\ Same(Back(p, m, ok), task[p]) /\ Back(p, m, ok).ok = ok
<1>1. /\ task[p] \in TaskType /\ task[p].ret \in [Procedures -> Labels]
      /\ None \in Labels /\ task[p].ret[m] \in Labels
  BY RecordIs
<1>2. PICK r : r = [task[p].ret EXCEPT ![m] = None]
  OBVIOUS
<1>3. r \in [Procedures -> Labels] /\ r[m] = None
      /\ \A n \in Procedures \ {m} : r[n] = task[p].ret[n]
  BY <1>1, <1>2
<1>4. Back(p, m, ok) = [task[p] EXCEPT !.at = task[p].ret[m], !.ret = r, !.ok = ok]
  BY <1>1, <1>2 DEF Back, TaskType
<1>5. Back(p, m, ok) \in TaskType
  BY <1>1, <1>3, <1>4 DEF TaskType
<1> QED BY <1>1, <1>3, <1>4, <1>5 DEF TaskType, CameBack, Same, Has

(* EnableLocked ends with CartBackup_SetPCMode, which returns for it. *)
LEMMA EnableLastIs ==
  ASSUME TypeOK, NEW p \in Tasks
  PROVE  /\ EnableLast(p) \in TaskType
         /\ EnableLast(p).at = "mode" /\ EnableLast(p).ret["mode"] = task[p].ret["enable"]
         /\ EnableLast(p).ret["enable"] = None
         /\ \A m \in {"off", "begin", "stop"} : EnableLast(p).ret[m] = task[p].ret[m]
         /\ Same(EnableLast(p), task[p]) /\ EnableLast(p).ok = task[p].ok
<1>1. PICK t : t = Into(p, "mode", task[p].ret["enable"])
  OBVIOUS
<1>2. /\ t \in TaskType /\ t.at = "mode" /\ t.ret["mode"] = task[p].ret["enable"]
      /\ \A m \in {"off", "begin", "stop"} : t.ret[m] = task[p].ret[m]
      /\ Same(t, task[p]) /\ t.ok = task[p].ok
  BY <1>1, IntoIs, RecordIs DEF Called, Procedures
<1>3. PICK r : r = [t.ret EXCEPT !["enable"] = None]
  OBVIOUS
<1>4. /\ r \in [Procedures -> Labels] /\ r["mode"] = t.ret["mode"] /\ r["enable"] = None
      /\ \A m \in {"off", "begin", "stop"} : r[m] = t.ret[m]
  BY <1>2, <1>3, RecordIs DEF TaskType, Procedures
<1>5. EnableLast(p) = [t EXCEPT !.ret = r]
  BY <1>1, <1>2, <1>3 DEF EnableLast, TaskType
<1> QED BY <1>2, <1>4, <1>5 DEF TaskType, Same, Has

(* Its job is over. *)
LEMMA RestIs == Rest \in TaskType /\ Rests(Rest)
<1>1. Procedures \subseteq Labels /\ None \in Labels /\ "idle" \in Labels
  BY DEF Procedures, Labels
<1> QED BY <1>1 DEF Rest, Rests, TaskType

(* It notes something: what it has, and what it is about to do. *)
Noted(u, t) == u \in TaskType /\ u.at = t.at /\ u.ret = t.ret /\ u.ok = t.ok

(* Whether the FPGA's session is its own. *)
LEMMA MineIs ==
  ASSUME NEW t \in TaskType, NEW v \in BOOLEAN
  PROVE  /\ Noted([t EXCEPT !.mine = v], t)
         /\ Has([t EXCEPT !.mine = v], t.arg, t.want, t.bulk, t.card, v)
BY DEF TaskType, Noted, Has

(* Whether it has begun the bus session. *)
LEMMA BulkIs ==
  ASSUME NEW t \in TaskType, NEW v \in BOOLEAN
  PROVE  /\ Noted([t EXCEPT !.bulk = v], t)
         /\ Has([t EXCEPT !.bulk = v], t.arg, t.want, v, t.card, t.mine)
BY DEF TaskType, Noted, Has

(* It has mounted the card. *)
LEMMA CardIs ==
  ASSUME NEW t \in TaskType
  PROVE  /\ Noted([t EXCEPT !.card = TRUE], t)
         /\ Has([t EXCEPT !.card = TRUE], t.arg, t.want, t.bulk, TRUE, t.mine)
BY DEF TaskType, Noted, Has

(* It turns PC mode off. *)
LEMMA ArgIs ==
  ASSUME NEW t \in TaskType
  PROVE  /\ Noted([t EXCEPT !.arg = FALSE], t)
         /\ Has([t EXCEPT !.arg = FALSE], FALSE, t.want, t.bulk, t.card, t.mine)
BY DEF TaskType, Noted, Has

(* It does not turn PC mode on any more. *)
LEMMA WantIs ==
  ASSUME NEW t \in TaskType
  PROVE  /\ Noted([t EXCEPT !.want = FALSE], t)
         /\ Has([t EXCEPT !.want = FALSE], t.arg, FALSE, t.bulk, t.card, t.mine)
BY DEF TaskType, Noted, Has

(* CartBackup_SetPCMode is over. *)
LEMMA ModeEndedIs ==
  ASSUME NEW t \in TaskType
  PROVE  /\ Noted([t EXCEPT !.want = FALSE, !.bulk = FALSE], t)
         /\ Has([t EXCEPT !.want = FALSE, !.bulk = FALSE], t.arg, FALSE, FALSE, t.card, t.mine)
BY DEF TaskType, Noted, Has

(* It has given the bus session and the card back. *)
LEMMA FreedIs ==
  ASSUME NEW t \in TaskType
  PROVE  /\ Noted([t EXCEPT !.bulk = FALSE, !.card = FALSE], t)
         /\ Has([t EXCEPT !.bulk = FALSE, !.card = FALSE], t.arg, t.want, FALSE, FALSE, t.mine)
BY DEF TaskType, Noted, Has

(* Whether the FPGA was in a session when it asked. *)
LEMMA SeenIs ==
  ASSUME NEW t \in TaskType, NEW v \in BOOLEAN
  PROVE  /\ Noted([t EXCEPT !.seen = v], t)
         /\ Has([t EXCEPT !.seen = v], t.arg, t.want, t.bulk, t.card, t.mine)
BY DEF TaskType, Noted, Has

(* It is about to turn PC mode on. *)
LEMMA TurnedIs ==
  ASSUME NEW t \in TaskType
  PROVE  /\ Noted([t EXCEPT !.arg = TRUE, !.want = TRUE], t)
         /\ Has([t EXCEPT !.arg = TRUE, !.want = TRUE], TRUE, TRUE, t.bulk, t.card, t.mine)
BY DEF TaskType, Noted, Has

(* One of the locks, or the session of the FPGA, changes hands. *)
SameCounts(y, x) == /\ y.SleepInhibitCount = x.SleepInhibitCount
                    /\ y.Active = x.Active
                    /\ y.SleepInhibited = x.SleepInhibited
                    /\ y.SessionActive = x.SessionActive
SameModes(y, x) == /\ y.on = x.on
                   /\ y.PCModeActive = x.PCModeActive
                   /\ y.ModeApplied = x.ModeApplied
                   /\ y.AppliedEnabled = x.AppliedEnabled
Locked(y, run, load, gate, card) == /\ y.Running = run
                                    /\ y.LoadRequested = load
                                    /\ y.Gate = gate /\ y.MountGate = card

(* g_cartBackup.Running. *)
LEMMA RunningSet ==
  ASSUME NEW x \in SharedType, NEW v \in BOOLEAN, NEW y, y = [x EXCEPT !.Running = v]
  PROVE  /\ y \in SharedType /\ SameCounts(y, x) /\ SameModes(y, x)
         /\ y.hw = x.hw /\ Locked(y, v, x.LoadRequested, x.Gate, x.MountGate)
BY DEF SharedType, SameCounts, SameModes, Locked

(* g_vcart.LoadRequested. *)
LEMMA LoadSet ==
  ASSUME NEW x \in SharedType, NEW v \in BOOLEAN, NEW y, y = [x EXCEPT !.LoadRequested = v]
  PROVE  /\ y \in SharedType /\ SameCounts(y, x) /\ SameModes(y, x)
         /\ y.hw = x.hw /\ Locked(y, x.Running, v, x.Gate, x.MountGate)
BY DEF SharedType, SameCounts, SameModes, Locked

(* The gate of PC mode. *)
LEMMA GateSet ==
  ASSUME NEW x \in SharedType, NEW v \in Tasks \cup {None}, NEW y, y = [x EXCEPT !.Gate = v]
  PROVE  /\ y \in SharedType /\ SameCounts(y, x) /\ SameModes(y, x)
         /\ y.hw = x.hw /\ Locked(y, x.Running, x.LoadRequested, v, x.MountGate)
BY DEF SharedType, SameCounts, SameModes, Locked

(* The gate of the card. *)
LEMMA MountGateSet ==
  ASSUME NEW x \in SharedType, NEW v \in Tasks \cup {None}, NEW y, y = [x EXCEPT !.MountGate = v]
  PROVE  /\ y \in SharedType /\ SameCounts(y, x) /\ SameModes(y, x)
         /\ y.hw = x.hw /\ Locked(y, x.Running, x.LoadRequested, x.Gate, v)
BY DEF SharedType, SameCounts, SameModes, Locked

(* g_vcart.Running, which no other task relies on. *)
LEMMA VRunningSet ==
  ASSUME NEW x \in SharedType, NEW v \in BOOLEAN, NEW y, y = [x EXCEPT !.VRunning = v]
  PROVE  /\ y \in SharedType /\ SameCounts(y, x) /\ SameModes(y, x)
         /\ y.hw = x.hw /\ Locked(y, x.Running, x.LoadRequested, x.Gate, x.MountGate)
BY DEF SharedType, SameCounts, SameModes, Locked

(* The session of the FPGA. *)
LEMMA HwSet ==
  ASSUME NEW x \in SharedType, NEW v \in {None, "pc", "sd", "probe", "backup"}, NEW y, y = [x EXCEPT !.hw = v]
  PROVE  /\ y \in SharedType /\ SameCounts(y, x) /\ SameModes(y, x)
         /\ y.hw = v /\ Locked(y, x.Running, x.LoadRequested, x.Gate, x.MountGate)
BY DEF SharedType, SameCounts, SameModes, Locked

(* What keeps the MCU awake, and what else is shared. *)
Alike(y, x) == /\ SameModes(y, x) /\ y.hw = x.hw
               /\ y.Running = x.Running /\ y.LoadRequested = x.LoadRequested
               /\ y.Gate = x.Gate

(* Power management's count goes up. *)
LEMMA InhibitIs ==
  ASSUME NEW x \in SharedType
  PROVE  /\ Inhibit(x) \in SharedType /\ Alike(Inhibit(x), x)
         /\ Inhibit(x).SleepInhibitCount = x.SleepInhibitCount + 1
         /\ Inhibit(x).MountGate = x.MountGate /\ Inhibit(x).Active = x.Active
         /\ Inhibit(x).SessionActive = x.SessionActive
         /\ Inhibit(x).SleepInhibited = x.SleepInhibited
BY DEF Inhibit, Alike, SameModes, SharedType

(* It goes down, and not below zero. *)
LEMMA AllowIs ==
  ASSUME NEW x \in SharedType
  PROVE  /\ Allow(x) \in SharedType /\ Alike(Allow(x), x)
         /\ Allow(x).SleepInhibitCount = IF x.SleepInhibitCount > 0
                                         THEN x.SleepInhibitCount - 1 ELSE 0
         /\ Allow(x).MountGate = x.MountGate /\ Allow(x).Active = x.Active
         /\ Allow(x).SessionActive = x.SessionActive
         /\ Allow(x).SleepInhibited = x.SleepInhibited
BY DEF Allow, Alike, SameModes, SharedType

(* g_vcart.Active, and the sleep it forbids. *)
LEMMA ActivateIs ==
  ASSUME NEW x \in SharedType
  PROVE  /\ SetActive(x, TRUE) \in SharedType /\ Alike(SetActive(x, TRUE), x)
         /\ SetActive(x, TRUE).Active
         /\ SetActive(x, TRUE).SleepInhibitCount =
              IF x.Active THEN x.SleepInhibitCount
              ELSE x.SleepInhibitCount + 1
         /\ SetActive(x, TRUE).MountGate = x.MountGate
         /\ SetActive(x, TRUE).SessionActive = x.SessionActive
         /\ SetActive(x, TRUE).SleepInhibited = x.SleepInhibited
<1>1. PICK y : y = [x EXCEPT !.Active = TRUE]
  OBVIOUS
<1>2. /\ y \in SharedType /\ Alike(y, x) /\ y.Active
      /\ y.SleepInhibitCount = x.SleepInhibitCount /\ y.MountGate = x.MountGate
      /\ y.SessionActive = x.SessionActive /\ y.SleepInhibited = x.SleepInhibited
  BY <1>1 DEF SharedType, Alike, SameModes
<1>3. SetActive(x, TRUE) = IF x.Active THEN x ELSE Inhibit(y)
  BY <1>1 DEF SetActive, SharedType
<1>4. CASE x.Active
  BY <1>3, <1>4 DEF Alike, SameModes
<1>5. CASE ~x.Active
  <2>1. SetActive(x, TRUE) = Inhibit(y)
    BY <1>3, <1>5
  <2>2. /\ Inhibit(y) \in SharedType /\ Alike(Inhibit(y), y)
        /\ Inhibit(y).SleepInhibitCount = y.SleepInhibitCount + 1
        /\ Inhibit(y).MountGate = y.MountGate /\ Inhibit(y).Active = y.Active
        /\ Inhibit(y).SessionActive = y.SessionActive
        /\ Inhibit(y).SleepInhibited = y.SleepInhibited
    BY <1>2, InhibitIs
  <2> QED BY <1>2, <1>5, <2>1, <2>2 DEF Alike, SameModes
<1> QED BY <1>4, <1>5

(* A game is over, and the sleep it forbade is allowed. *)
LEMMA DeactivateIs ==
  ASSUME NEW x \in SharedType
  PROVE  /\ SetActive(x, FALSE) \in SharedType /\ Alike(SetActive(x, FALSE), x)
         /\ ~SetActive(x, FALSE).Active
         /\ SetActive(x, FALSE).SleepInhibitCount =
              IF ~x.Active THEN x.SleepInhibitCount
              ELSE IF x.SleepInhibitCount > 0 THEN x.SleepInhibitCount - 1 ELSE 0
         /\ SetActive(x, FALSE).MountGate = x.MountGate
         /\ SetActive(x, FALSE).SessionActive = x.SessionActive
         /\ SetActive(x, FALSE).SleepInhibited = x.SleepInhibited
<1>1. PICK y : y = [x EXCEPT !.Active = FALSE]
  OBVIOUS
<1>2. /\ y \in SharedType /\ Alike(y, x) /\ ~y.Active
      /\ y.SleepInhibitCount = x.SleepInhibitCount /\ y.MountGate = x.MountGate
      /\ y.SessionActive = x.SessionActive /\ y.SleepInhibited = x.SleepInhibited
  BY <1>1 DEF SharedType, Alike, SameModes
<1>3. SetActive(x, FALSE) = IF ~x.Active THEN x ELSE Allow(y)
  BY <1>1 DEF SetActive, SharedType
<1>4. CASE ~x.Active
  BY <1>3, <1>4 DEF Alike, SameModes
<1>5. CASE x.Active
  <2>1. SetActive(x, FALSE) = Allow(y)
    BY <1>3, <1>5
  <2>2. /\ Allow(y) \in SharedType /\ Alike(Allow(y), y)
        /\ Allow(y).SleepInhibitCount = IF y.SleepInhibitCount > 0 THEN y.SleepInhibitCount - 1 ELSE 0
        /\ Allow(y).MountGate = y.MountGate /\ Allow(y).Active = y.Active
        /\ Allow(y).SessionActive = y.SessionActive
        /\ Allow(y).SleepInhibited = y.SleepInhibited
    BY <1>2, AllowIs
  <2> QED BY <1>2, <1>5, <2>1, <2>2 DEF Alike, SameModes
<1> QED BY <1>4, <1>5

-----------------------------------------------------------------------------
(* What a task may rely on at each of its steps. *)
Alone2(p) ==
  /\ HoldsRun(p, task[p]) /\ p # "backup" => s.hw # "backup" /\ ~task["backup"].mine
  /\ task[p].card /\ p # "backup" => ~task["backup"].mine
  /\ HoldsRun(p, task[p]) /\ p # "console" /\ (task[p].card \/ HoldsGate(p, task[p]))
       => ~task["console"].mine
  /\ ~intruded /\ s.hw = None => ~task["backup"].mine /\ ~task["console"].mine
  /\ ~intruded /\ Diagnoses(p, task[p]) => ~task["backup"].mine

OwnLocks(p) ==
  /\ s \in SharedType /\ s.hw \in {None, "pc", "sd", "probe", "backup"}
  /\ Local(p, task[p]) /\ Holds(p, task[p], s)

OwnCounts(p) ==
  /\ p = "keepalive" => Awake(task[p], s)
  /\ ~meddled => s.SleepInhibitCount >= Flagged(s) + One(Inside(p, task[p]))

OwnSession(p) ==
  /\ Tenant(p, task[p], s.hw)
  /\ ~intruded => Keeps(p, task[p], s.hw)
  /\ Alone2(p)

OwnMode(p) ==
  /\ Loading \in BOOLEAN /\ LoadingSoon \in BOOLEAN
  /\ Loading \/ LoadingSoon => s.LoadRequested
  /\ Loads(p, task[p]) => Loading
  /\ LoadsSoon(p, task[p]) => LoadingSoon
  /\ p = "console" => (LoadingSoon => LoadsSoon(p, task[p]))
  /\ Settled(p, task[p], s)
  /\ unseen = {} => /\ Decided(s, Loading, LoadingSoon)
                    /\ Mode(p, task[p], s, Loading, LoadingSoon)

Own(p) == OwnLocks(p) /\ OwnCounts(p) /\ OwnSession(p) /\ OwnMode(p)

(* What it must keep to for the sake of the others. *)
LockStep(p) ==
  /\ Local(p, task'[p]) /\ Holds(p, task'[p], s')
  /\ s.Running /\ ~s'.Running => HoldsRun(p, task[p])
  /\ HoldsRun(p, task'[p]) => HoldsRun(p, task[p]) \/ ~s.Running
  /\ s.LoadRequested /\ ~s'.LoadRequested => HoldsLoad(p, task[p])
  /\ HoldsLoad(p, task'[p]) => HoldsLoad(p, task[p]) \/ ~s.LoadRequested
  /\ s'.Gate = s.Gate \/ s.Gate \in {None, p}
  /\ s'.MountGate = s.MountGate \/ s.MountGate \in {None, p}

CountStep(p) ==
  /\ s'.SessionActive => task'[p].bulk \/ (s.SessionActive /\ ~task[p].bulk)
  /\ ~meddled' => /\ ~meddled
                  /\ s'.SleepInhibitCount + Flagged(s) + One(Inside(p, task[p]))
                     = s.SleepInhibitCount + Flagged(s') + One(Inside(p, task'[p]))
  /\ IF p = "keepalive" THEN Awake(task'[p], s')
     ELSE /\ s.SleepInhibited => s'.SleepInhibited
          /\ s'.ModeApplied /\ s'.AppliedEnabled => s.ModeApplied /\ s.AppliedEnabled

SessionStep(p) ==
  /\ Tenant(p, task'[p], s'.hw)
  /\ s'.hw # s.hw => /\ s'.hw = "backup" => p = "backup"
                     /\ s'.hw \in {"probe", "sd"} => p = "console"
  /\ ~intruded' =>
       /\ ~intruded
       /\ Keeps(p, task'[p], s'.hw)
       /\ task'[p].bulk /\ ~task[p].bulk => \A q \in Tasks \ {p} : ~Diagnoses(q, task[q])
       /\ Diagnoses(p, task'[p]) /\ ~Diagnoses(p, task[p]) => \A q \in Tasks \ {p} : ~task[q].bulk
       /\ s'.hw # s.hw => /\ p # "backup" => ~task["backup"].mine
                          /\ p # "console" => ~task["console"].mine

Apart(p) ==
  /\ unseen' = {} => unseen = {}
  /\ s'.on <=> s.on
  /\ s'.PCModeActive <=> s.PCModeActive
  /\ s'.AppliedEnabled <=> s.AppliedEnabled
  /\ s'.ModeApplied => s.ModeApplied
  /\ s'.Active => s.Active \/ Loading
  /\ Loads(p, task'[p]) => \/ Loads(p, task[p])
                           \/ ~s.PCModeActive /\ (~s.on \/ LoadsSoon(p, task[p]))
  /\ LoadsSoon(p, task'[p]) => LoadsSoon(p, task[p]) \/ ~s.on

ModeStep(p) ==
  /\ Settled(p, task'[p], s')
  /\ unseen' = {} => Mode(p, task'[p], s', Loading \/ Loads(p, task'[p]),
                          LoadingSoon \/ LoadsSoon(p, task'[p]))

CalmStep(p) == Apart(p) /\ ModeStep(p)

Obeys(p) == Only(p) /\ s' \in SharedType /\ LockStep(p) /\ CountStep(p) /\ SessionStep(p)

-----------------------------------------------------------------------------
(* The tasks. *)
LEMMA TasksAre ==
  /\ Tasks = {"menu", "console", "keepalive", "backup", "load", "save"}
  /\ None \notin Tasks
BY DEF Tasks, None

(* What a task may rely on follows from the invariant. *)
LEMMA OwnIs ==
  ASSUME IInv, NEW p \in Tasks
  PROVE  Own(p)
<1>0. s.hw \in {None, "pc", "sd", "probe", "backup"}
  BY DEF IInv, Sessions
<1>1. s \in SharedType /\ Local(p, task[p]) /\ Holds(p, task[p], s) /\ Settled(p, task[p], s)
  BY DEF IInv, TypeOK, Locks, Modal
<1>2. /\ p = "keepalive" => Awake(task[p], s)
      /\ Tenant(p, task[p], s.hw)
      /\ ~intruded => Keeps(p, task[p], s.hw)
  BY DEF IInv, Sessions
<1>3. ~meddled => s.SleepInhibitCount >= Flagged(s) + One(Inside(p, task[p]))
  <2>1. \A b : One(b) \in {0, 1}
    BY DEF One
  <2>2. Flagged(s) \in Nat
    BY <2>1 DEF Flagged
  <2>3. p \notin {"backup", "load"} => One(Inside(p, task[p])) = 0
    BY DEF One, Inside
  <2> QED BY <2>1, <2>2, <2>3 DEF IInv, Counted
<1>4. /\ Loading \in BOOLEAN /\ LoadingSoon \in BOOLEAN
      /\ Loads(p, task[p]) => Loading
      /\ LoadsSoon(p, task[p]) => LoadingSoon
      /\ p = "console" => (LoadingSoon => LoadsSoon(p, task[p]))
  BY DEF Loading, LoadingSoon, LoadsSoon
<1>5. Loading \/ LoadingSoon => s.LoadRequested
  <2>1. \A q \in Tasks : Loads(q, task[q]) \/ LoadsSoon(q, task[q]) => HoldsLoad(q, task[q])
    BY DEF Loads, LoadsSoon, HoldsLoad, UpTo
  <2>2. \A q \in Tasks : HoldsLoad(q, task[q]) => s.LoadRequested
    BY DEF IInv, Locks, Holds
  <2> QED BY <2>1, <2>2 DEF Loading, LoadingSoon
<1>6. unseen = {} => /\ Decided(s, Loading, LoadingSoon)
                     /\ Mode(p, task[p], s, Loading, LoadingSoon)
  BY DEF IInv, Modal
<1>7. Alone2(p)
  <2>1. "backup" \in Tasks /\ "console" \in Tasks
    BY TasksAre
  <2> DEFINE B == task["backup"]
             C == task["console"]
  <2>2. /\ B.mine \/ s.hw = "backup" => B.at = "copy"
        /\ B.at = "copy" => B.bulk /\ B.card /\ HoldsRun("backup", B) /\ s.MountGate = "backup"
    <3>1. Local("backup", B) /\ Tenant("backup", B, s.hw) /\ Holds("backup", B, s)
      BY <2>1 DEF IInv, Sessions, Locks
    <3> QED BY <3>1 DEF Local, Carries, Tenant, HoldsRun, Holds
  <2>3. C.mine => \/ C.at = "move" /\ HoldsRun("console", C)
                  \/ C.at = "down_send" /\ s.Gate = "console" /\ s.MountGate = "console"
    <3>1. Local("console", C) /\ Holds("console", C, s)
      BY <2>1 DEF IInv, Locks
    <3> QED BY <3>1 DEF Local, Carries, HoldsRun, HoldsGate, Holds, UpTo, Moving, Serving
  <2>4. ~intruded /\ s.hw = None => ~B.mine /\ ~C.mine
    <3>1. ~intruded => Keeps("backup", B, s.hw) /\ Keeps("console", C, s.hw)
      BY <2>1 DEF IInv, Sessions
    <3> QED BY <3>1 DEF Keeps, None
  <2>5. ~intruded /\ Diagnoses(p, task[p]) => ~B.mine
    <3>1. ~intruded /\ Diagnoses(p, task[p]) => \A q \in Tasks \ {p} : ~task[q].bulk
      BY DEF IInv, Sessions
    <3> QED BY <2>1, <2>2, <3>1 DEF Diagnoses
  <2>6. /\ HoldsRun(p, task[p]) => \A q \in Tasks \ {p} : ~HoldsRun(q, task[q])
        /\ task[p].card => s.MountGate = p
        /\ HoldsGate(p, task[p]) => s.Gate = p
    BY DEF IInv, Locks, Alone, Holds
  <2> QED BY <2>1, <2>2, <2>3, <2>4, <2>5, <2>6 DEF Alone2
<1> QED BY <1>0, <1>1, <1>2, <1>3, <1>4, <1>5, <1>6, <1>7 DEF Own, OwnLocks, OwnCounts, OwnSession, OwnMode

(* No task loses a lock to a task that obeys. *)
LEMMA LocksKept ==
  ASSUME IInv, NEW p \in Tasks, Obeys(p)
  PROVE  Locks' /\ \A q \in Tasks : Local(q, task[q])'
<1>1. /\ \A q \in Tasks \ {p} : task'[q] = task[q]
      /\ \A q \in Tasks : Local(q, task[q]) /\ Holds(q, task[q], s) /\ Alone(q, task[q])
      /\ LockStep(p)
  BY DEF Obeys, Only, IInv, Locks
<1>2. \A q \in Tasks : Local(q, task'[q])
  BY <1>1 DEF LockStep
<1>3. \A q \in Tasks : Holds(q, task'[q], s')
  <2>1. SUFFICES ASSUME NEW q \in Tasks \ {p}
                 PROVE  Holds(q, task[q], s')
    BY <1>1 DEF LockStep
  <2>2. /\ HoldsRun(q, task[q]) => s.Running /\ ~HoldsRun(p, task[p])
        /\ HoldsLoad(q, task[q]) => s.LoadRequested /\ ~HoldsLoad(p, task[p])
        /\ HoldsGate(q, task[q]) => s.Gate = q
        /\ task[q].card => s.MountGate = q
    BY <1>1 DEF Holds, Alone
  <2> QED BY <1>1, <2>2, TasksAre DEF LockStep, Holds
<1>4. \A q \in Tasks : \A r \in Tasks \ {q} :
         /\ HoldsRun(q, task'[q]) => ~HoldsRun(r, task'[r])
         /\ HoldsLoad(q, task'[q]) => ~HoldsLoad(r, task'[r])
  <2>1. \A q \in Tasks \ {p} : /\ HoldsRun(p, task'[p]) => ~HoldsRun(q, task[q])
                               /\ HoldsLoad(p, task'[p]) => ~HoldsLoad(q, task[q])
    BY <1>1 DEF LockStep, Alone, Holds
  <2> QED BY <1>1, <2>1 DEF Alone
<1> QED BY <1>2, <1>3, <1>4 DEF Locks, Alone, Holds, HoldsRun, HoldsLoad, HoldsGate, Local, Calls, Returns, Carries, Modes, Enables, Stops, UpTo

(* The sleep count still follows what it counts. *)
LEMMA CountsKept ==
  ASSUME IInv, NEW p \in Tasks, Obeys(p)
  PROVE  Ending' /\ Counted' /\ Awake(task["keepalive"], s)'
<1>1. /\ \A q \in Tasks \ {p} : task'[q] = task[q]
      /\ CountStep(p) /\ Ending /\ Counted /\ Awake(task["keepalive"], s)
      /\ s \in SharedType /\ s' \in SharedType
  BY DEF Obeys, Only, IInv, TypeOK
<1>2. Ending'
  BY <1>1 DEF CountStep, Ending
<1>3. Counted'
  <2>1. \A b : One(b) \in {0, 1}
    BY DEF One
  <2>2. /\ Flagged(s) \in Nat /\ Flagged(s') \in Nat
        /\ s.SleepInhibitCount \in Nat /\ s'.SleepInhibitCount \in Nat
    BY <1>1, <2>1 DEF Flagged, SharedType
  <2>3. "backup" \in Tasks /\ "load" \in Tasks
    BY TasksAre
  <2>4. CASE p = "backup"
    BY <1>1, <2>1, <2>2, <2>3, <2>4 DEF CountStep, Counted, Flagged, One, Inside
  <2>5. CASE p = "load"
    BY <1>1, <2>1, <2>2, <2>3, <2>5 DEF CountStep, Counted
  <2>6. CASE p \notin {"backup", "load"}
    <3>1. One(Inside(p, task[p])) = 0 /\ One(Inside(p, task'[p])) = 0
      BY <2>6 DEF One, Inside
    <3> QED BY <1>1, <2>1, <2>2, <2>3, <2>6, <3>1 DEF CountStep, Counted
  <2> QED BY <2>4, <2>5, <2>6
<1>4. Awake(task["keepalive"], s)'
  BY <1>1, TasksAre DEF CountStep, Awake
<1> QED BY <1>2, <1>3, <1>4

(* The session stays whose it was. *)
LEMMA SessionsKept ==
  ASSUME IInv, NEW p \in Tasks, Obeys(p)
  PROVE  Sessions'
<1>1. /\ \A q \in Tasks \ {p} : task'[q] = task[q]
      /\ SessionStep(p) /\ Sessions /\ s'.hw \in {None, "pc", "sd", "probe", "backup"}
  BY DEF Obeys, Only, IInv, SharedType
<1>2. \A q \in Tasks : Tenant(q, task'[q], s'.hw)
  BY <1>1 DEF SessionStep, Sessions, Tenant, None
<1>3. ASSUME ~intruded', NEW q \in Tasks
      PROVE  /\ Keeps(q, task'[q], s'.hw)
             /\ Diagnoses(q, task'[q]) => \A r \in Tasks \ {q} : ~task'[r].bulk
  <2>1. ~intruded
    BY <1>1, <1>3 DEF SessionStep
  <2>2. Keeps(q, task'[q], s'.hw)
    <3>1. CASE q = p
      BY <1>1, <1>3, <3>1 DEF SessionStep
    <3>2. CASE q # p
      BY <1>1, <1>3, <2>1, <3>2 DEF SessionStep, Sessions, Keeps
    <3> QED BY <3>1, <3>2
  <2>3. ASSUME Diagnoses(q, task'[q]), NEW r \in Tasks \ {q}
        PROVE  ~task'[r].bulk
    <3>1. CASE q = p
      BY <1>1, <1>3, <2>1, <2>3, <3>1 DEF SessionStep, Sessions
    <3>2. CASE q # p
      BY <1>1, <1>3, <2>1, <2>3, <3>2 DEF SessionStep, Sessions
    <3> QED BY <3>1, <3>2
  <2> QED BY <2>2, <2>3
<1> QED BY <1>1, <1>2, <1>3 DEF Sessions

(* Whether a load has begun, after a step of one task. *)
LEMMA LoadingIs ==
  ASSUME NEW p \in Tasks, \A q \in Tasks \ {p} : task'[q] = task[q]
  PROVE  /\ Loading' => Loading \/ Loads(p, task'[p])
         /\ LoadingSoon' => LoadingSoon \/ LoadsSoon(p, task'[p])
<1>1. Loading' <=> \E q \in Tasks : Loads(q, task'[q])
  BY DEF Loading, Loads
<1>2. LoadingSoon' <=> \E q \in Tasks : LoadsSoon(q, task'[q])
  BY DEF LoadingSoon, LoadsSoon
<1> QED BY <1>1, <1>2 DEF Loading, LoadingSoon

(* What the tasks found out of the mode still holds after a step that does  *)
(* not itself turn it on or off.                                            *)
LEMMA CalmKept ==
  ASSUME IInv, NEW p \in Tasks, Obeys(p), CalmStep(p)
  PROVE  Modal'
<1>1. /\ \A q \in Tasks \ {p} : task'[q] = task[q]
      /\ \A q \in Tasks : Local(q, task[q])
      /\ Modal /\ s \in SharedType /\ s' \in SharedType
  BY DEF Obeys, Only, IInv, TypeOK
<1>2. \A q \in Tasks : Settled(q, task'[q], s')
  BY <1>1 DEF CalmStep, Apart, ModeStep, Modal, Settled
<1>3. ASSUME unseen' = {}
      PROVE  /\ Decided(s', Loading', LoadingSoon')
             /\ \A q \in Tasks : Mode(q, task'[q], s', Loading', LoadingSoon')
  <2>1. PICK now : now = Loading'
    OBVIOUS
  <2>2. PICK soon : soon = LoadingSoon'
    OBVIOUS
  <2>3. /\ now \in BOOLEAN /\ soon \in BOOLEAN /\ Loading \in BOOLEAN /\ LoadingSoon \in BOOLEAN
        /\ now => Loading \/ Loads(p, task'[p])
        /\ soon => LoadingSoon \/ LoadsSoon(p, task'[p])
    BY <1>1, <2>1, <2>2, LoadingIs DEF Loading, LoadingSoon
  <2>4. /\ unseen = {}
        /\ Decided(s, Loading, LoadingSoon)
        /\ \A q \in Tasks : Mode(q, task[q], s, Loading, LoadingSoon)
    BY <1>1, <1>3 DEF CalmStep, Apart, ModeStep, Modal
  <2>5. /\ Loads(p, task[p]) => Loading
        /\ LoadsSoon(p, task[p]) => LoadingSoon /\ p = "console"
    BY DEF Loading, LoadingSoon, LoadsSoon
  <2>6. Decided(s', now, soon)
    BY <1>1, <2>3, <2>4, <2>5 DEF CalmStep, Apart, ModeStep, Decided, Safe, Quiet, SharedType
  <2>7. ASSUME NEW q \in Tasks PROVE Mode(q, task'[q], s', now, soon)
    <3>1. CASE q = p
      <4>1. Mode(p, task'[p], s', Loading \/ Loads(p, task'[p]), LoadingSoon \/ LoadsSoon(p, task'[p]))
        BY <1>3 DEF CalmStep, Apart, ModeStep
      <4> QED BY <2>3, <3>1, <4>1 DEF Mode, Safe, Quiet
    <3>2. CASE q # p
      <4>1. /\ task'[q] = task[q] /\ Mode(q, task[q], s, Loading, LoadingSoon)
            /\ Modes(task[q]) /\ task[q].arg => task[q].want
            /\ Enables(task[q]) => task[q].want
            /\ q = "console" => ~LoadsSoon(p, task[p]) 
        BY <1>1, <2>4, <2>5, <3>2 DEF Local, Carries
      <4>2. Mode(q, task[q], s', now, soon)
        BY <1>1, <2>3, <2>5, <4>1 DEF CalmStep, Apart, ModeStep, Mode, Safe, Quiet, SharedType
      <4> QED BY <4>1, <4>2
    <3> QED BY <3>1, <3>2
  <2> QED BY <2>1, <2>2, <2>6, <2>7
<1> QED BY <1>1, <1>2, <1>3 DEF Modal, Settled, Decided, Mode
(* The count follows what it counts. *)
Balanced(y) == ~meddled => y.SleepInhibitCount + Flagged(s) = s.SleepInhibitCount + Flagged(y)

(* CartBulk_End and SDCard_Unmount, as a job calls them. *)
Closes(p, y) == /\ y.SessionActive <=> (s.SessionActive /\ ~task[p].bulk)
                /\ y.Active = s.Active /\ y.SleepInhibited = s.SleepInhibited
                /\ SameModes(y, s) /\ Balanced(y)

(* The count does not depend on the locks. *)
LEMMA StillBalanced ==
  ASSUME NEW x, NEW y, SameCounts(y, x), Balanced(x)
  PROVE  Balanced(y)
BY DEF SameCounts, Balanced, Flagged

(* CartBulk_End. *)
LEMMA EndedIs ==
  ASSUME TypeOK, NEW p \in Tasks, Own(p), NEW x, x = Ended(s)
  PROVE  /\ x \in SharedType /\ ~x.SessionActive
         /\ x.Active = s.Active /\ x.SleepInhibited = s.SleepInhibited
         /\ SameModes(x, s) /\ Balanced(x) /\ x.hw = s.hw
         /\ Locked(x, s.Running, s.LoadRequested, s.Gate, s.MountGate)
<1>1. s \in SharedType /\ (~meddled => s.SleepInhibitCount >= Flagged(s))
  <2>1. One(Inside(p, task[p])) \in {0, 1} /\ Flagged(s) \in Int
    BY DEF One, Flagged
  <2>2. s \in SharedType /\ s.SleepInhibitCount \in Nat
    BY DEF TypeOK, SharedType
  <2> QED BY <2>1, <2>2 DEF Own, OwnCounts
<1>2. PICK c : c = [s EXCEPT !.SessionActive = FALSE]
  OBVIOUS
<1>3. /\ c \in SharedType /\ ~c.SessionActive /\ c.SleepInhibitCount = s.SleepInhibitCount
      /\ c.Active = s.Active /\ c.SleepInhibited = s.SleepInhibited /\ Alike(c, s)
      /\ c.MountGate = s.MountGate
  BY <1>1, <1>2 DEF SharedType, Alike, SameModes
<1>4. CASE s.SessionActive
  <2>1. PICK n : n = c.SleepInhibitCount
    OBVIOUS
  <2>2. /\ x \in SharedType /\ Alike(x, c)
        /\ x.SleepInhibitCount = (IF n > 0 THEN n - 1 ELSE 0)
        /\ x.MountGate = c.MountGate /\ x.Active = c.Active
        /\ x.SessionActive = c.SessionActive
        /\ x.SleepInhibited = c.SleepInhibited
    BY <1>2, <1>3, <1>4, <2>1, AllowIs DEF Ended
  <2>3. Balanced(x)
    <3>1. PICK a : a = One(s.Active)
      OBVIOUS
    <3>2. PICK b : b = One(s.SleepInhibited)
      OBVIOUS
    <3>3. /\ a \in {0, 1} /\ b \in {0, 1} /\ n \in Nat
          /\ Flagged(s) = a + b + 1 /\ Flagged(x) = a + b + 0
      BY <1>1, <1>3, <1>4, <2>1, <2>2, <3>1, <3>2 DEF One, Flagged, SharedType
    <3> QED BY <1>1, <1>3, <2>1, <2>2, <3>3 DEF Balanced
  <2> QED BY <1>3, <2>2, <2>3 DEF Alike, SameModes, Locked
<1>5. CASE ~s.SessionActive
  <2>1. x = s
    BY <1>5 DEF Ended
  <2> QED BY <1>1, <1>5, <2>1 DEF SameModes, Locked, Balanced, SharedType
<1> QED BY <1>1, <1>4, <1>5 DEF SharedType

(* What a job gives back is what it has. *)
LEMMA ClosesIs ==
  ASSUME TypeOK, NEW p \in Tasks, Own(p)
  PROVE  /\ Closed(p) \in SharedType /\ Closes(p, Closed(p)) /\ Closed(p).hw = s.hw
         /\ Locked(Closed(p), s.Running, s.LoadRequested, s.Gate, s.MountGate)
         /\ Released(p) \in SharedType /\ Closes(p, Released(p)) /\ Released(p).hw = s.hw
         /\ Locked(Released(p), s.Running, s.LoadRequested, s.Gate,
                   IF task[p].card THEN None ELSE s.MountGate)
<1>1. PICK c : c = Closed(p)
  OBVIOUS
<1>2. /\ c \in SharedType /\ Closes(p, c) /\ c.hw = s.hw
      /\ Locked(c, s.Running, s.LoadRequested, s.Gate, s.MountGate)
  <2>0. s \in SharedType /\ task[p].bulk \in BOOLEAN
    BY RecordIs DEF TypeOK, TaskType
  <2>1. CASE task[p].bulk
    BY <1>1, <2>0, <2>1, EndedIs DEF Closed, Closes, SharedType
  <2>2. CASE ~task[p].bulk
    <3>1. c = s
      BY <1>1, <2>2 DEF Closed
    <3> QED BY <2>0, <2>2, <3>1 DEF Closes, SharedType, SameModes, Locked, Balanced
  <2> QED BY <2>0, <2>1, <2>2
<1>3. PICK y : y = [c EXCEPT !.MountGate = None]
  OBVIOUS
<1>4. /\ y \in SharedType /\ Closes(p, y) /\ y.hw = s.hw
      /\ Locked(y, s.Running, s.LoadRequested, s.Gate, None)
  BY <1>2, <1>3, MountGateSet DEF Closes, SameModes, SameCounts, Locked, Balanced, Flagged
<1>5. Released(p) = IF task[p].card THEN y ELSE c
  BY <1>1, <1>3 DEF Released
<1> QED BY <1>1, <1>2, <1>4, <1>5

(* CartBackup_SetPCMode and the transfers of PC mode end a session thus. *)
LEMMA RunEndedIs ==
  ASSUME TypeOK, NEW p \in Tasks, Own(p), NEW y, y = [Closed(p) EXCEPT !.Running = FALSE]
  PROVE  /\ y \in SharedType /\ Closes(p, y) /\ y.hw = s.hw
         /\ Locked(y, FALSE, s.LoadRequested, s.Gate, s.MountGate)
<1>1. PICK c : c = Closed(p)
  OBVIOUS
<1>2. /\ c \in SharedType /\ Closes(p, c) /\ c.hw = s.hw
      /\ Locked(c, s.Running, s.LoadRequested, s.Gate,
                s.MountGate)
  BY <1>1, ClosesIs
<1>3. /\ y \in SharedType /\ SameCounts(y, c) /\ SameModes(y, c) /\ y.hw = c.hw
      /\ Locked(y, FALSE, c.LoadRequested, c.Gate, c.MountGate)
  BY <1>1, <1>2, RunningSet
<1>4. Balanced(y)
  BY <1>2, <1>3, StillBalanced DEF Closes
<1> QED BY <1>2, <1>3, <1>4 DEF Closes, SameModes, SameCounts, Locked

(* VirtualCart_Stop and the save task end thus. *)
LEMMA UseEndedIs ==
  ASSUME TypeOK, NEW p \in Tasks, Own(p), NEW y, y = [Released(p) EXCEPT !.VRunning = FALSE]
  PROVE  /\ y \in SharedType /\ Closes(p, y) /\ y.hw = s.hw
         /\ Locked(y, s.Running, s.LoadRequested, s.Gate,
                   IF task[p].card THEN None ELSE s.MountGate)
<1>1. PICK c : c = Released(p)
  OBVIOUS
<1>2. /\ c \in SharedType /\ Closes(p, c) /\ c.hw = s.hw
      /\ Locked(c, s.Running, s.LoadRequested, s.Gate,
                IF task[p].card THEN None ELSE s.MountGate)
  BY <1>1, ClosesIs
<1>3. /\ y \in SharedType /\ SameCounts(y, c) /\ SameModes(y, c) /\ y.hw = c.hw
      /\ Locked(y, c.Running, c.LoadRequested, c.Gate, c.MountGate)
  BY <1>1, <1>2, VRunningSet
<1>4. Balanced(y)
  BY <1>2, <1>3, StillBalanced DEF Closes
<1> QED BY <1>2, <1>3, <1>4 DEF Closes, SameModes, SameCounts, Locked

(* A diagnostic command leaves the FPGA's session and ends the bus session. *)
LEMMA EndedNow ==
  ASSUME TypeOK, NEW p \in Tasks, Own(p), NEW y, y = Ended([s EXCEPT !.hw = None])
  PROVE  /\ y \in SharedType /\ ~y.SessionActive
         /\ y.Active = s.Active /\ y.SleepInhibited = s.SleepInhibited
         /\ SameModes(y, s) /\ Balanced(y) /\ y.hw = None
         /\ Locked(y, s.Running, s.LoadRequested, s.Gate, s.MountGate)
<1>1. PICK x : x = Ended(s)
  OBVIOUS
<1>2. /\ x \in SharedType /\ ~x.SessionActive
      /\ x.Active = s.Active /\ x.SleepInhibited = s.SleepInhibited
      /\ SameModes(x, s) /\ Balanced(x)
      /\ Locked(x, s.Running, s.LoadRequested, s.Gate, s.MountGate)
  BY <1>1, EndedIs
<1>3. y = [x EXCEPT !.hw = None]
  <2>1. s \in SharedType
    BY DEF TypeOK
  <2> QED BY <1>1, <2>1 DEF Ended, Allow, SharedType
<1>4. /\ y \in SharedType /\ SameCounts(y, x) /\ SameModes(y, x) /\ y.hw = None
      /\ Locked(y, x.Running, x.LoadRequested, x.Gate, x.MountGate)
  BY <1>2, <1>3, HwSet
<1>5. Balanced(y)
  BY <1>2, <1>4, StillBalanced
<1> QED BY <1>2, <1>4, <1>5 DEF SameCounts, SameModes, Locked

(* PC mode's command gives everything back. *)
LEMMA AllGivenIs ==
  ASSUME TypeOK, NEW p \in Tasks, Own(p), NEW y, NEW h \in {None, s.hw},
         y = [Released(p) EXCEPT !.hw = h, !.Gate = None]
  PROVE  /\ y \in SharedType /\ Closes(p, y) /\ y.hw = h
         /\ Locked(y, s.Running, s.LoadRequested, None,
                   IF task[p].card THEN None ELSE s.MountGate)
<1>1. PICK c : c = Released(p)
  OBVIOUS
<1>2. /\ c \in SharedType /\ Closes(p, c)
      /\ Locked(c, s.Running, s.LoadRequested, s.Gate,
                IF task[p].card THEN None ELSE s.MountGate)
  BY <1>1, ClosesIs
<1>3. PICK d : d = [c EXCEPT !.hw = h]
  OBVIOUS
<1>4. h \in {None, "pc", "sd", "probe", "backup"}
  BY DEF Own, OwnLocks
<1>5. /\ d \in SharedType /\ SameCounts(d, c) /\ SameModes(d, c) /\ d.hw = h
      /\ Locked(d, c.Running, c.LoadRequested, c.Gate, c.MountGate)
  BY <1>2, <1>3, <1>4, HwSet
<1>6. y = [d EXCEPT !.Gate = None]
  BY <1>1, <1>2, <1>3 DEF SharedType
<1>7. /\ y \in SharedType /\ SameCounts(y, d) /\ SameModes(y, d) /\ y.hw = d.hw
      /\ Locked(y, d.Running, d.LoadRequested, None, d.MountGate)
  BY <1>5, <1>6, GateSet
<1>8. Balanced(y)
  BY <1>2, <1>5, <1>7, StillBalanced DEF Closes
<1> QED BY <1>2, <1>5, <1>7, <1>8 DEF Closes, SameModes, SameCounts, Locked

(* The backup task allows the sleep that it forbade. *)
LEMMA BackupEndedIs ==
  ASSUME TypeOK, NEW p \in Tasks, Own(p), Inside(p, task[p]),
         NEW y, y = Allow([Released(p) EXCEPT !.Running = FALSE])
  PROVE  /\ y \in SharedType /\ y.hw = s.hw
         /\ y.SessionActive <=> (s.SessionActive /\ ~task[p].bulk)
         /\ y.Active = s.Active /\ y.SleepInhibited = s.SleepInhibited /\ SameModes(y, s)
         /\ ~meddled => y.SleepInhibitCount + Flagged(s) + 1 = s.SleepInhibitCount + Flagged(y)
         /\ Locked(y, FALSE, s.LoadRequested, s.Gate,
                   IF task[p].card THEN None ELSE s.MountGate)
<1>1. PICK c : c = Released(p)
  OBVIOUS
<1>2. /\ c \in SharedType /\ Closes(p, c) /\ c.hw = s.hw
      /\ Locked(c, s.Running, s.LoadRequested, s.Gate,
                IF task[p].card THEN None ELSE s.MountGate)
  BY <1>1, ClosesIs
<1>3. PICK d : d = [c EXCEPT !.Running = FALSE]
  OBVIOUS
<1>4. /\ d \in SharedType /\ SameCounts(d, c) /\ SameModes(d, c) /\ d.hw = c.hw
      /\ Locked(d, FALSE, c.LoadRequested, c.Gate, c.MountGate)
  BY <1>2, <1>3, RunningSet
<1>5. Balanced(d)
  BY <1>2, <1>4, StillBalanced DEF Closes
<1>6. /\ y \in SharedType /\ Alike(y, d)
      /\ y.SleepInhibitCount = IF d.SleepInhibitCount > 0 THEN d.SleepInhibitCount - 1 ELSE 0
      /\ y.MountGate = d.MountGate /\ y.Active = d.Active
      /\ y.SessionActive = d.SessionActive /\ y.SleepInhibited = d.SleepInhibited
  BY <1>1, <1>3, <1>4, AllowIs
<1>7. ASSUME ~meddled
      PROVE  y.SleepInhibitCount + Flagged(s) + 1 = s.SleepInhibitCount + Flagged(y)
  <2>1. Flagged(y) = Flagged(d)
    BY <1>6 DEF Flagged
  <2>2. Flagged(s) \in Nat /\ Flagged(d) \in Nat /\ One(Inside(p, task[p])) = 1
    BY DEF Flagged, One
  <2>3. s.SleepInhibitCount \in Nat /\ d.SleepInhibitCount \in Nat
    BY <1>4 DEF TypeOK, SharedType
  <2>4. /\ s.SleepInhibitCount >= Flagged(s) + 1
        /\ d.SleepInhibitCount + Flagged(s) = s.SleepInhibitCount + Flagged(d)
    BY <1>5, <1>7, <2>2 DEF Own, OwnCounts, Balanced
  <2>5. d.SleepInhibitCount > 0
    BY <2>2, <2>3, <2>4
  <2> QED BY <1>6, <2>1, <2>2, <2>3, <2>4, <2>5
<1> QED BY <1>2, <1>4, <1>6, <1>7 DEF Closes, SameModes, SameCounts, Locked, Alike

(* CartBulk_Begin keeps the MCU awake. *)
LEMMA BegunIs ==
  ASSUME TypeOK, NEW y, y = Inhibit([s EXCEPT !.SessionActive = TRUE])
  PROVE  /\ y \in SharedType /\ y.SessionActive /\ y.hw = s.hw
         /\ y.Active = s.Active /\ y.SleepInhibited = s.SleepInhibited /\ SameModes(y, s)
         /\ Locked(y, s.Running, s.LoadRequested, s.Gate, s.MountGate)
         /\ ~s.SessionActive => Balanced(y)
<1>1. s \in SharedType
  BY DEF TypeOK
<1>2. PICK c : c = [s EXCEPT !.SessionActive = TRUE]
  OBVIOUS
<1>3. /\ c \in SharedType /\ c.SessionActive /\ c.SleepInhibitCount = s.SleepInhibitCount
      /\ c.Active = s.Active /\ c.SleepInhibited = s.SleepInhibited /\ Alike(c, s)
      /\ c.MountGate = s.MountGate /\ s.SleepInhibitCount \in Nat
  BY <1>1, <1>2 DEF SharedType, Alike, SameModes
<1>4. /\ y \in SharedType /\ Alike(y, c)
      /\ y.SleepInhibitCount = c.SleepInhibitCount + 1
      /\ y.MountGate = c.MountGate /\ y.Active = c.Active
      /\ y.SessionActive = c.SessionActive /\ y.SleepInhibited = c.SleepInhibited
  BY <1>2, <1>3, InhibitIs
<1>5. ASSUME ~s.SessionActive PROVE Balanced(y)
  <2>1. /\ One(y.Active) = One(s.Active) /\ One(y.SleepInhibited) = One(s.SleepInhibited)
        /\ One(s.Active) \in {0, 1} /\ One(s.SleepInhibited) \in {0, 1}
        /\ One(s.SessionActive) = 0 /\ One(y.SessionActive) = 1
    BY <1>3, <1>4, <1>5 DEF One
  <2> QED BY <1>3, <1>4, <2>1 DEF Balanced, Flagged
<1> QED BY <1>3, <1>4, <1>5 DEF Alike, SameModes, Locked

(* PC mode keeps the MCU awake. *)
LEMMA AwakeIs ==
  ASSUME TypeOK, NEW y,
         y = IF s.SleepInhibited THEN s ELSE Inhibit([s EXCEPT !.SleepInhibited = TRUE])
  PROVE  /\ y \in SharedType /\ y.SleepInhibited /\ y.hw = s.hw
         /\ y.Active = s.Active /\ y.SessionActive = s.SessionActive /\ SameModes(y, s)
         /\ Locked(y, s.Running, s.LoadRequested, s.Gate, s.MountGate)
         /\ Balanced(y)
<1>1. s \in SharedType
  BY DEF TypeOK
<1>2. CASE s.SleepInhibited
  BY <1>1, <1>2 DEF SharedType, SameModes, Locked, Balanced
<1>3. CASE ~s.SleepInhibited
  <2>1. PICK c : c = [s EXCEPT !.SleepInhibited = TRUE]
    OBVIOUS
  <2>2. /\ c \in SharedType /\ c.SleepInhibited /\ c.SleepInhibitCount = s.SleepInhibitCount
        /\ c.Active = s.Active /\ c.SessionActive = s.SessionActive /\ Alike(c, s)
        /\ c.MountGate = s.MountGate /\ s.SleepInhibitCount \in Nat
    BY <1>1, <2>1 DEF SharedType, Alike, SameModes
  <2>3. /\ y \in SharedType /\ Alike(y, c)
        /\ y.SleepInhibitCount = c.SleepInhibitCount + 1
        /\ y.MountGate = c.MountGate /\ y.Active = c.Active
        /\ y.SessionActive = c.SessionActive /\ y.SleepInhibited = c.SleepInhibited
    BY <1>3, <2>1, <2>2, InhibitIs
  <2>4. Balanced(y)
    <3>1. /\ One(y.Active) = One(s.Active) /\ One(y.SessionActive) = One(s.SessionActive)
          /\ One(s.Active) \in {0, 1} /\ One(s.SessionActive) \in {0, 1}
          /\ One(s.SleepInhibited) = 0 /\ One(y.SleepInhibited) = 1
      BY <1>3, <2>2, <2>3 DEF One
    <3> QED BY <2>2, <2>3, <3>1 DEF Balanced, Flagged
  <2> QED BY <2>2, <2>3, <2>4 DEF Alike, SameModes, Locked
<1> QED BY <1>2, <1>3

(* A game is stopped, and one plays. *)
LEMMA PlaysIs ==
  ASSUME TypeOK, NEW p \in Tasks, Own(p), NEW v \in BOOLEAN, NEW y, y = SetActive(s, v)
  PROVE  /\ y \in SharedType /\ (y.Active <=> v) /\ y.hw = s.hw
         /\ y.SessionActive = s.SessionActive /\ y.SleepInhibited = s.SleepInhibited
         /\ SameModes(y, s)
         /\ Locked(y, s.Running, s.LoadRequested, s.Gate, s.MountGate)
         /\ Balanced(y)
<1>1. s \in SharedType /\ s.SleepInhibitCount \in Nat
  BY DEF TypeOK, SharedType
<1>2. CASE v
  <2>1. /\ y \in SharedType /\ Alike(y, s) /\ y.Active
        /\ y.SleepInhibitCount = IF s.Active THEN s.SleepInhibitCount
                                 ELSE s.SleepInhibitCount + 1
        /\ y.MountGate = s.MountGate
        /\ y.SessionActive = s.SessionActive /\ y.SleepInhibited = s.SleepInhibited
    <3>1. y = SetActive(s, TRUE)
      BY <1>2
    <3> QED BY <1>1, <3>1, ActivateIs, Zenon
  <2>2. Balanced(y)
    BY <1>1, <2>1 DEF Balanced, Flagged, One
  <2> QED BY <1>2, <2>1, <2>2 DEF Alike, SameModes, Locked
<1>3. CASE ~v
  <2>1. /\ y \in SharedType /\ Alike(y, s) /\ ~y.Active
        /\ y.SleepInhibitCount = IF ~s.Active THEN s.SleepInhibitCount
                                 ELSE IF s.SleepInhibitCount > 0
                                      THEN s.SleepInhibitCount - 1 ELSE 0
        /\ y.MountGate = s.MountGate
        /\ y.SessionActive = s.SessionActive /\ y.SleepInhibited = s.SleepInhibited
    <3>1. y = SetActive(s, FALSE)
      BY <1>3
    <3> QED BY <1>1, <3>1, DeactivateIs, Zenon
  <2>2. ASSUME ~meddled, s.Active PROVE s.SleepInhibitCount > 0
    <3>1. /\ One(Inside(p, task[p])) \in {0, 1} /\ One(s.SleepInhibited) \in {0, 1}
          /\ One(s.SessionActive) \in {0, 1} /\ One(s.Active) = 1
      BY <2>2 DEF One
    <3>2. Flagged(s) \in Nat /\ Flagged(s) >= 1
      BY <3>1 DEF Flagged
    <3>3. s.SleepInhibitCount >= Flagged(s) + One(Inside(p, task[p]))
      BY <2>2 DEF Own, OwnCounts
    <3> QED BY <1>1, <3>1, <3>2, <3>3
  <2>3. Balanced(y)
    <3>1. /\ One(s.Active) = IF s.Active THEN 1 ELSE 0
          /\ One(y.Active) = 0 /\ One(y.SleepInhibited) = One(s.SleepInhibited)
          /\ One(y.SessionActive) = One(s.SessionActive)
          /\ One(s.SleepInhibited) \in {0, 1} /\ One(s.SessionActive) \in {0, 1}
      BY <2>1 DEF One
    <3> QED BY <1>1, <2>1, <2>2, <3>1 DEF Balanced, Flagged
  <2> QED BY <1>3, <2>1, <2>3 DEF Alike, SameModes, Locked
<1> QED BY <1>2, <1>3

(* A backup begins, and a load. *)
LEMMA InsideIs ==
  ASSUME TypeOK, NEW v \in BOOLEAN, NEW y, y = Inhibit([s EXCEPT !.VRunning = v])
  PROVE  /\ y \in SharedType /\ y.hw = s.hw /\ y.Active = s.Active
         /\ y.SessionActive = s.SessionActive /\ y.SleepInhibited = s.SleepInhibited
         /\ SameModes(y, s)
         /\ Locked(y, s.Running, s.LoadRequested, s.Gate, s.MountGate)
         /\ y.SleepInhibitCount = s.SleepInhibitCount + 1
<1>1. s \in SharedType
  BY DEF TypeOK
<1>2. PICK c : c = [s EXCEPT !.VRunning = v]
  OBVIOUS
<1>3. /\ c \in SharedType /\ SameCounts(c, s) /\ SameModes(c, s)
      /\ c.hw = s.hw /\ Locked(c, s.Running, s.LoadRequested, s.Gate, s.MountGate)
  BY <1>1, <1>2, VRunningSet
<1>4. /\ y \in SharedType /\ Alike(y, c)
      /\ y.SleepInhibitCount = c.SleepInhibitCount + 1
      /\ y.MountGate = c.MountGate /\ y.Active = c.Active
      /\ y.SessionActive = c.SessionActive /\ y.SleepInhibited = c.SleepInhibited
  BY <1>2, <1>3, InhibitIs
<1> QED BY <1>3, <1>4 DEF Alike, SameModes, SameCounts, Locked

(* A backup forbids the sleep. *)
LEMMA BackupBegunIs ==
  ASSUME TypeOK, NEW y, y = Inhibit(s)
  PROVE  /\ y \in SharedType /\ y.hw = s.hw /\ y.Active = s.Active
         /\ y.SessionActive = s.SessionActive /\ y.SleepInhibited = s.SleepInhibited
         /\ SameModes(y, s)
         /\ Locked(y, s.Running, s.LoadRequested, s.Gate, s.MountGate)
         /\ y.SleepInhibitCount = s.SleepInhibitCount + 1
<1>1. s \in SharedType
  BY DEF TypeOK
<1> QED BY <1>1, InhibitIs DEF Alike, SameModes, Locked

(* The load task allows the sleep that it forbade, and a game that did not *)
(* boot does not play.                                                     *)
LEMMA LoadEndedIs ==
  ASSUME TypeOK, NEW p \in Tasks, Own(p), Inside(p, task[p]), NEW y,
         y = Allow([IF task[p].mine THEN SetActive(s, FALSE) ELSE s EXCEPT
                      !.VRunning = FALSE, !.LoadRequested = FALSE])
  PROVE  /\ y \in SharedType /\ y.hw = s.hw /\ (y.Active => s.Active)
         /\ y.SessionActive = s.SessionActive /\ y.SleepInhibited = s.SleepInhibited
         /\ SameModes(y, s)
         /\ Locked(y, s.Running, FALSE, s.Gate, s.MountGate)
         /\ ~meddled => y.SleepInhibitCount + Flagged(s) + 1 = s.SleepInhibitCount + Flagged(y)
<1>1. s \in SharedType /\ s.SleepInhibitCount \in Nat /\ task[p].mine \in BOOLEAN
  BY RecordIs DEF TypeOK, SharedType, TaskType
<1>2. PICK c : c = IF task[p].mine THEN SetActive(s, FALSE) ELSE s
  OBVIOUS
<1>3. /\ c \in SharedType /\ (c.Active => s.Active) /\ c.hw = s.hw
      /\ c.SessionActive = s.SessionActive /\ c.SleepInhibited = s.SleepInhibited
      /\ SameModes(c, s)
      /\ Locked(c, s.Running, s.LoadRequested, s.Gate, s.MountGate)
      /\ Balanced(c)
  <2>1. CASE task[p].mine
    BY <1>2, <2>1, PlaysIs
  <2>2. CASE ~task[p].mine
    BY <1>1, <1>2, <2>2 DEF SharedType, SameModes, Locked, Balanced
  <2> QED BY <1>1, <2>1, <2>2
<1>4. PICK e : e = [c EXCEPT !.VRunning = FALSE]
  OBVIOUS
<1>5. /\ e \in SharedType /\ SameCounts(e, c) /\ SameModes(e, c) /\ e.hw = c.hw
      /\ Locked(e, c.Running, c.LoadRequested, c.Gate, c.MountGate)
  BY <1>3, <1>4, VRunningSet
<1>6. PICK d : d = [e EXCEPT !.LoadRequested = FALSE]
  OBVIOUS
<1>7. /\ d \in SharedType /\ SameCounts(d, e) /\ SameModes(d, e) /\ d.hw = e.hw
      /\ Locked(d, e.Running, FALSE, e.Gate, e.MountGate)
  BY <1>5, <1>6, LoadSet
<1>8. Balanced(d)
  BY <1>3, <1>5, <1>7, StillBalanced
<1>9. y = Allow(d)
  BY <1>2, <1>3, <1>4, <1>6 DEF SharedType
<1>10. /\ y \in SharedType /\ Alike(y, d)
       /\ y.SleepInhibitCount = IF d.SleepInhibitCount > 0 THEN d.SleepInhibitCount - 1 ELSE 0
       /\ y.MountGate = d.MountGate /\ y.Active = d.Active
       /\ y.SessionActive = d.SessionActive /\ y.SleepInhibited = d.SleepInhibited
  BY <1>7, <1>9, AllowIs
<1>11. ASSUME ~meddled
       PROVE  y.SleepInhibitCount + Flagged(s) + 1 = s.SleepInhibitCount + Flagged(y)
  <2>1. Flagged(y) = Flagged(d)
    BY <1>10 DEF Flagged
  <2>2. Flagged(s) \in Nat /\ Flagged(d) \in Nat /\ One(Inside(p, task[p])) = 1
    BY DEF Flagged, One
  <2>3. s.SleepInhibitCount \in Nat /\ d.SleepInhibitCount \in Nat
    BY <1>1, <1>7 DEF SharedType
  <2>4. /\ s.SleepInhibitCount >= Flagged(s) + 1
        /\ d.SleepInhibitCount + Flagged(s) = s.SleepInhibitCount + Flagged(d)
    BY <1>8, <1>11, <2>2 DEF Own, OwnCounts, Balanced
  <2>5. d.SleepInhibitCount > 0
    BY <2>2, <2>3, <2>4
  <2> QED BY <1>10, <2>1, <2>2, <2>3, <2>4, <2>5
<1> QED BY <1>3, <1>5, <1>7, <1>10, <1>11 DEF SameModes, SameCounts, Locked, Alike

(* A job of the virtual cartridge claims it when nobody has. *)
LEMMA ClaimedIs ==
  ASSUME TypeOK, NEW y, y = Claimed
  PROVE  /\ y \in SharedType /\ SameCounts(y, s) /\ SameModes(y, s)
         /\ y.hw = s.hw /\ Locked(y, s.Running, s.LoadRequested, s.Gate, s.MountGate)
<1>1. s \in SharedType /\ (s.VRunning \/ ~Busy) \in BOOLEAN
  BY DEF TypeOK, SharedType
<1>2. PICK v \in BOOLEAN : v = (s.VRunning \/ ~Busy)
  BY <1>1
<1> QED BY <1>1, <1>2, VRunningSet DEF Claimed

(* g_cartBackup.PCModeActive. *)
LEMMA ModeSetIs ==
  ASSUME TypeOK, NEW p \in Tasks, NEW y, y = [s EXCEPT !.PCModeActive = task[p].arg]
  PROVE  /\ y \in SharedType /\ SameCounts(y, s) /\ y.hw = s.hw /\ y.on = s.on
         /\ y.ModeApplied = s.ModeApplied /\ y.AppliedEnabled = s.AppliedEnabled
         /\ Locked(y, s.Running, s.LoadRequested, s.Gate, s.MountGate)
         /\ y.PCModeActive = task[p].arg
<1>1. s \in SharedType /\ task[p].arg \in BOOLEAN
  BY RecordIs DEF TypeOK, TaskType
<1> QED BY <1>1 DEF SharedType, SameCounts, Locked

(* ApplyModeLocked notes the result, and lets the MCU sleep again. *)
LEMMA AppliedIs ==
  ASSUME TypeOK, NEW p \in Tasks, Own(p), NEW y,
         y = Rested([s EXCEPT !.ModeApplied = task[p].ok, !.AppliedEnabled = task[p].arg], p)
  PROVE  /\ y \in SharedType /\ y.hw = s.hw /\ y.on = s.on
         /\ y.Active = s.Active /\ y.SessionActive = s.SessionActive
         /\ y.PCModeActive = s.PCModeActive
         /\ y.ModeApplied = task[p].ok /\ y.AppliedEnabled = task[p].arg
         /\ (y.SleepInhibited <=> s.SleepInhibited /\ (task[p].arg \/ ~task[p].ok))
         /\ Locked(y, s.Running, s.LoadRequested, s.Gate, s.MountGate) /\ Balanced(y)
<1>1. s \in SharedType /\ task[p].arg \in BOOLEAN /\ task[p].ok \in BOOLEAN
  BY RecordIs DEF TypeOK, TaskType
<1>2. PICK x : x = [s EXCEPT !.ModeApplied = task[p].ok, !.AppliedEnabled = task[p].arg]
  OBVIOUS
<1>3. /\ x \in SharedType /\ SameCounts(x, s) /\ x.hw = s.hw /\ x.on = s.on
      /\ x.ModeApplied = task[p].ok /\ x.AppliedEnabled = task[p].arg
      /\ Locked(x, s.Running, s.LoadRequested, s.Gate, s.MountGate)
      /\ x.PCModeActive = s.PCModeActive
  BY <1>1, <1>2 DEF SharedType, SameCounts, Locked
<1>4. CASE ~task[p].arg /\ task[p].ok /\ x.SleepInhibited
  <2>1. PICK c : c = [x EXCEPT !.SleepInhibited = FALSE]
    OBVIOUS
  <2>2. /\ c \in SharedType /\ ~c.SleepInhibited /\ c.SleepInhibitCount = x.SleepInhibitCount
        /\ c.Active = x.Active /\ c.SessionActive = x.SessionActive /\ Alike(c, x)
        /\ c.MountGate = x.MountGate
    BY <1>3, <2>1 DEF SharedType, Alike, SameModes
  <2>3. y = Allow(c)
    BY <1>2, <1>4, <2>1 DEF Rested
  <2>4. PICK n : n = c.SleepInhibitCount
    OBVIOUS
  <2>5. /\ y \in SharedType /\ Alike(y, c)
        /\ y.SleepInhibitCount = (IF n > 0 THEN n - 1 ELSE 0)
        /\ y.MountGate = c.MountGate /\ y.Active = c.Active
        /\ y.SessionActive = c.SessionActive /\ y.SleepInhibited = c.SleepInhibited
    BY <2>2, <2>3, <2>4, AllowIs
  <2>6. Balanced(y)
    <3>1. PICK a : a = One(s.Active)
      OBVIOUS
    <3>2. PICK b : b = One(s.SessionActive)
      OBVIOUS
    <3>3. PICK i : i = One(Inside(p, task[p]))
      OBVIOUS
    <3>4. /\ a \in {0, 1} /\ b \in {0, 1} /\ n \in Nat /\ i \in {0, 1}
          /\ Flagged(s) = a + 1 + b /\ Flagged(y) = a + 0 + b
          /\ n = s.SleepInhibitCount
      BY <1>1, <1>3, <1>4, <2>2, <2>4, <2>5, <3>1, <3>2, <3>3 DEF One, Flagged, SharedType, SameCounts
    <3>5. ~meddled => n >= a + 1 + b + i
      BY <3>3, <3>4 DEF Own, OwnLocks, OwnCounts
    <3> QED BY <2>5, <3>4, <3>5 DEF Balanced
  <2>7. y.SleepInhibited <=> s.SleepInhibited /\ (task[p].arg \/ ~task[p].ok)
    BY <1>4, <2>2, <2>5
  <2> QED BY <1>1, <1>3, <1>4, <2>2, <2>5, <2>6, <2>7, Zenon DEF Alike, SameModes, SameCounts, Locked
<1>5. CASE ~(~task[p].arg /\ task[p].ok /\ x.SleepInhibited)
  <2>1. y = x
    BY <1>2, <1>5 DEF Rested
  <2>2. Balanced(s)
    BY DEF Balanced
  <2>3. Balanced(y)
    BY <1>3, <2>1, <2>2, StillBalanced
  <2>4. y.SleepInhibited = s.SleepInhibited /\ y.SleepInhibited \in BOOLEAN
    BY <1>3, <2>1 DEF SameCounts, SharedType
  <2>5. (y.SleepInhibited <=> s.SleepInhibited /\ (task[p].arg \/ ~task[p].ok))
    BY <1>1, <1>5, <2>1, <2>4
  <2> QED BY <1>3, <2>1, <2>3, <2>5 DEF SameCounts
<1> QED BY <1>4, <1>5

-----------------------------------------------------------------------------
(* The steps of the actions.  Each is said in the terms above (Takes, and  *)
(* what becomes of the record), from which what it must keep to follows.   *)
Takes(p, k, y) == Only(p) /\ task[p].at = k /\ s' = y /\ y \in SharedType

(* A step takes the record and what is shared to these. *)
LEMMA TakesIs ==
  ASSUME TypeOK, NEW p \in Tasks, NEW k, NEW t \in TaskType, NEW y \in SharedType,
         Step(p, k, t, y)
  PROVE  Takes(p, k, y) /\ task'[p] = t
BY StepIs DEF Takes

(* SDCard_Mount. *)
LEMMA MountIs ==
  ASSUME TypeOK, NEW p \in Tasks, NEW k, NEW good \in TaskType, NEW bad \in TaskType,
         Mount(p, k, good, bad)
  PROVE  \/ /\ s.MountGate = None /\ Takes(p, k, s') /\ SameCounts(s', s) /\ SameModes(s', s)
            /\ s'.hw = s.hw /\ Locked(s', s.Running, s.LoadRequested, s.Gate, p)
            /\ Noted(task'[p], good)
            /\ Has(task'[p], good.arg, good.want, good.bulk, TRUE, good.mine)
            /\ Plain
         \/ Takes(p, k, s) /\ task'[p] = bad /\ (Plain \/ Fault)
<1>1. s \in SharedType
  BY DEF TypeOK
<1>2. CASE /\ s.MountGate = None
           /\ Step(p, k, [good EXCEPT !.card = TRUE], [s EXCEPT !.MountGate = p])
           /\ Plain
  <2>1. PICK y : y = [s EXCEPT !.MountGate = p]
    OBVIOUS
  <2>2. /\ y \in SharedType /\ SameCounts(y, s) /\ SameModes(y, s) /\ y.hw = s.hw
        /\ Locked(y, s.Running, s.LoadRequested, s.Gate, p)
    BY <1>1, <2>1, MountGateSet
  <2>3. PICK u : u = [good EXCEPT !.card = TRUE]
    OBVIOUS
  <2>4. Noted(u, good) /\ Has(u, good.arg, good.want, good.bulk, TRUE, good.mine)
    BY <2>3, CardIs
  <2>5. Takes(p, k, y) /\ task'[p] = u
    BY <1>2, <2>1, <2>2, <2>3, <2>4, TakesIs DEF Noted
  <2>6. s' = y
    BY <2>5 DEF Takes
  <2> QED BY <1>2, <2>2, <2>4, <2>5, <2>6
<1>3. CASE Step(p, k, bad, s) /\ (Plain \/ Fault)
  BY <1>1, <1>3, TakesIs
<1> QED BY <1>2, <1>3 DEF Mount

USE DEF Procedures, None, Local, Calls, Returns, Carries, Modes, Enables, Stops, UpTo, Moving,
        Serving, WithBulk

(* CartBulk_Begin tests the flag. *)
LEMMA BeginObeys ==
  ASSUME TypeOK, NEW p \in Tasks, Own(p), Begin(p)
  PROVE  Obeys(p) /\ CalmStep(p)
<1>0. OwnLocks(p) /\ OwnCounts(p) /\ OwnSession(p) /\ OwnMode(p)
  BY DEF Own
<1>1. s \in SharedType /\ s.hw \in {None, "pc", "sd", "probe", "backup"}
      /\ {"begun"} \subseteq Labels
  BY DEF TypeOK, SharedType, Labels
<1>2. CASE s.SessionActive /\ Step(p, "begin", Back(p, "begin", FALSE), s) /\ Plain
  <2>1. Takes(p, "begin", s) /\ CameBack(task'[p], task[p], "begin") /\ Same(task'[p], task[p]) /\ (task'[p].ok <=> FALSE)
    BY <1>2, <1>1, RecordIs, BackIs, TakesIs DEF Procedures
  <2>2. Calls(task'[p]) /\ Returns(p, task'[p])
    BY <1>0, <1>2, <2>1 DEF OwnLocks, Takes, CameBack, Same, Has, Plain
  <2>3. Carries(p, task'[p])
    BY <1>0, <1>2, <2>1 DEF OwnLocks, Takes, CameBack, Same, Has, Plain
  <2>4. /\ HoldsRun(p, task'[p]) => HoldsRun(p, task[p])
        /\ HoldsLoad(p, task'[p]) => HoldsLoad(p, task[p])
        /\ HoldsGate(p, task'[p]) => HoldsGate(p, task[p])
    BY <1>0, <1>2, <2>1 DEF OwnLocks, Holds, HoldsRun, HoldsLoad, HoldsGate, Takes, CameBack,
           Same, Has, Plain
  <2>5. Holds(p, task'[p], s')
    BY <1>0, <1>2, <2>1 DEF OwnLocks, Holds, HoldsRun, HoldsLoad, HoldsGate, Takes, CameBack,
           Same, Has, Plain
  <2>6. One(Inside(p, task'[p])) = One(Inside(p, task[p]))
    BY <1>0, <1>2, <2>1 DEF OwnLocks, Inside, One, Takes, CameBack, Same, Has, Plain
  <2>7. p = "keepalive" => Awake(task'[p], s')
    BY <1>0, <1>2, <2>1 DEF OwnLocks, OwnCounts, Awake, Takes, CameBack, Same, Has, Plain
  <2>8. LockStep(p)
    <3> QED BY <1>0, <1>2, <2>1, <2>2, <2>3, <2>4, <2>5, <2>6, <2>7 DEF LockStep, OwnLocks,
                   Settled, Takes, CameBack, Same, Has, Plain
  <2>9. CountStep(p)
    <3> QED BY <1>0, <1>2, <2>1, <2>2, <2>3, <2>4, <2>5, <2>6, <2>7 DEF CountStep, OwnLocks,
                   OwnCounts, Settled, Takes, CameBack, Same, Has, Plain
  <2>10. SessionStep(p) /\ Apart(p)
    BY <1>0, <1>2, <2>1 DEF SessionStep, Apart, OwnLocks, OwnSession, Tenant, Keeps, Diagnoses,
           Alone2, HoldsRun, HoldsGate, OwnMode, Loads, LoadsSoon, Takes, CameBack, Same, Has,
           Plain
  <2>11. ModeStep(p)
    BY <1>0, <1>2, <2>1 DEF ModeStep, OwnLocks, OwnMode, Settled, Mode, Loads, LoadsSoon, Filing,
           Quiet, Safe, Decided, Takes, CameBack, Same, Has, Plain
  <2> QED BY <2>1, <2>8, <2>9, <2>10, <2>11 DEF Obeys, Takes, CalmStep
<1>3. CASE ~s.SessionActive /\ Step(p, "begin", Goto(p, "begun"), s) /\ Plain
  <2>1. Takes(p, "begin", s) /\ Went(task'[p], task[p], "begun") /\ Same(task'[p], task[p]) /\ (task'[p].ok <=> task[p].ok)
    BY <1>3, <1>1, RecordIs, GotoIs, TakesIs DEF Procedures
  <2>2. LockStep(p)
    BY <1>0, <1>3, <2>1 DEF LockStep, OwnLocks, Holds, HoldsRun, HoldsLoad, HoldsGate, Takes,
           Went, Same, Has, Plain
  <2>3. CountStep(p)
    BY <1>0, <1>3, <2>1 DEF CountStep, OwnLocks, OwnCounts, Flagged, Inside, Awake, Takes, Went,
           Same, Has, Plain
  <2>4. SessionStep(p) /\ Apart(p)
    BY <1>0, <1>3, <2>1 DEF SessionStep, Apart, OwnLocks, OwnSession, Tenant, Keeps, Diagnoses,
           Alone2, HoldsRun, HoldsGate, OwnMode, Loads, LoadsSoon, Takes, Went, Same, Has, Plain
  <2>5. ModeStep(p)
    BY <1>0, <1>3, <2>1 DEF ModeStep, OwnLocks, OwnMode, Settled, Mode, Loads, LoadsSoon, Filing,
           Quiet, Safe, Decided, Takes, Went, Same, Has, Plain
  <2> QED BY <2>1, <2>2, <2>3, <2>4, <2>5 DEF Obeys, Takes, CalmStep
<1> QED BY <1>2, <1>3 DEF Begin
(* CartBulk_Begin sets it. *)
LEMMA BegunObeys ==
  ASSUME TypeOK, NEW p \in Tasks, Own(p), Begun(p)
  PROVE  Obeys(p) /\ CalmStep(p)
<1>0. OwnLocks(p) /\ OwnCounts(p) /\ OwnSession(p) /\ OwnMode(p)
  BY DEF Own
<1>1. s \in SharedType /\ s.hw \in {None, "pc", "sd", "probe", "backup"}
      /\ {"begun"} \subseteq Labels
  BY DEF TypeOK, SharedType, Labels
<1>2. CASE Begun(p)
  <2>1. /\ unseen' = unseen /\ meddled' = (meddled \/ s.SessionActive)
        /\ intruded' = (intruded \/ (/\ \E q \in Tasks \ {p} : task[q].bulk
                                     /\ (Probing \/ task[p].ret["begin"] = "probe")))
    BY <1>2 DEF Begun
  <2>2. PICK y : y = Inhibit([s EXCEPT !.SessionActive = TRUE])
    OBVIOUS
  <2>3. y \in SharedType /\ y.SessionActive /\ y.hw = s.hw
        /\ y.Active = s.Active /\ y.SleepInhibited = s.SleepInhibited /\ SameModes(y, s)
        /\ Locked(y, s.Running, s.LoadRequested, s.Gate, s.MountGate)
        /\ (~s.SessionActive => Balanced(y))
    BY <1>1, <1>2, <2>1, <2>2, BegunIs
  <2>4. PICK t : t = Back(p, "begin", TRUE)
    OBVIOUS
  <2>5. t \in TaskType /\ CameBack(t, task[p], "begin") /\ Same(t, task[p]) /\ (t.ok <=> TRUE)
    BY <1>1, <2>4, RecordIs, BackIs DEF Procedures
  <2>6. PICK u : u = [t EXCEPT !.bulk = TRUE]
    OBVIOUS
  <2>7. Noted(u, t) /\ Has(u, t.arg, t.want, TRUE, t.card, t.mine)
    BY <1>1, <2>5, <2>6, BulkIs
  <2>8. Takes(p, "begun", y) /\ task'[p] = u
    BY <1>2, <1>1, <2>1, <2>2, <2>3, <2>4, <2>5, <2>6, <2>7, TakesIs DEF Noted, Begun
  <2>9. Calls(task'[p]) /\ Returns(p, task'[p])
    BY <1>0, <2>5, <2>7, <2>8 DEF OwnLocks, Takes, CameBack, Noted, Has, Same
  <2>10. Carries(p, task'[p])
    BY <1>0, <2>5, <2>7, <2>8 DEF OwnLocks, Takes, CameBack, Noted, Has, Same
  <2>11. /\ HoldsRun(p, task'[p]) => HoldsRun(p, task[p])
         /\ HoldsLoad(p, task'[p]) => HoldsLoad(p, task[p])
         /\ HoldsGate(p, task'[p]) => HoldsGate(p, task[p])
    BY <1>0, <2>5, <2>7, <2>8 DEF OwnLocks, Holds, HoldsRun, HoldsLoad, HoldsGate, Takes,
           CameBack, Noted, Has, Same
  <2>12. Holds(p, task'[p], s')
    BY <1>0, <2>3, <2>5, <2>7, <2>8 DEF OwnLocks, Holds, HoldsRun, HoldsLoad, HoldsGate, Takes,
           Locked, CameBack, Noted, Has, Same
  <2>13. One(Inside(p, task'[p])) = One(Inside(p, task[p]))
    BY <1>0, <2>5, <2>7, <2>8 DEF OwnLocks, Inside, One, Takes, CameBack, Noted, Has, Same
  <2>14. p = "keepalive" => Awake(task'[p], s')
    BY <1>0, <2>3, <2>5, <2>7, <2>8 DEF OwnLocks, OwnCounts, Awake, Takes, SameModes, CameBack,
           Noted, Has, Same
  <2>15. LockStep(p)
    <3>1. /\ s'.Running = s.Running /\ s'.LoadRequested = s.LoadRequested
          /\ s'.Gate = s.Gate /\ s'.MountGate = s.MountGate
      BY <2>3, <2>8 DEF Takes, Locked
    <3> QED BY <2>9, <2>10, <2>11, <2>12, <3>1 DEF LockStep
  <2>16. CountStep(p)
    <3>1. /\ s'.SessionActive /\ task'[p].bulk /\ s'.SleepInhibited = s.SleepInhibited
          /\ SameModes(s', s)
          /\ ~meddled' => ~meddled /\ Balanced(s')
      BY <2>1, <2>3, <2>7, <2>8 DEF Takes, Has
    <3> QED BY <2>13, <2>14, <3>1 DEF CountStep, SameModes, Balanced
  <2>17. SessionStep(p)
    <3>1. Tenant(p, task'[p], s'.hw) /\ s'.hw = s.hw
      BY <1>0, <2>3, <2>5, <2>7, <2>8 DEF OwnLocks, OwnSession, Tenant, Keeps, Diagnoses, Alone2,
             HoldsRun, HoldsGate, Takes, CameBack, Noted, Has, Same
    <3>2. ~intruded' => Keeps(p, task'[p], s'.hw)
      BY <1>0, <2>1, <2>3, <2>5, <2>7, <2>8 DEF OwnLocks, OwnSession, Tenant, Keeps, Diagnoses,
             Alone2, HoldsRun, HoldsGate, Takes, CameBack, Noted, Has, Same
    <3>3. ~intruded' => \A q \in Tasks \ {p} : ~Diagnoses(q, task[q])
      BY <2>1 DEF Probing, Diagnoses
    <3>4. ~intruded' /\ Diagnoses(p, task'[p]) => \A q \in Tasks \ {p} : ~task[q].bulk
      BY <1>0, <2>1, <2>5, <2>7, <2>8 DEF OwnLocks, OwnSession, Tenant, Keeps, Diagnoses, Alone2,
             HoldsRun, HoldsGate, Takes, CameBack, Noted
    <3> QED BY <2>1, <3>1, <3>2, <3>3, <3>4 DEF SessionStep
  <2>18. Apart(p)
    BY <1>0, <2>1, <2>3, <2>5, <2>7, <2>8 DEF Apart, OwnLocks, Loads, LoadsSoon, Takes, SameModes,
           CameBack, Noted, Has, Same
  <2>19. ModeStep(p)
    BY <1>0, <2>1, <2>3, <2>5, <2>7, <2>8 DEF ModeStep, OwnLocks, OwnMode, Settled, Mode, Loads,
           LoadsSoon, Filing, Quiet, Safe, Decided, Takes, SameModes, CameBack, Noted, Has, Same
  <2> QED BY <2>8, <2>15, <2>16, <2>17, <2>18, <2>19 DEF Obeys, Takes, CalmStep
<1> QED BY <1>2

(* PCBackup_IsEnabled() || CartBackup_IsPCModeActive() *)
LEMMA ModeOffObeys ==
  ASSUME TypeOK, NEW p \in Tasks, p \in {"menu", "console"}, Own(p), ModeOff(p)
  PROVE  Obeys(p) /\ CalmStep(p)
<1>0. OwnLocks(p) /\ OwnCounts(p) /\ OwnSession(p) /\ OwnMode(p)
  BY DEF Own
<1>1. s \in SharedType /\ s.hw \in {None, "pc", "sd", "probe", "backup"}
      /\ {"off_active"} \subseteq Labels
  BY DEF TypeOK, SharedType, Labels
<1>2. CASE s.on /\ Step(p, "off", Back(p, "off", FALSE), s) /\ Plain
  <2>1. PICK t : t = Back(p, "off", FALSE)
    OBVIOUS
  <2>2. t \in TaskType /\ CameBack(t, task[p], "off") /\ Same(t, task[p]) /\ (t.ok <=> FALSE)
    BY <1>1, <2>1, RecordIs, BackIs DEF Procedures
  <2>3. Takes(p, "off", s) /\ task'[p] = t
    BY <1>2, <1>1, <2>1, <2>2, TakesIs
  <2>4. LockStep(p)
    BY <1>0, <1>2, <2>2, <2>3 DEF LockStep, OwnLocks, Holds, HoldsRun, HoldsLoad, HoldsGate,
           Takes, CameBack, Same, Has, Plain
  <2>5. CountStep(p)
    BY <1>0, <1>2, <2>2, <2>3 DEF CountStep, OwnLocks, OwnCounts, Flagged, Inside, Awake, Takes,
           CameBack, Same, Has, Plain
  <2>6. SessionStep(p) /\ Apart(p)
    BY <1>0, <1>2, <2>2, <2>3 DEF SessionStep, Apart, OwnLocks, OwnSession, Tenant, Keeps,
           Diagnoses, Alone2, HoldsRun, HoldsGate, OwnMode, Loads, LoadsSoon, Takes, CameBack,
           Same, Has, Plain
  <2>7. ModeStep(p)
    BY <1>0, <1>2, <2>2, <2>3 DEF ModeStep, OwnLocks, OwnMode, Settled, Mode, Loads, LoadsSoon,
           Filing, Quiet, Safe, Decided, Takes, CameBack, Same, Has, Plain
  <2> QED BY <2>3, <2>4, <2>5, <2>6, <2>7 DEF Obeys, Takes, CalmStep
<1>3. CASE ~s.on /\ Step(p, "off", Goto(p, "off_active"), s) /\ Plain
  <2>1. Takes(p, "off", s) /\ Went(task'[p], task[p], "off_active") /\ Same(task'[p], task[p]) /\ (task'[p].ok <=> task[p].ok)
    BY <1>3, <1>1, RecordIs, GotoIs, TakesIs DEF Procedures
  <2>2. LockStep(p)
    BY <1>0, <1>3, <2>1 DEF LockStep, OwnLocks, Holds, HoldsRun, HoldsLoad, HoldsGate, Takes,
           Went, Same, Has, Plain
  <2>3. CountStep(p)
    BY <1>0, <1>3, <2>1 DEF CountStep, OwnLocks, OwnCounts, Flagged, Inside, Awake, Takes, Went,
           Same, Has, Plain
  <2>4. SessionStep(p) /\ Apart(p)
    BY <1>0, <1>3, <2>1 DEF SessionStep, Apart, OwnLocks, OwnSession, Tenant, Keeps, Diagnoses,
           Alone2, HoldsRun, HoldsGate, OwnMode, Loads, LoadsSoon, Takes, Went, Same, Has, Plain
  <2>5. ModeStep(p)
    BY <1>0, <1>3, <2>1 DEF ModeStep, OwnLocks, OwnMode, Settled, Mode, Loads, LoadsSoon, Filing,
           Quiet, Safe, Decided, Takes, Went, Same, Has, Plain
  <2> QED BY <2>1, <2>2, <2>3, <2>4, <2>5 DEF Obeys, Takes, CalmStep
<1>4. CASE Step(p, "off_active", Back(p, "off", ~s.PCModeActive), s) /\ Plain
  <2>1. s.PCModeActive \in BOOLEAN
    BY <1>1 DEF SharedType
  <2>2. Takes(p, "off_active", s) /\ CameBack(task'[p], task[p], "off") /\ Same(task'[p], task[p]) /\ (task'[p].ok <=> ~s.PCModeActive)
    BY <1>4, <1>1, <2>1, RecordIs, BackIs, TakesIs DEF Procedures
  <2>3. LockStep(p)
    BY <1>0, <1>4, <2>1, <2>2 DEF LockStep, OwnLocks, Holds, HoldsRun, HoldsLoad, HoldsGate,
           Takes, CameBack, Same, Has, Plain
  <2>4. CountStep(p)
    BY <1>0, <1>4, <2>1, <2>2 DEF CountStep, OwnLocks, OwnCounts, Flagged, Inside, Awake, Takes,
           CameBack, Same, Has, Plain
  <2>5. SessionStep(p)
    BY <1>0, <1>4, <2>1, <2>2 DEF SessionStep, OwnLocks, OwnSession, Tenant, Keeps, Diagnoses,
           Alone2, HoldsRun, HoldsGate, Takes, CameBack, Same, Has, Plain
  <2>6. Apart(p)
    BY <1>0, <1>4, <2>1, <2>2 DEF Apart, OwnLocks, OwnMode, Settled, Loads, LoadsSoon, Takes,
           CameBack, Same, Has, Plain
  <2>7. ModeStep(p)
    BY <1>0, <1>4, <2>1, <2>2 DEF ModeStep, OwnLocks, OwnMode, Settled, Mode, Loads, LoadsSoon,
           Filing, Quiet, Safe, Decided, Takes, CameBack, Same, Has, Plain
  <2> QED BY <2>2, <2>3, <2>4, <2>5, <2>6, <2>7 DEF Obeys, Takes, CalmStep
<1> QED BY <1>2, <1>3, <1>4 DEF ModeOff

(* CartBackup_SetPCMode, up to where it notes the mode and from there. *)
LEMMA SetPCModeObeys ==
  ASSUME TypeOK, NEW p \in Tasks, p \in {"console", "keepalive"}, Own(p), ModeRun(p) \/ ModePing(p) \/ ModeAct(p) \/ ModeEnd(p)
  PROVE  Obeys(p) /\ CalmStep(p)
<1>0. OwnLocks(p) /\ OwnCounts(p) /\ OwnSession(p) /\ OwnMode(p)
  BY DEF Own
<1>1. s \in SharedType /\ s.hw \in {None, "pc", "sd", "probe", "backup"}
      /\ {"begin", "mode_ping", "mode_act", "mode_set", "mode_end"} \subseteq Labels
  BY DEF TypeOK, SharedType, Labels
<1>2. CASE /\ s.Running
           /\ Step(p, "mode", [Back(p, "mode", FALSE) EXCEPT !.want = FALSE],
                   [s EXCEPT !.Running = TRUE])
           /\ Plain
  <2>1. PICK y : y = [s EXCEPT !.Running = TRUE]
    OBVIOUS
  <2>2. y \in SharedType /\ SameCounts(y, s) /\ SameModes(y, s) /\ y.hw = s.hw
        /\ Locked(y, TRUE, s.LoadRequested, s.Gate, s.MountGate)
    BY <1>1, <1>2, <2>1, RunningSet
  <2>3. PICK t : t = Back(p, "mode", FALSE)
    OBVIOUS
  <2>4. t \in TaskType /\ CameBack(t, task[p], "mode") /\ Same(t, task[p]) /\ (t.ok <=> FALSE)
    BY <1>1, <2>3, RecordIs, BackIs DEF Procedures
  <2>5. PICK u : u = [t EXCEPT !.want = FALSE]
    OBVIOUS
  <2>6. Noted(u, t) /\ Has(u, t.arg, FALSE, t.bulk, t.card, t.mine)
    BY <1>1, <2>4, <2>5, WantIs
  <2>7. Takes(p, "mode", y) /\ task'[p] = u
    BY <1>2, <1>1, <2>1, <2>2, <2>3, <2>4, <2>5, <2>6, TakesIs DEF Noted
  <2>8. LockStep(p)
    BY <1>0, <1>2, <2>2, <2>4, <2>6, <2>7 DEF LockStep, OwnLocks, Holds, HoldsRun, HoldsLoad,
           HoldsGate, Takes, SameCounts, SameModes, Locked, CameBack, Noted, Has, Same, Plain
  <2>9. CountStep(p)
    BY <1>0, <1>2, <2>2, <2>4, <2>6, <2>7 DEF CountStep, OwnLocks, OwnCounts, Flagged, Inside,
           Awake, Takes, SameCounts, SameModes, Locked, CameBack, Noted, Has, Same, Plain
  <2>10. SessionStep(p) /\ Apart(p)
    BY <1>0, <1>2, <2>2, <2>4, <2>6, <2>7 DEF SessionStep, Apart, OwnLocks, OwnSession, Tenant,
           Keeps, Diagnoses, Alone2, HoldsRun, HoldsGate, OwnMode, Loads, LoadsSoon, Takes,
           SameCounts, SameModes, Locked, CameBack, Noted, Has, Same, Plain
  <2>11. ModeStep(p)
    BY <1>0, <1>2, <2>2, <2>4, <2>6, <2>7 DEF ModeStep, OwnLocks, OwnMode, Settled, Mode, Loads,
           LoadsSoon, Filing, Quiet, Safe, Decided, Takes, SameCounts, SameModes, Locked,
           CameBack, Noted, Has, Same, Plain
  <2> QED BY <2>7, <2>8, <2>9, <2>10, <2>11 DEF Obeys, Takes, CalmStep
<1>3. CASE /\ ~s.Running
           /\ Step(p, "mode", Into(p, "begin", "mode_ping"), [s EXCEPT !.Running = TRUE])
           /\ Plain
  <2>1. PICK y : y = [s EXCEPT !.Running = TRUE]
    OBVIOUS
  <2>2. y \in SharedType /\ SameCounts(y, s) /\ SameModes(y, s) /\ y.hw = s.hw
        /\ Locked(y, TRUE, s.LoadRequested, s.Gate, s.MountGate)
    BY <1>1, <1>3, <2>1, RunningSet
  <2>3. PICK t : t = Into(p, "begin", "mode_ping")
    OBVIOUS
  <2>4. t \in TaskType /\ Called(t, task[p], "begin", "mode_ping") /\ Same(t, task[p]) /\ (t.ok <=> task[p].ok)
    BY <1>1, <2>3, RecordIs, IntoIs DEF Procedures
  <2>5. Takes(p, "mode", y) /\ task'[p] = t
    BY <1>3, <1>1, <2>1, <2>2, <2>3, <2>4, TakesIs
  <2>6. LockStep(p)
    BY <1>0, <1>3, <2>2, <2>4, <2>5 DEF LockStep, OwnLocks, Holds, HoldsRun, HoldsLoad, HoldsGate,
           Takes, SameCounts, SameModes, Locked, Called, Same, Has, Plain
  <2>7. CountStep(p)
    BY <1>0, <1>3, <2>2, <2>4, <2>5 DEF CountStep, OwnLocks, OwnCounts, Flagged, Inside, Awake,
           Takes, SameCounts, SameModes, Locked, Called, Same, Has, Plain
  <2>8. SessionStep(p) /\ Apart(p)
    BY <1>0, <1>3, <2>2, <2>4, <2>5 DEF SessionStep, Apart, OwnLocks, OwnSession, Tenant, Keeps,
           Diagnoses, Alone2, HoldsRun, HoldsGate, OwnMode, Loads, LoadsSoon, Takes, SameCounts,
           SameModes, Locked, Called, Same, Has, Plain
  <2>9. ModeStep(p)
    BY <1>0, <1>3, <2>2, <2>4, <2>5 DEF ModeStep, OwnLocks, OwnMode, Settled, Mode, Loads,
           LoadsSoon, Filing, Quiet, Safe, Decided, Takes, SameCounts, SameModes, Locked, Called,
           Same, Has, Plain
  <2> QED BY <2>5, <2>6, <2>7, <2>8, <2>9 DEF Obeys, Takes, CalmStep
<1>4. CASE /\ task[p].ok
           /\ Step(p, "mode_ping", [Goto(p, "mode_act") EXCEPT !.seen = s.hw # None], s)
           /\ Plain
  <2>1. PICK t : t = Goto(p, "mode_act")
    OBVIOUS
  <2>2. t \in TaskType /\ Went(t, task[p], "mode_act") /\ Same(t, task[p]) /\ (t.ok <=> task[p].ok)
    BY <1>1, <2>1, RecordIs, GotoIs DEF Procedures
  <2>3. PICK u : u = [t EXCEPT !.seen = s.hw # None]
    OBVIOUS
  <2>4. Noted(u, t) /\ Has(u, t.arg, t.want, t.bulk, t.card, t.mine)
    BY <1>1, <2>2, <2>3, SeenIs
  <2>5. Takes(p, "mode_ping", s) /\ task'[p] = u
    BY <1>4, <1>1, <2>1, <2>2, <2>3, <2>4, TakesIs DEF Noted
  <2>6. LockStep(p)
    BY <1>0, <1>4, <2>2, <2>4, <2>5 DEF LockStep, OwnLocks, Holds, HoldsRun, HoldsLoad, HoldsGate,
           Takes, Went, Noted, Has, Same, Plain
  <2>7. CountStep(p)
    BY <1>0, <1>4, <2>2, <2>4, <2>5 DEF CountStep, OwnLocks, OwnCounts, Flagged, Inside, Awake,
           Takes, Went, Noted, Has, Same, Plain
  <2>8. SessionStep(p) /\ Apart(p)
    BY <1>0, <1>4, <2>2, <2>4, <2>5 DEF SessionStep, Apart, OwnLocks, OwnSession, Tenant, Keeps,
           Diagnoses, Alone2, HoldsRun, HoldsGate, OwnMode, Loads, LoadsSoon, Takes, Went, Noted,
           Has, Same, Plain
  <2>9. ModeStep(p)
    BY <1>0, <1>4, <2>2, <2>4, <2>5 DEF ModeStep, OwnLocks, OwnMode, Settled, Mode, Loads,
           LoadsSoon, Filing, Quiet, Safe, Decided, Takes, Went, Noted, Has, Same, Plain
  <2> QED BY <2>5, <2>6, <2>7, <2>8, <2>9 DEF Obeys, Takes, CalmStep
<1>5. CASE ~task[p].ok /\ Step(p, "mode_ping", Goto(p, "mode_end"), s) /\ Plain
  <2>1. Takes(p, "mode_ping", s) /\ Went(task'[p], task[p], "mode_end") /\ Same(task'[p], task[p]) /\ (task'[p].ok <=> task[p].ok)
    BY <1>5, <1>1, RecordIs, GotoIs, TakesIs DEF Procedures
  <2>2. LockStep(p)
    BY <1>0, <1>5, <2>1 DEF LockStep, OwnLocks, Holds, HoldsRun, HoldsLoad, HoldsGate, Takes,
           Went, Same, Has, Plain
  <2>3. CountStep(p)
    BY <1>0, <1>5, <2>1 DEF CountStep, OwnLocks, OwnCounts, Flagged, Inside, Awake, Takes, Went,
           Same, Has, Plain
  <2>4. SessionStep(p) /\ Apart(p)
    BY <1>0, <1>5, <2>1 DEF SessionStep, Apart, OwnLocks, OwnSession, Tenant, Keeps, Diagnoses,
           Alone2, HoldsRun, HoldsGate, OwnMode, Loads, LoadsSoon, Takes, Went, Same, Has, Plain
  <2>5. ModeStep(p)
    BY <1>0, <1>5, <2>1 DEF ModeStep, OwnLocks, OwnMode, Settled, Mode, Loads, LoadsSoon, Filing,
           Quiet, Safe, Decided, Takes, Went, Same, Has, Plain
  <2> QED BY <2>1, <2>2, <2>3, <2>4, <2>5 DEF Obeys, Takes, CalmStep
<1>6. CASE Step(p, "mode_ping", Fail(p, "mode_end"), s) /\ Fault
  <2>1. Takes(p, "mode_ping", s) /\ Went(task'[p], task[p], "mode_end") /\ Same(task'[p], task[p]) /\ ~task'[p].ok
    BY <1>6, <1>1, RecordIs, FailIs, TakesIs DEF Procedures
  <2>2. LockStep(p)
    BY <1>0, <1>6, <2>1 DEF LockStep, OwnLocks, Holds, HoldsRun, HoldsLoad, HoldsGate, Takes,
           Went, Same, Has, Plain, Fault
  <2>3. CountStep(p)
    BY <1>0, <1>6, <2>1 DEF CountStep, OwnLocks, OwnCounts, Flagged, Inside, Awake, Takes, Went,
           Same, Has, Plain, Fault
  <2>4. SessionStep(p) /\ Apart(p)
    BY <1>0, <1>6, <2>1 DEF SessionStep, Apart, OwnLocks, OwnSession, Tenant, Keeps, Diagnoses,
           Alone2, HoldsRun, HoldsGate, OwnMode, Loads, LoadsSoon, Takes, Went, Same, Has, Plain,
           Fault
  <2>5. ModeStep(p)
    BY <1>0, <1>6, <2>1 DEF ModeStep, OwnLocks, OwnMode, Settled, Mode, Loads, LoadsSoon, Filing,
           Quiet, Safe, Decided, Takes, Went, Same, Has, Plain, Fault
  <2> QED BY <2>1, <2>2, <2>3, <2>4, <2>5 DEF Obeys, Takes, CalmStep
<1>7. CASE \E h \in {None, "pc", s.hw} :
             /\ Step(p, "mode_act", [Goto(p, "mode_set") EXCEPT !.seen = FALSE], [s EXCEPT !.hw = h])
             /\ Plain
  <2>1. PICK h \in {None, "pc", s.hw} :
             /\ Step(p, "mode_act", [Goto(p, "mode_set") EXCEPT !.seen = FALSE], [s EXCEPT !.hw = h])
             /\ Plain
    BY <1>7
  <2>2. PICK y : y = [s EXCEPT !.hw = h]
    OBVIOUS
  <2>3. y \in SharedType /\ SameCounts(y, s) /\ SameModes(y, s) /\ y.hw = h
        /\ Locked(y, s.Running, s.LoadRequested, s.Gate, s.MountGate)
    BY <1>1, <1>7, <2>1, <2>2, HwSet
  <2>4. PICK t : t = Goto(p, "mode_set")
    OBVIOUS
  <2>5. t \in TaskType /\ Went(t, task[p], "mode_set") /\ Same(t, task[p]) /\ (t.ok <=> task[p].ok)
    BY <1>1, <2>4, RecordIs, GotoIs DEF Procedures
  <2>6. PICK u : u = [t EXCEPT !.seen = FALSE]
    OBVIOUS
  <2>7. Noted(u, t) /\ Has(u, t.arg, t.want, t.bulk, t.card, t.mine)
    BY <1>1, <2>5, <2>6, SeenIs
  <2>8. Takes(p, "mode_act", y) /\ task'[p] = u
    BY <1>7, <1>1, <2>1, <2>2, <2>3, <2>4, <2>5, <2>6, <2>7, TakesIs DEF Noted
  <2>9. LockStep(p)
    BY <1>0, <1>7, <2>1, <2>3, <2>5, <2>7, <2>8 DEF LockStep, OwnLocks, Holds, HoldsRun,
           HoldsLoad, HoldsGate, Takes, SameCounts, SameModes, Locked, Went, Noted, Has, Same,
           Plain
  <2>10. CountStep(p)
    BY <1>0, <1>7, <2>1, <2>3, <2>5, <2>7, <2>8 DEF CountStep, OwnLocks, OwnCounts, Flagged,
           Inside, Awake, Takes, SameCounts, SameModes, Locked, Went, Noted, Has, Same, Plain
  <2>11. SessionStep(p) /\ Apart(p)
    BY <1>0, <1>7, <2>1, <2>3, <2>5, <2>7, <2>8 DEF SessionStep, Apart, OwnLocks, OwnSession,
           Tenant, Keeps, Diagnoses, Alone2, HoldsRun, HoldsGate, OwnMode, Loads, LoadsSoon,
           Takes, SameCounts, SameModes, Locked, Went, Noted, Has, Same, Plain
  <2>12. ModeStep(p)
    BY <1>0, <1>7, <2>1, <2>3, <2>5, <2>7, <2>8 DEF ModeStep, OwnLocks, OwnMode, Settled, Mode,
           Loads, LoadsSoon, Filing, Quiet, Safe, Decided, Takes, SameCounts, SameModes, Locked,
           Went, Noted, Has, Same, Plain
  <2> QED BY <2>8, <2>9, <2>10, <2>11, <2>12 DEF Obeys, Takes, CalmStep
<1>8. CASE \E h \in {None, "pc", s.hw} :
             /\ Step(p, "mode_act", [Fail(p, "mode_end") EXCEPT !.seen = FALSE], [s EXCEPT !.hw = h])
             /\ Plain
  <2>1. PICK h \in {None, "pc", s.hw} :
             /\ Step(p, "mode_act", [Fail(p, "mode_end") EXCEPT !.seen = FALSE], [s EXCEPT !.hw = h])
             /\ Plain
    BY <1>8
  <2>2. PICK y : y = [s EXCEPT !.hw = h]
    OBVIOUS
  <2>3. y \in SharedType /\ SameCounts(y, s) /\ SameModes(y, s) /\ y.hw = h
        /\ Locked(y, s.Running, s.LoadRequested, s.Gate, s.MountGate)
    BY <1>1, <1>8, <2>1, <2>2, HwSet
  <2>4. PICK t : t = Fail(p, "mode_end")
    OBVIOUS
  <2>5. t \in TaskType /\ Went(t, task[p], "mode_end") /\ Same(t, task[p]) /\ ~t.ok
    BY <1>1, <2>4, RecordIs, FailIs DEF Procedures
  <2>6. PICK u : u = [t EXCEPT !.seen = FALSE]
    OBVIOUS
  <2>7. Noted(u, t) /\ Has(u, t.arg, t.want, t.bulk, t.card, t.mine)
    BY <1>1, <2>5, <2>6, SeenIs
  <2>8. Takes(p, "mode_act", y) /\ task'[p] = u
    BY <1>8, <1>1, <2>1, <2>2, <2>3, <2>4, <2>5, <2>6, <2>7, TakesIs DEF Noted
  <2>9. LockStep(p)
    BY <1>0, <1>8, <2>1, <2>3, <2>5, <2>7, <2>8 DEF LockStep, OwnLocks, Holds, HoldsRun,
           HoldsLoad, HoldsGate, Takes, SameCounts, SameModes, Locked, Went, Noted, Has, Same,
           Plain
  <2>10. CountStep(p)
    BY <1>0, <1>8, <2>1, <2>3, <2>5, <2>7, <2>8 DEF CountStep, OwnLocks, OwnCounts, Flagged,
           Inside, Awake, Takes, SameCounts, SameModes, Locked, Went, Noted, Has, Same, Plain
  <2>11. SessionStep(p) /\ Apart(p)
    BY <1>0, <1>8, <2>1, <2>3, <2>5, <2>7, <2>8 DEF SessionStep, Apart, OwnLocks, OwnSession,
           Tenant, Keeps, Diagnoses, Alone2, HoldsRun, HoldsGate, OwnMode, Loads, LoadsSoon,
           Takes, SameCounts, SameModes, Locked, Went, Noted, Has, Same, Plain
  <2>12. ModeStep(p)
    BY <1>0, <1>8, <2>1, <2>3, <2>5, <2>7, <2>8 DEF ModeStep, OwnLocks, OwnMode, Settled, Mode,
           Loads, LoadsSoon, Filing, Quiet, Safe, Decided, Takes, SameCounts, SameModes, Locked,
           Went, Noted, Has, Same, Plain
  <2> QED BY <2>8, <2>9, <2>10, <2>11, <2>12 DEF Obeys, Takes, CalmStep
<1>9. CASE Step(p, "mode_act", Fail(p, "mode_end"), s) /\ Fault
  <2>1. Takes(p, "mode_act", s) /\ Went(task'[p], task[p], "mode_end") /\ Same(task'[p], task[p]) /\ ~task'[p].ok
    BY <1>9, <1>1, RecordIs, FailIs, TakesIs DEF Procedures
  <2>2. LockStep(p)
    BY <1>0, <1>9, <2>1 DEF LockStep, OwnLocks, Holds, HoldsRun, HoldsLoad, HoldsGate, Takes,
           Went, Same, Has, Plain, Fault
  <2>3. CountStep(p)
    BY <1>0, <1>9, <2>1 DEF CountStep, OwnLocks, OwnCounts, Flagged, Inside, Awake, Takes, Went,
           Same, Has, Plain, Fault
  <2>4. SessionStep(p) /\ Apart(p)
    BY <1>0, <1>9, <2>1 DEF SessionStep, Apart, OwnLocks, OwnSession, Tenant, Keeps, Diagnoses,
           Alone2, HoldsRun, HoldsGate, OwnMode, Loads, LoadsSoon, Takes, Went, Same, Has, Plain,
           Fault
  <2>5. ModeStep(p)
    BY <1>0, <1>9, <2>1 DEF ModeStep, OwnLocks, OwnMode, Settled, Mode, Loads, LoadsSoon, Filing,
           Quiet, Safe, Decided, Takes, Went, Same, Has, Plain, Fault
  <2> QED BY <2>1, <2>2, <2>3, <2>4, <2>5 DEF Obeys, Takes, CalmStep
<1>10. CASE /\ Step(p, "mode_end", [Back(p, "mode", task[p].ok) EXCEPT !.want = FALSE, !.bulk = FALSE],
                   [Closed(p) EXCEPT !.Running = FALSE])
           /\ Plain
  <2>1. PICK y : y = [Closed(p) EXCEPT !.Running = FALSE]
    OBVIOUS
  <2>2. y \in SharedType /\ Closes(p, y) /\ y.hw = s.hw
        /\ Locked(y, FALSE, s.LoadRequested, s.Gate, s.MountGate)
    BY <1>1, <1>10, <2>1, RunEndedIs
  <2>3. PICK t : t = Back(p, "mode", task[p].ok)
    OBVIOUS
  <2>4. t \in TaskType /\ CameBack(t, task[p], "mode") /\ Same(t, task[p]) /\ (t.ok <=> task[p].ok)
    BY <1>1, <2>3, RecordIs, BackIs DEF Procedures
  <2>5. PICK u : u = [t EXCEPT !.want = FALSE, !.bulk = FALSE]
    OBVIOUS
  <2>6. Noted(u, t) /\ Has(u, t.arg, FALSE, FALSE, t.card, t.mine)
    BY <1>1, <2>4, <2>5, ModeEndedIs
  <2>7. Takes(p, "mode_end", y) /\ task'[p] = u
    BY <1>10, <1>1, <2>1, <2>2, <2>3, <2>4, <2>5, <2>6, TakesIs DEF Noted
  <2>8. LockStep(p)
    BY <1>0, <1>10, <2>2, <2>4, <2>6, <2>7 DEF LockStep, OwnLocks, Holds, HoldsRun, HoldsLoad,
           HoldsGate, Takes, Locked, Closes, SameModes, Balanced, CameBack, Noted, Has, Same,
           Plain
  <2>9. CountStep(p)
    BY <1>0, <1>10, <2>2, <2>4, <2>6, <2>7 DEF CountStep, OwnLocks, OwnCounts, Flagged, Inside,
           Awake, Takes, Locked, Closes, SameModes, Balanced, CameBack, Noted, Has, Same, Plain
  <2>10. SessionStep(p) /\ Apart(p)
    BY <1>0, <1>10, <2>2, <2>4, <2>6, <2>7 DEF SessionStep, Apart, OwnLocks, OwnSession, Tenant,
           Keeps, Diagnoses, Alone2, HoldsRun, HoldsGate, OwnMode, Loads, LoadsSoon, Takes,
           Locked, Closes, SameModes, Balanced, CameBack, Noted, Has, Same, Plain
  <2>11. ModeStep(p)
    BY <1>0, <1>10, <2>2, <2>4, <2>6, <2>7 DEF ModeStep, OwnLocks, OwnMode, Settled, Mode, Loads,
           LoadsSoon, Filing, Quiet, Safe, Decided, Takes, Locked, Closes, SameModes, Balanced,
           CameBack, Noted, Has, Same, Plain
  <2> QED BY <2>7, <2>8, <2>9, <2>10, <2>11 DEF Obeys, Takes, CalmStep
<1> QED BY <1>1, <1>2, <1>3, <1>4, <1>5, <1>6, <1>7, <1>8, <1>9, <1>10 DEF ModeRun, ModePing,
               ModeAct, ModeEnd

(* CartBackup_SetPCMode notes the mode. *)
LEMMA ModeSetObeys ==
  ASSUME TypeOK, NEW p \in Tasks, p \in {"console", "keepalive"}, Own(p), ModeSet(p)
  PROVE  Obeys(p)
<1>0. OwnLocks(p) /\ OwnCounts(p) /\ OwnSession(p) /\ OwnMode(p)
  BY DEF Own
<1>1. s \in SharedType /\ s.hw \in {None, "pc", "sd", "probe", "backup"}
      /\ {"mode_end"} \subseteq Labels
  BY DEF TypeOK, SharedType, Labels
<1>2. CASE Step(p, "mode_set", Goto(p, "mode_end"), [s EXCEPT !.PCModeActive = task[p].arg]) /\ Plain
  <2>1. PICK y : y = [s EXCEPT !.PCModeActive = task[p].arg]
    OBVIOUS
  <2>2. y \in SharedType /\ SameCounts(y, s) /\ y.hw = s.hw /\ y.on = s.on
        /\ y.ModeApplied = s.ModeApplied /\ y.AppliedEnabled = s.AppliedEnabled
        /\ Locked(y, s.Running, s.LoadRequested, s.Gate, s.MountGate) /\ y.PCModeActive = task[p].arg
    BY <1>1, <1>2, <2>1, ModeSetIs
  <2>3. PICK t : t = Goto(p, "mode_end")
    OBVIOUS
  <2>4. t \in TaskType /\ Went(t, task[p], "mode_end") /\ Same(t, task[p]) /\ (t.ok <=> task[p].ok)
    BY <1>1, <2>3, RecordIs, GotoIs DEF Procedures
  <2>5. Takes(p, "mode_set", y) /\ task'[p] = t
    BY <1>2, <1>1, <2>1, <2>2, <2>3, <2>4, TakesIs
  <2>6. LockStep(p)
    BY <1>0, <1>2, <2>2, <2>4, <2>5 DEF LockStep, OwnLocks, Holds, HoldsRun, HoldsLoad, HoldsGate,
           Takes, SameCounts, Locked, Went, Same, Has, Plain
  <2>7. CountStep(p)
    BY <1>0, <1>2, <2>2, <2>4, <2>5 DEF CountStep, OwnLocks, OwnCounts, Flagged, Inside, Awake,
           Takes, SameCounts, Locked, Went, Same, Has, Plain
  <2>8. SessionStep(p)
    BY <1>0, <1>2, <2>2, <2>4, <2>5 DEF SessionStep, OwnLocks, OwnSession, Tenant, Keeps,
           Diagnoses, Alone2, HoldsRun, HoldsGate, Takes, SameCounts, Locked, Went, Same, Has,
           Plain
  <2> QED BY <2>5, <2>6, <2>7, <2>8 DEF Obeys, Takes
<1> QED BY <1>2 DEF ModeSet

(* EnableLocked *)
LEMMA EnableObeys ==
  ASSUME TypeOK, NEW p \in Tasks, p \in {"console", "keepalive"}, Own(p), Enable(p) \/ EnableStop(p) \/ EnableMode(p)
  PROVE  Obeys(p) /\ CalmStep(p)
<1>0. OwnLocks(p) /\ OwnCounts(p) /\ OwnSession(p) /\ OwnMode(p)
  BY DEF Own
<1>1. s \in SharedType /\ s.hw \in {None, "pc", "sd", "probe", "backup"}
      /\ {"enable_stop", "enable_mode", "stop"} \subseteq Labels
  BY DEF TypeOK, SharedType, Labels
<1>2. CASE /\ Step(p, "enable", [Back(p, "enable", FALSE) EXCEPT !.want = FALSE], s)
           /\ Plain
  <2>1. PICK t : t = Back(p, "enable", FALSE)
    OBVIOUS
  <2>2. t \in TaskType /\ CameBack(t, task[p], "enable") /\ Same(t, task[p]) /\ (t.ok <=> FALSE)
    BY <1>1, <2>1, RecordIs, BackIs DEF Procedures
  <2>3. PICK u : u = [t EXCEPT !.want = FALSE]
    OBVIOUS
  <2>4. Noted(u, t) /\ Has(u, t.arg, FALSE, t.bulk, t.card, t.mine)
    BY <1>1, <2>2, <2>3, WantIs
  <2>5. Takes(p, "enable", s) /\ task'[p] = u
    BY <1>2, <1>1, <2>1, <2>2, <2>3, <2>4, TakesIs DEF Noted
  <2>6. LockStep(p)
    BY <1>0, <1>2, <2>2, <2>4, <2>5 DEF LockStep, OwnLocks, Holds, HoldsRun, HoldsLoad, HoldsGate,
           Takes, CameBack, Noted, Has, Same, Plain
  <2>7. CountStep(p)
    BY <1>0, <1>2, <2>2, <2>4, <2>5 DEF CountStep, OwnLocks, OwnCounts, Flagged, Inside, Awake,
           Takes, CameBack, Noted, Has, Same, Plain
  <2>8. SessionStep(p) /\ Apart(p)
    BY <1>0, <1>2, <2>2, <2>4, <2>5 DEF SessionStep, Apart, OwnLocks, OwnSession, Tenant, Keeps,
           Diagnoses, Alone2, HoldsRun, HoldsGate, OwnMode, Loads, LoadsSoon, Takes, CameBack,
           Noted, Has, Same, Plain
  <2>9. ModeStep(p)
    BY <1>0, <1>2, <2>2, <2>4, <2>5 DEF ModeStep, OwnLocks, OwnMode, Settled, Mode, Loads,
           LoadsSoon, Filing, Quiet, Safe, Decided, Takes, CameBack, Noted, Has, Same, Plain
  <2> QED BY <2>5, <2>6, <2>7, <2>8, <2>9 DEF Obeys, Takes, CalmStep
<1>3. CASE ~Busy /\ Step(p, "enable", Goto(p, "enable_stop"), s) /\ Plain
  <2>1. Takes(p, "enable", s) /\ Went(task'[p], task[p], "enable_stop") /\ Same(task'[p], task[p]) /\ (task'[p].ok <=> task[p].ok)
    BY <1>3, <1>1, RecordIs, GotoIs, TakesIs DEF Procedures
  <2>2. LockStep(p)
    BY <1>0, <1>3, <2>1 DEF LockStep, OwnLocks, Holds, HoldsRun, HoldsLoad, HoldsGate, Takes,
           Went, Same, Has, Plain, Busy
  <2>3. CountStep(p)
    BY <1>0, <1>3, <2>1 DEF CountStep, OwnLocks, OwnCounts, Flagged, Inside, Awake, Takes, Went,
           Same, Has, Plain, Busy
  <2>4. SessionStep(p) /\ Apart(p)
    BY <1>0, <1>3, <2>1 DEF SessionStep, Apart, OwnLocks, OwnSession, Tenant, Keeps, Diagnoses,
           Alone2, HoldsRun, HoldsGate, OwnMode, Loads, LoadsSoon, Takes, Went, Same, Has, Plain,
           Busy
  <2>5. ModeStep(p)
    BY <1>0, <1>3, <2>1 DEF ModeStep, OwnLocks, OwnMode, Settled, Mode, Loads, LoadsSoon, Filing,
           Quiet, Safe, Decided, Takes, Went, Same, Has, Plain, Busy
  <2> QED BY <2>1, <2>2, <2>3, <2>4, <2>5 DEF Obeys, Takes, CalmStep
<1>4. CASE /\ Step(p, "enable_stop", Into(p, "stop", "enable_mode"),
                   IF s.SleepInhibited THEN s ELSE Inhibit([s EXCEPT !.SleepInhibited = TRUE]))
           /\ Plain
  <2>1. PICK y : y = IF s.SleepInhibited THEN s ELSE Inhibit([s EXCEPT !.SleepInhibited = TRUE])
    OBVIOUS
  <2>2. y \in SharedType /\ y.SleepInhibited /\ y.hw = s.hw
        /\ y.Active = s.Active /\ y.SessionActive = s.SessionActive /\ SameModes(y, s)
        /\ Locked(y, s.Running, s.LoadRequested, s.Gate, s.MountGate) /\ Balanced(y)
    BY <1>1, <1>4, <2>1, AwakeIs
  <2>3. PICK t : t = Into(p, "stop", "enable_mode")
    OBVIOUS
  <2>4. t \in TaskType /\ Called(t, task[p], "stop", "enable_mode") /\ Same(t, task[p]) /\ (t.ok <=> task[p].ok)
    BY <1>1, <2>3, RecordIs, IntoIs DEF Procedures
  <2>5. Takes(p, "enable_stop", y) /\ task'[p] = t
    BY <1>4, <1>1, <2>1, <2>2, <2>3, <2>4, TakesIs
  <2>6. LockStep(p)
    BY <1>0, <1>4, <2>2, <2>4, <2>5 DEF LockStep, OwnLocks, Holds, HoldsRun, HoldsLoad, HoldsGate,
           Takes, SameModes, Locked, Balanced, Called, Same, Has, Plain
  <2>7. CountStep(p)
    BY <1>0, <1>4, <2>2, <2>4, <2>5 DEF CountStep, OwnLocks, OwnCounts, Flagged, Inside, Awake,
           Takes, SameModes, Locked, Balanced, Called, Same, Has, Plain
  <2>8. SessionStep(p) /\ Apart(p)
    BY <1>0, <1>4, <2>2, <2>4, <2>5 DEF SessionStep, Apart, OwnLocks, OwnSession, Tenant, Keeps,
           Diagnoses, Alone2, HoldsRun, HoldsGate, OwnMode, Loads, LoadsSoon, Takes, SameModes,
           Locked, Balanced, Called, Same, Has, Plain
  <2>9. ModeStep(p)
    BY <1>0, <1>4, <2>2, <2>4, <2>5 DEF ModeStep, OwnLocks, OwnMode, Settled, Mode, Loads,
           LoadsSoon, Filing, Quiet, Safe, Decided, Takes, SameModes, Locked, Balanced, Called,
           Same, Has, Plain
  <2> QED BY <2>5, <2>6, <2>7, <2>8, <2>9 DEF Obeys, Takes, CalmStep
<1>5. CASE /\ ~s.Active
           /\ Step(p, "enable_stop", EnableLast(p),
                   IF s.SleepInhibited THEN s ELSE Inhibit([s EXCEPT !.SleepInhibited = TRUE]))
           /\ Plain
  <2>1. PICK y : y = IF s.SleepInhibited THEN s ELSE Inhibit([s EXCEPT !.SleepInhibited = TRUE])
    OBVIOUS
  <2>2. y \in SharedType /\ y.SleepInhibited /\ y.hw = s.hw
        /\ y.Active = s.Active /\ y.SessionActive = s.SessionActive /\ SameModes(y, s)
        /\ Locked(y, s.Running, s.LoadRequested, s.Gate, s.MountGate) /\ Balanced(y)
    BY <1>1, <1>5, <2>1, AwakeIs
  <2>3. PICK t : t = EnableLast(p)
    OBVIOUS
  <2>4. t \in TaskType /\ t.at = "mode" /\ t.ret["mode"] = task[p].ret["enable"]
        /\ t.ret["enable"] = None /\ Same(t, task[p]) /\ (t.ok <=> task[p].ok)
        /\ \A m \in {"off", "begin", "stop"} : t.ret[m] = task[p].ret[m]
    BY <1>1, <2>3, RecordIs, EnableLastIs DEF Procedures
  <2>5. Takes(p, "enable_stop", y) /\ task'[p] = t
    BY <1>5, <1>1, <2>1, <2>2, <2>3, <2>4, TakesIs
  <2>6. LockStep(p)
    BY <1>0, <1>5, <2>2, <2>4, <2>5 DEF LockStep, OwnLocks, Holds, HoldsRun, HoldsLoad, HoldsGate,
           Takes, SameModes, Locked, Balanced, Same, Has, Plain
  <2>7. CountStep(p)
    BY <1>0, <1>5, <2>2, <2>4, <2>5 DEF CountStep, OwnLocks, OwnCounts, Flagged, Inside, Awake,
           Takes, SameModes, Locked, Balanced, Same, Has, Plain
  <2>8. SessionStep(p) /\ Apart(p)
    BY <1>0, <1>5, <2>2, <2>4, <2>5 DEF SessionStep, Apart, OwnLocks, OwnSession, Tenant, Keeps,
           Diagnoses, Alone2, HoldsRun, HoldsGate, OwnMode, Loads, LoadsSoon, Takes, SameModes,
           Locked, Balanced, Same, Has, Plain
  <2>9. ModeStep(p)
    BY <1>0, <1>5, <2>2, <2>4, <2>5 DEF ModeStep, OwnLocks, OwnMode, Settled, Mode, Loads,
           LoadsSoon, Filing, Quiet, Safe, Decided, Takes, SameModes, Locked, Balanced, Same, Has,
           Plain
  <2> QED BY <2>5, <2>6, <2>7, <2>8, <2>9 DEF Obeys, Takes, CalmStep
<1>6. CASE task[p].ok /\ Step(p, "enable_mode", EnableLast(p), s) /\ Plain
  <2>1. Takes(p, "enable_mode", s) /\ task'[p].at = "mode" /\ task'[p].ret["mode"] = task[p].ret["enable"]
        /\ task'[p].ret["enable"] = None /\ Same(task'[p], task[p]) /\ (task'[p].ok <=> task[p].ok)
        /\ \A m \in {"off", "begin", "stop"} : task'[p].ret[m] = task[p].ret[m]
    BY <1>6, <1>1, RecordIs, EnableLastIs, TakesIs DEF Procedures
  <2>2. LockStep(p)
    BY <1>0, <1>6, <2>1 DEF LockStep, OwnLocks, Holds, HoldsRun, HoldsLoad, HoldsGate, Takes,
           Same, Has, Plain
  <2>3. CountStep(p)
    BY <1>0, <1>6, <2>1 DEF CountStep, OwnLocks, OwnCounts, Flagged, Inside, Awake, Takes, Same,
           Has, Plain
  <2>4. SessionStep(p) /\ Apart(p)
    BY <1>0, <1>6, <2>1 DEF SessionStep, Apart, OwnLocks, OwnSession, Tenant, Keeps, Diagnoses,
           Alone2, HoldsRun, HoldsGate, OwnMode, Loads, LoadsSoon, Takes, Same, Has, Plain
  <2>5. ModeStep(p)
    BY <1>0, <1>6, <2>1 DEF ModeStep, OwnLocks, OwnMode, Settled, Mode, Loads, LoadsSoon, Filing,
           Quiet, Safe, Decided, Takes, Same, Has, Plain
  <2> QED BY <2>1, <2>2, <2>3, <2>4, <2>5 DEF Obeys, Takes, CalmStep
<1>7. CASE /\ Step(p, "enable_mode", [Back(p, "enable", FALSE) EXCEPT !.want = FALSE], s)
           /\ Plain
  <2>1. PICK t : t = Back(p, "enable", FALSE)
    OBVIOUS
  <2>2. t \in TaskType /\ CameBack(t, task[p], "enable") /\ Same(t, task[p]) /\ (t.ok <=> FALSE)
    BY <1>1, <2>1, RecordIs, BackIs DEF Procedures
  <2>3. PICK u : u = [t EXCEPT !.want = FALSE]
    OBVIOUS
  <2>4. Noted(u, t) /\ Has(u, t.arg, FALSE, t.bulk, t.card, t.mine)
    BY <1>1, <2>2, <2>3, WantIs
  <2>5. Takes(p, "enable_mode", s) /\ task'[p] = u
    BY <1>7, <1>1, <2>1, <2>2, <2>3, <2>4, TakesIs DEF Noted
  <2>6. LockStep(p)
    BY <1>0, <1>7, <2>2, <2>4, <2>5 DEF LockStep, OwnLocks, Holds, HoldsRun, HoldsLoad, HoldsGate,
           Takes, CameBack, Noted, Has, Same, Plain
  <2>7. CountStep(p)
    BY <1>0, <1>7, <2>2, <2>4, <2>5 DEF CountStep, OwnLocks, OwnCounts, Flagged, Inside, Awake,
           Takes, CameBack, Noted, Has, Same, Plain
  <2>8. SessionStep(p) /\ Apart(p)
    BY <1>0, <1>7, <2>2, <2>4, <2>5 DEF SessionStep, Apart, OwnLocks, OwnSession, Tenant, Keeps,
           Diagnoses, Alone2, HoldsRun, HoldsGate, OwnMode, Loads, LoadsSoon, Takes, CameBack,
           Noted, Has, Same, Plain
  <2>9. ModeStep(p)
    BY <1>0, <1>7, <2>2, <2>4, <2>5 DEF ModeStep, OwnLocks, OwnMode, Settled, Mode, Loads,
           LoadsSoon, Filing, Quiet, Safe, Decided, Takes, CameBack, Noted, Has, Same, Plain
  <2> QED BY <2>5, <2>6, <2>7, <2>8, <2>9 DEF Obeys, Takes, CalmStep
<1> QED BY <1>1, <1>2, <1>3, <1>4, <1>5, <1>6, <1>7 DEF Enable, EnableStop, EnableMode

(* VirtualCart_Stop *)
LEMMA StopObeys ==
  ASSUME TypeOK, NEW p \in Tasks, p \in {"console", "keepalive"}, Own(p), VirtualCart_Stop(p)
  PROVE  Obeys(p) /\ CalmStep(p)
<1>0. OwnLocks(p) /\ OwnCounts(p) /\ OwnSession(p) /\ OwnMode(p)
  BY DEF Own
<1>1. s \in SharedType /\ s.hw \in {None, "pc", "sd", "probe", "backup"}
      /\ {"stop_mount", "stop_run", "stop_end", "begin"} \subseteq Labels
  BY DEF TypeOK, SharedType, Labels
<1>2. CASE Step(p, "stop", Back(p, "stop", FALSE), Claimed) /\ Plain
  <2>1. PICK y : y = Claimed
    OBVIOUS
  <2>2. y \in SharedType /\ SameCounts(y, s) /\ SameModes(y, s) /\ y.hw = s.hw
        /\ Locked(y, s.Running, s.LoadRequested, s.Gate, s.MountGate)
    BY <1>1, <1>2, <2>1, ClaimedIs
  <2>3. PICK t : t = Back(p, "stop", FALSE)
    OBVIOUS
  <2>4. t \in TaskType /\ CameBack(t, task[p], "stop") /\ Same(t, task[p]) /\ (t.ok <=> FALSE)
    BY <1>1, <2>3, RecordIs, BackIs DEF Procedures
  <2>5. Takes(p, "stop", y) /\ task'[p] = t
    BY <1>2, <1>1, <2>1, <2>2, <2>3, <2>4, TakesIs
  <2>6. LockStep(p)
    BY <1>0, <1>2, <2>2, <2>4, <2>5 DEF LockStep, OwnLocks, Holds, HoldsRun, HoldsLoad, HoldsGate,
           Takes, SameCounts, SameModes, Locked, CameBack, Same, Has, Plain
  <2>7. CountStep(p)
    BY <1>0, <1>2, <2>2, <2>4, <2>5 DEF CountStep, OwnLocks, OwnCounts, Flagged, Inside, Awake,
           Takes, SameCounts, SameModes, Locked, CameBack, Same, Has, Plain
  <2>8. SessionStep(p) /\ Apart(p)
    BY <1>0, <1>2, <2>2, <2>4, <2>5 DEF SessionStep, Apart, OwnLocks, OwnSession, Tenant, Keeps,
           Diagnoses, Alone2, HoldsRun, HoldsGate, OwnMode, Loads, LoadsSoon, Takes, SameCounts,
           SameModes, Locked, CameBack, Same, Has, Plain
  <2>9. ModeStep(p)
    BY <1>0, <1>2, <2>2, <2>4, <2>5 DEF ModeStep, OwnLocks, OwnMode, Settled, Mode, Loads,
           LoadsSoon, Filing, Quiet, Safe, Decided, Takes, SameCounts, SameModes, Locked,
           CameBack, Same, Has, Plain
  <2> QED BY <2>5, <2>6, <2>7, <2>8, <2>9 DEF Obeys, Takes, CalmStep
<1>3. CASE ~Busy /\ Step(p, "stop", Goto(p, "stop_mount"), Claimed) /\ Plain
  <2>1. PICK y : y = Claimed
    OBVIOUS
  <2>2. y \in SharedType /\ SameCounts(y, s) /\ SameModes(y, s) /\ y.hw = s.hw
        /\ Locked(y, s.Running, s.LoadRequested, s.Gate, s.MountGate)
    BY <1>1, <1>3, <2>1, ClaimedIs
  <2>3. PICK t : t = Goto(p, "stop_mount")
    OBVIOUS
  <2>4. t \in TaskType /\ Went(t, task[p], "stop_mount") /\ Same(t, task[p]) /\ (t.ok <=> task[p].ok)
    BY <1>1, <2>3, RecordIs, GotoIs DEF Procedures
  <2>5. Takes(p, "stop", y) /\ task'[p] = t
    BY <1>3, <1>1, <2>1, <2>2, <2>3, <2>4, TakesIs
  <2>6. LockStep(p)
    BY <1>0, <1>3, <2>2, <2>4, <2>5 DEF LockStep, OwnLocks, Holds, HoldsRun, HoldsLoad, HoldsGate,
           Takes, SameCounts, SameModes, Locked, Went, Same, Has, Plain, Busy
  <2>7. CountStep(p)
    BY <1>0, <1>3, <2>2, <2>4, <2>5 DEF CountStep, OwnLocks, OwnCounts, Flagged, Inside, Awake,
           Takes, SameCounts, SameModes, Locked, Went, Same, Has, Plain, Busy
  <2>8. SessionStep(p) /\ Apart(p)
    BY <1>0, <1>3, <2>2, <2>4, <2>5 DEF SessionStep, Apart, OwnLocks, OwnSession, Tenant, Keeps,
           Diagnoses, Alone2, HoldsRun, HoldsGate, OwnMode, Loads, LoadsSoon, Takes, SameCounts,
           SameModes, Locked, Went, Same, Has, Plain, Busy
  <2>9. ModeStep(p)
    BY <1>0, <1>3, <2>2, <2>4, <2>5 DEF ModeStep, OwnLocks, OwnMode, Settled, Mode, Loads,
           LoadsSoon, Filing, Quiet, Safe, Decided, Takes, SameCounts, SameModes, Locked, Went,
           Same, Has, Plain, Busy
  <2> QED BY <2>5, <2>6, <2>7, <2>8, <2>9 DEF Obeys, Takes, CalmStep
<1>4. CASE Step(p, "stop_mount", Good(p, "stop_run"), s) /\ Plain
  <2>1. Takes(p, "stop_mount", s) /\ Went(task'[p], task[p], "stop_run") /\ Same(task'[p], task[p]) /\ task'[p].ok
    BY <1>4, <1>1, RecordIs, GoodIs, TakesIs DEF Procedures
  <2>2. LockStep(p)
    BY <1>0, <1>4, <2>1 DEF LockStep, OwnLocks, Holds, HoldsRun, HoldsLoad, HoldsGate, Takes,
           Went, Same, Has, Plain
  <2>3. CountStep(p)
    BY <1>0, <1>4, <2>1 DEF CountStep, OwnLocks, OwnCounts, Flagged, Inside, Awake, Takes, Went,
           Same, Has, Plain
  <2>4. SessionStep(p) /\ Apart(p)
    BY <1>0, <1>4, <2>1 DEF SessionStep, Apart, OwnLocks, OwnSession, Tenant, Keeps, Diagnoses,
           Alone2, HoldsRun, HoldsGate, OwnMode, Loads, LoadsSoon, Takes, Went, Same, Has, Plain
  <2>5. ModeStep(p)
    BY <1>0, <1>4, <2>1 DEF ModeStep, OwnLocks, OwnMode, Settled, Mode, Loads, LoadsSoon, Filing,
           Quiet, Safe, Decided, Takes, Went, Same, Has, Plain
  <2> QED BY <2>1, <2>2, <2>3, <2>4, <2>5 DEF Obeys, Takes, CalmStep
<1>5. CASE Mount(p, "stop_mount", Into(p, "begin", "stop_run"), Fail(p, "stop_end"))
  <2>1. PICK g : g = Into(p, "begin", "stop_run")
    OBVIOUS
  <2>2. g \in TaskType /\ Called(g, task[p], "begin", "stop_run") /\ Same(g, task[p]) /\ (g.ok <=> task[p].ok)
    BY <1>1, <2>1, RecordIs, IntoIs DEF Procedures
  <2>3. PICK b : b = Fail(p, "stop_end")
    OBVIOUS
  <2>4. b \in TaskType /\ Went(b, task[p], "stop_end") /\ Same(b, task[p]) /\ ~b.ok
    BY <1>1, <2>3, RecordIs, FailIs DEF Procedures
  <2>5. \/ /\ s.MountGate = None /\ Takes(p, "stop_mount", s') /\ SameCounts(s', s) /\ SameModes(s', s)
           /\ s'.hw = s.hw /\ Locked(s', s.Running, s.LoadRequested, s.Gate, p)
           /\ Noted(task'[p], g) /\ Has(task'[p], g.arg, g.want, g.bulk, TRUE, g.mine)
           /\ Plain
        \/ Takes(p, "stop_mount", s) /\ task'[p] = b /\ (Plain \/ Fault)
    BY <1>5, <2>1, <2>2, <2>3, <2>4, MountIs
  <2>6. CASE /\ s.MountGate = None /\ Takes(p, "stop_mount", s') /\ SameCounts(s', s) /\ SameModes(s', s)
             /\ s'.hw = s.hw /\ Locked(s', s.Running, s.LoadRequested, s.Gate, p)
             /\ Noted(task'[p], g) /\ Has(task'[p], g.arg, g.want, g.bulk, TRUE, g.mine)
             /\ Plain
    <3>1. LockStep(p)
      BY <1>0, <1>5, <2>2, <2>6 DEF LockStep, OwnLocks, Holds, HoldsRun, HoldsLoad, HoldsGate,
             Takes, SameCounts, SameModes, Locked, Called, Same, Noted, Has, Plain
    <3>2. CountStep(p)
      BY <1>0, <1>5, <2>2, <2>6 DEF CountStep, OwnLocks, OwnCounts, Flagged, Inside, Awake, Takes,
             SameCounts, SameModes, Locked, Called, Same, Noted, Has, Plain
    <3>3. SessionStep(p) /\ Apart(p)
      BY <1>0, <1>5, <2>2, <2>6 DEF SessionStep, Apart, OwnLocks, OwnSession, Tenant, Keeps,
             Diagnoses, Alone2, HoldsRun, HoldsGate, OwnMode, Loads, LoadsSoon, Takes, SameCounts,
             SameModes, Locked, Called, Same, Noted, Has, Plain
    <3>4. ModeStep(p)
      BY <1>0, <1>5, <2>2, <2>6 DEF ModeStep, OwnLocks, OwnMode, Settled, Mode, Loads, LoadsSoon,
             Filing, Quiet, Safe, Decided, Takes, SameCounts, SameModes, Locked, Called, Same,
             Noted, Has, Plain
    <3> QED BY <2>6, <3>1, <3>2, <3>3, <3>4 DEF Obeys, Takes, CalmStep
  <2>7. CASE Takes(p, "stop_mount", s) /\ task'[p] = b /\ (Plain \/ Fault)
    <3>1. LockStep(p)
      BY <1>0, <1>5, <2>4, <2>7 DEF LockStep, OwnLocks, Holds, HoldsRun, HoldsLoad, HoldsGate,
             Takes, Went, Same, Has, Plain, Fault
    <3>2. CountStep(p)
      BY <1>0, <1>5, <2>4, <2>7 DEF CountStep, OwnLocks, OwnCounts, Flagged, Inside, Awake, Takes,
             Went, Same, Has, Plain, Fault
    <3>3. SessionStep(p) /\ Apart(p)
      BY <1>0, <1>5, <2>4, <2>7 DEF SessionStep, Apart, OwnLocks, OwnSession, Tenant, Keeps,
             Diagnoses, Alone2, HoldsRun, HoldsGate, OwnMode, Loads, LoadsSoon, Takes, Went, Same,
             Has, Plain, Fault
    <3>4. ModeStep(p)
      BY <1>0, <1>5, <2>4, <2>7 DEF ModeStep, OwnLocks, OwnMode, Settled, Mode, Loads, LoadsSoon,
             Filing, Quiet, Safe, Decided, Takes, Went, Same, Has, Plain, Fault
    <3> QED BY <2>7, <3>1, <3>2, <3>3, <3>4 DEF Obeys, Takes, CalmStep
  <2> QED BY <2>5, <2>6, <2>7
<1>6. CASE Step(p, "stop_run", Goto(p, "stop_end"), SetActive(s, FALSE)) /\ Plain
  <2>1. PICK y : y = SetActive(s, FALSE)
    OBVIOUS
  <2>2. y \in SharedType /\ ~y.Active /\ y.hw = s.hw
        /\ y.SessionActive = s.SessionActive /\ y.SleepInhibited = s.SleepInhibited
        /\ SameModes(y, s) /\ Locked(y, s.Running, s.LoadRequested, s.Gate, s.MountGate) /\ Balanced(y)
    BY <1>1, <1>6, <2>1, PlaysIs
  <2>3. PICK t : t = Goto(p, "stop_end")
    OBVIOUS
  <2>4. t \in TaskType /\ Went(t, task[p], "stop_end") /\ Same(t, task[p]) /\ (t.ok <=> task[p].ok)
    BY <1>1, <2>3, RecordIs, GotoIs DEF Procedures
  <2>5. Takes(p, "stop_run", y) /\ task'[p] = t
    BY <1>6, <1>1, <2>1, <2>2, <2>3, <2>4, TakesIs
  <2>6. LockStep(p)
    BY <1>0, <1>6, <2>2, <2>4, <2>5 DEF LockStep, OwnLocks, Holds, HoldsRun, HoldsLoad, HoldsGate,
           Takes, SameModes, Locked, Balanced, Went, Same, Has, Plain
  <2>7. CountStep(p)
    BY <1>0, <1>6, <2>2, <2>4, <2>5 DEF CountStep, OwnLocks, OwnCounts, Flagged, Inside, Awake,
           Takes, SameModes, Locked, Balanced, Went, Same, Has, Plain
  <2>8. SessionStep(p) /\ Apart(p)
    BY <1>0, <1>6, <2>2, <2>4, <2>5 DEF SessionStep, Apart, OwnLocks, OwnSession, Tenant, Keeps,
           Diagnoses, Alone2, HoldsRun, HoldsGate, OwnMode, Loads, LoadsSoon, Takes, SameModes,
           Locked, Balanced, Went, Same, Has, Plain
  <2>9. ModeStep(p)
    BY <1>0, <1>6, <2>2, <2>4, <2>5 DEF ModeStep, OwnLocks, OwnMode, Settled, Mode, Loads,
           LoadsSoon, Filing, Quiet, Safe, Decided, Takes, SameModes, Locked, Balanced, Went,
           Same, Has, Plain
  <2> QED BY <2>5, <2>6, <2>7, <2>8, <2>9 DEF Obeys, Takes, CalmStep
<1>7. CASE ~task[p].ok /\ Step(p, "stop_run", Goto(p, "stop_end"), s) /\ Plain
  <2>1. Takes(p, "stop_run", s) /\ Went(task'[p], task[p], "stop_end") /\ Same(task'[p], task[p]) /\ (task'[p].ok <=> task[p].ok)
    BY <1>7, <1>1, RecordIs, GotoIs, TakesIs DEF Procedures
  <2>2. LockStep(p)
    BY <1>0, <1>7, <2>1 DEF LockStep, OwnLocks, Holds, HoldsRun, HoldsLoad, HoldsGate, Takes,
           Went, Same, Has, Plain
  <2>3. CountStep(p)
    BY <1>0, <1>7, <2>1 DEF CountStep, OwnLocks, OwnCounts, Flagged, Inside, Awake, Takes, Went,
           Same, Has, Plain
  <2>4. SessionStep(p) /\ Apart(p)
    BY <1>0, <1>7, <2>1 DEF SessionStep, Apart, OwnLocks, OwnSession, Tenant, Keeps, Diagnoses,
           Alone2, HoldsRun, HoldsGate, OwnMode, Loads, LoadsSoon, Takes, Went, Same, Has, Plain
  <2>5. ModeStep(p)
    BY <1>0, <1>7, <2>1 DEF ModeStep, OwnLocks, OwnMode, Settled, Mode, Loads, LoadsSoon, Filing,
           Quiet, Safe, Decided, Takes, Went, Same, Has, Plain
  <2> QED BY <2>1, <2>2, <2>3, <2>4, <2>5 DEF Obeys, Takes, CalmStep
<1>8. CASE Step(p, "stop_run", Fail(p, "stop_end"), s) /\ Fault
  <2>1. Takes(p, "stop_run", s) /\ Went(task'[p], task[p], "stop_end") /\ Same(task'[p], task[p]) /\ ~task'[p].ok
    BY <1>8, <1>1, RecordIs, FailIs, TakesIs DEF Procedures
  <2>2. LockStep(p)
    BY <1>0, <1>8, <2>1 DEF LockStep, OwnLocks, Holds, HoldsRun, HoldsLoad, HoldsGate, Takes,
           Went, Same, Has, Plain, Fault
  <2>3. CountStep(p)
    BY <1>0, <1>8, <2>1 DEF CountStep, OwnLocks, OwnCounts, Flagged, Inside, Awake, Takes, Went,
           Same, Has, Plain, Fault
  <2>4. SessionStep(p) /\ Apart(p)
    BY <1>0, <1>8, <2>1 DEF SessionStep, Apart, OwnLocks, OwnSession, Tenant, Keeps, Diagnoses,
           Alone2, HoldsRun, HoldsGate, OwnMode, Loads, LoadsSoon, Takes, Went, Same, Has, Plain,
           Fault
  <2>5. ModeStep(p)
    BY <1>0, <1>8, <2>1 DEF ModeStep, OwnLocks, OwnMode, Settled, Mode, Loads, LoadsSoon, Filing,
           Quiet, Safe, Decided, Takes, Went, Same, Has, Plain, Fault
  <2> QED BY <2>1, <2>2, <2>3, <2>4, <2>5 DEF Obeys, Takes, CalmStep
<1>9. CASE /\ Step(p, "stop_end", [Back(p, "stop", task[p].ok) EXCEPT !.bulk = FALSE, !.card = FALSE],
                   [Released(p) EXCEPT !.VRunning = FALSE])
           /\ Plain
  <2>1. PICK y : y = [Released(p) EXCEPT !.VRunning = FALSE]
    OBVIOUS
  <2>2. y \in SharedType /\ Closes(p, y) /\ y.hw = s.hw
        /\ Locked(y, s.Running, s.LoadRequested, s.Gate, IF task[p].card THEN None ELSE s.MountGate)
    BY <1>1, <1>9, <2>1, UseEndedIs
  <2>3. PICK t : t = Back(p, "stop", task[p].ok)
    OBVIOUS
  <2>4. t \in TaskType /\ CameBack(t, task[p], "stop") /\ Same(t, task[p]) /\ (t.ok <=> task[p].ok)
    BY <1>1, <2>3, RecordIs, BackIs DEF Procedures
  <2>5. PICK u : u = [t EXCEPT !.bulk = FALSE, !.card = FALSE]
    OBVIOUS
  <2>6. Noted(u, t) /\ Has(u, t.arg, t.want, FALSE, FALSE, t.mine)
    BY <1>1, <2>4, <2>5, FreedIs
  <2>7. Takes(p, "stop_end", y) /\ task'[p] = u
    BY <1>9, <1>1, <2>1, <2>2, <2>3, <2>4, <2>5, <2>6, TakesIs DEF Noted
  <2>8. LockStep(p)
    BY <1>0, <1>9, <2>2, <2>4, <2>6, <2>7 DEF LockStep, OwnLocks, Holds, HoldsRun, HoldsLoad,
           HoldsGate, Takes, Locked, Closes, SameModes, Balanced, CameBack, Noted, Has, Same,
           Plain
  <2>9. CountStep(p)
    BY <1>0, <1>9, <2>2, <2>4, <2>6, <2>7 DEF CountStep, OwnLocks, OwnCounts, Flagged, Inside,
           Awake, Takes, Locked, Closes, SameModes, Balanced, CameBack, Noted, Has, Same, Plain
  <2>10. SessionStep(p) /\ Apart(p)
    BY <1>0, <1>9, <2>2, <2>4, <2>6, <2>7 DEF SessionStep, Apart, OwnLocks, OwnSession, Tenant,
           Keeps, Diagnoses, Alone2, HoldsRun, HoldsGate, OwnMode, Loads, LoadsSoon, Takes,
           Locked, Closes, SameModes, Balanced, CameBack, Noted, Has, Same, Plain
  <2>11. ModeStep(p)
    BY <1>0, <1>9, <2>2, <2>4, <2>6, <2>7 DEF ModeStep, OwnLocks, OwnMode, Settled, Mode, Loads,
           LoadsSoon, Filing, Quiet, Safe, Decided, Takes, Locked, Closes, SameModes, Balanced,
           CameBack, Noted, Has, Same, Plain
  <2> QED BY <2>7, <2>8, <2>9, <2>10, <2>11 DEF Obeys, Takes, CalmStep
<1> QED BY <1>1, <1>2, <1>3, <1>4, <1>5, <1>6, <1>7, <1>8, <1>9 DEF VirtualCart_Stop, Stop,
               StopMount, StopRun, StopEnd

(* KeepaliveTask looks whether there is something to do. *)
LEMMA WakeObeys ==
  ASSUME TypeOK, NEW p \in Tasks, p = "keepalive", Own(p), Wake(p)
  PROVE  Obeys(p) /\ CalmStep(p)
<1>0. OwnLocks(p) /\ OwnCounts(p) /\ OwnSession(p) /\ OwnMode(p)
  BY DEF Own
<1>1. s \in SharedType /\ s.hw \in {None, "pc", "sd", "probe", "backup"}
      /\ {"apply", "mode", "give"} \subseteq Labels
  BY DEF TypeOK, SharedType, Labels
<1>2. CASE s.Gate = None /\ Step(p, "idle", Goto(p, "apply"), [s EXCEPT !.Gate = p]) /\ Plain
  <2>1. PICK y : y = [s EXCEPT !.Gate = p]
    OBVIOUS
  <2>2. y \in SharedType /\ SameCounts(y, s) /\ SameModes(y, s) /\ y.hw = s.hw
        /\ Locked(y, s.Running, s.LoadRequested, p, s.MountGate)
    BY <1>1, <1>2, <2>1, GateSet
  <2>3. PICK t : t = Goto(p, "apply")
    OBVIOUS
  <2>4. t \in TaskType /\ Went(t, task[p], "apply") /\ Same(t, task[p]) /\ (t.ok <=> task[p].ok)
    BY <1>1, <2>3, RecordIs, GotoIs DEF Procedures
  <2>5. Takes(p, "idle", y) /\ task'[p] = t
    BY <1>2, <1>1, <2>1, <2>2, <2>3, <2>4, TakesIs
  <2>6. LockStep(p)
    BY <1>0, <1>2, <2>2, <2>4, <2>5 DEF LockStep, OwnLocks, Holds, HoldsRun, HoldsLoad, HoldsGate,
           Takes, SameCounts, SameModes, Locked, Went, Same, Has, Plain
  <2>7. CountStep(p)
    BY <1>0, <1>2, <2>2, <2>4, <2>5 DEF CountStep, OwnLocks, OwnCounts, Flagged, Inside, Awake,
           Takes, SameCounts, SameModes, Locked, Went, Same, Has, Plain
  <2>8. SessionStep(p) /\ Apart(p)
    BY <1>0, <1>2, <2>2, <2>4, <2>5 DEF SessionStep, Apart, OwnLocks, OwnSession, Tenant, Keeps,
           Diagnoses, Alone2, HoldsRun, HoldsGate, OwnMode, Loads, LoadsSoon, Takes, SameCounts,
           SameModes, Locked, Went, Same, Has, Plain
  <2>9. ModeStep(p)
    BY <1>0, <1>2, <2>2, <2>4, <2>5 DEF ModeStep, OwnLocks, OwnMode, Settled, Mode, Loads,
           LoadsSoon, Filing, Quiet, Safe, Decided, Takes, SameCounts, SameModes, Locked, Went,
           Same, Has, Plain
  <2> QED BY <2>5, <2>6, <2>7, <2>8, <2>9 DEF Obeys, Takes, CalmStep
<1>3. CASE /\ s.Gate = None /\ ~Pending /\ s.on
           /\ Step(p, "idle", Turning(p, Into(p, "mode", "give")), [s EXCEPT !.Gate = p])
           /\ Rising(p) /\ UNCHANGED <<left, meddled, intruded>>
  <2>1. s.on /\ s.ModeApplied /\ s.AppliedEnabled
    BY <1>1, <1>3 DEF Pending, SharedType
  <2>2. unseen' = unseen
    BY <1>3 DEF Rising
  <2>3. PICK y : y = [s EXCEPT !.Gate = p]
    OBVIOUS
  <2>4. y \in SharedType /\ SameCounts(y, s) /\ SameModes(y, s) /\ y.hw = s.hw
        /\ Locked(y, s.Running, s.LoadRequested, p, s.MountGate)
    BY <1>1, <1>3, <2>1, <2>2, <2>3, GateSet
  <2>5. PICK t : t = Into(p, "mode", "give")
    OBVIOUS
  <2>6. t \in TaskType /\ Called(t, task[p], "mode", "give") /\ Same(t, task[p]) /\ (t.ok <=> task[p].ok)
    BY <1>1, <2>5, RecordIs, IntoIs DEF Procedures
  <2>7. PICK u : u = [t EXCEPT !.arg = TRUE, !.want = TRUE]
    OBVIOUS
  <2>8. Noted(u, t) /\ Has(u, TRUE, TRUE, t.bulk, t.card, t.mine)
    BY <1>1, <2>6, <2>7, TurnedIs
  <2>9. Takes(p, "idle", y) /\ task'[p] = u
    BY <1>3, <1>1, <2>1, <2>2, <2>3, <2>4, <2>5, <2>6, <2>7, <2>8, TakesIs DEF Noted, Turning
  <2>10. LockStep(p)
    BY <1>0, <1>3, <2>1, <2>2, <2>4, <2>6, <2>8, <2>9 DEF LockStep, OwnLocks, Holds, HoldsRun,
           HoldsLoad, HoldsGate, Takes, SameCounts, SameModes, Locked, Called, Noted, Has, Same
  <2>11. CountStep(p)
    BY <1>0, <1>3, <2>1, <2>2, <2>4, <2>6, <2>8, <2>9 DEF CountStep, OwnLocks, OwnCounts, Flagged,
           Inside, Awake, Takes, SameCounts, SameModes, Locked, Called, Noted, Has, Same
  <2>12. SessionStep(p) /\ Apart(p)
    BY <1>0, <1>3, <2>1, <2>2, <2>4, <2>6, <2>8, <2>9 DEF SessionStep, Apart, OwnLocks,
           OwnSession, Tenant, Keeps, Diagnoses, Alone2, HoldsRun, HoldsGate, OwnMode, Loads,
           LoadsSoon, Takes, SameCounts, SameModes, Locked, Called, Noted, Has, Same
  <2>13. ModeStep(p)
    <3>1. unseen = {} => Safe(s, Loading, LoadingSoon)
      BY <1>0, <2>1 DEF OwnMode, Safe, Decided, Loads
    <3>2. task'[p].at = "mode" /\ task'[p].arg /\ task'[p].ret["mode"] = "give" /\ p = "keepalive"
      BY <1>3, <2>6, <2>8, <2>9 DEF Takes, Called, Noted, Has
    <3>3. ~Enables(task'[p])
      BY <1>0, <1>3, <2>6, <2>8, <2>9 DEF OwnLocks, Takes, Called, Noted
    <3>4. /\ Has(task'[p], TRUE, TRUE, t.bulk, t.card, t.mine)
          /\ s'.on /\ SameModes(s', s) /\ s'.Active = s.Active
      BY <2>1, <2>4, <2>8, <2>9 DEF Takes, SameModes, SameCounts
    <3>5. ~UpTo(task'[p], {"applied"})
      BY <1>0, <1>3, <2>6, <2>8, <2>9 DEF OwnLocks, Takes, Called, Noted
    <3> QED BY <2>2, <3>1, <3>2, <3>3, <3>4, <3>5 DEF ModeStep, Settled, Mode, Loads, LoadsSoon,
                   Filing, Quiet, Safe, Decided, SameModes, Has
  <2> QED BY <2>9, <2>10, <2>11, <2>12, <2>13 DEF Obeys, Takes, CalmStep
<1> QED BY <1>1, <1>2, <1>3 DEF Wake

(* ApplyModeLocked, up to where it notes the result, and the end of the task's period. *)
LEMMA ApplyObeys ==
  ASSUME TypeOK, NEW p \in Tasks, p = "keepalive", Own(p), Apply(p) \/ Give(p)
  PROVE  Obeys(p) /\ CalmStep(p)
<1>0. OwnLocks(p) /\ OwnCounts(p) /\ OwnSession(p) /\ OwnMode(p)
  BY DEF Own
<1>1. s \in SharedType /\ s.hw \in {None, "pc", "sd", "probe", "backup"}
      /\ {"enable", "applied", "mode"} \subseteq Labels
  BY DEF TypeOK, SharedType, Labels
<1>2. CASE /\ s.on
           /\ Step(p, "apply", Turning(p, Into(p, "enable", "applied")), s)
           /\ Rising(p) /\ UNCHANGED <<left, meddled, intruded>>
  <2>1. PICK t : t = Into(p, "enable", "applied")
    OBVIOUS
  <2>2. t \in TaskType /\ Called(t, task[p], "enable", "applied") /\ Same(t, task[p]) /\ (t.ok <=> task[p].ok)
    BY <1>1, <2>1, RecordIs, IntoIs DEF Procedures
  <2>3. PICK u : u = [t EXCEPT !.arg = TRUE, !.want = TRUE]
    OBVIOUS
  <2>4. Noted(u, t) /\ Has(u, TRUE, TRUE, t.bulk, t.card, t.mine)
    BY <1>1, <2>2, <2>3, TurnedIs
  <2>5. Takes(p, "apply", s) /\ task'[p] = u
    BY <1>2, <1>1, <2>1, <2>2, <2>3, <2>4, TakesIs DEF Noted, Turning
  <2>6. LockStep(p)
    BY <1>0, <1>2, <2>2, <2>4, <2>5 DEF LockStep, OwnLocks, Holds, HoldsRun, HoldsLoad, HoldsGate,
           Takes, Called, Noted, Has, Same, Rising
  <2>7. CountStep(p)
    BY <1>0, <1>2, <2>2, <2>4, <2>5 DEF CountStep, OwnLocks, OwnCounts, Flagged, Inside, Awake,
           Takes, Called, Noted, Has, Same, Rising
  <2>8. SessionStep(p) /\ Apart(p)
    BY <1>0, <1>2, <2>2, <2>4, <2>5 DEF SessionStep, Apart, OwnLocks, OwnSession, Tenant, Keeps,
           Diagnoses, Alone2, HoldsRun, HoldsGate, OwnMode, Loads, LoadsSoon, Takes, Called,
           Noted, Has, Same, Rising
  <2>9. ModeStep(p)
    BY <1>0, <1>2, <2>2, <2>4, <2>5 DEF ModeStep, OwnLocks, OwnMode, Settled, Mode, Loads,
           LoadsSoon, Filing, Quiet, Safe, Decided, Takes, Called, Noted, Has, Same, Rising
  <2> QED BY <2>5, <2>6, <2>7, <2>8, <2>9 DEF Obeys, Takes, CalmStep
<1>3. CASE /\ ~s.on
           /\ Step(p, "apply", [Into(p, "mode", "applied") EXCEPT !.arg = FALSE], s)
           /\ Plain
  <2>1. PICK t : t = Into(p, "mode", "applied")
    OBVIOUS
  <2>2. t \in TaskType /\ Called(t, task[p], "mode", "applied") /\ Same(t, task[p]) /\ (t.ok <=> task[p].ok)
    BY <1>1, <2>1, RecordIs, IntoIs DEF Procedures
  <2>3. PICK u : u = [t EXCEPT !.arg = FALSE]
    OBVIOUS
  <2>4. Noted(u, t) /\ Has(u, FALSE, t.want, t.bulk, t.card, t.mine)
    BY <1>1, <2>2, <2>3, ArgIs
  <2>5. Takes(p, "apply", s) /\ task'[p] = u
    BY <1>3, <1>1, <2>1, <2>2, <2>3, <2>4, TakesIs DEF Noted
  <2>6. LockStep(p)
    BY <1>0, <1>3, <2>2, <2>4, <2>5 DEF LockStep, OwnLocks, Holds, HoldsRun, HoldsLoad, HoldsGate,
           Takes, Called, Noted, Has, Same, Plain
  <2>7. CountStep(p)
    BY <1>0, <1>3, <2>2, <2>4, <2>5 DEF CountStep, OwnLocks, OwnCounts, Flagged, Inside, Awake,
           Takes, Called, Noted, Has, Same, Plain
  <2>8. SessionStep(p) /\ Apart(p)
    BY <1>0, <1>3, <2>2, <2>4, <2>5 DEF SessionStep, Apart, OwnLocks, OwnSession, Tenant, Keeps,
           Diagnoses, Alone2, HoldsRun, HoldsGate, OwnMode, Loads, LoadsSoon, Takes, Called,
           Noted, Has, Same, Plain
  <2>9. ModeStep(p)
    BY <1>0, <1>3, <2>2, <2>4, <2>5 DEF ModeStep, OwnLocks, OwnMode, Settled, Mode, Loads,
           LoadsSoon, Filing, Quiet, Safe, Decided, Takes, Called, Noted, Has, Same, Plain
  <2> QED BY <2>5, <2>6, <2>7, <2>8, <2>9 DEF Obeys, Takes, CalmStep
<1>4. CASE /\ ~s.on
           /\ Step(p, "apply", [Good(p, "applied") EXCEPT !.arg = FALSE], s)
           /\ Plain
  <2>1. PICK t : t = Good(p, "applied")
    OBVIOUS
  <2>2. t \in TaskType /\ Went(t, task[p], "applied") /\ Same(t, task[p]) /\ t.ok
    BY <1>1, <2>1, RecordIs, GoodIs DEF Procedures
  <2>3. PICK u : u = [t EXCEPT !.arg = FALSE]
    OBVIOUS
  <2>4. Noted(u, t) /\ Has(u, FALSE, t.want, t.bulk, t.card, t.mine)
    BY <1>1, <2>2, <2>3, ArgIs
  <2>5. Takes(p, "apply", s) /\ task'[p] = u
    BY <1>4, <1>1, <2>1, <2>2, <2>3, <2>4, TakesIs DEF Noted
  <2>6. LockStep(p)
    BY <1>0, <1>4, <2>2, <2>4, <2>5 DEF LockStep, OwnLocks, Holds, HoldsRun, HoldsLoad, HoldsGate,
           Takes, Went, Noted, Has, Same, Plain
  <2>7. CountStep(p)
    BY <1>0, <1>4, <2>2, <2>4, <2>5 DEF CountStep, OwnLocks, OwnCounts, Flagged, Inside, Awake,
           Takes, Went, Noted, Has, Same, Plain
  <2>8. SessionStep(p) /\ Apart(p)
    BY <1>0, <1>4, <2>2, <2>4, <2>5 DEF SessionStep, Apart, OwnLocks, OwnSession, Tenant, Keeps,
           Diagnoses, Alone2, HoldsRun, HoldsGate, OwnMode, Loads, LoadsSoon, Takes, Went, Noted,
           Has, Same, Plain
  <2>9. ModeStep(p)
    BY <1>0, <1>4, <2>2, <2>4, <2>5 DEF ModeStep, OwnLocks, OwnMode, Settled, Mode, Loads,
           LoadsSoon, Filing, Quiet, Safe, Decided, Takes, Went, Noted, Has, Same, Plain
  <2> QED BY <2>5, <2>6, <2>7, <2>8, <2>9 DEF Obeys, Takes, CalmStep
<1>5. CASE Step(p, "give", Rest, [s EXCEPT !.Gate = None]) /\ Plain
  <2>1. PICK y : y = [s EXCEPT !.Gate = None]
    OBVIOUS
  <2>2. y \in SharedType /\ SameCounts(y, s) /\ SameModes(y, s) /\ y.hw = s.hw
        /\ Locked(y, s.Running, s.LoadRequested, None, s.MountGate)
    BY <1>1, <1>5, <2>1, GateSet
  <2>3. PICK t : t = Rest
    OBVIOUS
  <2>4. t \in TaskType /\ Rests(t)
    BY <1>1, <2>3, RecordIs, RestIs DEF Procedures
  <2>5. Takes(p, "give", y) /\ task'[p] = t
    BY <1>5, <1>1, <2>1, <2>2, <2>3, <2>4, TakesIs
  <2>6. LockStep(p)
    BY <1>0, <1>5, <2>2, <2>4, <2>5 DEF LockStep, OwnLocks, Holds, HoldsRun, HoldsLoad, HoldsGate,
           Takes, SameCounts, SameModes, Locked, Rests, Plain
  <2>7. CountStep(p)
    BY <1>0, <1>5, <2>2, <2>4, <2>5 DEF CountStep, OwnLocks, OwnCounts, Flagged, Inside, Awake,
           Takes, SameCounts, SameModes, Locked, Rests, Plain
  <2>8. SessionStep(p) /\ Apart(p)
    BY <1>0, <1>5, <2>2, <2>4, <2>5 DEF SessionStep, Apart, OwnLocks, OwnSession, Tenant, Keeps,
           Diagnoses, Alone2, HoldsRun, HoldsGate, OwnMode, Loads, LoadsSoon, Takes, SameCounts,
           SameModes, Locked, Rests, Plain
  <2>9. ModeStep(p)
    BY <1>0, <1>5, <2>2, <2>4, <2>5 DEF ModeStep, OwnLocks, OwnMode, Settled, Mode, Loads,
           LoadsSoon, Filing, Quiet, Safe, Decided, Takes, SameCounts, SameModes, Locked, Rests,
           Plain
  <2> QED BY <2>5, <2>6, <2>7, <2>8, <2>9 DEF Obeys, Takes, CalmStep
<1> QED BY <1>1, <1>2, <1>3, <1>4, <1>5 DEF Apply, Give

(* ApplyModeLocked notes the result. *)
LEMMA AppliedObeys ==
  ASSUME TypeOK, NEW p \in Tasks, p = "keepalive", Own(p), Applied(p)
  PROVE  Obeys(p)
<1>0. OwnLocks(p) /\ OwnCounts(p) /\ OwnSession(p) /\ OwnMode(p)
  BY DEF Own
<1>1. s \in SharedType /\ s.hw \in {None, "pc", "sd", "probe", "backup"}
      /\ {"give"} \subseteq Labels
  BY DEF TypeOK, SharedType, Labels
<1>2. CASE Step(p, "applied", Goto(p, "give"),
                Rested([s EXCEPT !.ModeApplied = task[p].ok,
                           !.AppliedEnabled = task[p].arg], p)) /\ Plain
  <2>1. PICK y : y = Rested([s EXCEPT !.ModeApplied = task[p].ok,
                           !.AppliedEnabled = task[p].arg], p)
    OBVIOUS
  <2>2. y \in SharedType /\ y.hw = s.hw /\ y.on = s.on
        /\ y.Active = s.Active /\ y.SessionActive = s.SessionActive
        /\ y.PCModeActive = s.PCModeActive
        /\ y.ModeApplied = task[p].ok /\ y.AppliedEnabled = task[p].arg
        /\ (y.SleepInhibited <=> s.SleepInhibited /\ (task[p].arg \/ ~task[p].ok))
        /\ Locked(y, s.Running, s.LoadRequested, s.Gate, s.MountGate) /\ Balanced(y)
    BY <1>1, <1>2, <2>1, AppliedIs
  <2>3. PICK t : t = Goto(p, "give")
    OBVIOUS
  <2>4. t \in TaskType /\ Went(t, task[p], "give") /\ Same(t, task[p]) /\ (t.ok <=> task[p].ok)
    BY <1>1, <2>3, RecordIs, GotoIs DEF Procedures
  <2>5. Takes(p, "applied", y) /\ task'[p] = t
    BY <1>2, <1>1, <2>1, <2>2, <2>3, <2>4, TakesIs
  <2>6. LockStep(p)
    BY <1>0, <1>2, <2>2, <2>4, <2>5 DEF LockStep, OwnLocks, Holds, HoldsRun, HoldsLoad, HoldsGate,
           Takes, Locked, Balanced, Went, Same, Has, Plain
  <2>7. CountStep(p)
    BY <1>0, <1>2, <2>2, <2>4, <2>5 DEF CountStep, OwnLocks, OwnCounts, Flagged, Inside, Awake,
           Takes, Locked, Balanced, Went, Same, Has, Plain
  <2>8. SessionStep(p)
    BY <1>0, <1>2, <2>2, <2>4, <2>5 DEF SessionStep, OwnLocks, OwnSession, Tenant, Keeps,
           Diagnoses, Alone2, HoldsRun, HoldsGate, Takes, Locked, Balanced, Went, Same, Has, Plain
  <2> QED BY <2>5, <2>6, <2>7, <2>8 DEF Obeys, Takes
<1> QED BY <1>2 DEF Applied

(* CartBackup_Start and VirtualCart_Start, up to where their task exists. *)
LEMMA AskObeys ==
  ASSUME TypeOK, NEW p \in Tasks, p \in {"menu", "console"}, Own(p), 
         \/ /\ Step(p, "backup", IF task[p].ok /\ ~s.Running THEN Goto(p, "backup_run")
                                 ELSE Rest,
                    [s EXCEPT !.Running = @ \/ task[p].ok])
            /\ Plain
         \/ Step(p, "backup_run", Rest, [s EXCEPT !.Running = FALSE]) /\ Fault
         \/ /\ Step(p, "load", IF task[p].ok /\ ~s.LoadRequested
                               THEN Into(p, "off", "load_run") ELSE Rest,
                    [s EXCEPT !.LoadRequested = @ \/ task[p].ok])
            /\ Plain
         \/ Step(p, "load_run", Rest, [s EXCEPT !.LoadRequested = FALSE]) /\ (Plain \/ Fault)
  PROVE  Obeys(p) /\ CalmStep(p)
<1>0. OwnLocks(p) /\ OwnCounts(p) /\ OwnSession(p) /\ OwnMode(p)
  BY DEF Own
<1>1. s \in SharedType /\ s.hw \in {None, "pc", "sd", "probe", "backup"}
      /\ {"backup_run", "off", "load_run"} \subseteq Labels
  BY DEF TypeOK, SharedType, Labels
<1>2. CASE /\ task[p].ok /\ ~s.Running
           /\ Step(p, "backup", Goto(p, "backup_run"), [s EXCEPT !.Running = TRUE])
           /\ Plain
  <2>1. PICK y : y = [s EXCEPT !.Running = TRUE]
    OBVIOUS
  <2>2. y \in SharedType /\ SameCounts(y, s) /\ SameModes(y, s) /\ y.hw = s.hw
        /\ Locked(y, TRUE, s.LoadRequested, s.Gate, s.MountGate)
    BY <1>1, <1>2, <2>1, RunningSet
  <2>3. PICK t : t = Goto(p, "backup_run")
    OBVIOUS
  <2>4. t \in TaskType /\ Went(t, task[p], "backup_run") /\ Same(t, task[p]) /\ (t.ok <=> task[p].ok)
    BY <1>1, <2>3, RecordIs, GotoIs DEF Procedures
  <2>5. Takes(p, "backup", y) /\ task'[p] = t
    BY <1>2, <1>1, <2>1, <2>2, <2>3, <2>4, TakesIs
  <2>6. LockStep(p)
    BY <1>0, <1>2, <2>2, <2>4, <2>5 DEF LockStep, OwnLocks, Holds, HoldsRun, HoldsLoad, HoldsGate,
           Takes, SameCounts, SameModes, Locked, Went, Same, Has, Plain
  <2>7. CountStep(p)
    BY <1>0, <1>2, <2>2, <2>4, <2>5 DEF CountStep, OwnLocks, OwnCounts, Flagged, Inside, Awake,
           Takes, SameCounts, SameModes, Locked, Went, Same, Has, Plain
  <2>8. SessionStep(p) /\ Apart(p)
    BY <1>0, <1>2, <2>2, <2>4, <2>5 DEF SessionStep, Apart, OwnLocks, OwnSession, Tenant, Keeps,
           Diagnoses, Alone2, HoldsRun, HoldsGate, OwnMode, Loads, LoadsSoon, Takes, SameCounts,
           SameModes, Locked, Went, Same, Has, Plain
  <2>9. ModeStep(p)
    BY <1>0, <1>2, <2>2, <2>4, <2>5 DEF ModeStep, OwnLocks, OwnMode, Settled, Mode, Loads,
           LoadsSoon, Filing, Quiet, Safe, Decided, Takes, SameCounts, SameModes, Locked, Went,
           Same, Has, Plain
  <2> QED BY <2>5, <2>6, <2>7, <2>8, <2>9 DEF Obeys, Takes, CalmStep
<1>3. CASE /\ ~(task[p].ok /\ ~s.Running)
           /\ Step(p, "backup", Rest, [s EXCEPT !.Running = s.Running \/ task[p].ok])
           /\ Plain
  <2>1. (s.Running \/ task[p].ok) \in BOOLEAN
    BY <1>1, RecordIs DEF SharedType
  <2>2. PICK y : y = [s EXCEPT !.Running = s.Running \/ task[p].ok]
    OBVIOUS
  <2>3. y \in SharedType /\ SameCounts(y, s) /\ SameModes(y, s) /\ y.hw = s.hw
        /\ Locked(y, s.Running \/ task[p].ok, s.LoadRequested, s.Gate, s.MountGate)
    BY <1>1, <1>3, <2>1, <2>2, RunningSet
  <2>4. PICK t : t = Rest
    OBVIOUS
  <2>5. t \in TaskType /\ Rests(t)
    BY <1>1, <2>4, RecordIs, RestIs DEF Procedures
  <2>6. Takes(p, "backup", y) /\ task'[p] = t
    BY <1>3, <1>1, <2>1, <2>2, <2>3, <2>4, <2>5, TakesIs
  <2>7. LockStep(p)
    BY <1>0, <1>3, <2>1, <2>3, <2>5, <2>6 DEF LockStep, OwnLocks, Holds, HoldsRun, HoldsLoad,
           HoldsGate, Takes, SameCounts, SameModes, Locked, Rests, Plain
  <2>8. CountStep(p)
    BY <1>0, <1>3, <2>1, <2>3, <2>5, <2>6 DEF CountStep, OwnLocks, OwnCounts, Flagged, Inside,
           Awake, Takes, SameCounts, SameModes, Locked, Rests, Plain
  <2>9. SessionStep(p) /\ Apart(p)
    BY <1>0, <1>3, <2>1, <2>3, <2>5, <2>6 DEF SessionStep, Apart, OwnLocks, OwnSession, Tenant,
           Keeps, Diagnoses, Alone2, HoldsRun, HoldsGate, OwnMode, Loads, LoadsSoon, Takes,
           SameCounts, SameModes, Locked, Rests, Plain
  <2>10. ModeStep(p)
    BY <1>0, <1>3, <2>1, <2>3, <2>5, <2>6 DEF ModeStep, OwnLocks, OwnMode, Settled, Mode, Loads,
           LoadsSoon, Filing, Quiet, Safe, Decided, Takes, SameCounts, SameModes, Locked, Rests,
           Plain
  <2> QED BY <2>6, <2>7, <2>8, <2>9, <2>10 DEF Obeys, Takes, CalmStep
<1>4. CASE Step(p, "backup_run", Rest, [s EXCEPT !.Running = FALSE]) /\ Fault
  <2>1. PICK y : y = [s EXCEPT !.Running = FALSE]
    OBVIOUS
  <2>2. y \in SharedType /\ SameCounts(y, s) /\ SameModes(y, s) /\ y.hw = s.hw
        /\ Locked(y, FALSE, s.LoadRequested, s.Gate, s.MountGate)
    BY <1>1, <1>4, <2>1, RunningSet
  <2>3. PICK t : t = Rest
    OBVIOUS
  <2>4. t \in TaskType /\ Rests(t)
    BY <1>1, <2>3, RecordIs, RestIs DEF Procedures
  <2>5. Takes(p, "backup_run", y) /\ task'[p] = t
    BY <1>4, <1>1, <2>1, <2>2, <2>3, <2>4, TakesIs
  <2>6. LockStep(p)
    BY <1>0, <1>4, <2>2, <2>4, <2>5 DEF LockStep, OwnLocks, Holds, HoldsRun, HoldsLoad, HoldsGate,
           Takes, SameCounts, SameModes, Locked, Rests, Plain, Fault
  <2>7. CountStep(p)
    BY <1>0, <1>4, <2>2, <2>4, <2>5 DEF CountStep, OwnLocks, OwnCounts, Flagged, Inside, Awake,
           Takes, SameCounts, SameModes, Locked, Rests, Plain, Fault
  <2>8. SessionStep(p) /\ Apart(p)
    BY <1>0, <1>4, <2>2, <2>4, <2>5 DEF SessionStep, Apart, OwnLocks, OwnSession, Tenant, Keeps,
           Diagnoses, Alone2, HoldsRun, HoldsGate, OwnMode, Loads, LoadsSoon, Takes, SameCounts,
           SameModes, Locked, Rests, Plain, Fault
  <2>9. ModeStep(p)
    BY <1>0, <1>4, <2>2, <2>4, <2>5 DEF ModeStep, OwnLocks, OwnMode, Settled, Mode, Loads,
           LoadsSoon, Filing, Quiet, Safe, Decided, Takes, SameCounts, SameModes, Locked, Rests,
           Plain, Fault
  <2> QED BY <2>5, <2>6, <2>7, <2>8, <2>9 DEF Obeys, Takes, CalmStep
<1>5. CASE /\ task[p].ok /\ ~s.LoadRequested
           /\ Step(p, "load", Into(p, "off", "load_run"),
                   [s EXCEPT !.LoadRequested = TRUE])
           /\ Plain
  <2>1. PICK y : y = [s EXCEPT !.LoadRequested = TRUE]
    OBVIOUS
  <2>2. y \in SharedType /\ SameCounts(y, s) /\ SameModes(y, s) /\ y.hw = s.hw
        /\ Locked(y, s.Running, TRUE, s.Gate, s.MountGate)
    BY <1>1, <1>5, <2>1, LoadSet
  <2>3. PICK t : t = Into(p, "off", "load_run")
    OBVIOUS
  <2>4. t \in TaskType /\ Called(t, task[p], "off", "load_run") /\ Same(t, task[p]) /\ (t.ok <=> task[p].ok)
    BY <1>1, <2>3, RecordIs, IntoIs DEF Procedures
  <2>5. Takes(p, "load", y) /\ task'[p] = t
    BY <1>5, <1>1, <2>1, <2>2, <2>3, <2>4, TakesIs
  <2>6. LockStep(p)
    BY <1>0, <1>5, <2>2, <2>4, <2>5 DEF LockStep, OwnLocks, Holds, HoldsRun, HoldsLoad, HoldsGate,
           Takes, SameCounts, SameModes, Locked, Called, Same, Has, Plain
  <2>7. CountStep(p)
    BY <1>0, <1>5, <2>2, <2>4, <2>5 DEF CountStep, OwnLocks, OwnCounts, Flagged, Inside, Awake,
           Takes, SameCounts, SameModes, Locked, Called, Same, Has, Plain
  <2>8. SessionStep(p) /\ Apart(p)
    BY <1>0, <1>5, <2>2, <2>4, <2>5 DEF SessionStep, Apart, OwnLocks, OwnSession, Tenant, Keeps,
           Diagnoses, Alone2, HoldsRun, HoldsGate, OwnMode, Loads, LoadsSoon, Takes, SameCounts,
           SameModes, Locked, Called, Same, Has, Plain
  <2>9. ModeStep(p)
    BY <1>0, <1>5, <2>2, <2>4, <2>5 DEF ModeStep, OwnLocks, OwnMode, Settled, Mode, Loads,
           LoadsSoon, Filing, Quiet, Safe, Decided, Takes, SameCounts, SameModes, Locked, Called,
           Same, Has, Plain
  <2> QED BY <2>5, <2>6, <2>7, <2>8, <2>9 DEF Obeys, Takes, CalmStep
<1>6. CASE /\ ~(task[p].ok /\ ~s.LoadRequested)
           /\ Step(p, "load", Rest, [s EXCEPT !.LoadRequested = s.LoadRequested \/ task[p].ok])
           /\ Plain
  <2>1. (s.LoadRequested \/ task[p].ok) \in BOOLEAN
    BY <1>1, RecordIs DEF SharedType
  <2>2. PICK y : y = [s EXCEPT !.LoadRequested = s.LoadRequested \/ task[p].ok]
    OBVIOUS
  <2>3. y \in SharedType /\ SameCounts(y, s) /\ SameModes(y, s) /\ y.hw = s.hw
        /\ Locked(y, s.Running, s.LoadRequested \/ task[p].ok, s.Gate, s.MountGate)
    BY <1>1, <1>6, <2>1, <2>2, LoadSet
  <2>4. PICK t : t = Rest
    OBVIOUS
  <2>5. t \in TaskType /\ Rests(t)
    BY <1>1, <2>4, RecordIs, RestIs DEF Procedures
  <2>6. Takes(p, "load", y) /\ task'[p] = t
    BY <1>6, <1>1, <2>1, <2>2, <2>3, <2>4, <2>5, TakesIs
  <2>7. LockStep(p)
    BY <1>0, <1>6, <2>1, <2>3, <2>5, <2>6 DEF LockStep, OwnLocks, Holds, HoldsRun, HoldsLoad,
           HoldsGate, Takes, SameCounts, SameModes, Locked, Rests, Plain
  <2>8. CountStep(p)
    BY <1>0, <1>6, <2>1, <2>3, <2>5, <2>6 DEF CountStep, OwnLocks, OwnCounts, Flagged, Inside,
           Awake, Takes, SameCounts, SameModes, Locked, Rests, Plain
  <2>9. SessionStep(p) /\ Apart(p)
    BY <1>0, <1>6, <2>1, <2>3, <2>5, <2>6 DEF SessionStep, Apart, OwnLocks, OwnSession, Tenant,
           Keeps, Diagnoses, Alone2, HoldsRun, HoldsGate, OwnMode, Loads, LoadsSoon, Takes,
           SameCounts, SameModes, Locked, Rests, Plain
  <2>10. ModeStep(p)
    BY <1>0, <1>6, <2>1, <2>3, <2>5, <2>6 DEF ModeStep, OwnLocks, OwnMode, Settled, Mode, Loads,
           LoadsSoon, Filing, Quiet, Safe, Decided, Takes, SameCounts, SameModes, Locked, Rests,
           Plain
  <2> QED BY <2>6, <2>7, <2>8, <2>9, <2>10 DEF Obeys, Takes, CalmStep
<1>7. CASE Step(p, "load_run", Rest, [s EXCEPT !.LoadRequested = FALSE]) /\ (Plain \/ Fault)
  <2>1. PICK y : y = [s EXCEPT !.LoadRequested = FALSE]
    OBVIOUS
  <2>2. y \in SharedType /\ SameCounts(y, s) /\ SameModes(y, s) /\ y.hw = s.hw
        /\ Locked(y, s.Running, FALSE, s.Gate, s.MountGate)
    BY <1>1, <1>7, <2>1, LoadSet
  <2>3. PICK t : t = Rest
    OBVIOUS
  <2>4. t \in TaskType /\ Rests(t)
    BY <1>1, <2>3, RecordIs, RestIs DEF Procedures
  <2>5. Takes(p, "load_run", y) /\ task'[p] = t
    BY <1>7, <1>1, <2>1, <2>2, <2>3, <2>4, TakesIs
  <2>6. LockStep(p)
    BY <1>0, <1>7, <2>2, <2>4, <2>5 DEF LockStep, OwnLocks, Holds, HoldsRun, HoldsLoad, HoldsGate,
           Takes, SameCounts, SameModes, Locked, Rests, Plain, Fault
  <2>7. CountStep(p)
    BY <1>0, <1>7, <2>2, <2>4, <2>5 DEF CountStep, OwnLocks, OwnCounts, Flagged, Inside, Awake,
           Takes, SameCounts, SameModes, Locked, Rests, Plain, Fault
  <2>8. SessionStep(p) /\ Apart(p)
    BY <1>0, <1>7, <2>2, <2>4, <2>5 DEF SessionStep, Apart, OwnLocks, OwnSession, Tenant, Keeps,
           Diagnoses, Alone2, HoldsRun, HoldsGate, OwnMode, Loads, LoadsSoon, Takes, SameCounts,
           SameModes, Locked, Rests, Plain, Fault
  <2>9. ModeStep(p)
    BY <1>0, <1>7, <2>2, <2>4, <2>5 DEF ModeStep, OwnLocks, OwnMode, Settled, Mode, Loads,
           LoadsSoon, Filing, Quiet, Safe, Decided, Takes, SameCounts, SameModes, Locked, Rests,
           Plain, Fault
  <2> QED BY <2>5, <2>6, <2>7, <2>8, <2>9 DEF Obeys, Takes, CalmStep
<1> QED BY <1>1, <1>2, <1>3, <1>4, <1>5, <1>6, <1>7

(* BackupTask *)
LEMMA BackupStepsObey ==
  ASSUME TypeOK, NEW p \in Tasks, p = "backup", Own(p), BackupSteps(p)
  PROVE  Obeys(p) /\ CalmStep(p)
<1>0. OwnLocks(p) /\ OwnCounts(p) /\ OwnSession(p) /\ OwnMode(p)
  BY DEF Own
<1>1. s \in SharedType /\ s.hw \in {None, "pc", "sd", "probe", "backup"}
      /\ {"mount", "enter", "leave", "copy", "begin"} \subseteq Labels
  BY DEF TypeOK, SharedType, Labels
<1>2. CASE Step(p, "started", Goto(p, "mount"), Inhibit(s)) /\ Plain
  <2>1. PICK y : y = Inhibit(s)
    OBVIOUS
  <2>2. y \in SharedType /\ y.hw = s.hw /\ y.Active = s.Active
        /\ y.SessionActive = s.SessionActive /\ y.SleepInhibited = s.SleepInhibited
        /\ SameModes(y, s) /\ Locked(y, s.Running, s.LoadRequested, s.Gate, s.MountGate)
        /\ y.SleepInhibitCount = s.SleepInhibitCount + 1
    BY <1>1, <1>2, <2>1, BackupBegunIs
  <2>3. PICK t : t = Goto(p, "mount")
    OBVIOUS
  <2>4. t \in TaskType /\ Went(t, task[p], "mount") /\ Same(t, task[p]) /\ (t.ok <=> task[p].ok)
    BY <1>1, <2>3, RecordIs, GotoIs DEF Procedures
  <2>5. Takes(p, "started", y) /\ task'[p] = t
    BY <1>2, <1>1, <2>1, <2>2, <2>3, <2>4, TakesIs
  <2>6. LockStep(p)
    BY <1>0, <1>2, <2>2, <2>4, <2>5 DEF LockStep, OwnLocks, Holds, HoldsRun, HoldsLoad, HoldsGate,
           Takes, SameModes, Locked, Went, Same, Has, Plain
  <2>7. One(Inside(p, task[p])) = 0 /\ One(Inside(p, task'[p])) = 1
    BY <1>0, <1>2, <2>2, <2>4, <2>5 DEF OwnLocks, Inside, One, Takes, SameModes, Locked, Went,
           Same, Has, Plain
  <2>8. CountStep(p)
    <3>1. /\ s'.SessionActive => task'[p].bulk \/ (s.SessionActive /\ ~task[p].bulk)
          /\ s'.SleepInhibited = s.SleepInhibited /\ SameModes(s', s)
          /\ (meddled' <=> meddled) /\ p # "keepalive"
      BY <1>0, <1>2, <2>2, <2>4, <2>5 DEF OwnLocks, Takes, SameModes, Locked, Went, Same, Has, Plain
    <3>2. /\ s.SleepInhibitCount \in Nat /\ s'.SleepInhibitCount \in Nat
          /\ Flagged(s) \in Nat /\ Flagged(s') \in Nat /\ Flagged(s') = Flagged(s)
      BY <1>1, <1>2, <2>2, <2>4, <2>5 DEF Takes, SharedType, Flagged, One
    <3>3. ~meddled => s'.SleepInhibitCount + Flagged(s) + 0 = s.SleepInhibitCount + Flagged(s') + 1
      BY <3>2, <1>2, <2>2, <2>4, <2>5 DEF Takes
    <3> QED BY <2>7, <3>1, <3>3 DEF CountStep, SameModes
  <2>9. SessionStep(p) /\ Apart(p)
    BY <1>0, <1>2, <2>2, <2>4, <2>5 DEF SessionStep, Apart, OwnLocks, OwnSession, Tenant, Keeps,
           Diagnoses, Alone2, HoldsRun, HoldsGate, OwnMode, Loads, LoadsSoon, Takes, SameModes,
           Locked, Went, Same, Has, Plain
  <2>10. ModeStep(p)
    BY <1>0, <1>2, <2>2, <2>4, <2>5 DEF ModeStep, OwnLocks, OwnMode, Settled, Mode, Loads,
           LoadsSoon, Filing, Quiet, Safe, Decided, Takes, SameModes, Locked, Went, Same, Has,
           Plain
  <2> QED BY <2>5, <2>6, <2>8, <2>9, <2>10 DEF Obeys, Takes, CalmStep
<1>3. CASE Mount(p, "mount", Into(p, "begin", "enter"), Goto(p, "leave"))
  <2>1. PICK g : g = Into(p, "begin", "enter")
    OBVIOUS
  <2>2. g \in TaskType /\ Called(g, task[p], "begin", "enter") /\ Same(g, task[p]) /\ (g.ok <=> task[p].ok)
    BY <1>1, <2>1, RecordIs, IntoIs DEF Procedures
  <2>3. PICK b : b = Goto(p, "leave")
    OBVIOUS
  <2>4. b \in TaskType /\ Went(b, task[p], "leave") /\ Same(b, task[p]) /\ (b.ok <=> task[p].ok)
    BY <1>1, <2>3, RecordIs, GotoIs DEF Procedures
  <2>5. \/ /\ s.MountGate = None /\ Takes(p, "mount", s') /\ SameCounts(s', s) /\ SameModes(s', s)
           /\ s'.hw = s.hw /\ Locked(s', s.Running, s.LoadRequested, s.Gate, p)
           /\ Noted(task'[p], g) /\ Has(task'[p], g.arg, g.want, g.bulk, TRUE, g.mine)
           /\ Plain
        \/ Takes(p, "mount", s) /\ task'[p] = b /\ (Plain \/ Fault)
    BY <1>3, <2>1, <2>2, <2>3, <2>4, MountIs
  <2>6. CASE /\ s.MountGate = None /\ Takes(p, "mount", s') /\ SameCounts(s', s) /\ SameModes(s', s)
             /\ s'.hw = s.hw /\ Locked(s', s.Running, s.LoadRequested, s.Gate, p)
             /\ Noted(task'[p], g) /\ Has(task'[p], g.arg, g.want, g.bulk, TRUE, g.mine)
             /\ Plain
    <3>1. LockStep(p)
      BY <1>0, <1>3, <2>2, <2>6 DEF LockStep, OwnLocks, Holds, HoldsRun, HoldsLoad, HoldsGate,
             Takes, SameCounts, SameModes, Locked, Called, Same, Noted, Has, Plain
    <3>2. CountStep(p)
      BY <1>0, <1>3, <2>2, <2>6 DEF CountStep, OwnLocks, OwnCounts, Flagged, Inside, Awake, Takes,
             SameCounts, SameModes, Locked, Called, Same, Noted, Has, Plain
    <3>3. SessionStep(p) /\ Apart(p)
      BY <1>0, <1>3, <2>2, <2>6 DEF SessionStep, Apart, OwnLocks, OwnSession, Tenant, Keeps,
             Diagnoses, Alone2, HoldsRun, HoldsGate, OwnMode, Loads, LoadsSoon, Takes, SameCounts,
             SameModes, Locked, Called, Same, Noted, Has, Plain
    <3>4. ModeStep(p)
      BY <1>0, <1>3, <2>2, <2>6 DEF ModeStep, OwnLocks, OwnMode, Settled, Mode, Loads, LoadsSoon,
             Filing, Quiet, Safe, Decided, Takes, SameCounts, SameModes, Locked, Called, Same,
             Noted, Has, Plain
    <3> QED BY <2>6, <3>1, <3>2, <3>3, <3>4 DEF Obeys, Takes, CalmStep
  <2>7. CASE Takes(p, "mount", s) /\ task'[p] = b /\ (Plain \/ Fault)
    <3>1. LockStep(p)
      BY <1>0, <1>3, <2>4, <2>7 DEF LockStep, OwnLocks, Holds, HoldsRun, HoldsLoad, HoldsGate,
             Takes, Went, Same, Has, Plain, Fault
    <3>2. CountStep(p)
      BY <1>0, <1>3, <2>4, <2>7 DEF CountStep, OwnLocks, OwnCounts, Flagged, Inside, Awake, Takes,
             Went, Same, Has, Plain, Fault
    <3>3. SessionStep(p) /\ Apart(p)
      BY <1>0, <1>3, <2>4, <2>7 DEF SessionStep, Apart, OwnLocks, OwnSession, Tenant, Keeps,
             Diagnoses, Alone2, HoldsRun, HoldsGate, OwnMode, Loads, LoadsSoon, Takes, Went, Same,
             Has, Plain, Fault
    <3>4. ModeStep(p)
      BY <1>0, <1>3, <2>4, <2>7 DEF ModeStep, OwnLocks, OwnMode, Settled, Mode, Loads, LoadsSoon,
             Filing, Quiet, Safe, Decided, Takes, Went, Same, Has, Plain, Fault
    <3> QED BY <2>7, <3>1, <3>2, <3>3, <3>4 DEF Obeys, Takes, CalmStep
  <2> QED BY <2>5, <2>6, <2>7
<1>4. CASE Step(p, "enter", Goto(p, "leave"), s) /\ (Plain \/ Fault)
  <2>1. Takes(p, "enter", s) /\ Went(task'[p], task[p], "leave") /\ Same(task'[p], task[p]) /\ (task'[p].ok <=> task[p].ok)
    BY <1>4, <1>1, RecordIs, GotoIs, TakesIs DEF Procedures
  <2>2. LockStep(p)
    BY <1>0, <1>4, <2>1 DEF LockStep, OwnLocks, Holds, HoldsRun, HoldsLoad, HoldsGate, Takes,
           Went, Same, Has, Plain, Fault
  <2>3. CountStep(p)
    BY <1>0, <1>4, <2>1 DEF CountStep, OwnLocks, OwnCounts, Flagged, Inside, Awake, Takes, Went,
           Same, Has, Plain, Fault
  <2>4. SessionStep(p) /\ Apart(p)
    BY <1>0, <1>4, <2>1 DEF SessionStep, Apart, OwnLocks, OwnSession, Tenant, Keeps, Diagnoses,
           Alone2, HoldsRun, HoldsGate, OwnMode, Loads, LoadsSoon, Takes, Went, Same, Has, Plain,
           Fault
  <2>5. ModeStep(p)
    BY <1>0, <1>4, <2>1 DEF ModeStep, OwnLocks, OwnMode, Settled, Mode, Loads, LoadsSoon, Filing,
           Quiet, Safe, Decided, Takes, Went, Same, Has, Plain, Fault
  <2> QED BY <2>1, <2>2, <2>3, <2>4, <2>5 DEF Obeys, Takes, CalmStep
<1>5. CASE /\ task[p].ok /\ s.hw = None
           /\ Step(p, "enter", [Goto(p, "copy") EXCEPT !.mine = TRUE], [s EXCEPT !.hw = "backup"])
           /\ Plain
  <2>1. PICK y : y = [s EXCEPT !.hw = "backup"]
    OBVIOUS
  <2>2. y \in SharedType /\ SameCounts(y, s) /\ SameModes(y, s) /\ y.hw = "backup"
        /\ Locked(y, s.Running, s.LoadRequested, s.Gate, s.MountGate)
    BY <1>1, <1>5, <2>1, HwSet
  <2>3. PICK t : t = Goto(p, "copy")
    OBVIOUS
  <2>4. t \in TaskType /\ Went(t, task[p], "copy") /\ Same(t, task[p]) /\ (t.ok <=> task[p].ok)
    BY <1>1, <2>3, RecordIs, GotoIs DEF Procedures
  <2>5. PICK u : u = [t EXCEPT !.mine = TRUE]
    OBVIOUS
  <2>6. Noted(u, t) /\ Has(u, t.arg, t.want, t.bulk, t.card, TRUE)
    BY <1>1, <2>4, <2>5, MineIs
  <2>7. Takes(p, "enter", y) /\ task'[p] = u
    BY <1>5, <1>1, <2>1, <2>2, <2>3, <2>4, <2>5, <2>6, TakesIs DEF Noted
  <2>8. LockStep(p)
    BY <1>0, <1>5, <2>2, <2>4, <2>6, <2>7 DEF LockStep, OwnLocks, Holds, HoldsRun, HoldsLoad,
           HoldsGate, Takes, SameCounts, SameModes, Locked, Went, Noted, Has, Same, Plain
  <2>9. CountStep(p)
    BY <1>0, <1>5, <2>2, <2>4, <2>6, <2>7 DEF CountStep, OwnLocks, OwnCounts, Flagged, Inside,
           Awake, Takes, SameCounts, SameModes, Locked, Went, Noted, Has, Same, Plain
  <2>10. SessionStep(p) /\ Apart(p)
    BY <1>0, <1>5, <2>2, <2>4, <2>6, <2>7 DEF SessionStep, Apart, OwnLocks, OwnSession, Tenant,
           Keeps, Diagnoses, Alone2, HoldsRun, HoldsGate, OwnMode, Loads, LoadsSoon, Takes,
           SameCounts, SameModes, Locked, Went, Noted, Has, Same, Plain
  <2>11. ModeStep(p)
    BY <1>0, <1>5, <2>2, <2>4, <2>6, <2>7 DEF ModeStep, OwnLocks, OwnMode, Settled, Mode, Loads,
           LoadsSoon, Filing, Quiet, Safe, Decided, Takes, SameCounts, SameModes, Locked, Went,
           Noted, Has, Same, Plain
  <2> QED BY <2>7, <2>8, <2>9, <2>10, <2>11 DEF Obeys, Takes, CalmStep
<1>6. CASE /\ Step(p, "copy", [Goto(p, "leave") EXCEPT !.mine = FALSE], [s EXCEPT !.hw = None])
           /\ Plain
  <2>1. PICK y : y = [s EXCEPT !.hw = None]
    OBVIOUS
  <2>2. y \in SharedType /\ SameCounts(y, s) /\ SameModes(y, s) /\ y.hw = None
        /\ Locked(y, s.Running, s.LoadRequested, s.Gate, s.MountGate)
    BY <1>1, <1>6, <2>1, HwSet
  <2>3. PICK t : t = Goto(p, "leave")
    OBVIOUS
  <2>4. t \in TaskType /\ Went(t, task[p], "leave") /\ Same(t, task[p]) /\ (t.ok <=> task[p].ok)
    BY <1>1, <2>3, RecordIs, GotoIs DEF Procedures
  <2>5. PICK u : u = [t EXCEPT !.mine = FALSE]
    OBVIOUS
  <2>6. Noted(u, t) /\ Has(u, t.arg, t.want, t.bulk, t.card, FALSE)
    BY <1>1, <2>4, <2>5, MineIs
  <2>7. Takes(p, "copy", y) /\ task'[p] = u
    BY <1>6, <1>1, <2>1, <2>2, <2>3, <2>4, <2>5, <2>6, TakesIs DEF Noted
  <2>8. LockStep(p)
    BY <1>0, <1>6, <2>2, <2>4, <2>6, <2>7 DEF LockStep, OwnLocks, Holds, HoldsRun, HoldsLoad,
           HoldsGate, Takes, SameCounts, SameModes, Locked, Went, Noted, Has, Same, Plain
  <2>9. CountStep(p)
    BY <1>0, <1>6, <2>2, <2>4, <2>6, <2>7 DEF CountStep, OwnLocks, OwnCounts, Flagged, Inside,
           Awake, Takes, SameCounts, SameModes, Locked, Went, Noted, Has, Same, Plain
  <2>10. SessionStep(p) /\ Apart(p)
    BY <1>0, <1>6, <2>2, <2>4, <2>6, <2>7 DEF SessionStep, Apart, OwnLocks, OwnSession, Tenant,
           Keeps, Diagnoses, Alone2, HoldsRun, HoldsGate, OwnMode, Loads, LoadsSoon, Takes,
           SameCounts, SameModes, Locked, Went, Noted, Has, Same, Plain
  <2>11. ModeStep(p)
    BY <1>0, <1>6, <2>2, <2>4, <2>6, <2>7 DEF ModeStep, OwnLocks, OwnMode, Settled, Mode, Loads,
           LoadsSoon, Filing, Quiet, Safe, Decided, Takes, SameCounts, SameModes, Locked, Went,
           Noted, Has, Same, Plain
  <2> QED BY <2>7, <2>8, <2>9, <2>10, <2>11 DEF Obeys, Takes, CalmStep
<1>7. CASE Step(p, "leave", Rest, Allow([Released(p) EXCEPT !.Running = FALSE])) /\ Plain
  <2>1. Inside(p, task[p])
    BY <1>7 DEF Step, Inside
  <2>2. PICK y : y = Allow([Released(p) EXCEPT !.Running = FALSE])
    OBVIOUS
  <2>3. y \in SharedType /\ y.hw = s.hw
        /\ (y.SessionActive <=> (s.SessionActive /\ ~task[p].bulk))
        /\ y.Active = s.Active /\ y.SleepInhibited = s.SleepInhibited /\ SameModes(y, s)
        /\ (~meddled => y.SleepInhibitCount + Flagged(s) + 1 = s.SleepInhibitCount + Flagged(y))
        /\ Locked(y, FALSE, s.LoadRequested, s.Gate, IF task[p].card THEN None ELSE s.MountGate)
    BY <1>1, <1>7, <2>1, <2>2, BackupEndedIs
  <2>4. PICK t : t = Rest
    OBVIOUS
  <2>5. t \in TaskType /\ Rests(t)
    BY <1>1, <2>4, RecordIs, RestIs DEF Procedures
  <2>6. Takes(p, "leave", y) /\ task'[p] = t
    BY <1>7, <1>1, <2>1, <2>2, <2>3, <2>4, <2>5, TakesIs
  <2>7. LockStep(p)
    BY <1>0, <1>7, <2>1, <2>3, <2>5, <2>6 DEF LockStep, OwnLocks, Holds, HoldsRun, HoldsLoad,
           HoldsGate, Takes, SameModes, Locked, Rests, Plain
  <2>8. One(Inside(p, task[p])) = 1 /\ One(Inside(p, task'[p])) = 0
    BY <1>0, <1>7, <2>1, <2>3, <2>5, <2>6 DEF OwnLocks, Inside, One, Takes, SameModes, Locked,
           Rests, Plain
  <2>9. CountStep(p)
    <3>1. /\ s'.SessionActive => task'[p].bulk \/ (s.SessionActive /\ ~task[p].bulk)
          /\ s'.SleepInhibited = s.SleepInhibited /\ SameModes(s', s)
          /\ (meddled' <=> meddled) /\ p # "keepalive"
      BY <1>0, <1>7, <2>1, <2>3, <2>5, <2>6 DEF OwnLocks, Takes, SameModes, Locked, Rests, Plain
    <3>2. /\ s.SleepInhibitCount \in Nat /\ s'.SleepInhibitCount \in Nat
          /\ Flagged(s) \in Nat /\ Flagged(s') \in Nat
      BY <1>1, <1>7, <2>1, <2>3, <2>5, <2>6 DEF Takes, SharedType, Flagged, One
    <3>3. ~meddled => s'.SleepInhibitCount + Flagged(s) + 1 = s.SleepInhibitCount + Flagged(s') + 0
      BY <3>2, <1>7, <2>1, <2>3, <2>5, <2>6 DEF Takes
    <3> QED BY <2>8, <3>1, <3>3 DEF CountStep, SameModes
  <2>10. SessionStep(p) /\ Apart(p)
    BY <1>0, <1>7, <2>1, <2>3, <2>5, <2>6 DEF SessionStep, Apart, OwnLocks, OwnSession, Tenant,
           Keeps, Diagnoses, Alone2, HoldsRun, HoldsGate, OwnMode, Loads, LoadsSoon, Takes,
           SameModes, Locked, Rests, Plain
  <2>11. ModeStep(p)
    BY <1>0, <1>7, <2>1, <2>3, <2>5, <2>6 DEF ModeStep, OwnLocks, OwnMode, Settled, Mode, Loads,
           LoadsSoon, Filing, Quiet, Safe, Decided, Takes, SameModes, Locked, Rests, Plain
  <2> QED BY <2>6, <2>7, <2>9, <2>10, <2>11 DEF Obeys, Takes, CalmStep
<1> QED BY <1>1, <1>2, <1>3, <1>4, <1>5, <1>6, <1>7 DEF BackupSteps

(* LoadTask *)
LEMMA LoadStepsObey ==
  ASSUME TypeOK, NEW p \in Tasks, p = "load", Own(p), LoadSteps(p)
  PROVE  Obeys(p) /\ CalmStep(p)
<1>0. OwnLocks(p) /\ OwnCounts(p) /\ OwnSession(p) /\ OwnMode(p)
  BY DEF Own
<1>1. s \in SharedType /\ s.hw \in {None, "pc", "sd", "probe", "backup"}
      /\ {"mount", "prepare", "leave", "boot", "undo", "begin"} \subseteq Labels
  BY DEF TypeOK, SharedType, Labels
<1>2. CASE Step(p, "started", Goto(p, "mount"), Inhibit([s EXCEPT !.VRunning = TRUE])) /\ Plain
  <2>1. PICK y : y = Inhibit([s EXCEPT !.VRunning = TRUE])
    OBVIOUS
  <2>2. y \in SharedType /\ y.hw = s.hw /\ y.Active = s.Active
        /\ y.SessionActive = s.SessionActive /\ y.SleepInhibited = s.SleepInhibited
        /\ SameModes(y, s) /\ Locked(y, s.Running, s.LoadRequested, s.Gate, s.MountGate)
        /\ y.SleepInhibitCount = s.SleepInhibitCount + 1
    BY <1>1, <1>2, <2>1, InsideIs
  <2>3. PICK t : t = Goto(p, "mount")
    OBVIOUS
  <2>4. t \in TaskType /\ Went(t, task[p], "mount") /\ Same(t, task[p]) /\ (t.ok <=> task[p].ok)
    BY <1>1, <2>3, RecordIs, GotoIs DEF Procedures
  <2>5. Takes(p, "started", y) /\ task'[p] = t
    BY <1>2, <1>1, <2>1, <2>2, <2>3, <2>4, TakesIs
  <2>6. LockStep(p)
    BY <1>0, <1>2, <2>2, <2>4, <2>5 DEF LockStep, OwnLocks, Holds, HoldsRun, HoldsLoad, HoldsGate,
           Takes, SameModes, Locked, Went, Same, Has, Plain
  <2>7. One(Inside(p, task[p])) = 0 /\ One(Inside(p, task'[p])) = 1
    BY <1>0, <1>2, <2>2, <2>4, <2>5 DEF OwnLocks, Inside, One, Takes, SameModes, Locked, Went,
           Same, Has, Plain
  <2>8. CountStep(p)
    <3>1. /\ s'.SessionActive => task'[p].bulk \/ (s.SessionActive /\ ~task[p].bulk)
          /\ s'.SleepInhibited = s.SleepInhibited /\ SameModes(s', s)
          /\ (meddled' <=> meddled) /\ p # "keepalive"
      BY <1>0, <1>2, <2>2, <2>4, <2>5 DEF OwnLocks, Takes, SameModes, Locked, Went, Same, Has, Plain
    <3>2. /\ s.SleepInhibitCount \in Nat /\ s'.SleepInhibitCount \in Nat
          /\ Flagged(s) \in Nat /\ Flagged(s') \in Nat /\ Flagged(s') = Flagged(s)
      BY <1>1, <1>2, <2>2, <2>4, <2>5 DEF Takes, SharedType, Flagged, One
    <3>3. ~meddled => s'.SleepInhibitCount + Flagged(s) + 0 = s.SleepInhibitCount + Flagged(s') + 1
      BY <3>2, <1>2, <2>2, <2>4, <2>5 DEF Takes
    <3> QED BY <2>7, <3>1, <3>3 DEF CountStep, SameModes
  <2>9. SessionStep(p) /\ Apart(p)
    BY <1>0, <1>2, <2>2, <2>4, <2>5 DEF SessionStep, Apart, OwnLocks, OwnSession, Tenant, Keeps,
           Diagnoses, Alone2, HoldsRun, HoldsGate, OwnMode, Loads, LoadsSoon, Takes, SameModes,
           Locked, Went, Same, Has, Plain
  <2>10. ModeStep(p)
    BY <1>0, <1>2, <2>2, <2>4, <2>5 DEF ModeStep, OwnLocks, OwnMode, Settled, Mode, Loads,
           LoadsSoon, Filing, Quiet, Safe, Decided, Takes, SameModes, Locked, Went, Same, Has,
           Plain
  <2> QED BY <2>5, <2>6, <2>8, <2>9, <2>10 DEF Obeys, Takes, CalmStep
<1>3. CASE Mount(p, "mount", Into(p, "begin", "prepare"), Goto(p, "leave"))
  <2>1. PICK g : g = Into(p, "begin", "prepare")
    OBVIOUS
  <2>2. g \in TaskType /\ Called(g, task[p], "begin", "prepare") /\ Same(g, task[p]) /\ (g.ok <=> task[p].ok)
    BY <1>1, <2>1, RecordIs, IntoIs DEF Procedures
  <2>3. PICK b : b = Goto(p, "leave")
    OBVIOUS
  <2>4. b \in TaskType /\ Went(b, task[p], "leave") /\ Same(b, task[p]) /\ (b.ok <=> task[p].ok)
    BY <1>1, <2>3, RecordIs, GotoIs DEF Procedures
  <2>5. \/ /\ s.MountGate = None /\ Takes(p, "mount", s') /\ SameCounts(s', s) /\ SameModes(s', s)
           /\ s'.hw = s.hw /\ Locked(s', s.Running, s.LoadRequested, s.Gate, p)
           /\ Noted(task'[p], g) /\ Has(task'[p], g.arg, g.want, g.bulk, TRUE, g.mine)
           /\ Plain
        \/ Takes(p, "mount", s) /\ task'[p] = b /\ (Plain \/ Fault)
    BY <1>3, <2>1, <2>2, <2>3, <2>4, MountIs
  <2>6. CASE /\ s.MountGate = None /\ Takes(p, "mount", s') /\ SameCounts(s', s) /\ SameModes(s', s)
             /\ s'.hw = s.hw /\ Locked(s', s.Running, s.LoadRequested, s.Gate, p)
             /\ Noted(task'[p], g) /\ Has(task'[p], g.arg, g.want, g.bulk, TRUE, g.mine)
             /\ Plain
    <3>1. LockStep(p)
      BY <1>0, <1>3, <2>2, <2>6 DEF LockStep, OwnLocks, Holds, HoldsRun, HoldsLoad, HoldsGate,
             Takes, SameCounts, SameModes, Locked, Called, Same, Noted, Has, Plain
    <3>2. CountStep(p)
      BY <1>0, <1>3, <2>2, <2>6 DEF CountStep, OwnLocks, OwnCounts, Flagged, Inside, Awake, Takes,
             SameCounts, SameModes, Locked, Called, Same, Noted, Has, Plain
    <3>3. SessionStep(p) /\ Apart(p)
      BY <1>0, <1>3, <2>2, <2>6 DEF SessionStep, Apart, OwnLocks, OwnSession, Tenant, Keeps,
             Diagnoses, Alone2, HoldsRun, HoldsGate, OwnMode, Loads, LoadsSoon, Takes, SameCounts,
             SameModes, Locked, Called, Same, Noted, Has, Plain
    <3>4. ModeStep(p)
      BY <1>0, <1>3, <2>2, <2>6 DEF ModeStep, OwnLocks, OwnMode, Settled, Mode, Loads, LoadsSoon,
             Filing, Quiet, Safe, Decided, Takes, SameCounts, SameModes, Locked, Called, Same,
             Noted, Has, Plain
    <3> QED BY <2>6, <3>1, <3>2, <3>3, <3>4 DEF Obeys, Takes, CalmStep
  <2>7. CASE Takes(p, "mount", s) /\ task'[p] = b /\ (Plain \/ Fault)
    <3>1. LockStep(p)
      BY <1>0, <1>3, <2>4, <2>7 DEF LockStep, OwnLocks, Holds, HoldsRun, HoldsLoad, HoldsGate,
             Takes, Went, Same, Has, Plain, Fault
    <3>2. CountStep(p)
      BY <1>0, <1>3, <2>4, <2>7 DEF CountStep, OwnLocks, OwnCounts, Flagged, Inside, Awake, Takes,
             Went, Same, Has, Plain, Fault
    <3>3. SessionStep(p) /\ Apart(p)
      BY <1>0, <1>3, <2>4, <2>7 DEF SessionStep, Apart, OwnLocks, OwnSession, Tenant, Keeps,
             Diagnoses, Alone2, HoldsRun, HoldsGate, OwnMode, Loads, LoadsSoon, Takes, Went, Same,
             Has, Plain, Fault
    <3>4. ModeStep(p)
      BY <1>0, <1>3, <2>4, <2>7 DEF ModeStep, OwnLocks, OwnMode, Settled, Mode, Loads, LoadsSoon,
             Filing, Quiet, Safe, Decided, Takes, Went, Same, Has, Plain, Fault
    <3> QED BY <2>7, <3>1, <3>2, <3>3, <3>4 DEF Obeys, Takes, CalmStep
  <2> QED BY <2>5, <2>6, <2>7
<1>4. CASE Step(p, "prepare", Goto(p, "leave"), s) /\ (Plain \/ Fault)
  <2>1. Takes(p, "prepare", s) /\ Went(task'[p], task[p], "leave") /\ Same(task'[p], task[p]) /\ (task'[p].ok <=> task[p].ok)
    BY <1>4, <1>1, RecordIs, GotoIs, TakesIs DEF Procedures
  <2>2. LockStep(p)
    BY <1>0, <1>4, <2>1 DEF LockStep, OwnLocks, Holds, HoldsRun, HoldsLoad, HoldsGate, Takes,
           Went, Same, Has, Plain, Fault
  <2>3. CountStep(p)
    BY <1>0, <1>4, <2>1 DEF CountStep, OwnLocks, OwnCounts, Flagged, Inside, Awake, Takes, Went,
           Same, Has, Plain, Fault
  <2>4. SessionStep(p) /\ Apart(p)
    BY <1>0, <1>4, <2>1 DEF SessionStep, Apart, OwnLocks, OwnSession, Tenant, Keeps, Diagnoses,
           Alone2, HoldsRun, HoldsGate, OwnMode, Loads, LoadsSoon, Takes, Went, Same, Has, Plain,
           Fault
  <2>5. ModeStep(p)
    BY <1>0, <1>4, <2>1 DEF ModeStep, OwnLocks, OwnMode, Settled, Mode, Loads, LoadsSoon, Filing,
           Quiet, Safe, Decided, Takes, Went, Same, Has, Plain, Fault
  <2> QED BY <2>1, <2>2, <2>3, <2>4, <2>5 DEF Obeys, Takes, CalmStep
<1>5. CASE /\ Step(p, "prepare", [Goto(p, "boot") EXCEPT !.mine = TRUE], SetActive(s, FALSE))
           /\ Plain
  <2>1. PICK y : y = SetActive(s, FALSE)
    OBVIOUS
  <2>2. y \in SharedType /\ ~y.Active /\ y.hw = s.hw
        /\ y.SessionActive = s.SessionActive /\ y.SleepInhibited = s.SleepInhibited
        /\ SameModes(y, s) /\ Locked(y, s.Running, s.LoadRequested, s.Gate, s.MountGate) /\ Balanced(y)
    BY <1>1, <1>5, <2>1, PlaysIs
  <2>3. PICK t : t = Goto(p, "boot")
    OBVIOUS
  <2>4. t \in TaskType /\ Went(t, task[p], "boot") /\ Same(t, task[p]) /\ (t.ok <=> task[p].ok)
    BY <1>1, <2>3, RecordIs, GotoIs DEF Procedures
  <2>5. PICK u : u = [t EXCEPT !.mine = TRUE]
    OBVIOUS
  <2>6. Noted(u, t) /\ Has(u, t.arg, t.want, t.bulk, t.card, TRUE)
    BY <1>1, <2>4, <2>5, MineIs
  <2>7. Step(p, "prepare", u, y)
    BY <1>5, <2>1, <2>3, <2>5
  <2>8. Takes(p, "prepare", y) /\ task'[p] = u
    BY <2>2, <2>6, <2>7, TakesIs DEF Noted
  <2>9. LockStep(p)
    BY <1>0, <1>5, <2>2, <2>4, <2>6, <2>8 DEF LockStep, OwnLocks, Holds, HoldsRun, HoldsLoad,
           HoldsGate, Takes, SameModes, Locked, Balanced, Went, Noted, Has, Same, Plain
  <2>10. CountStep(p)
    BY <1>0, <1>5, <2>2, <2>4, <2>6, <2>8 DEF CountStep, OwnLocks, OwnCounts, Flagged, Inside,
           Awake, Takes, SameModes, Locked, Balanced, Went, Noted, Has, Same, Plain
  <2>11. SessionStep(p) /\ Apart(p)
    BY <1>0, <1>5, <2>2, <2>4, <2>6, <2>8 DEF SessionStep, Apart, OwnLocks, OwnSession, Tenant,
           Keeps, Diagnoses, Alone2, HoldsRun, HoldsGate, OwnMode, Loads, LoadsSoon, Takes,
           SameModes, Locked, Balanced, Went, Noted, Has, Same, Plain
  <2>12. ModeStep(p)
    BY <1>0, <1>5, <2>2, <2>4, <2>6, <2>8 DEF ModeStep, OwnLocks, OwnMode, Settled, Mode, Loads,
           LoadsSoon, Filing, Quiet, Safe, Decided, Takes, SameModes, Locked, Balanced, Went,
           Noted, Has, Same, Plain
  <2> QED BY <2>8, <2>9, <2>10, <2>11, <2>12 DEF Obeys, Takes, CalmStep
<1>6. CASE /\ Step(p, "prepare", [Goto(p, "leave") EXCEPT !.mine = TRUE], s)
           /\ Plain
  <2>1. PICK t : t = Goto(p, "leave")
    OBVIOUS
  <2>2. t \in TaskType /\ Went(t, task[p], "leave") /\ Same(t, task[p]) /\ (t.ok <=> task[p].ok)
    BY <1>1, <2>1, RecordIs, GotoIs DEF Procedures
  <2>3. PICK u : u = [t EXCEPT !.mine = TRUE]
    OBVIOUS
  <2>4. Noted(u, t) /\ Has(u, t.arg, t.want, t.bulk, t.card, TRUE)
    BY <1>1, <2>2, <2>3, MineIs
  <2>5. Takes(p, "prepare", s) /\ task'[p] = u
    BY <1>6, <1>1, <2>1, <2>2, <2>3, <2>4, TakesIs DEF Noted
  <2>6. LockStep(p)
    BY <1>0, <1>6, <2>2, <2>4, <2>5 DEF LockStep, OwnLocks, Holds, HoldsRun, HoldsLoad, HoldsGate,
           Takes, Went, Noted, Has, Same, Plain
  <2>7. CountStep(p)
    BY <1>0, <1>6, <2>2, <2>4, <2>5 DEF CountStep, OwnLocks, OwnCounts, Flagged, Inside, Awake,
           Takes, Went, Noted, Has, Same, Plain
  <2>8. SessionStep(p) /\ Apart(p)
    BY <1>0, <1>6, <2>2, <2>4, <2>5 DEF SessionStep, Apart, OwnLocks, OwnSession, Tenant, Keeps,
           Diagnoses, Alone2, HoldsRun, HoldsGate, OwnMode, Loads, LoadsSoon, Takes, Went, Noted,
           Has, Same, Plain
  <2>9. ModeStep(p)
    BY <1>0, <1>6, <2>2, <2>4, <2>5 DEF ModeStep, OwnLocks, OwnMode, Settled, Mode, Loads,
           LoadsSoon, Filing, Quiet, Safe, Decided, Takes, Went, Noted, Has, Same, Plain
  <2> QED BY <2>5, <2>6, <2>7, <2>8, <2>9 DEF Obeys, Takes, CalmStep
<1>7. CASE /\ Step(p, "boot", [Goto(p, "leave") EXCEPT !.mine = FALSE], SetActive(s, TRUE))
           /\ Plain
  <2>1. PICK y : y = SetActive(s, TRUE)
    OBVIOUS
  <2>2. y \in SharedType /\ y.Active /\ y.hw = s.hw
        /\ y.SessionActive = s.SessionActive /\ y.SleepInhibited = s.SleepInhibited
        /\ SameModes(y, s) /\ Locked(y, s.Running, s.LoadRequested, s.Gate, s.MountGate) /\ Balanced(y)
    BY <1>1, <1>7, <2>1, PlaysIs
  <2>3. PICK t : t = Goto(p, "leave")
    OBVIOUS
  <2>4. t \in TaskType /\ Went(t, task[p], "leave") /\ Same(t, task[p]) /\ (t.ok <=> task[p].ok)
    BY <1>1, <2>3, RecordIs, GotoIs DEF Procedures
  <2>5. PICK u : u = [t EXCEPT !.mine = FALSE]
    OBVIOUS
  <2>6. Noted(u, t) /\ Has(u, t.arg, t.want, t.bulk, t.card, FALSE)
    BY <1>1, <2>4, <2>5, MineIs
  <2>7. Step(p, "boot", u, y)
    BY <1>7, <2>1, <2>3, <2>5
  <2>8. Takes(p, "boot", y) /\ task'[p] = u
    BY <2>2, <2>6, <2>7, TakesIs DEF Noted
  <2>9. LockStep(p)
    BY <1>0, <1>7, <2>2, <2>4, <2>6, <2>8 DEF LockStep, OwnLocks, Holds, HoldsRun, HoldsLoad,
           HoldsGate, Takes, SameModes, Locked, Balanced, Went, Noted, Has, Same, Plain
  <2>10. CountStep(p)
    BY <1>0, <1>7, <2>2, <2>4, <2>6, <2>8 DEF CountStep, OwnLocks, OwnCounts, Flagged, Inside,
           Awake, Takes, SameModes, Locked, Balanced, Went, Noted, Has, Same, Plain
  <2>11. SessionStep(p) /\ Apart(p)
    BY <1>0, <1>7, <2>2, <2>4, <2>6, <2>8 DEF SessionStep, Apart, OwnLocks, OwnSession, Tenant,
           Keeps, Diagnoses, Alone2, HoldsRun, HoldsGate, OwnMode, Loads, LoadsSoon, Takes,
           SameModes, Locked, Balanced, Went, Noted, Has, Same, Plain
  <2>12. ModeStep(p)
    BY <1>0, <1>7, <2>2, <2>4, <2>6, <2>8 DEF ModeStep, OwnLocks, OwnMode, Settled, Mode, Loads,
           LoadsSoon, Filing, Quiet, Safe, Decided, Takes, SameModes, Locked, Balanced, Went,
           Noted, Has, Same, Plain
  <2> QED BY <2>8, <2>9, <2>10, <2>11, <2>12 DEF Obeys, Takes, CalmStep
<1>8. CASE Step(p, "boot", Goto(p, "leave"), s) /\ Fault
  <2>1. Takes(p, "boot", s) /\ Went(task'[p], task[p], "leave") /\ Same(task'[p], task[p]) /\ (task'[p].ok <=> task[p].ok)
    BY <1>8, <1>1, RecordIs, GotoIs, TakesIs DEF Procedures
  <2>2. LockStep(p)
    BY <1>0, <1>8, <2>1 DEF LockStep, OwnLocks, Holds, HoldsRun, HoldsLoad, HoldsGate, Takes,
           Went, Same, Has, Plain, Fault
  <2>3. CountStep(p)
    BY <1>0, <1>8, <2>1 DEF CountStep, OwnLocks, OwnCounts, Flagged, Inside, Awake, Takes, Went,
           Same, Has, Plain, Fault
  <2>4. SessionStep(p) /\ Apart(p)
    BY <1>0, <1>8, <2>1 DEF SessionStep, Apart, OwnLocks, OwnSession, Tenant, Keeps, Diagnoses,
           Alone2, HoldsRun, HoldsGate, OwnMode, Loads, LoadsSoon, Takes, Went, Same, Has, Plain,
           Fault
  <2>5. ModeStep(p)
    BY <1>0, <1>8, <2>1 DEF ModeStep, OwnLocks, OwnMode, Settled, Mode, Loads, LoadsSoon, Filing,
           Quiet, Safe, Decided, Takes, Went, Same, Has, Plain, Fault
  <2> QED BY <2>1, <2>2, <2>3, <2>4, <2>5 DEF Obeys, Takes, CalmStep
<1>9. CASE /\ Step(p, "leave", [Goto(p, "undo") EXCEPT !.bulk = FALSE, !.card = FALSE], Released(p))
           /\ Plain
  <2>1. PICK y : y = Released(p)
    OBVIOUS
  <2>2. y \in SharedType /\ Closes(p, y) /\ y.hw = s.hw
        /\ Locked(y, s.Running, s.LoadRequested, s.Gate, IF task[p].card THEN None ELSE s.MountGate)
    BY <1>1, <1>9, <2>1, ClosesIs
  <2>3. PICK t : t = Goto(p, "undo")
    OBVIOUS
  <2>4. t \in TaskType /\ Went(t, task[p], "undo") /\ Same(t, task[p]) /\ (t.ok <=> task[p].ok)
    BY <1>1, <2>3, RecordIs, GotoIs DEF Procedures
  <2>5. PICK u : u = [t EXCEPT !.bulk = FALSE, !.card = FALSE]
    OBVIOUS
  <2>6. Noted(u, t) /\ Has(u, t.arg, t.want, FALSE, FALSE, t.mine)
    BY <1>1, <2>4, <2>5, FreedIs
  <2>7. Takes(p, "leave", y) /\ task'[p] = u
    BY <1>9, <1>1, <2>1, <2>2, <2>3, <2>4, <2>5, <2>6, TakesIs DEF Noted
  <2>8. LockStep(p)
    BY <1>0, <1>9, <2>2, <2>4, <2>6, <2>7 DEF LockStep, OwnLocks, Holds, HoldsRun, HoldsLoad,
           HoldsGate, Takes, Locked, Closes, SameModes, Balanced, Went, Noted, Has, Same, Plain
  <2>9. CountStep(p)
    BY <1>0, <1>9, <2>2, <2>4, <2>6, <2>7 DEF CountStep, OwnLocks, OwnCounts, Flagged, Inside,
           Awake, Takes, Locked, Closes, SameModes, Balanced, Went, Noted, Has, Same, Plain
  <2>10. SessionStep(p) /\ Apart(p)
    BY <1>0, <1>9, <2>2, <2>4, <2>6, <2>7 DEF SessionStep, Apart, OwnLocks, OwnSession, Tenant,
           Keeps, Diagnoses, Alone2, HoldsRun, HoldsGate, OwnMode, Loads, LoadsSoon, Takes,
           Locked, Closes, SameModes, Balanced, Went, Noted, Has, Same, Plain
  <2>11. ModeStep(p)
    BY <1>0, <1>9, <2>2, <2>4, <2>6, <2>7 DEF ModeStep, OwnLocks, OwnMode, Settled, Mode, Loads,
           LoadsSoon, Filing, Quiet, Safe, Decided, Takes, Locked, Closes, SameModes, Balanced,
           Went, Noted, Has, Same, Plain
  <2> QED BY <2>7, <2>8, <2>9, <2>10, <2>11 DEF Obeys, Takes, CalmStep
<1>10. CASE /\ Step(p, "undo", Rest,
                   Allow([IF task[p].mine THEN SetActive(s, FALSE) ELSE s EXCEPT !.VRunning = FALSE, !.LoadRequested = FALSE]))
           /\ Plain
  <2>1. Inside(p, task[p])
    BY <1>10 DEF Step, Inside
  <2>2. PICK y : y = Allow([IF task[p].mine THEN SetActive(s, FALSE) ELSE s EXCEPT
                          !.VRunning = FALSE, !.LoadRequested = FALSE])
    OBVIOUS
  <2>3. y \in SharedType /\ y.hw = s.hw /\ (y.Active => s.Active)
        /\ y.SessionActive = s.SessionActive /\ y.SleepInhibited = s.SleepInhibited
        /\ SameModes(y, s) /\ Locked(y, s.Running, FALSE, s.Gate, s.MountGate)
        /\ (~meddled => y.SleepInhibitCount + Flagged(s) + 1 = s.SleepInhibitCount + Flagged(y))
    BY <1>1, <1>10, <2>1, <2>2, LoadEndedIs
  <2>4. PICK t : t = Rest
    OBVIOUS
  <2>5. t \in TaskType /\ Rests(t)
    BY <1>1, <2>4, RecordIs, RestIs DEF Procedures
  <2>6. Takes(p, "undo", y) /\ task'[p] = t
    BY <1>10, <1>1, <2>1, <2>2, <2>3, <2>4, <2>5, TakesIs
  <2>7. LockStep(p)
    BY <1>0, <1>10, <2>1, <2>3, <2>5, <2>6 DEF LockStep, OwnLocks, Holds, HoldsRun, HoldsLoad,
           HoldsGate, Takes, SameModes, Locked, Rests, Plain
  <2>8. One(Inside(p, task[p])) = 1 /\ One(Inside(p, task'[p])) = 0
    BY <1>0, <1>10, <2>1, <2>3, <2>5, <2>6 DEF OwnLocks, Inside, One, Takes, SameModes, Locked,
           Rests, Plain
  <2>9. CountStep(p)
    <3>1. /\ s'.SessionActive => task'[p].bulk \/ (s.SessionActive /\ ~task[p].bulk)
          /\ s'.SleepInhibited = s.SleepInhibited /\ SameModes(s', s)
          /\ (meddled' <=> meddled) /\ p # "keepalive"
      BY <1>0, <1>10, <2>1, <2>3, <2>5, <2>6 DEF OwnLocks, Takes, SameModes, Locked, Rests, Plain
    <3>2. /\ s.SleepInhibitCount \in Nat /\ s'.SleepInhibitCount \in Nat
          /\ Flagged(s) \in Nat /\ Flagged(s') \in Nat
      BY <1>1, <1>10, <2>1, <2>3, <2>5, <2>6 DEF Takes, SharedType, Flagged, One
    <3>3. ~meddled => s'.SleepInhibitCount + Flagged(s) + 1 = s.SleepInhibitCount + Flagged(s') + 0
      BY <3>2, <1>10, <2>1, <2>3, <2>5, <2>6 DEF Takes
    <3> QED BY <2>8, <3>1, <3>3 DEF CountStep, SameModes
  <2>10. SessionStep(p) /\ Apart(p)
    BY <1>0, <1>10, <2>1, <2>3, <2>5, <2>6 DEF SessionStep, Apart, OwnLocks, OwnSession, Tenant,
           Keeps, Diagnoses, Alone2, HoldsRun, HoldsGate, OwnMode, Loads, LoadsSoon, Takes,
           SameModes, Locked, Rests, Plain
  <2>11. ModeStep(p)
    BY <1>0, <1>10, <2>1, <2>3, <2>5, <2>6 DEF ModeStep, OwnLocks, OwnMode, Settled, Mode, Loads,
           LoadsSoon, Filing, Quiet, Safe, Decided, Takes, SameModes, Locked, Rests, Plain
  <2> QED BY <2>6, <2>7, <2>9, <2>10, <2>11 DEF Obeys, Takes, CalmStep
<1> QED BY <1>1, <1>2, <1>3, <1>4, <1>5, <1>6, <1>7, <1>8, <1>9, <1>10 DEF LoadSteps

(* SaveTask *)
LEMMA SaveObeys ==
  ASSUME TypeOK, NEW p \in Tasks, p = "save", Own(p), SaveWake(p) \/ SaveSteps(p)
  PROVE  Obeys(p) /\ CalmStep(p)
<1>0. OwnLocks(p) /\ OwnCounts(p) /\ OwnSession(p) /\ OwnMode(p)
  BY DEF Own
<1>1. s \in SharedType /\ s.hw \in {None, "pc", "sd", "probe", "backup"}
      /\ {"claim", "mount", "copy", "leave", "begin"} \subseteq Labels
  BY DEF TypeOK, SharedType, Labels
<1>2. CASE /\ Step(p, "idle", Goto(p, "claim"), s) /\ UNCHANGED <<unseen, meddled, intruded>>
  <2>1. Takes(p, "idle", s) /\ Went(task'[p], task[p], "claim") /\ Same(task'[p], task[p]) /\ (task'[p].ok <=> task[p].ok)
    BY <1>2, <1>1, RecordIs, GotoIs, TakesIs DEF Procedures
  <2>2. LockStep(p)
    BY <1>0, <1>2, <2>1 DEF LockStep, OwnLocks, Holds, HoldsRun, HoldsLoad, HoldsGate, Takes,
           Went, Same, Has
  <2>3. CountStep(p)
    BY <1>0, <1>2, <2>1 DEF CountStep, OwnLocks, OwnCounts, Flagged, Inside, Awake, Takes, Went,
           Same, Has
  <2>4. SessionStep(p) /\ Apart(p)
    BY <1>0, <1>2, <2>1 DEF SessionStep, Apart, OwnLocks, OwnSession, Tenant, Keeps, Diagnoses,
           Alone2, HoldsRun, HoldsGate, OwnMode, Loads, LoadsSoon, Takes, Went, Same, Has
  <2>5. ModeStep(p)
    BY <1>0, <1>2, <2>1 DEF ModeStep, OwnLocks, OwnMode, Settled, Mode, Loads, LoadsSoon, Filing,
           Quiet, Safe, Decided, Takes, Went, Same, Has
  <2> QED BY <2>1, <2>2, <2>3, <2>4, <2>5 DEF Obeys, Takes, CalmStep
<1>3. CASE Step(p, "claim", Rest, Claimed) /\ Plain
  <2>1. PICK y : y = Claimed
    OBVIOUS
  <2>2. y \in SharedType /\ SameCounts(y, s) /\ SameModes(y, s) /\ y.hw = s.hw
        /\ Locked(y, s.Running, s.LoadRequested, s.Gate, s.MountGate)
    BY <1>1, <1>3, <2>1, ClaimedIs
  <2>3. PICK t : t = Rest
    OBVIOUS
  <2>4. t \in TaskType /\ Rests(t)
    BY <1>1, <2>3, RecordIs, RestIs DEF Procedures
  <2>5. Takes(p, "claim", y) /\ task'[p] = t
    BY <1>3, <1>1, <2>1, <2>2, <2>3, <2>4, TakesIs
  <2>6. LockStep(p)
    BY <1>0, <1>3, <2>2, <2>4, <2>5 DEF LockStep, OwnLocks, Holds, HoldsRun, HoldsLoad, HoldsGate,
           Takes, SameCounts, SameModes, Locked, Rests, Plain
  <2>7. CountStep(p)
    BY <1>0, <1>3, <2>2, <2>4, <2>5 DEF CountStep, OwnLocks, OwnCounts, Flagged, Inside, Awake,
           Takes, SameCounts, SameModes, Locked, Rests, Plain
  <2>8. SessionStep(p) /\ Apart(p)
    BY <1>0, <1>3, <2>2, <2>4, <2>5 DEF SessionStep, Apart, OwnLocks, OwnSession, Tenant, Keeps,
           Diagnoses, Alone2, HoldsRun, HoldsGate, OwnMode, Loads, LoadsSoon, Takes, SameCounts,
           SameModes, Locked, Rests, Plain
  <2>9. ModeStep(p)
    BY <1>0, <1>3, <2>2, <2>4, <2>5 DEF ModeStep, OwnLocks, OwnMode, Settled, Mode, Loads,
           LoadsSoon, Filing, Quiet, Safe, Decided, Takes, SameCounts, SameModes, Locked, Rests,
           Plain
  <2> QED BY <2>5, <2>6, <2>7, <2>8, <2>9 DEF Obeys, Takes, CalmStep
<1>4. CASE Step(p, "claim", Goto(p, "mount"), Claimed) /\ Plain
  <2>1. PICK y : y = Claimed
    OBVIOUS
  <2>2. y \in SharedType /\ SameCounts(y, s) /\ SameModes(y, s) /\ y.hw = s.hw
        /\ Locked(y, s.Running, s.LoadRequested, s.Gate, s.MountGate)
    BY <1>1, <1>4, <2>1, ClaimedIs
  <2>3. PICK t : t = Goto(p, "mount")
    OBVIOUS
  <2>4. t \in TaskType /\ Went(t, task[p], "mount") /\ Same(t, task[p]) /\ (t.ok <=> task[p].ok)
    BY <1>1, <2>3, RecordIs, GotoIs DEF Procedures
  <2>5. Takes(p, "claim", y) /\ task'[p] = t
    BY <1>4, <1>1, <2>1, <2>2, <2>3, <2>4, TakesIs
  <2>6. LockStep(p)
    BY <1>0, <1>4, <2>2, <2>4, <2>5 DEF LockStep, OwnLocks, Holds, HoldsRun, HoldsLoad, HoldsGate,
           Takes, SameCounts, SameModes, Locked, Went, Same, Has, Plain
  <2>7. CountStep(p)
    BY <1>0, <1>4, <2>2, <2>4, <2>5 DEF CountStep, OwnLocks, OwnCounts, Flagged, Inside, Awake,
           Takes, SameCounts, SameModes, Locked, Went, Same, Has, Plain
  <2>8. SessionStep(p) /\ Apart(p)
    BY <1>0, <1>4, <2>2, <2>4, <2>5 DEF SessionStep, Apart, OwnLocks, OwnSession, Tenant, Keeps,
           Diagnoses, Alone2, HoldsRun, HoldsGate, OwnMode, Loads, LoadsSoon, Takes, SameCounts,
           SameModes, Locked, Went, Same, Has, Plain
  <2>9. ModeStep(p)
    BY <1>0, <1>4, <2>2, <2>4, <2>5 DEF ModeStep, OwnLocks, OwnMode, Settled, Mode, Loads,
           LoadsSoon, Filing, Quiet, Safe, Decided, Takes, SameCounts, SameModes, Locked, Went,
           Same, Has, Plain
  <2> QED BY <2>5, <2>6, <2>7, <2>8, <2>9 DEF Obeys, Takes, CalmStep
<1>5. CASE Mount(p, "mount", Into(p, "begin", "copy"), Goto(p, "leave"))
  <2>1. PICK g : g = Into(p, "begin", "copy")
    OBVIOUS
  <2>2. g \in TaskType /\ Called(g, task[p], "begin", "copy") /\ Same(g, task[p]) /\ (g.ok <=> task[p].ok)
    BY <1>1, <2>1, RecordIs, IntoIs DEF Procedures
  <2>3. PICK b : b = Goto(p, "leave")
    OBVIOUS
  <2>4. b \in TaskType /\ Went(b, task[p], "leave") /\ Same(b, task[p]) /\ (b.ok <=> task[p].ok)
    BY <1>1, <2>3, RecordIs, GotoIs DEF Procedures
  <2>5. \/ /\ s.MountGate = None /\ Takes(p, "mount", s') /\ SameCounts(s', s) /\ SameModes(s', s)
           /\ s'.hw = s.hw /\ Locked(s', s.Running, s.LoadRequested, s.Gate, p)
           /\ Noted(task'[p], g) /\ Has(task'[p], g.arg, g.want, g.bulk, TRUE, g.mine)
           /\ Plain
        \/ Takes(p, "mount", s) /\ task'[p] = b /\ (Plain \/ Fault)
    BY <1>5, <2>1, <2>2, <2>3, <2>4, MountIs
  <2>6. CASE /\ s.MountGate = None /\ Takes(p, "mount", s') /\ SameCounts(s', s) /\ SameModes(s', s)
             /\ s'.hw = s.hw /\ Locked(s', s.Running, s.LoadRequested, s.Gate, p)
             /\ Noted(task'[p], g) /\ Has(task'[p], g.arg, g.want, g.bulk, TRUE, g.mine)
             /\ Plain
    <3>1. LockStep(p)
      BY <1>0, <1>5, <2>2, <2>6 DEF LockStep, OwnLocks, Holds, HoldsRun, HoldsLoad, HoldsGate,
             Takes, SameCounts, SameModes, Locked, Called, Same, Noted, Has, Plain
    <3>2. CountStep(p)
      BY <1>0, <1>5, <2>2, <2>6 DEF CountStep, OwnLocks, OwnCounts, Flagged, Inside, Awake, Takes,
             SameCounts, SameModes, Locked, Called, Same, Noted, Has, Plain
    <3>3. SessionStep(p) /\ Apart(p)
      BY <1>0, <1>5, <2>2, <2>6 DEF SessionStep, Apart, OwnLocks, OwnSession, Tenant, Keeps,
             Diagnoses, Alone2, HoldsRun, HoldsGate, OwnMode, Loads, LoadsSoon, Takes, SameCounts,
             SameModes, Locked, Called, Same, Noted, Has, Plain
    <3>4. ModeStep(p)
      BY <1>0, <1>5, <2>2, <2>6 DEF ModeStep, OwnLocks, OwnMode, Settled, Mode, Loads, LoadsSoon,
             Filing, Quiet, Safe, Decided, Takes, SameCounts, SameModes, Locked, Called, Same,
             Noted, Has, Plain
    <3> QED BY <2>6, <3>1, <3>2, <3>3, <3>4 DEF Obeys, Takes, CalmStep
  <2>7. CASE Takes(p, "mount", s) /\ task'[p] = b /\ (Plain \/ Fault)
    <3>1. LockStep(p)
      BY <1>0, <1>5, <2>4, <2>7 DEF LockStep, OwnLocks, Holds, HoldsRun, HoldsLoad, HoldsGate,
             Takes, Went, Same, Has, Plain, Fault
    <3>2. CountStep(p)
      BY <1>0, <1>5, <2>4, <2>7 DEF CountStep, OwnLocks, OwnCounts, Flagged, Inside, Awake, Takes,
             Went, Same, Has, Plain, Fault
    <3>3. SessionStep(p) /\ Apart(p)
      BY <1>0, <1>5, <2>4, <2>7 DEF SessionStep, Apart, OwnLocks, OwnSession, Tenant, Keeps,
             Diagnoses, Alone2, HoldsRun, HoldsGate, OwnMode, Loads, LoadsSoon, Takes, Went, Same,
             Has, Plain, Fault
    <3>4. ModeStep(p)
      BY <1>0, <1>5, <2>4, <2>7 DEF ModeStep, OwnLocks, OwnMode, Settled, Mode, Loads, LoadsSoon,
             Filing, Quiet, Safe, Decided, Takes, Went, Same, Has, Plain, Fault
    <3> QED BY <2>7, <3>1, <3>2, <3>3, <3>4 DEF Obeys, Takes, CalmStep
  <2> QED BY <2>5, <2>6, <2>7
<1>6. CASE Step(p, "mount", Goto(p, "leave"), s) /\ Plain
  <2>1. Takes(p, "mount", s) /\ Went(task'[p], task[p], "leave") /\ Same(task'[p], task[p]) /\ (task'[p].ok <=> task[p].ok)
    BY <1>6, <1>1, RecordIs, GotoIs, TakesIs DEF Procedures
  <2>2. LockStep(p)
    BY <1>0, <1>6, <2>1 DEF LockStep, OwnLocks, Holds, HoldsRun, HoldsLoad, HoldsGate, Takes,
           Went, Same, Has, Plain
  <2>3. CountStep(p)
    BY <1>0, <1>6, <2>1 DEF CountStep, OwnLocks, OwnCounts, Flagged, Inside, Awake, Takes, Went,
           Same, Has, Plain
  <2>4. SessionStep(p) /\ Apart(p)
    BY <1>0, <1>6, <2>1 DEF SessionStep, Apart, OwnLocks, OwnSession, Tenant, Keeps, Diagnoses,
           Alone2, HoldsRun, HoldsGate, OwnMode, Loads, LoadsSoon, Takes, Went, Same, Has, Plain
  <2>5. ModeStep(p)
    BY <1>0, <1>6, <2>1 DEF ModeStep, OwnLocks, OwnMode, Settled, Mode, Loads, LoadsSoon, Filing,
           Quiet, Safe, Decided, Takes, Went, Same, Has, Plain
  <2> QED BY <2>1, <2>2, <2>3, <2>4, <2>5 DEF Obeys, Takes, CalmStep
<1>7. CASE Step(p, "copy", Goto(p, "leave"), s) /\ Plain
  <2>1. Takes(p, "copy", s) /\ Went(task'[p], task[p], "leave") /\ Same(task'[p], task[p]) /\ (task'[p].ok <=> task[p].ok)
    BY <1>7, <1>1, RecordIs, GotoIs, TakesIs DEF Procedures
  <2>2. LockStep(p)
    BY <1>0, <1>7, <2>1 DEF LockStep, OwnLocks, Holds, HoldsRun, HoldsLoad, HoldsGate, Takes,
           Went, Same, Has, Plain
  <2>3. CountStep(p)
    BY <1>0, <1>7, <2>1 DEF CountStep, OwnLocks, OwnCounts, Flagged, Inside, Awake, Takes, Went,
           Same, Has, Plain
  <2>4. SessionStep(p) /\ Apart(p)
    BY <1>0, <1>7, <2>1 DEF SessionStep, Apart, OwnLocks, OwnSession, Tenant, Keeps, Diagnoses,
           Alone2, HoldsRun, HoldsGate, OwnMode, Loads, LoadsSoon, Takes, Went, Same, Has, Plain
  <2>5. ModeStep(p)
    BY <1>0, <1>7, <2>1 DEF ModeStep, OwnLocks, OwnMode, Settled, Mode, Loads, LoadsSoon, Filing,
           Quiet, Safe, Decided, Takes, Went, Same, Has, Plain
  <2> QED BY <2>1, <2>2, <2>3, <2>4, <2>5 DEF Obeys, Takes, CalmStep
<1>8. CASE Step(p, "leave", Rest, [Released(p) EXCEPT !.VRunning = FALSE]) /\ Plain
  <2>1. PICK y : y = [Released(p) EXCEPT !.VRunning = FALSE]
    OBVIOUS
  <2>2. y \in SharedType /\ Closes(p, y) /\ y.hw = s.hw
        /\ Locked(y, s.Running, s.LoadRequested, s.Gate, IF task[p].card THEN None ELSE s.MountGate)
    BY <1>1, <1>8, <2>1, UseEndedIs
  <2>3. PICK t : t = Rest
    OBVIOUS
  <2>4. t \in TaskType /\ Rests(t)
    BY <1>1, <2>3, RecordIs, RestIs DEF Procedures
  <2>5. Takes(p, "leave", y) /\ task'[p] = t
    BY <1>8, <1>1, <2>1, <2>2, <2>3, <2>4, TakesIs
  <2>6. LockStep(p)
    BY <1>0, <1>8, <2>2, <2>4, <2>5 DEF LockStep, OwnLocks, Holds, HoldsRun, HoldsLoad, HoldsGate,
           Takes, Locked, Closes, SameModes, Balanced, Rests, Plain
  <2>7. CountStep(p)
    BY <1>0, <1>8, <2>2, <2>4, <2>5 DEF CountStep, OwnLocks, OwnCounts, Flagged, Inside, Awake,
           Takes, Locked, Closes, SameModes, Balanced, Rests, Plain
  <2>8. SessionStep(p) /\ Apart(p)
    BY <1>0, <1>8, <2>2, <2>4, <2>5 DEF SessionStep, Apart, OwnLocks, OwnSession, Tenant, Keeps,
           Diagnoses, Alone2, HoldsRun, HoldsGate, OwnMode, Loads, LoadsSoon, Takes, Locked,
           Closes, SameModes, Balanced, Rests, Plain
  <2>9. ModeStep(p)
    BY <1>0, <1>8, <2>2, <2>4, <2>5 DEF ModeStep, OwnLocks, OwnMode, Settled, Mode, Loads,
           LoadsSoon, Filing, Quiet, Safe, Decided, Takes, Locked, Closes, SameModes, Balanced,
           Rests, Plain
  <2> QED BY <2>5, <2>6, <2>7, <2>8, <2>9 DEF Obeys, Takes, CalmStep
<1> QED BY <1>1, <1>2, <1>3, <1>4, <1>5, <1>6, <1>7, <1>8 DEF SaveWake, SaveSteps

(* A command of PC mode takes the gate. *)
LEMMA CommandGateObeys ==
  ASSUME TypeOK, NEW p \in Tasks, p = "console", Own(p), CommandGate(p)
  PROVE  Obeys(p) /\ CalmStep(p)
<1>0. OwnLocks(p) /\ OwnCounts(p) /\ OwnSession(p) /\ OwnMode(p)
  BY DEF Own
<1>1. s \in SharedType /\ s.hw \in {None, "pc", "sd", "probe", "backup"}
      /\ {"enable", "transfer", "files"} \subseteq Labels
  BY DEF TypeOK, SharedType, Labels
<1>2. CASE /\ Step(p, "pc", Turning(p, Into(p, "enable", "transfer")), [s EXCEPT !.Gate = p])
           /\ s.Gate = None /\ Rising(p) /\ UNCHANGED <<left, meddled, intruded>>
  <2>1. PICK y : y = [s EXCEPT !.Gate = p]
    OBVIOUS
  <2>2. y \in SharedType /\ SameCounts(y, s) /\ SameModes(y, s) /\ y.hw = s.hw
        /\ Locked(y, s.Running, s.LoadRequested, p, s.MountGate)
    BY <1>1, <1>2, <2>1, GateSet
  <2>3. PICK t : t = Into(p, "enable", "transfer")
    OBVIOUS
  <2>4. t \in TaskType /\ Called(t, task[p], "enable", "transfer") /\ Same(t, task[p]) /\ (t.ok <=> task[p].ok)
    BY <1>1, <2>3, RecordIs, IntoIs DEF Procedures
  <2>5. PICK u : u = [t EXCEPT !.arg = TRUE, !.want = TRUE]
    OBVIOUS
  <2>6. Noted(u, t) /\ Has(u, TRUE, TRUE, t.bulk, t.card, t.mine)
    BY <1>1, <2>4, <2>5, TurnedIs
  <2>7. Takes(p, "pc", y) /\ task'[p] = u
    BY <1>2, <1>1, <2>1, <2>2, <2>3, <2>4, <2>5, <2>6, TakesIs DEF Noted, Turning
  <2>8. LockStep(p)
    BY <1>0, <1>2, <2>2, <2>4, <2>6, <2>7 DEF LockStep, OwnLocks, Holds, HoldsRun, HoldsLoad,
           HoldsGate, Takes, SameCounts, SameModes, Locked, Called, Noted, Has, Same, Rising
  <2>9. CountStep(p)
    BY <1>0, <1>2, <2>2, <2>4, <2>6, <2>7 DEF CountStep, OwnLocks, OwnCounts, Flagged, Inside,
           Awake, Takes, SameCounts, SameModes, Locked, Called, Noted, Has, Same, Rising
  <2>10. SessionStep(p) /\ Apart(p)
    BY <1>0, <1>2, <2>2, <2>4, <2>6, <2>7 DEF SessionStep, Apart, OwnLocks, OwnSession, Tenant,
           Keeps, Diagnoses, Alone2, HoldsRun, HoldsGate, OwnMode, Loads, LoadsSoon, Takes,
           SameCounts, SameModes, Locked, Called, Noted, Has, Same, Rising
  <2>11. ModeStep(p)
    BY <1>0, <1>2, <2>2, <2>4, <2>6, <2>7 DEF ModeStep, OwnLocks, OwnMode, Settled, Mode, Loads,
           LoadsSoon, Filing, Quiet, Safe, Decided, Takes, SameCounts, SameModes, Locked, Called,
           Noted, Has, Same, Rising
  <2> QED BY <2>7, <2>8, <2>9, <2>10, <2>11 DEF Obeys, Takes, CalmStep
<1>3. CASE /\ Step(p, "sd", Goto(p, "files"), [s EXCEPT !.Gate = p])
           /\ s.Gate = None /\ Plain
  <2>1. PICK y : y = [s EXCEPT !.Gate = p]
    OBVIOUS
  <2>2. y \in SharedType /\ SameCounts(y, s) /\ SameModes(y, s) /\ y.hw = s.hw
        /\ Locked(y, s.Running, s.LoadRequested, p, s.MountGate)
    BY <1>1, <1>3, <2>1, GateSet
  <2>3. PICK t : t = Goto(p, "files")
    OBVIOUS
  <2>4. t \in TaskType /\ Went(t, task[p], "files") /\ Same(t, task[p]) /\ (t.ok <=> task[p].ok)
    BY <1>1, <2>3, RecordIs, GotoIs DEF Procedures
  <2>5. Takes(p, "sd", y) /\ task'[p] = t
    BY <1>3, <1>1, <2>1, <2>2, <2>3, <2>4, TakesIs
  <2>6. LockStep(p)
    BY <1>0, <1>3, <2>2, <2>4, <2>5 DEF LockStep, OwnLocks, Holds, HoldsRun, HoldsLoad, HoldsGate,
           Takes, SameCounts, SameModes, Locked, Went, Same, Has, Plain
  <2>7. CountStep(p)
    BY <1>0, <1>3, <2>2, <2>4, <2>5 DEF CountStep, OwnLocks, OwnCounts, Flagged, Inside, Awake,
           Takes, SameCounts, SameModes, Locked, Went, Same, Has, Plain
  <2>8. SessionStep(p) /\ Apart(p)
    BY <1>0, <1>3, <2>2, <2>4, <2>5 DEF SessionStep, Apart, OwnLocks, OwnSession, Tenant, Keeps,
           Diagnoses, Alone2, HoldsRun, HoldsGate, OwnMode, Loads, LoadsSoon, Takes, SameCounts,
           SameModes, Locked, Went, Same, Has, Plain
  <2>9. ModeStep(p)
    BY <1>0, <1>3, <2>2, <2>4, <2>5 DEF ModeStep, OwnLocks, OwnMode, Settled, Mode, Loads,
           LoadsSoon, Filing, Quiet, Safe, Decided, Takes, SameCounts, SameModes, Locked, Went,
           Same, Has, Plain
  <2> QED BY <2>5, <2>6, <2>7, <2>8, <2>9 DEF Obeys, Takes, CalmStep
<1> QED BY <1>1, <1>2, <1>3 DEF CommandGate

(* CartBackup_StreamToPC, _StreamToSD, _ImportSaveFromPC, _FlashSession. *)
LEMMA TransferObeys ==
  ASSUME TypeOK, NEW p \in Tasks, p = "console", Own(p), Transfer(p)
  PROVE  Obeys(p) /\ CalmStep(p)
<1>0. OwnLocks(p) /\ OwnCounts(p) /\ OwnSession(p) /\ OwnMode(p)
  BY DEF Own
<1>1. s \in SharedType /\ s.hw \in {None, "pc", "sd", "probe", "backup"}
      /\ {"active", "begin", "closing", "reenter", "move", "moved", "restore", "restored", "request"} \subseteq Labels
  BY DEF TypeOK, SharedType, Labels
<1>2. CASE /\ task[p].ok /\ s.PCModeActive /\ ~s.Running
           /\ Step(p, "transfer", Into(p, "begin", "active"), [s EXCEPT !.Running = TRUE])
           /\ Plain
  <2>1. PICK y : y = [s EXCEPT !.Running = TRUE]
    OBVIOUS
  <2>2. y \in SharedType /\ SameCounts(y, s) /\ SameModes(y, s) /\ y.hw = s.hw
        /\ Locked(y, TRUE, s.LoadRequested, s.Gate, s.MountGate)
    BY <1>1, <1>2, <2>1, RunningSet
  <2>3. PICK t : t = Into(p, "begin", "active")
    OBVIOUS
  <2>4. t \in TaskType /\ Called(t, task[p], "begin", "active") /\ Same(t, task[p]) /\ (t.ok <=> task[p].ok)
    BY <1>1, <2>3, RecordIs, IntoIs DEF Procedures
  <2>5. Takes(p, "transfer", y) /\ task'[p] = t
    BY <1>2, <1>1, <2>1, <2>2, <2>3, <2>4, TakesIs
  <2>6. LockStep(p)
    BY <1>0, <1>2, <2>2, <2>4, <2>5 DEF LockStep, OwnLocks, Holds, HoldsRun, HoldsLoad, HoldsGate,
           Takes, SameCounts, SameModes, Locked, Called, Same, Has, Plain
  <2>7. CountStep(p)
    BY <1>0, <1>2, <2>2, <2>4, <2>5 DEF CountStep, OwnLocks, OwnCounts, Flagged, Inside, Awake,
           Takes, SameCounts, SameModes, Locked, Called, Same, Has, Plain
  <2>8. SessionStep(p) /\ Apart(p)
    BY <1>0, <1>2, <2>2, <2>4, <2>5 DEF SessionStep, Apart, OwnLocks, OwnSession, Tenant, Keeps,
           Diagnoses, Alone2, HoldsRun, HoldsGate, OwnMode, Loads, LoadsSoon, Takes, SameCounts,
           SameModes, Locked, Called, Same, Has, Plain
  <2>9. ModeStep(p)
    BY <1>0, <1>2, <2>2, <2>4, <2>5 DEF ModeStep, OwnLocks, OwnMode, Settled, Mode, Loads,
           LoadsSoon, Filing, Quiet, Safe, Decided, Takes, SameCounts, SameModes, Locked, Called,
           Same, Has, Plain
  <2> QED BY <2>5, <2>6, <2>7, <2>8, <2>9 DEF Obeys, Takes, CalmStep
<1>3. CASE /\ task[p].ok /\ s.PCModeActive /\ s.Running
           /\ Step(p, "transfer", Goto(p, "closing"), [s EXCEPT !.Running = TRUE])
           /\ Plain
  <2>1. PICK y : y = [s EXCEPT !.Running = TRUE]
    OBVIOUS
  <2>2. y \in SharedType /\ SameCounts(y, s) /\ SameModes(y, s) /\ y.hw = s.hw
        /\ Locked(y, TRUE, s.LoadRequested, s.Gate, s.MountGate)
    BY <1>1, <1>3, <2>1, RunningSet
  <2>3. PICK t : t = Goto(p, "closing")
    OBVIOUS
  <2>4. t \in TaskType /\ Went(t, task[p], "closing") /\ Same(t, task[p]) /\ (t.ok <=> task[p].ok)
    BY <1>1, <2>3, RecordIs, GotoIs DEF Procedures
  <2>5. Takes(p, "transfer", y) /\ task'[p] = t
    BY <1>3, <1>1, <2>1, <2>2, <2>3, <2>4, TakesIs
  <2>6. LockStep(p)
    BY <1>0, <1>3, <2>2, <2>4, <2>5 DEF LockStep, OwnLocks, Holds, HoldsRun, HoldsLoad, HoldsGate,
           Takes, SameCounts, SameModes, Locked, Went, Same, Has, Plain
  <2>7. CountStep(p)
    BY <1>0, <1>3, <2>2, <2>4, <2>5 DEF CountStep, OwnLocks, OwnCounts, Flagged, Inside, Awake,
           Takes, SameCounts, SameModes, Locked, Went, Same, Has, Plain
  <2>8. SessionStep(p) /\ Apart(p)
    BY <1>0, <1>3, <2>2, <2>4, <2>5 DEF SessionStep, Apart, OwnLocks, OwnSession, Tenant, Keeps,
           Diagnoses, Alone2, HoldsRun, HoldsGate, OwnMode, Loads, LoadsSoon, Takes, SameCounts,
           SameModes, Locked, Went, Same, Has, Plain
  <2>9. ModeStep(p)
    BY <1>0, <1>3, <2>2, <2>4, <2>5 DEF ModeStep, OwnLocks, OwnMode, Settled, Mode, Loads,
           LoadsSoon, Filing, Quiet, Safe, Decided, Takes, SameCounts, SameModes, Locked, Went,
           Same, Has, Plain
  <2> QED BY <2>5, <2>6, <2>7, <2>8, <2>9 DEF Obeys, Takes, CalmStep
<1>4. CASE /\ ~(task[p].ok /\ s.PCModeActive)
           /\ Step(p, "transfer", Goto(p, "closing"), s) /\ Plain
  <2>1. Takes(p, "transfer", s) /\ Went(task'[p], task[p], "closing") /\ Same(task'[p], task[p]) /\ (task'[p].ok <=> task[p].ok)
    BY <1>4, <1>1, RecordIs, GotoIs, TakesIs DEF Procedures
  <2>2. LockStep(p)
    BY <1>0, <1>4, <2>1 DEF LockStep, OwnLocks, Holds, HoldsRun, HoldsLoad, HoldsGate, Takes,
           Went, Same, Has, Plain
  <2>3. CountStep(p)
    BY <1>0, <1>4, <2>1 DEF CountStep, OwnLocks, OwnCounts, Flagged, Inside, Awake, Takes, Went,
           Same, Has, Plain
  <2>4. SessionStep(p) /\ Apart(p)
    BY <1>0, <1>4, <2>1 DEF SessionStep, Apart, OwnLocks, OwnSession, Tenant, Keeps, Diagnoses,
           Alone2, HoldsRun, HoldsGate, OwnMode, Loads, LoadsSoon, Takes, Went, Same, Has, Plain
  <2>5. ModeStep(p)
    BY <1>0, <1>4, <2>1 DEF ModeStep, OwnLocks, OwnMode, Settled, Mode, Loads, LoadsSoon, Filing,
           Quiet, Safe, Decided, Takes, Went, Same, Has, Plain
  <2> QED BY <2>1, <2>2, <2>3, <2>4, <2>5 DEF Obeys, Takes, CalmStep
<1>5. CASE /\ task[p].ok /\ s.hw # None
           /\ Step(p, "active", Goto(p, "reenter"), [s EXCEPT !.hw = None]) /\ Plain
  <2>1. PICK y : y = [s EXCEPT !.hw = None]
    OBVIOUS
  <2>2. y \in SharedType /\ SameCounts(y, s) /\ SameModes(y, s) /\ y.hw = None
        /\ Locked(y, s.Running, s.LoadRequested, s.Gate, s.MountGate)
    BY <1>1, <1>5, <2>1, HwSet
  <2>3. PICK t : t = Goto(p, "reenter")
    OBVIOUS
  <2>4. t \in TaskType /\ Went(t, task[p], "reenter") /\ Same(t, task[p]) /\ (t.ok <=> task[p].ok)
    BY <1>1, <2>3, RecordIs, GotoIs DEF Procedures
  <2>5. Takes(p, "active", y) /\ task'[p] = t
    BY <1>5, <1>1, <2>1, <2>2, <2>3, <2>4, TakesIs
  <2>6. LockStep(p)
    BY <1>0, <1>5, <2>2, <2>4, <2>5 DEF LockStep, OwnLocks, Holds, HoldsRun, HoldsLoad, HoldsGate,
           Takes, SameCounts, SameModes, Locked, Went, Same, Has, Plain
  <2>7. CountStep(p)
    BY <1>0, <1>5, <2>2, <2>4, <2>5 DEF CountStep, OwnLocks, OwnCounts, Flagged, Inside, Awake,
           Takes, SameCounts, SameModes, Locked, Went, Same, Has, Plain
  <2>8. SessionStep(p) /\ Apart(p)
    BY <1>0, <1>5, <2>2, <2>4, <2>5 DEF SessionStep, Apart, OwnLocks, OwnSession, Tenant, Keeps,
           Diagnoses, Alone2, HoldsRun, HoldsGate, OwnMode, Loads, LoadsSoon, Takes, SameCounts,
           SameModes, Locked, Went, Same, Has, Plain
  <2>9. ModeStep(p)
    BY <1>0, <1>5, <2>2, <2>4, <2>5 DEF ModeStep, OwnLocks, OwnMode, Settled, Mode, Loads,
           LoadsSoon, Filing, Quiet, Safe, Decided, Takes, SameCounts, SameModes, Locked, Went,
           Same, Has, Plain
  <2> QED BY <2>5, <2>6, <2>7, <2>8, <2>9 DEF Obeys, Takes, CalmStep
<1>6. CASE /\ task[p].ok /\ s.hw # None
           /\ Step(p, "active", [Goto(p, "move") EXCEPT !.mine = TRUE], s) /\ Plain
  <2>1. PICK t : t = Goto(p, "move")
    OBVIOUS
  <2>2. t \in TaskType /\ Went(t, task[p], "move") /\ Same(t, task[p]) /\ (t.ok <=> task[p].ok)
    BY <1>1, <2>1, RecordIs, GotoIs DEF Procedures
  <2>3. PICK u : u = [t EXCEPT !.mine = TRUE]
    OBVIOUS
  <2>4. Noted(u, t) /\ Has(u, t.arg, t.want, t.bulk, t.card, TRUE)
    BY <1>1, <2>2, <2>3, MineIs
  <2>5. Takes(p, "active", s) /\ task'[p] = u
    BY <1>6, <1>1, <2>1, <2>2, <2>3, <2>4, TakesIs DEF Noted
  <2>6. LockStep(p)
    BY <1>0, <1>6, <2>2, <2>4, <2>5 DEF LockStep, OwnLocks, Holds, HoldsRun, HoldsLoad, HoldsGate,
           Takes, Went, Noted, Has, Same, Plain
  <2>7. CountStep(p)
    BY <1>0, <1>6, <2>2, <2>4, <2>5 DEF CountStep, OwnLocks, OwnCounts, Flagged, Inside, Awake,
           Takes, Went, Noted, Has, Same, Plain
  <2>8. SessionStep(p) /\ Apart(p)
    BY <1>0, <1>6, <2>2, <2>4, <2>5 DEF SessionStep, Apart, OwnLocks, OwnSession, Tenant, Keeps,
           Diagnoses, Alone2, HoldsRun, HoldsGate, OwnMode, Loads, LoadsSoon, Takes, Went, Noted,
           Has, Same, Plain
  <2>9. ModeStep(p)
    BY <1>0, <1>6, <2>2, <2>4, <2>5 DEF ModeStep, OwnLocks, OwnMode, Settled, Mode, Loads,
           LoadsSoon, Filing, Quiet, Safe, Decided, Takes, Went, Noted, Has, Same, Plain
  <2> QED BY <2>5, <2>6, <2>7, <2>8, <2>9 DEF Obeys, Takes, CalmStep
<1>7. CASE Step(p, "active", Fail(p, "moved"), s) /\ (Plain \/ Fault)
  <2>1. Takes(p, "active", s) /\ Went(task'[p], task[p], "moved") /\ Same(task'[p], task[p]) /\ ~task'[p].ok
    BY <1>7, <1>1, RecordIs, FailIs, TakesIs DEF Procedures
  <2>2. LockStep(p)
    BY <1>0, <1>7, <2>1 DEF LockStep, OwnLocks, Holds, HoldsRun, HoldsLoad, HoldsGate, Takes,
           Went, Same, Has, Plain, Fault
  <2>3. CountStep(p)
    BY <1>0, <1>7, <2>1 DEF CountStep, OwnLocks, OwnCounts, Flagged, Inside, Awake, Takes, Went,
           Same, Has, Plain, Fault
  <2>4. SessionStep(p) /\ Apart(p)
    BY <1>0, <1>7, <2>1 DEF SessionStep, Apart, OwnLocks, OwnSession, Tenant, Keeps, Diagnoses,
           Alone2, HoldsRun, HoldsGate, OwnMode, Loads, LoadsSoon, Takes, Went, Same, Has, Plain,
           Fault
  <2>5. ModeStep(p)
    BY <1>0, <1>7, <2>1 DEF ModeStep, OwnLocks, OwnMode, Settled, Mode, Loads, LoadsSoon, Filing,
           Quiet, Safe, Decided, Takes, Went, Same, Has, Plain, Fault
  <2> QED BY <2>1, <2>2, <2>3, <2>4, <2>5 DEF Obeys, Takes, CalmStep
<1>8. CASE /\ s.hw = None
           /\ Step(p, "reenter", [Goto(p, "move") EXCEPT !.mine = TRUE], [s EXCEPT !.hw = "pc"])
           /\ Plain
  <2>1. PICK y : y = [s EXCEPT !.hw = "pc"]
    OBVIOUS
  <2>2. y \in SharedType /\ SameCounts(y, s) /\ SameModes(y, s) /\ y.hw = "pc"
        /\ Locked(y, s.Running, s.LoadRequested, s.Gate, s.MountGate)
    BY <1>1, <1>8, <2>1, HwSet
  <2>3. PICK t : t = Goto(p, "move")
    OBVIOUS
  <2>4. t \in TaskType /\ Went(t, task[p], "move") /\ Same(t, task[p]) /\ (t.ok <=> task[p].ok)
    BY <1>1, <2>3, RecordIs, GotoIs DEF Procedures
  <2>5. PICK u : u = [t EXCEPT !.mine = TRUE]
    OBVIOUS
  <2>6. Noted(u, t) /\ Has(u, t.arg, t.want, t.bulk, t.card, TRUE)
    BY <1>1, <2>4, <2>5, MineIs
  <2>7. Takes(p, "reenter", y) /\ task'[p] = u
    BY <1>8, <1>1, <2>1, <2>2, <2>3, <2>4, <2>5, <2>6, TakesIs DEF Noted
  <2>8. LockStep(p)
    BY <1>0, <1>8, <2>2, <2>4, <2>6, <2>7 DEF LockStep, OwnLocks, Holds, HoldsRun, HoldsLoad,
           HoldsGate, Takes, SameCounts, SameModes, Locked, Went, Noted, Has, Same, Plain
  <2>9. CountStep(p)
    BY <1>0, <1>8, <2>2, <2>4, <2>6, <2>7 DEF CountStep, OwnLocks, OwnCounts, Flagged, Inside,
           Awake, Takes, SameCounts, SameModes, Locked, Went, Noted, Has, Same, Plain
  <2>10. SessionStep(p) /\ Apart(p)
    BY <1>0, <1>8, <2>2, <2>4, <2>6, <2>7 DEF SessionStep, Apart, OwnLocks, OwnSession, Tenant,
           Keeps, Diagnoses, Alone2, HoldsRun, HoldsGate, OwnMode, Loads, LoadsSoon, Takes,
           SameCounts, SameModes, Locked, Went, Noted, Has, Same, Plain
  <2>11. ModeStep(p)
    BY <1>0, <1>8, <2>2, <2>4, <2>6, <2>7 DEF ModeStep, OwnLocks, OwnMode, Settled, Mode, Loads,
           LoadsSoon, Filing, Quiet, Safe, Decided, Takes, SameCounts, SameModes, Locked, Went,
           Noted, Has, Same, Plain
  <2> QED BY <2>7, <2>8, <2>9, <2>10, <2>11 DEF Obeys, Takes, CalmStep
<1>9. CASE /\ s.hw # None
           /\ Step(p, "reenter", Fail(p, "restore"), [s EXCEPT !.hw = s.hw]) /\ Plain
  <2>1. PICK y : y = [s EXCEPT !.hw = s.hw]
    OBVIOUS
  <2>2. y \in SharedType /\ SameCounts(y, s) /\ SameModes(y, s) /\ y.hw = s.hw
        /\ Locked(y, s.Running, s.LoadRequested, s.Gate, s.MountGate)
    BY <1>1, <1>9, <2>1, HwSet
  <2>3. PICK t : t = Fail(p, "restore")
    OBVIOUS
  <2>4. t \in TaskType /\ Went(t, task[p], "restore") /\ Same(t, task[p]) /\ ~t.ok
    BY <1>1, <2>3, RecordIs, FailIs DEF Procedures
  <2>5. Takes(p, "reenter", y) /\ task'[p] = t
    BY <1>9, <1>1, <2>1, <2>2, <2>3, <2>4, TakesIs
  <2>6. LockStep(p)
    BY <1>0, <1>9, <2>2, <2>4, <2>5 DEF LockStep, OwnLocks, Holds, HoldsRun, HoldsLoad, HoldsGate,
           Takes, SameCounts, SameModes, Locked, Went, Same, Has, Plain
  <2>7. CountStep(p)
    BY <1>0, <1>9, <2>2, <2>4, <2>5 DEF CountStep, OwnLocks, OwnCounts, Flagged, Inside, Awake,
           Takes, SameCounts, SameModes, Locked, Went, Same, Has, Plain
  <2>8. SessionStep(p) /\ Apart(p)
    BY <1>0, <1>9, <2>2, <2>4, <2>5 DEF SessionStep, Apart, OwnLocks, OwnSession, Tenant, Keeps,
           Diagnoses, Alone2, HoldsRun, HoldsGate, OwnMode, Loads, LoadsSoon, Takes, SameCounts,
           SameModes, Locked, Went, Same, Has, Plain
  <2>9. ModeStep(p)
    BY <1>0, <1>9, <2>2, <2>4, <2>5 DEF ModeStep, OwnLocks, OwnMode, Settled, Mode, Loads,
           LoadsSoon, Filing, Quiet, Safe, Decided, Takes, SameCounts, SameModes, Locked, Went,
           Same, Has, Plain
  <2> QED BY <2>5, <2>6, <2>7, <2>8, <2>9 DEF Obeys, Takes, CalmStep
<1>10. CASE /\ task[p].card
           /\ Step(p, "move", [Goto(p, "restore") EXCEPT !.mine = FALSE], s) /\ Plain
  <2>1. PICK t : t = Goto(p, "restore")
    OBVIOUS
  <2>2. t \in TaskType /\ Went(t, task[p], "restore") /\ Same(t, task[p]) /\ (t.ok <=> task[p].ok)
    BY <1>1, <2>1, RecordIs, GotoIs DEF Procedures
  <2>3. PICK u : u = [t EXCEPT !.mine = FALSE]
    OBVIOUS
  <2>4. Noted(u, t) /\ Has(u, t.arg, t.want, t.bulk, t.card, FALSE)
    BY <1>1, <2>2, <2>3, MineIs
  <2>5. Takes(p, "move", s) /\ task'[p] = u
    BY <1>10, <1>1, <2>1, <2>2, <2>3, <2>4, TakesIs DEF Noted
  <2>6. LockStep(p)
    BY <1>0, <1>10, <2>2, <2>4, <2>5 DEF LockStep, OwnLocks, Holds, HoldsRun, HoldsLoad,
           HoldsGate, Takes, Went, Noted, Has, Same, Plain
  <2>7. CountStep(p)
    BY <1>0, <1>10, <2>2, <2>4, <2>5 DEF CountStep, OwnLocks, OwnCounts, Flagged, Inside, Awake,
           Takes, Went, Noted, Has, Same, Plain
  <2>8. SessionStep(p) /\ Apart(p)
    BY <1>0, <1>10, <2>2, <2>4, <2>5 DEF SessionStep, Apart, OwnLocks, OwnSession, Tenant, Keeps,
           Diagnoses, Alone2, HoldsRun, HoldsGate, OwnMode, Loads, LoadsSoon, Takes, Went, Noted,
           Has, Same, Plain
  <2>9. ModeStep(p)
    BY <1>0, <1>10, <2>2, <2>4, <2>5 DEF ModeStep, OwnLocks, OwnMode, Settled, Mode, Loads,
           LoadsSoon, Filing, Quiet, Safe, Decided, Takes, Went, Noted, Has, Same, Plain
  <2> QED BY <2>5, <2>6, <2>7, <2>8, <2>9 DEF Obeys, Takes, CalmStep
<1>11. CASE /\ ~task[p].card
           /\ Step(p, "move", [Goto(p, "moved") EXCEPT !.mine = FALSE], s) /\ Plain
  <2>1. PICK t : t = Goto(p, "moved")
    OBVIOUS
  <2>2. t \in TaskType /\ Went(t, task[p], "moved") /\ Same(t, task[p]) /\ (t.ok <=> task[p].ok)
    BY <1>1, <2>1, RecordIs, GotoIs DEF Procedures
  <2>3. PICK u : u = [t EXCEPT !.mine = FALSE]
    OBVIOUS
  <2>4. Noted(u, t) /\ Has(u, t.arg, t.want, t.bulk, t.card, FALSE)
    BY <1>1, <2>2, <2>3, MineIs
  <2>5. Takes(p, "move", s) /\ task'[p] = u
    BY <1>11, <1>1, <2>1, <2>2, <2>3, <2>4, TakesIs DEF Noted
  <2>6. LockStep(p)
    BY <1>0, <1>11, <2>2, <2>4, <2>5 DEF LockStep, OwnLocks, Holds, HoldsRun, HoldsLoad,
           HoldsGate, Takes, Went, Noted, Has, Same, Plain
  <2>7. CountStep(p)
    BY <1>0, <1>11, <2>2, <2>4, <2>5 DEF CountStep, OwnLocks, OwnCounts, Flagged, Inside, Awake,
           Takes, Went, Noted, Has, Same, Plain
  <2>8. SessionStep(p) /\ Apart(p)
    BY <1>0, <1>11, <2>2, <2>4, <2>5 DEF SessionStep, Apart, OwnLocks, OwnSession, Tenant, Keeps,
           Diagnoses, Alone2, HoldsRun, HoldsGate, OwnMode, Loads, LoadsSoon, Takes, Went, Noted,
           Has, Same, Plain
  <2>9. ModeStep(p)
    BY <1>0, <1>11, <2>2, <2>4, <2>5 DEF ModeStep, OwnLocks, OwnMode, Settled, Mode, Loads,
           LoadsSoon, Filing, Quiet, Safe, Decided, Takes, Went, Noted, Has, Same, Plain
  <2> QED BY <2>5, <2>6, <2>7, <2>8, <2>9 DEF Obeys, Takes, CalmStep
<1>12. CASE Step(p, "restore", Goto(p, "restored"), [s EXCEPT !.hw = None]) /\ Plain
  <2>1. PICK y : y = [s EXCEPT !.hw = None]
    OBVIOUS
  <2>2. y \in SharedType /\ SameCounts(y, s) /\ SameModes(y, s) /\ y.hw = None
        /\ Locked(y, s.Running, s.LoadRequested, s.Gate, s.MountGate)
    BY <1>1, <1>12, <2>1, HwSet
  <2>3. PICK t : t = Goto(p, "restored")
    OBVIOUS
  <2>4. t \in TaskType /\ Went(t, task[p], "restored") /\ Same(t, task[p]) /\ (t.ok <=> task[p].ok)
    BY <1>1, <2>3, RecordIs, GotoIs DEF Procedures
  <2>5. Takes(p, "restore", y) /\ task'[p] = t
    BY <1>12, <1>1, <2>1, <2>2, <2>3, <2>4, TakesIs
  <2>6. LockStep(p)
    BY <1>0, <1>12, <2>2, <2>4, <2>5 DEF LockStep, OwnLocks, Holds, HoldsRun, HoldsLoad,
           HoldsGate, Takes, SameCounts, SameModes, Locked, Went, Same, Has, Plain
  <2>7. CountStep(p)
    BY <1>0, <1>12, <2>2, <2>4, <2>5 DEF CountStep, OwnLocks, OwnCounts, Flagged, Inside, Awake,
           Takes, SameCounts, SameModes, Locked, Went, Same, Has, Plain
  <2>8. SessionStep(p) /\ Apart(p)
    BY <1>0, <1>12, <2>2, <2>4, <2>5 DEF SessionStep, Apart, OwnLocks, OwnSession, Tenant, Keeps,
           Diagnoses, Alone2, HoldsRun, HoldsGate, OwnMode, Loads, LoadsSoon, Takes, SameCounts,
           SameModes, Locked, Went, Same, Has, Plain
  <2>9. ModeStep(p)
    BY <1>0, <1>12, <2>2, <2>4, <2>5 DEF ModeStep, OwnLocks, OwnMode, Settled, Mode, Loads,
           LoadsSoon, Filing, Quiet, Safe, Decided, Takes, SameCounts, SameModes, Locked, Went,
           Same, Has, Plain
  <2> QED BY <2>5, <2>6, <2>7, <2>8, <2>9 DEF Obeys, Takes, CalmStep
<1>13. CASE Step(p, "restore", Fail(p, "moved"), s) /\ Plain
  <2>1. Takes(p, "restore", s) /\ Went(task'[p], task[p], "moved") /\ Same(task'[p], task[p]) /\ ~task'[p].ok
    BY <1>13, <1>1, RecordIs, FailIs, TakesIs DEF Procedures
  <2>2. LockStep(p)
    BY <1>0, <1>13, <2>1 DEF LockStep, OwnLocks, Holds, HoldsRun, HoldsLoad, HoldsGate, Takes,
           Went, Same, Has, Plain
  <2>3. CountStep(p)
    BY <1>0, <1>13, <2>1 DEF CountStep, OwnLocks, OwnCounts, Flagged, Inside, Awake, Takes, Went,
           Same, Has, Plain
  <2>4. SessionStep(p) /\ Apart(p)
    BY <1>0, <1>13, <2>1 DEF SessionStep, Apart, OwnLocks, OwnSession, Tenant, Keeps, Diagnoses,
           Alone2, HoldsRun, HoldsGate, OwnMode, Loads, LoadsSoon, Takes, Went, Same, Has, Plain
  <2>5. ModeStep(p)
    BY <1>0, <1>13, <2>1 DEF ModeStep, OwnLocks, OwnMode, Settled, Mode, Loads, LoadsSoon, Filing,
           Quiet, Safe, Decided, Takes, Went, Same, Has, Plain
  <2> QED BY <2>1, <2>2, <2>3, <2>4, <2>5 DEF Obeys, Takes, CalmStep
<1>14. CASE /\ s.hw = None
           /\ Step(p, "restored", Goto(p, "moved"), [s EXCEPT !.hw = "pc"]) /\ Plain
  <2>1. PICK y : y = [s EXCEPT !.hw = "pc"]
    OBVIOUS
  <2>2. y \in SharedType /\ SameCounts(y, s) /\ SameModes(y, s) /\ y.hw = "pc"
        /\ Locked(y, s.Running, s.LoadRequested, s.Gate, s.MountGate)
    BY <1>1, <1>14, <2>1, HwSet
  <2>3. PICK t : t = Goto(p, "moved")
    OBVIOUS
  <2>4. t \in TaskType /\ Went(t, task[p], "moved") /\ Same(t, task[p]) /\ (t.ok <=> task[p].ok)
    BY <1>1, <2>3, RecordIs, GotoIs DEF Procedures
  <2>5. Takes(p, "restored", y) /\ task'[p] = t
    BY <1>14, <1>1, <2>1, <2>2, <2>3, <2>4, TakesIs
  <2>6. LockStep(p)
    BY <1>0, <1>14, <2>2, <2>4, <2>5 DEF LockStep, OwnLocks, Holds, HoldsRun, HoldsLoad,
           HoldsGate, Takes, SameCounts, SameModes, Locked, Went, Same, Has, Plain
  <2>7. CountStep(p)
    BY <1>0, <1>14, <2>2, <2>4, <2>5 DEF CountStep, OwnLocks, OwnCounts, Flagged, Inside, Awake,
           Takes, SameCounts, SameModes, Locked, Went, Same, Has, Plain
  <2>8. SessionStep(p) /\ Apart(p)
    BY <1>0, <1>14, <2>2, <2>4, <2>5 DEF SessionStep, Apart, OwnLocks, OwnSession, Tenant, Keeps,
           Diagnoses, Alone2, HoldsRun, HoldsGate, OwnMode, Loads, LoadsSoon, Takes, SameCounts,
           SameModes, Locked, Went, Same, Has, Plain
  <2>9. ModeStep(p)
    BY <1>0, <1>14, <2>2, <2>4, <2>5 DEF ModeStep, OwnLocks, OwnMode, Settled, Mode, Loads,
           LoadsSoon, Filing, Quiet, Safe, Decided, Takes, SameCounts, SameModes, Locked, Went,
           Same, Has, Plain
  <2> QED BY <2>5, <2>6, <2>7, <2>8, <2>9 DEF Obeys, Takes, CalmStep
<1>15. CASE /\ s.hw # None
           /\ Step(p, "restored", Fail(p, "moved"), [s EXCEPT !.hw = s.hw]) /\ Plain
  <2>1. PICK y : y = [s EXCEPT !.hw = s.hw]
    OBVIOUS
  <2>2. y \in SharedType /\ SameCounts(y, s) /\ SameModes(y, s) /\ y.hw = s.hw
        /\ Locked(y, s.Running, s.LoadRequested, s.Gate, s.MountGate)
    BY <1>1, <1>15, <2>1, HwSet
  <2>3. PICK t : t = Fail(p, "moved")
    OBVIOUS
  <2>4. t \in TaskType /\ Went(t, task[p], "moved") /\ Same(t, task[p]) /\ ~t.ok
    BY <1>1, <2>3, RecordIs, FailIs DEF Procedures
  <2>5. Takes(p, "restored", y) /\ task'[p] = t
    BY <1>15, <1>1, <2>1, <2>2, <2>3, <2>4, TakesIs
  <2>6. LockStep(p)
    BY <1>0, <1>15, <2>2, <2>4, <2>5 DEF LockStep, OwnLocks, Holds, HoldsRun, HoldsLoad,
           HoldsGate, Takes, SameCounts, SameModes, Locked, Went, Same, Has, Plain
  <2>7. CountStep(p)
    BY <1>0, <1>15, <2>2, <2>4, <2>5 DEF CountStep, OwnLocks, OwnCounts, Flagged, Inside, Awake,
           Takes, SameCounts, SameModes, Locked, Went, Same, Has, Plain
  <2>8. SessionStep(p) /\ Apart(p)
    BY <1>0, <1>15, <2>2, <2>4, <2>5 DEF SessionStep, Apart, OwnLocks, OwnSession, Tenant, Keeps,
           Diagnoses, Alone2, HoldsRun, HoldsGate, OwnMode, Loads, LoadsSoon, Takes, SameCounts,
           SameModes, Locked, Went, Same, Has, Plain
  <2>9. ModeStep(p)
    BY <1>0, <1>15, <2>2, <2>4, <2>5 DEF ModeStep, OwnLocks, OwnMode, Settled, Mode, Loads,
           LoadsSoon, Filing, Quiet, Safe, Decided, Takes, SameCounts, SameModes, Locked, Went,
           Same, Has, Plain
  <2> QED BY <2>5, <2>6, <2>7, <2>8, <2>9 DEF Obeys, Takes, CalmStep
<1>16. CASE Step(p, "restored", Fail(p, "moved"), s) /\ Fault
  <2>1. Takes(p, "restored", s) /\ Went(task'[p], task[p], "moved") /\ Same(task'[p], task[p]) /\ ~task'[p].ok
    BY <1>16, <1>1, RecordIs, FailIs, TakesIs DEF Procedures
  <2>2. LockStep(p)
    BY <1>0, <1>16, <2>1 DEF LockStep, OwnLocks, Holds, HoldsRun, HoldsLoad, HoldsGate, Takes,
           Went, Same, Has, Plain, Fault
  <2>3. CountStep(p)
    BY <1>0, <1>16, <2>1 DEF CountStep, OwnLocks, OwnCounts, Flagged, Inside, Awake, Takes, Went,
           Same, Has, Plain, Fault
  <2>4. SessionStep(p) /\ Apart(p)
    BY <1>0, <1>16, <2>1 DEF SessionStep, Apart, OwnLocks, OwnSession, Tenant, Keeps, Diagnoses,
           Alone2, HoldsRun, HoldsGate, OwnMode, Loads, LoadsSoon, Takes, Went, Same, Has, Plain,
           Fault
  <2>5. ModeStep(p)
    BY <1>0, <1>16, <2>1 DEF ModeStep, OwnLocks, OwnMode, Settled, Mode, Loads, LoadsSoon, Filing,
           Quiet, Safe, Decided, Takes, Went, Same, Has, Plain, Fault
  <2> QED BY <2>1, <2>2, <2>3, <2>4, <2>5 DEF Obeys, Takes, CalmStep
<1>17. CASE /\ task[p].card /\ task[p].ok
           /\ Step(p, "moved", [Goto(p, "request") EXCEPT !.bulk = FALSE],
                   [Closed(p) EXCEPT !.Running = FALSE])
           /\ Plain
  <2>1. ~Enables(task[p]) /\ ~Modes(task[p])
    BY <1>0, <1>17 DEF OwnLocks, Step
  <2>2. PICK y : y = [Closed(p) EXCEPT !.Running = FALSE]
    OBVIOUS
  <2>3. y \in SharedType /\ Closes(p, y) /\ y.hw = s.hw
        /\ Locked(y, FALSE, s.LoadRequested, s.Gate, s.MountGate)
    BY <1>1, <1>17, <2>1, <2>2, RunEndedIs
  <2>4. PICK t : t = Goto(p, "request")
    OBVIOUS
  <2>5. t \in TaskType /\ Went(t, task[p], "request") /\ Same(t, task[p]) /\ (t.ok <=> task[p].ok)
    BY <1>1, <2>4, RecordIs, GotoIs DEF Procedures
  <2>6. PICK u : u = [t EXCEPT !.bulk = FALSE]
    OBVIOUS
  <2>7. Noted(u, t) /\ Has(u, t.arg, t.want, FALSE, t.card, t.mine)
    BY <1>1, <2>5, <2>6, BulkIs
  <2>8. Takes(p, "moved", y) /\ task'[p] = u
    BY <1>17, <1>1, <2>1, <2>2, <2>3, <2>4, <2>5, <2>6, <2>7, TakesIs DEF Noted
  <2>9. Calls(task'[p]) /\ Returns(p, task'[p])
    BY <1>0, <1>17, <2>1, <2>3, <2>5, <2>7, <2>8 DEF OwnLocks, Takes, Locked, Closes, SameModes,
           Balanced, Went, Noted, Has, Same, Plain
  <2>10. Carries(p, task'[p])
    <3>1. /\ task'[p].at = "request" /\ ~task'[p].bulk /\ ~task'[p].mine
          /\ p = "console" /\ task'[p].card
      BY <1>0, <1>17, <2>5, <2>7, <2>8 DEF OwnLocks, Takes, Went, Noted, Has, Same
    <3>2. ~Enables(task'[p]) /\ ~Modes(task'[p])
      BY <1>17, <2>1, <2>5, <2>7, <2>8 DEF Takes, Went, Noted
    <3> QED BY <3>1, <3>2
  <2>11. /\ HoldsRun(p, task[p]) /\ ~HoldsRun(p, task'[p])
        /\ ~HoldsLoad(p, task'[p])
    BY <1>0, <1>17, <2>1, <2>3, <2>5, <2>7, <2>8 DEF OwnLocks, Holds, HoldsRun, HoldsLoad,
           HoldsGate, Takes, Locked, Closes, SameModes, Balanced, Went, Noted, Has, Same, Plain
  <2>12. Holds(p, task'[p], s')
    <3>1. task[p].at = "moved" /\ task[p].card /\ Holds(p, task[p], s)
      BY <1>0, <1>17, <2>8 DEF OwnLocks, Takes
    <3>2. HoldsGate(p, task[p]) \/ ~HoldsGate(p, task'[p])
      BY <1>0, <1>17, <2>5, <2>7, <2>8, <3>1 DEF HoldsGate, OwnLocks, Takes, Went, Noted, Has, Same
    <3>3. s'.Gate = s.Gate /\ s'.MountGate = s.MountGate
      BY <2>3, <2>8 DEF Takes, Locked
    <3> QED BY <2>11, <3>1, <3>2, <3>3 DEF Holds
  <2>13. One(Inside(p, task'[p])) = One(Inside(p, task[p]))
    BY <1>0, <1>17, <2>1, <2>3, <2>5, <2>7, <2>8 DEF OwnLocks, Inside, One, Takes, Locked, Closes,
           SameModes, Balanced, Went, Noted, Has, Same, Plain
  <2>14. LockStep(p)
    <3> QED BY <1>0, <1>17, <2>1, <2>3, <2>5, <2>7, <2>8, <2>9, <2>10, <2>11, <2>12, <2>13
               DEF LockStep, OwnLocks, Settled, Takes, Locked, Closes, SameModes, Balanced, Went,
                   Noted, Has, Same, Plain
  <2>15. CountStep(p)
    <3> QED BY <1>0, <1>17, <2>1, <2>3, <2>5, <2>7, <2>8, <2>9, <2>10, <2>11, <2>12, <2>13
               DEF CountStep, OwnLocks, OwnCounts, Settled, Takes, Locked, Closes, SameModes,
                   Balanced, Went, Noted, Has, Same, Plain
  <2>16. SessionStep(p) /\ Apart(p)
    BY <1>0, <1>17, <2>1, <2>3, <2>5, <2>7, <2>8 DEF SessionStep, Apart, OwnLocks, OwnSession,
           Tenant, Keeps, Diagnoses, Alone2, HoldsRun, HoldsGate, OwnMode, Loads, LoadsSoon,
           Takes, Locked, Closes, SameModes, Balanced, Went, Noted, Has, Same, Plain
  <2>17. ModeStep(p)
    BY <1>0, <1>17, <2>1, <2>3, <2>5, <2>7, <2>8 DEF ModeStep, OwnLocks, OwnMode, Settled, Mode,
           Loads, LoadsSoon, Filing, Quiet, Safe, Decided, Takes, Locked, Closes, SameModes,
           Balanced, Went, Noted, Has, Same, Plain
  <2> QED BY <2>8, <2>14, <2>15, <2>16, <2>17 DEF Obeys, Takes, CalmStep
<1>18. CASE /\ ~(task[p].card /\ task[p].ok)
           /\ Step(p, "moved", [Goto(p, "closing") EXCEPT !.bulk = FALSE],
                   [Closed(p) EXCEPT !.Running = FALSE])
           /\ Plain
  <2>1. ~Enables(task[p]) /\ ~Modes(task[p])
    BY <1>0, <1>18 DEF OwnLocks, Step
  <2>2. PICK y : y = [Closed(p) EXCEPT !.Running = FALSE]
    OBVIOUS
  <2>3. y \in SharedType /\ Closes(p, y) /\ y.hw = s.hw
        /\ Locked(y, FALSE, s.LoadRequested, s.Gate, s.MountGate)
    BY <1>1, <1>18, <2>1, <2>2, RunEndedIs
  <2>4. PICK t : t = Goto(p, "closing")
    OBVIOUS
  <2>5. t \in TaskType /\ Went(t, task[p], "closing") /\ Same(t, task[p]) /\ (t.ok <=> task[p].ok)
    BY <1>1, <2>4, RecordIs, GotoIs DEF Procedures
  <2>6. PICK u : u = [t EXCEPT !.bulk = FALSE]
    OBVIOUS
  <2>7. Noted(u, t) /\ Has(u, t.arg, t.want, FALSE, t.card, t.mine)
    BY <1>1, <2>5, <2>6, BulkIs
  <2>8. Takes(p, "moved", y) /\ task'[p] = u
    BY <1>18, <1>1, <2>1, <2>2, <2>3, <2>4, <2>5, <2>6, <2>7, TakesIs DEF Noted
  <2>9. Calls(task'[p]) /\ Returns(p, task'[p])
    BY <1>0, <1>18, <2>1, <2>3, <2>5, <2>7, <2>8 DEF OwnLocks, Takes, Locked, Closes, SameModes,
           Balanced, Went, Noted, Has, Same, Plain
  <2>10. Carries(p, task'[p])
    <3>1. /\ task'[p].at = "closing" /\ ~task'[p].bulk /\ ~task'[p].mine
          /\ p = "console" /\ ~UpTo(task'[p], Serving)
      BY <1>0, <1>18, <2>5, <2>7, <2>8 DEF OwnLocks, Takes, Went, Noted, Has, Same
    <3>2. ~Enables(task'[p]) /\ ~Modes(task'[p])
      BY <1>18, <2>1, <2>5, <2>7, <2>8 DEF Takes, Went, Noted
    <3> QED BY <3>1, <3>2
  <2>11. Holds(p, task'[p], s')
    BY <1>0, <1>18, <2>1, <2>3, <2>5, <2>7, <2>8 DEF OwnLocks, Holds, HoldsRun, HoldsLoad,
           HoldsGate, Takes, Locked, Closes, SameModes, Balanced, Went, Noted, Has, Same, Plain
  <2>12. /\ HoldsRun(p, task[p]) /\ ~HoldsRun(p, task'[p])
        /\ ~HoldsLoad(p, task'[p])
    BY <1>0, <1>18, <2>1, <2>3, <2>5, <2>7, <2>8 DEF OwnLocks, Holds, HoldsRun, HoldsLoad,
           HoldsGate, Takes, Locked, Closes, SameModes, Balanced, Went, Noted, Has, Same, Plain
  <2>13. One(Inside(p, task'[p])) = One(Inside(p, task[p]))
    BY <1>0, <1>18, <2>1, <2>3, <2>5, <2>7, <2>8 DEF OwnLocks, Inside, One, Takes, Locked, Closes,
           SameModes, Balanced, Went, Noted, Has, Same, Plain
  <2>14. LockStep(p)
    <3> QED BY <1>0, <1>18, <2>1, <2>3, <2>5, <2>7, <2>8, <2>9, <2>10, <2>11, <2>12, <2>13
               DEF LockStep, OwnLocks, Settled, Takes, Locked, Closes, SameModes, Balanced, Went,
                   Noted, Has, Same, Plain
  <2>15. CountStep(p)
    <3> QED BY <1>0, <1>18, <2>1, <2>3, <2>5, <2>7, <2>8, <2>9, <2>10, <2>11, <2>12, <2>13
               DEF CountStep, OwnLocks, OwnCounts, Settled, Takes, Locked, Closes, SameModes,
                   Balanced, Went, Noted, Has, Same, Plain
  <2>16. SessionStep(p) /\ Apart(p)
    BY <1>0, <1>18, <2>1, <2>3, <2>5, <2>7, <2>8 DEF SessionStep, Apart, OwnLocks, OwnSession,
           Tenant, Keeps, Diagnoses, Alone2, HoldsRun, HoldsGate, OwnMode, Loads, LoadsSoon,
           Takes, Locked, Closes, SameModes, Balanced, Went, Noted, Has, Same, Plain
  <2>17. ModeStep(p)
    BY <1>0, <1>18, <2>1, <2>3, <2>5, <2>7, <2>8 DEF ModeStep, OwnLocks, OwnMode, Settled, Mode,
           Loads, LoadsSoon, Filing, Quiet, Safe, Decided, Takes, Locked, Closes, SameModes,
           Balanced, Went, Noted, Has, Same, Plain
  <2> QED BY <2>8, <2>14, <2>15, <2>16, <2>17 DEF Obeys, Takes, CalmStep
<1> QED BY <1>2, <1>3, <1>4, <1>5, <1>6, <1>7, <1>8, <1>9, <1>10, <1>11, <1>12, <1>13, <1>14,
           <1>15, <1>16, <1>17, <1>18 DEF Transfer

(* SDCommand and PCSD_Run. *)
LEMMA FilesObey ==
  ASSUME TypeOK, NEW p \in Tasks, p = "console", Own(p), Files(p)
  PROVE  Obeys(p) /\ CalmStep(p)
<1>0. OwnLocks(p) /\ OwnCounts(p) /\ OwnSession(p) /\ OwnMode(p)
  BY DEF Own
<1>1. s \in SharedType /\ s.hw \in {None, "pc", "sd", "probe", "backup"}
      /\ {"closing", "stop", "card", "request", "mode", "transfer", "down", "begin", "down_enter", "down_send"} \subseteq Labels
  BY DEF TypeOK, SharedType, Labels
<1>2. CASE Step(p, "files", Goto(p, "closing"), s) /\ Plain
  <2>1. Takes(p, "files", s) /\ Went(task'[p], task[p], "closing") /\ Same(task'[p], task[p]) /\ (task'[p].ok <=> task[p].ok)
    BY <1>2, <1>1, RecordIs, GotoIs, TakesIs DEF Procedures
  <2>2. LockStep(p)
    BY <1>0, <1>2, <2>1 DEF LockStep, OwnLocks, Holds, HoldsRun, HoldsLoad, HoldsGate, Takes,
           Went, Same, Has, Plain
  <2>3. CountStep(p)
    BY <1>0, <1>2, <2>1 DEF CountStep, OwnLocks, OwnCounts, Flagged, Inside, Awake, Takes, Went,
           Same, Has, Plain
  <2>4. SessionStep(p) /\ Apart(p)
    BY <1>0, <1>2, <2>1 DEF SessionStep, Apart, OwnLocks, OwnSession, Tenant, Keeps, Diagnoses,
           Alone2, HoldsRun, HoldsGate, OwnMode, Loads, LoadsSoon, Takes, Went, Same, Has, Plain
  <2>5. ModeStep(p)
    BY <1>0, <1>2, <2>1 DEF ModeStep, OwnLocks, OwnMode, Settled, Mode, Loads, LoadsSoon, Filing,
           Quiet, Safe, Decided, Takes, Went, Same, Has, Plain
  <2> QED BY <2>1, <2>2, <2>3, <2>4, <2>5 DEF Obeys, Takes, CalmStep
<1>3. CASE ~Busy /\ Step(p, "files", Into(p, "stop", "card"), s) /\ Plain
  <2>1. Takes(p, "files", s) /\ Called(task'[p], task[p], "stop", "card") /\ Same(task'[p], task[p]) /\ (task'[p].ok <=> task[p].ok)
    BY <1>3, <1>1, RecordIs, IntoIs, TakesIs DEF Procedures
  <2>2. LockStep(p)
    BY <1>0, <1>3, <2>1 DEF LockStep, OwnLocks, Holds, HoldsRun, HoldsLoad, HoldsGate, Takes,
           Called, Same, Has, Plain, Busy
  <2>3. CountStep(p)
    BY <1>0, <1>3, <2>1 DEF CountStep, OwnLocks, OwnCounts, Flagged, Inside, Awake, Takes, Called,
           Same, Has, Plain, Busy
  <2>4. SessionStep(p) /\ Apart(p)
    BY <1>0, <1>3, <2>1 DEF SessionStep, Apart, OwnLocks, OwnSession, Tenant, Keeps, Diagnoses,
           Alone2, HoldsRun, HoldsGate, OwnMode, Loads, LoadsSoon, Takes, Called, Same, Has,
           Plain, Busy
  <2>5. ModeStep(p)
    BY <1>0, <1>3, <2>1 DEF ModeStep, OwnLocks, OwnMode, Settled, Mode, Loads, LoadsSoon, Filing,
           Quiet, Safe, Decided, Takes, Called, Same, Has, Plain, Busy
  <2> QED BY <2>1, <2>2, <2>3, <2>4, <2>5 DEF Obeys, Takes, CalmStep
<1>4. CASE ~Busy /\ ~s.Active /\ Step(p, "files", Good(p, "card"), s) /\ Plain
  <2>1. Takes(p, "files", s) /\ Went(task'[p], task[p], "card") /\ Same(task'[p], task[p]) /\ task'[p].ok
    BY <1>4, <1>1, RecordIs, GoodIs, TakesIs DEF Procedures
  <2>2. LockStep(p)
    BY <1>0, <1>4, <2>1 DEF LockStep, OwnLocks, Holds, HoldsRun, HoldsLoad, HoldsGate, Takes,
           Went, Same, Has, Plain, Busy
  <2>3. CountStep(p)
    BY <1>0, <1>4, <2>1 DEF CountStep, OwnLocks, OwnCounts, Flagged, Inside, Awake, Takes, Went,
           Same, Has, Plain, Busy
  <2>4. SessionStep(p) /\ Apart(p)
    BY <1>0, <1>4, <2>1 DEF SessionStep, Apart, OwnLocks, OwnSession, Tenant, Keeps, Diagnoses,
           Alone2, HoldsRun, HoldsGate, OwnMode, Loads, LoadsSoon, Takes, Went, Same, Has, Plain,
           Busy
  <2>5. ModeStep(p)
    BY <1>0, <1>4, <2>1 DEF ModeStep, OwnLocks, OwnMode, Settled, Mode, Loads, LoadsSoon, Filing,
           Quiet, Safe, Decided, Takes, Went, Same, Has, Plain, Busy
  <2> QED BY <2>1, <2>2, <2>3, <2>4, <2>5 DEF Obeys, Takes, CalmStep
<1>5. CASE task[p].ok /\ Mount(p, "card", Goto(p, "request"), Goto(p, "closing"))
  <2>1. PICK g : g = Goto(p, "request")
    OBVIOUS
  <2>2. g \in TaskType /\ Went(g, task[p], "request") /\ Same(g, task[p]) /\ (g.ok <=> task[p].ok)
    BY <1>1, <2>1, RecordIs, GotoIs DEF Procedures
  <2>3. PICK b : b = Goto(p, "closing")
    OBVIOUS
  <2>4. b \in TaskType /\ Went(b, task[p], "closing") /\ Same(b, task[p]) /\ (b.ok <=> task[p].ok)
    BY <1>1, <2>3, RecordIs, GotoIs DEF Procedures
  <2>5. \/ /\ s.MountGate = None /\ Takes(p, "card", s') /\ SameCounts(s', s) /\ SameModes(s', s)
           /\ s'.hw = s.hw /\ Locked(s', s.Running, s.LoadRequested, s.Gate, p)
           /\ Noted(task'[p], g) /\ Has(task'[p], g.arg, g.want, g.bulk, TRUE, g.mine)
           /\ Plain
        \/ Takes(p, "card", s) /\ task'[p] = b /\ (Plain \/ Fault)
    BY <1>5, <2>1, <2>2, <2>3, <2>4, MountIs
  <2>6. CASE /\ s.MountGate = None /\ Takes(p, "card", s') /\ SameCounts(s', s) /\ SameModes(s', s)
             /\ s'.hw = s.hw /\ Locked(s', s.Running, s.LoadRequested, s.Gate, p)
             /\ Noted(task'[p], g) /\ Has(task'[p], g.arg, g.want, g.bulk, TRUE, g.mine)
             /\ Plain
    <3>1. LockStep(p)
      BY <1>0, <1>5, <2>2, <2>6 DEF LockStep, OwnLocks, Holds, HoldsRun, HoldsLoad, HoldsGate,
             Takes, SameCounts, SameModes, Locked, Went, Same, Noted, Has, Plain
    <3>2. CountStep(p)
      BY <1>0, <1>5, <2>2, <2>6 DEF CountStep, OwnLocks, OwnCounts, Flagged, Inside, Awake, Takes,
             SameCounts, SameModes, Locked, Went, Same, Noted, Has, Plain
    <3>3. SessionStep(p) /\ Apart(p)
      BY <1>0, <1>5, <2>2, <2>6 DEF SessionStep, Apart, OwnLocks, OwnSession, Tenant, Keeps,
             Diagnoses, Alone2, HoldsRun, HoldsGate, OwnMode, Loads, LoadsSoon, Takes, SameCounts,
             SameModes, Locked, Went, Same, Noted, Has, Plain
    <3>4. ModeStep(p)
      BY <1>0, <1>5, <2>2, <2>6 DEF ModeStep, OwnLocks, OwnMode, Settled, Mode, Loads, LoadsSoon,
             Filing, Quiet, Safe, Decided, Takes, SameCounts, SameModes, Locked, Went, Same,
             Noted, Has, Plain
    <3> QED BY <2>6, <3>1, <3>2, <3>3, <3>4 DEF Obeys, Takes, CalmStep
  <2>7. CASE Takes(p, "card", s) /\ task'[p] = b /\ (Plain \/ Fault)
    <3>1. LockStep(p)
      BY <1>0, <1>5, <2>4, <2>7 DEF LockStep, OwnLocks, Holds, HoldsRun, HoldsLoad, HoldsGate,
             Takes, Went, Same, Has, Plain, Fault
    <3>2. CountStep(p)
      BY <1>0, <1>5, <2>4, <2>7 DEF CountStep, OwnLocks, OwnCounts, Flagged, Inside, Awake, Takes,
             Went, Same, Has, Plain, Fault
    <3>3. SessionStep(p) /\ Apart(p)
      BY <1>0, <1>5, <2>4, <2>7 DEF SessionStep, Apart, OwnLocks, OwnSession, Tenant, Keeps,
             Diagnoses, Alone2, HoldsRun, HoldsGate, OwnMode, Loads, LoadsSoon, Takes, Went, Same,
             Has, Plain, Fault
    <3>4. ModeStep(p)
      BY <1>0, <1>5, <2>4, <2>7 DEF ModeStep, OwnLocks, OwnMode, Settled, Mode, Loads, LoadsSoon,
             Filing, Quiet, Safe, Decided, Takes, Went, Same, Has, Plain, Fault
    <3> QED BY <2>7, <3>1, <3>2, <3>3, <3>4 DEF Obeys, Takes, CalmStep
  <2> QED BY <2>5, <2>6, <2>7
<1>6. CASE Step(p, "card", Goto(p, "closing"), s) /\ Plain
  <2>1. Takes(p, "card", s) /\ Went(task'[p], task[p], "closing") /\ Same(task'[p], task[p]) /\ (task'[p].ok <=> task[p].ok)
    BY <1>6, <1>1, RecordIs, GotoIs, TakesIs DEF Procedures
  <2>2. LockStep(p)
    BY <1>0, <1>6, <2>1 DEF LockStep, OwnLocks, Holds, HoldsRun, HoldsLoad, HoldsGate, Takes,
           Went, Same, Has, Plain
  <2>3. CountStep(p)
    BY <1>0, <1>6, <2>1 DEF CountStep, OwnLocks, OwnCounts, Flagged, Inside, Awake, Takes, Went,
           Same, Has, Plain
  <2>4. SessionStep(p) /\ Apart(p)
    BY <1>0, <1>6, <2>1 DEF SessionStep, Apart, OwnLocks, OwnSession, Tenant, Keeps, Diagnoses,
           Alone2, HoldsRun, HoldsGate, OwnMode, Loads, LoadsSoon, Takes, Went, Same, Has, Plain
  <2>5. ModeStep(p)
    BY <1>0, <1>6, <2>1 DEF ModeStep, OwnLocks, OwnMode, Settled, Mode, Loads, LoadsSoon, Filing,
           Quiet, Safe, Decided, Takes, Went, Same, Has, Plain
  <2> QED BY <2>1, <2>2, <2>3, <2>4, <2>5 DEF Obeys, Takes, CalmStep
<1>7. CASE Step(p, "request", Goto(p, "closing"), s) /\ Plain
  <2>1. Takes(p, "request", s) /\ Went(task'[p], task[p], "closing") /\ Same(task'[p], task[p]) /\ (task'[p].ok <=> task[p].ok)
    BY <1>7, <1>1, RecordIs, GotoIs, TakesIs DEF Procedures
  <2>2. LockStep(p)
    BY <1>0, <1>7, <2>1 DEF LockStep, OwnLocks, Holds, HoldsRun, HoldsLoad, HoldsGate, Takes,
           Went, Same, Has, Plain
  <2>3. CountStep(p)
    BY <1>0, <1>7, <2>1 DEF CountStep, OwnLocks, OwnCounts, Flagged, Inside, Awake, Takes, Went,
           Same, Has, Plain
  <2>4. SessionStep(p) /\ Apart(p)
    BY <1>0, <1>7, <2>1 DEF SessionStep, Apart, OwnLocks, OwnSession, Tenant, Keeps, Diagnoses,
           Alone2, HoldsRun, HoldsGate, OwnMode, Loads, LoadsSoon, Takes, Went, Same, Has, Plain
  <2>5. ModeStep(p)
    BY <1>0, <1>7, <2>1 DEF ModeStep, OwnLocks, OwnMode, Settled, Mode, Loads, LoadsSoon, Filing,
           Quiet, Safe, Decided, Takes, Went, Same, Has, Plain
  <2> QED BY <2>1, <2>2, <2>3, <2>4, <2>5 DEF Obeys, Takes, CalmStep
<1>8. CASE /\ Step(p, "request", Turning(p, Into(p, "mode", "transfer")), s) /\ ~task[p].bulk
           /\ Rising(p) /\ UNCHANGED <<meddled, intruded>>
  <2>1. PICK t : t = Into(p, "mode", "transfer")
    OBVIOUS
  <2>2. t \in TaskType /\ Called(t, task[p], "mode", "transfer") /\ Same(t, task[p]) /\ (t.ok <=> task[p].ok)
    BY <1>1, <2>1, RecordIs, IntoIs DEF Procedures
  <2>3. PICK u : u = [t EXCEPT !.arg = TRUE, !.want = TRUE]
    OBVIOUS
  <2>4. Noted(u, t) /\ Has(u, TRUE, TRUE, t.bulk, t.card, t.mine)
    BY <1>1, <2>2, <2>3, TurnedIs
  <2>5. Takes(p, "request", s) /\ task'[p] = u
    BY <1>8, <1>1, <2>1, <2>2, <2>3, <2>4, TakesIs DEF Noted, Turning
  <2>6. LockStep(p)
    BY <1>0, <1>8, <2>2, <2>4, <2>5 DEF LockStep, OwnLocks, Holds, HoldsRun, HoldsLoad, HoldsGate,
           Takes, Called, Noted, Has, Same, Rising
  <2>7. CountStep(p)
    BY <1>0, <1>8, <2>2, <2>4, <2>5 DEF CountStep, OwnLocks, OwnCounts, Flagged, Inside, Awake,
           Takes, Called, Noted, Has, Same, Rising
  <2>8. SessionStep(p) /\ Apart(p)
    BY <1>0, <1>8, <2>2, <2>4, <2>5 DEF SessionStep, Apart, OwnLocks, OwnSession, Tenant, Keeps,
           Diagnoses, Alone2, HoldsRun, HoldsGate, OwnMode, Loads, LoadsSoon, Takes, Called,
           Noted, Has, Same, Rising
  <2>9. ModeStep(p)
    BY <1>0, <1>8, <2>2, <2>4, <2>5 DEF ModeStep, OwnLocks, OwnMode, Settled, Mode, Loads,
           LoadsSoon, Filing, Quiet, Safe, Decided, Takes, Called, Noted, Has, Same, Rising
  <2> QED BY <2>5, <2>6, <2>7, <2>8, <2>9 DEF Obeys, Takes, CalmStep
<1>9. CASE /\ task[p].bulk
           /\ Step(p, "request", [Goto(p, "down_send") EXCEPT !.mine = s.hw = "sd"], s)
           /\ UNCHANGED <<unseen, meddled, intruded>>
  <2>1. PICK t : t = Goto(p, "down_send")
    OBVIOUS
  <2>2. t \in TaskType /\ Went(t, task[p], "down_send") /\ Same(t, task[p]) /\ (t.ok <=> task[p].ok)
    BY <1>1, <2>1, RecordIs, GotoIs DEF Procedures
  <2>3. PICK u : u = [t EXCEPT !.mine = s.hw = "sd"]
    OBVIOUS
  <2>4. Noted(u, t) /\ Has(u, t.arg, t.want, t.bulk, t.card, s.hw = "sd")
    BY <1>1, <2>2, <2>3, MineIs
  <2>5. Takes(p, "request", s) /\ task'[p] = u
    BY <1>9, <1>1, <2>1, <2>2, <2>3, <2>4, TakesIs DEF Noted
  <2>6. LockStep(p)
    BY <1>0, <1>9, <2>2, <2>4, <2>5 DEF LockStep, OwnLocks, Holds, HoldsRun, HoldsLoad, HoldsGate,
           Takes, Went, Noted, Has, Same
  <2>7. CountStep(p)
    BY <1>0, <1>9, <2>2, <2>4, <2>5 DEF CountStep, OwnLocks, OwnCounts, Flagged, Inside, Awake,
           Takes, Went, Noted, Has, Same
  <2>8. SessionStep(p) /\ Apart(p)
    BY <1>0, <1>9, <2>2, <2>4, <2>5 DEF SessionStep, Apart, OwnLocks, OwnSession, Tenant, Keeps,
           Diagnoses, Alone2, HoldsRun, HoldsGate, OwnMode, Loads, LoadsSoon, Takes, Went, Noted,
           Has, Same
  <2>9. ModeStep(p)
    BY <1>0, <1>9, <2>2, <2>4, <2>5 DEF ModeStep, OwnLocks, OwnMode, Settled, Mode, Loads,
           LoadsSoon, Filing, Quiet, Safe, Decided, Takes, Went, Noted, Has, Same
  <2> QED BY <2>5, <2>6, <2>7, <2>8, <2>9 DEF Obeys, Takes, CalmStep
<1>10. CASE /\ ~task[p].bulk
           /\ Step(p, "request", [Into(p, "mode", "down") EXCEPT !.arg = FALSE], s)
           /\ UNCHANGED <<unseen, meddled, intruded>>
  <2>1. PICK t : t = Into(p, "mode", "down")
    OBVIOUS
  <2>2. t \in TaskType /\ Called(t, task[p], "mode", "down") /\ Same(t, task[p]) /\ (t.ok <=> task[p].ok)
    BY <1>1, <2>1, RecordIs, IntoIs DEF Procedures
  <2>3. PICK u : u = [t EXCEPT !.arg = FALSE]
    OBVIOUS
  <2>4. Noted(u, t) /\ Has(u, FALSE, t.want, t.bulk, t.card, t.mine)
    BY <1>1, <2>2, <2>3, ArgIs
  <2>5. Takes(p, "request", s) /\ task'[p] = u
    BY <1>10, <1>1, <2>1, <2>2, <2>3, <2>4, TakesIs DEF Noted
  <2>6. LockStep(p)
    BY <1>0, <1>10, <2>2, <2>4, <2>5 DEF LockStep, OwnLocks, Holds, HoldsRun, HoldsLoad,
           HoldsGate, Takes, Called, Noted, Has, Same
  <2>7. CountStep(p)
    BY <1>0, <1>10, <2>2, <2>4, <2>5 DEF CountStep, OwnLocks, OwnCounts, Flagged, Inside, Awake,
           Takes, Called, Noted, Has, Same
  <2>8. SessionStep(p) /\ Apart(p)
    BY <1>0, <1>10, <2>2, <2>4, <2>5 DEF SessionStep, Apart, OwnLocks, OwnSession, Tenant, Keeps,
           Diagnoses, Alone2, HoldsRun, HoldsGate, OwnMode, Loads, LoadsSoon, Takes, Called,
           Noted, Has, Same
  <2>9. ModeStep(p)
    BY <1>0, <1>10, <2>2, <2>4, <2>5 DEF ModeStep, OwnLocks, OwnMode, Settled, Mode, Loads,
           LoadsSoon, Filing, Quiet, Safe, Decided, Takes, Called, Noted, Has, Same
  <2> QED BY <2>5, <2>6, <2>7, <2>8, <2>9 DEF Obeys, Takes, CalmStep
<1>11. CASE Step(p, "down", Into(p, "begin", "down_enter"), s) /\ Plain
  <2>1. Takes(p, "down", s) /\ Called(task'[p], task[p], "begin", "down_enter") /\ Same(task'[p], task[p]) /\ (task'[p].ok <=> task[p].ok)
    BY <1>11, <1>1, RecordIs, IntoIs, TakesIs DEF Procedures
  <2>2. LockStep(p)
    BY <1>0, <1>11, <2>1 DEF LockStep, OwnLocks, Holds, HoldsRun, HoldsLoad, HoldsGate, Takes,
           Called, Same, Has, Plain
  <2>3. CountStep(p)
    BY <1>0, <1>11, <2>1 DEF CountStep, OwnLocks, OwnCounts, Flagged, Inside, Awake, Takes,
           Called, Same, Has, Plain
  <2>4. SessionStep(p) /\ Apart(p)
    BY <1>0, <1>11, <2>1 DEF SessionStep, Apart, OwnLocks, OwnSession, Tenant, Keeps, Diagnoses,
           Alone2, HoldsRun, HoldsGate, OwnMode, Loads, LoadsSoon, Takes, Called, Same, Has, Plain
  <2>5. ModeStep(p)
    BY <1>0, <1>11, <2>1 DEF ModeStep, OwnLocks, OwnMode, Settled, Mode, Loads, LoadsSoon, Filing,
           Quiet, Safe, Decided, Takes, Called, Same, Has, Plain
  <2> QED BY <2>1, <2>2, <2>3, <2>4, <2>5 DEF Obeys, Takes, CalmStep
<1>12. CASE Step(p, "down", Goto(p, "closing"), s) /\ Plain
  <2>1. Takes(p, "down", s) /\ Went(task'[p], task[p], "closing") /\ Same(task'[p], task[p]) /\ (task'[p].ok <=> task[p].ok)
    BY <1>12, <1>1, RecordIs, GotoIs, TakesIs DEF Procedures
  <2>2. LockStep(p)
    BY <1>0, <1>12, <2>1 DEF LockStep, OwnLocks, Holds, HoldsRun, HoldsLoad, HoldsGate, Takes,
           Went, Same, Has, Plain
  <2>3. CountStep(p)
    BY <1>0, <1>12, <2>1 DEF CountStep, OwnLocks, OwnCounts, Flagged, Inside, Awake, Takes, Went,
           Same, Has, Plain
  <2>4. SessionStep(p) /\ Apart(p)
    BY <1>0, <1>12, <2>1 DEF SessionStep, Apart, OwnLocks, OwnSession, Tenant, Keeps, Diagnoses,
           Alone2, HoldsRun, HoldsGate, OwnMode, Loads, LoadsSoon, Takes, Went, Same, Has, Plain
  <2>5. ModeStep(p)
    BY <1>0, <1>12, <2>1 DEF ModeStep, OwnLocks, OwnMode, Settled, Mode, Loads, LoadsSoon, Filing,
           Quiet, Safe, Decided, Takes, Went, Same, Has, Plain
  <2> QED BY <2>1, <2>2, <2>3, <2>4, <2>5 DEF Obeys, Takes, CalmStep
<1>13. CASE /\ task[p].ok /\ s.hw = None
           /\ Step(p, "down_enter", [Goto(p, "down_send") EXCEPT !.mine = TRUE],
                   [s EXCEPT !.hw = "sd"])
           /\ Plain
  <2>1. PICK y : y = [s EXCEPT !.hw = "sd"]
    OBVIOUS
  <2>2. y \in SharedType /\ SameCounts(y, s) /\ SameModes(y, s) /\ y.hw = "sd"
        /\ Locked(y, s.Running, s.LoadRequested, s.Gate, s.MountGate)
    BY <1>1, <1>13, <2>1, HwSet
  <2>3. PICK t : t = Goto(p, "down_send")
    OBVIOUS
  <2>4. t \in TaskType /\ Went(t, task[p], "down_send") /\ Same(t, task[p]) /\ (t.ok <=> task[p].ok)
    BY <1>1, <2>3, RecordIs, GotoIs DEF Procedures
  <2>5. PICK u : u = [t EXCEPT !.mine = TRUE]
    OBVIOUS
  <2>6. Noted(u, t) /\ Has(u, t.arg, t.want, t.bulk, t.card, TRUE)
    BY <1>1, <2>4, <2>5, MineIs
  <2>7. Takes(p, "down_enter", y) /\ task'[p] = u
    BY <1>13, <1>1, <2>1, <2>2, <2>3, <2>4, <2>5, <2>6, TakesIs DEF Noted
  <2>8. LockStep(p)
    BY <1>0, <1>13, <2>2, <2>4, <2>6, <2>7 DEF LockStep, OwnLocks, Holds, HoldsRun, HoldsLoad,
           HoldsGate, Takes, SameCounts, SameModes, Locked, Went, Noted, Has, Same, Plain
  <2>9. CountStep(p)
    BY <1>0, <1>13, <2>2, <2>4, <2>6, <2>7 DEF CountStep, OwnLocks, OwnCounts, Flagged, Inside,
           Awake, Takes, SameCounts, SameModes, Locked, Went, Noted, Has, Same, Plain
  <2>10. SessionStep(p) /\ Apart(p)
    BY <1>0, <1>13, <2>2, <2>4, <2>6, <2>7 DEF SessionStep, Apart, OwnLocks, OwnSession, Tenant,
           Keeps, Diagnoses, Alone2, HoldsRun, HoldsGate, OwnMode, Loads, LoadsSoon, Takes,
           SameCounts, SameModes, Locked, Went, Noted, Has, Same, Plain
  <2>11. ModeStep(p)
    BY <1>0, <1>13, <2>2, <2>4, <2>6, <2>7 DEF ModeStep, OwnLocks, OwnMode, Settled, Mode, Loads,
           LoadsSoon, Filing, Quiet, Safe, Decided, Takes, SameCounts, SameModes, Locked, Went,
           Noted, Has, Same, Plain
  <2> QED BY <2>7, <2>8, <2>9, <2>10, <2>11 DEF Obeys, Takes, CalmStep
<1>14. CASE Step(p, "down_enter", Goto(p, "closing"), s) /\ Plain
  <2>1. Takes(p, "down_enter", s) /\ Went(task'[p], task[p], "closing") /\ Same(task'[p], task[p]) /\ (task'[p].ok <=> task[p].ok)
    BY <1>14, <1>1, RecordIs, GotoIs, TakesIs DEF Procedures
  <2>2. LockStep(p)
    BY <1>0, <1>14, <2>1 DEF LockStep, OwnLocks, Holds, HoldsRun, HoldsLoad, HoldsGate, Takes,
           Went, Same, Has, Plain
  <2>3. CountStep(p)
    BY <1>0, <1>14, <2>1 DEF CountStep, OwnLocks, OwnCounts, Flagged, Inside, Awake, Takes, Went,
           Same, Has, Plain
  <2>4. SessionStep(p) /\ Apart(p)
    BY <1>0, <1>14, <2>1 DEF SessionStep, Apart, OwnLocks, OwnSession, Tenant, Keeps, Diagnoses,
           Alone2, HoldsRun, HoldsGate, OwnMode, Loads, LoadsSoon, Takes, Went, Same, Has, Plain
  <2>5. ModeStep(p)
    BY <1>0, <1>14, <2>1 DEF ModeStep, OwnLocks, OwnMode, Settled, Mode, Loads, LoadsSoon, Filing,
           Quiet, Safe, Decided, Takes, Went, Same, Has, Plain
  <2> QED BY <2>1, <2>2, <2>3, <2>4, <2>5 DEF Obeys, Takes, CalmStep
<1>15. CASE /\ Step(p, "down_send", [Goto(p, "request") EXCEPT !.mine = FALSE], s)
           /\ Plain
  <2>1. PICK t : t = Goto(p, "request")
    OBVIOUS
  <2>2. t \in TaskType /\ Went(t, task[p], "request") /\ Same(t, task[p]) /\ (t.ok <=> task[p].ok)
    BY <1>1, <2>1, RecordIs, GotoIs DEF Procedures
  <2>3. PICK u : u = [t EXCEPT !.mine = FALSE]
    OBVIOUS
  <2>4. Noted(u, t) /\ Has(u, t.arg, t.want, t.bulk, t.card, FALSE)
    BY <1>1, <2>2, <2>3, MineIs
  <2>5. Takes(p, "down_send", s) /\ task'[p] = u
    BY <1>15, <1>1, <2>1, <2>2, <2>3, <2>4, TakesIs DEF Noted
  <2>6. LockStep(p)
    BY <1>0, <1>15, <2>2, <2>4, <2>5 DEF LockStep, OwnLocks, Holds, HoldsRun, HoldsLoad,
           HoldsGate, Takes, Went, Noted, Has, Same, Plain
  <2>7. CountStep(p)
    BY <1>0, <1>15, <2>2, <2>4, <2>5 DEF CountStep, OwnLocks, OwnCounts, Flagged, Inside, Awake,
           Takes, Went, Noted, Has, Same, Plain
  <2>8. SessionStep(p) /\ Apart(p)
    BY <1>0, <1>15, <2>2, <2>4, <2>5 DEF SessionStep, Apart, OwnLocks, OwnSession, Tenant, Keeps,
           Diagnoses, Alone2, HoldsRun, HoldsGate, OwnMode, Loads, LoadsSoon, Takes, Went, Noted,
           Has, Same, Plain
  <2>9. ModeStep(p)
    BY <1>0, <1>15, <2>2, <2>4, <2>5 DEF ModeStep, OwnLocks, OwnMode, Settled, Mode, Loads,
           LoadsSoon, Filing, Quiet, Safe, Decided, Takes, Went, Noted, Has, Same, Plain
  <2> QED BY <2>5, <2>6, <2>7, <2>8, <2>9 DEF Obeys, Takes, CalmStep
<1> QED BY <1>1, <1>2, <1>3, <1>4, <1>5, <1>6, <1>7, <1>8, <1>9, <1>10, <1>11, <1>12, <1>13,
           <1>14, <1>15 DEF Files

(* A command of PC mode gives all of it back. *)
LEMMA ClosingObeys ==
  ASSUME TypeOK, NEW p \in Tasks, p = "console", Own(p), Closing(p)
  PROVE  Obeys(p) /\ CalmStep(p)
<1>0. OwnLocks(p) /\ OwnCounts(p) /\ OwnSession(p) /\ OwnMode(p)
  BY DEF Own
<1>1. s \in SharedType /\ s.hw \in {None, "pc", "sd", "probe", "backup"}
  BY DEF TypeOK, SharedType, Labels
<1>2. CASE /\ task[p].bulk
           /\ Step(p, "closing", Rest, [Released(p) EXCEPT !.hw = None, !.Gate = None])
           /\ Plain
  <2>1. PICK y : y = [Released(p) EXCEPT !.hw = None, !.Gate = None]
    OBVIOUS
  <2>2. y \in SharedType /\ Closes(p, y) /\ y.hw = None
        /\ Locked(y, s.Running, s.LoadRequested, None, IF task[p].card THEN None ELSE s.MountGate)
    BY <1>1, <1>2, <2>1, AllGivenIs
  <2>3. PICK t : t = Rest
    OBVIOUS
  <2>4. t \in TaskType /\ Rests(t)
    BY <1>1, <2>3, RecordIs, RestIs DEF Procedures
  <2>5. Takes(p, "closing", y) /\ task'[p] = t
    BY <1>2, <1>1, <2>1, <2>2, <2>3, <2>4, TakesIs
  <2>6. LockStep(p)
    BY <1>0, <1>2, <2>2, <2>4, <2>5 DEF LockStep, OwnLocks, Holds, HoldsRun, HoldsLoad, HoldsGate,
           Takes, Locked, Closes, SameModes, Balanced, Rests, Plain
  <2>7. CountStep(p)
    BY <1>0, <1>2, <2>2, <2>4, <2>5 DEF CountStep, OwnLocks, OwnCounts, Flagged, Inside, Awake,
           Takes, Locked, Closes, SameModes, Balanced, Rests, Plain
  <2>8. SessionStep(p) /\ Apart(p)
    BY <1>0, <1>2, <2>2, <2>4, <2>5 DEF SessionStep, Apart, OwnLocks, OwnSession, Tenant, Keeps,
           Diagnoses, Alone2, HoldsRun, HoldsGate, OwnMode, Loads, LoadsSoon, Takes, Locked,
           Closes, SameModes, Balanced, Rests, Plain
  <2>9. ModeStep(p)
    BY <1>0, <1>2, <2>2, <2>4, <2>5 DEF ModeStep, OwnLocks, OwnMode, Settled, Mode, Loads,
           LoadsSoon, Filing, Quiet, Safe, Decided, Takes, Locked, Closes, SameModes, Balanced,
           Rests, Plain
  <2> QED BY <2>5, <2>6, <2>7, <2>8, <2>9 DEF Obeys, Takes, CalmStep
<1>3. CASE /\ ~task[p].bulk
           /\ Step(p, "closing", Rest, [Released(p) EXCEPT !.hw = s.hw, !.Gate = None])
           /\ Plain
  <2>1. PICK y : y = [Released(p) EXCEPT !.hw = s.hw, !.Gate = None]
    OBVIOUS
  <2>2. y \in SharedType /\ Closes(p, y) /\ y.hw = s.hw
        /\ Locked(y, s.Running, s.LoadRequested, None, IF task[p].card THEN None ELSE s.MountGate)
    BY <1>1, <1>3, <2>1, AllGivenIs
  <2>3. PICK t : t = Rest
    OBVIOUS
  <2>4. t \in TaskType /\ Rests(t)
    BY <1>1, <2>3, RecordIs, RestIs DEF Procedures
  <2>5. Takes(p, "closing", y) /\ task'[p] = t
    BY <1>3, <1>1, <2>1, <2>2, <2>3, <2>4, TakesIs
  <2>6. LockStep(p)
    BY <1>0, <1>3, <2>2, <2>4, <2>5 DEF LockStep, OwnLocks, Holds, HoldsRun, HoldsLoad, HoldsGate,
           Takes, Locked, Closes, SameModes, Balanced, Rests, Plain
  <2>7. CountStep(p)
    BY <1>0, <1>3, <2>2, <2>4, <2>5 DEF CountStep, OwnLocks, OwnCounts, Flagged, Inside, Awake,
           Takes, Locked, Closes, SameModes, Balanced, Rests, Plain
  <2>8. SessionStep(p) /\ Apart(p)
    BY <1>0, <1>3, <2>2, <2>4, <2>5 DEF SessionStep, Apart, OwnLocks, OwnSession, Tenant, Keeps,
           Diagnoses, Alone2, HoldsRun, HoldsGate, OwnMode, Loads, LoadsSoon, Takes, Locked,
           Closes, SameModes, Balanced, Rests, Plain
  <2>9. ModeStep(p)
    BY <1>0, <1>3, <2>2, <2>4, <2>5 DEF ModeStep, OwnLocks, OwnMode, Settled, Mode, Loads,
           LoadsSoon, Filing, Quiet, Safe, Decided, Takes, Locked, Closes, SameModes, Balanced,
           Rests, Plain
  <2> QED BY <2>5, <2>6, <2>7, <2>8, <2>9 DEF Obeys, Takes, CalmStep
<1> QED BY <1>1, <1>2, <1>3, ClosesIs DEF Closing

(* cartprobe and cartstress, and a command that is over. *)
LEMMA ProbeObeys ==
  ASSUME TypeOK, NEW p \in Tasks, p = "console", Own(p), Probe(p) \/ Stopped(p)
  PROVE  Obeys(p) /\ CalmStep(p)
<1>0. OwnLocks(p) /\ OwnCounts(p) /\ OwnSession(p) /\ OwnMode(p)
  BY DEF Own
<1>1. s \in SharedType /\ s.hw \in {None, "pc", "sd", "probe", "backup"}
      /\ {"probing"} \subseteq Labels
  BY DEF TypeOK, SharedType, Labels
<1>2. CASE /\ task[p].ok /\ s.hw = None
           /\ Step(p, "probe", Goto(p, "probing"), [s EXCEPT !.hw = "probe"])
           /\ Plain
  <2>1. PICK y : y = [s EXCEPT !.hw = "probe"]
    OBVIOUS
  <2>2. y \in SharedType /\ SameCounts(y, s) /\ SameModes(y, s) /\ y.hw = "probe"
        /\ Locked(y, s.Running, s.LoadRequested, s.Gate, s.MountGate)
    BY <1>1, <1>2, <2>1, HwSet
  <2>3. PICK t : t = Goto(p, "probing")
    OBVIOUS
  <2>4. t \in TaskType /\ Went(t, task[p], "probing") /\ Same(t, task[p]) /\ (t.ok <=> task[p].ok)
    BY <1>1, <2>3, RecordIs, GotoIs DEF Procedures
  <2>5. Takes(p, "probe", y) /\ task'[p] = t
    BY <1>2, <1>1, <2>1, <2>2, <2>3, <2>4, TakesIs
  <2>6. LockStep(p)
    BY <1>0, <1>2, <2>2, <2>4, <2>5 DEF LockStep, OwnLocks, Holds, HoldsRun, HoldsLoad, HoldsGate,
           Takes, SameCounts, SameModes, Locked, Went, Same, Has, Plain
  <2>7. CountStep(p)
    BY <1>0, <1>2, <2>2, <2>4, <2>5 DEF CountStep, OwnLocks, OwnCounts, Flagged, Inside, Awake,
           Takes, SameCounts, SameModes, Locked, Went, Same, Has, Plain
  <2>8. SessionStep(p) /\ Apart(p)
    BY <1>0, <1>2, <2>2, <2>4, <2>5 DEF SessionStep, Apart, OwnLocks, OwnSession, Tenant, Keeps,
           Diagnoses, Alone2, HoldsRun, HoldsGate, OwnMode, Loads, LoadsSoon, Takes, SameCounts,
           SameModes, Locked, Went, Same, Has, Plain
  <2>9. ModeStep(p)
    BY <1>0, <1>2, <2>2, <2>4, <2>5 DEF ModeStep, OwnLocks, OwnMode, Settled, Mode, Loads,
           LoadsSoon, Filing, Quiet, Safe, Decided, Takes, SameCounts, SameModes, Locked, Went,
           Same, Has, Plain
  <2> QED BY <2>5, <2>6, <2>7, <2>8, <2>9 DEF Obeys, Takes, CalmStep
<1>3. CASE /\ Step(p, "probe", Rest, Ended(s)) /\ meddled' = (meddled \/ ~task[p].ok)
           /\ UNCHANGED <<left, unseen, intruded>>
  <2>1. (~meddled' => ~meddled) /\ unseen' = unseen /\ intruded' = intruded
    BY <1>3
  <2>2. PICK y : y = Ended(s)
    OBVIOUS
  <2>3. y \in SharedType /\ ~y.SessionActive /\ y.Active = s.Active /\ y.SleepInhibited = s.SleepInhibited
        /\ SameModes(y, s) /\ Balanced(y) /\ y.hw = s.hw /\ Locked(y, s.Running, s.LoadRequested, s.Gate, s.MountGate)
    BY <1>1, <1>3, <2>1, <2>2, EndedIs
  <2>4. PICK t : t = Rest
    OBVIOUS
  <2>5. t \in TaskType /\ Rests(t)
    BY <1>1, <2>4, RecordIs, RestIs DEF Procedures
  <2>6. Takes(p, "probe", y) /\ task'[p] = t
    BY <1>3, <1>1, <2>1, <2>2, <2>3, <2>4, <2>5, TakesIs
  <2>7. LockStep(p)
    BY <1>0, <1>3, <2>1, <2>3, <2>5, <2>6 DEF LockStep, OwnLocks, Holds, HoldsRun, HoldsLoad,
           HoldsGate, Takes, SameModes, Locked, Balanced, Rests
  <2>8. CountStep(p)
    BY <1>0, <1>3, <2>1, <2>3, <2>5, <2>6 DEF CountStep, OwnLocks, OwnCounts, Flagged, Inside,
           Awake, Takes, SameModes, Locked, Balanced, Rests
  <2>9. SessionStep(p) /\ Apart(p)
    BY <1>0, <1>3, <2>1, <2>3, <2>5, <2>6 DEF SessionStep, Apart, OwnLocks, OwnSession, Tenant,
           Keeps, Diagnoses, Alone2, HoldsRun, HoldsGate, OwnMode, Loads, LoadsSoon, Takes,
           SameModes, Locked, Balanced, Rests
  <2>10. ModeStep(p)
    BY <1>0, <1>3, <2>1, <2>3, <2>5, <2>6 DEF ModeStep, OwnLocks, OwnMode, Settled, Mode, Loads,
           LoadsSoon, Filing, Quiet, Safe, Decided, Takes, SameModes, Locked, Balanced, Rests
  <2> QED BY <2>6, <2>7, <2>8, <2>9, <2>10 DEF Obeys, Takes, CalmStep
<1>4. CASE Step(p, "probing", Rest, Ended([s EXCEPT !.hw = None])) /\ Plain
  <2>1. PICK y : y = Ended([s EXCEPT !.hw = None])
    OBVIOUS
  <2>2. y \in SharedType /\ ~y.SessionActive /\ y.Active = s.Active /\ y.SleepInhibited = s.SleepInhibited
        /\ SameModes(y, s) /\ Balanced(y) /\ y.hw = None /\ Locked(y, s.Running, s.LoadRequested, s.Gate, s.MountGate)
    BY <1>1, <1>4, <2>1, EndedNow
  <2>3. PICK t : t = Rest
    OBVIOUS
  <2>4. t \in TaskType /\ Rests(t)
    BY <1>1, <2>3, RecordIs, RestIs DEF Procedures
  <2>5. Takes(p, "probing", y) /\ task'[p] = t
    BY <1>4, <1>1, <2>1, <2>2, <2>3, <2>4, TakesIs
  <2>6. LockStep(p)
    BY <1>0, <1>4, <2>2, <2>4, <2>5 DEF LockStep, OwnLocks, Holds, HoldsRun, HoldsLoad, HoldsGate,
           Takes, SameModes, Locked, Balanced, Rests, Plain
  <2>7. CountStep(p)
    BY <1>0, <1>4, <2>2, <2>4, <2>5 DEF CountStep, OwnLocks, OwnCounts, Flagged, Inside, Awake,
           Takes, SameModes, Locked, Balanced, Rests, Plain
  <2>8. SessionStep(p) /\ Apart(p)
    BY <1>0, <1>4, <2>2, <2>4, <2>5 DEF SessionStep, Apart, OwnLocks, OwnSession, Tenant, Keeps,
           Diagnoses, Alone2, HoldsRun, HoldsGate, OwnMode, Loads, LoadsSoon, Takes, SameModes,
           Locked, Balanced, Rests, Plain
  <2>9. ModeStep(p)
    BY <1>0, <1>4, <2>2, <2>4, <2>5 DEF ModeStep, OwnLocks, OwnMode, Settled, Mode, Loads,
           LoadsSoon, Filing, Quiet, Safe, Decided, Takes, SameModes, Locked, Balanced, Rests,
           Plain
  <2> QED BY <2>5, <2>6, <2>7, <2>8, <2>9 DEF Obeys, Takes, CalmStep
<1>5. CASE Step(p, "stopped", Rest, s) /\ Plain
  <2>1. Takes(p, "stopped", s) /\ Rests(task'[p])
    BY <1>5, <1>1, RecordIs, RestIs, TakesIs DEF Procedures
  <2>2. LockStep(p)
    BY <1>0, <1>5, <2>1 DEF LockStep, OwnLocks, Holds, HoldsRun, HoldsLoad, HoldsGate, Takes,
           Rests, Plain
  <2>3. CountStep(p)
    BY <1>0, <1>5, <2>1 DEF CountStep, OwnLocks, OwnCounts, Flagged, Inside, Awake, Takes, Rests,
           Plain
  <2>4. SessionStep(p) /\ Apart(p)
    BY <1>0, <1>5, <2>1 DEF SessionStep, Apart, OwnLocks, OwnSession, Tenant, Keeps, Diagnoses,
           Alone2, HoldsRun, HoldsGate, OwnMode, Loads, LoadsSoon, Takes, Rests, Plain
  <2>5. ModeStep(p)
    BY <1>0, <1>5, <2>1 DEF ModeStep, OwnLocks, OwnMode, Settled, Mode, Loads, LoadsSoon, Filing,
           Quiet, Safe, Decided, Takes, Rests, Plain
  <2> QED BY <2>1, <2>2, <2>3, <2>4, <2>5 DEF Obeys, Takes, CalmStep
<1> QED BY <1>1, <1>2, <1>3, <1>4, <1>5 DEF Probe, Stopped

(* A command, and the menu, begin a job. *)
LEMMA CommandObeys ==
  ASSUME TypeOK, NEW p \in Tasks, p \in {"menu", "console"}, Own(p), 
         UNCHANGED <<unseen, meddled, intruded>>,
         \/ s.on /\ \E l \in {"pc", "sd"} : Step(p, "idle", Goto(p, l), s)
         \/ Step(p, "idle", Into(p, "begin", "probe"), s)
         \/ \E l \in {"backup", "load"} : Step(p, "idle", Into(p, "off", l), s)
         \/ p = "console" /\ Step(p, "idle", Into(p, "stop", "stopped"), s)
  PROVE  Obeys(p) /\ CalmStep(p)
<1>0. OwnLocks(p) /\ OwnCounts(p) /\ OwnSession(p) /\ OwnMode(p)
  BY DEF Own
<1>1. s \in SharedType /\ s.hw \in {None, "pc", "sd", "probe", "backup"}
      /\ {"pc", "sd", "begin", "probe", "backup", "load", "off", "stop", "stopped"} \subseteq Labels
  BY DEF TypeOK, SharedType, Labels
<1>2. CASE Step(p, "idle", Goto(p, "pc"), s)
  <2>1. Takes(p, "idle", s) /\ Went(task'[p], task[p], "pc") /\ Same(task'[p], task[p]) /\ (task'[p].ok <=> task[p].ok)
    BY <1>2, <1>1, RecordIs, GotoIs, TakesIs DEF Procedures
  <2>2. LockStep(p)
    BY <1>0, <1>2, <2>1 DEF LockStep, OwnLocks, Holds, HoldsRun, HoldsLoad, HoldsGate, Takes,
           Went, Same, Has
  <2>3. CountStep(p)
    BY <1>0, <1>2, <2>1 DEF CountStep, OwnLocks, OwnCounts, Flagged, Inside, Awake, Takes, Went,
           Same, Has
  <2>4. SessionStep(p) /\ Apart(p)
    BY <1>0, <1>2, <2>1 DEF SessionStep, Apart, OwnLocks, OwnSession, Tenant, Keeps, Diagnoses,
           Alone2, HoldsRun, HoldsGate, OwnMode, Loads, LoadsSoon, Takes, Went, Same, Has
  <2>5. ModeStep(p)
    BY <1>0, <1>2, <2>1 DEF ModeStep, OwnLocks, OwnMode, Settled, Mode, Loads, LoadsSoon, Filing,
           Quiet, Safe, Decided, Takes, Went, Same, Has
  <2> QED BY <2>1, <2>2, <2>3, <2>4, <2>5 DEF Obeys, Takes, CalmStep
<1>3. CASE Step(p, "idle", Goto(p, "sd"), s)
  <2>1. Takes(p, "idle", s) /\ Went(task'[p], task[p], "sd") /\ Same(task'[p], task[p]) /\ (task'[p].ok <=> task[p].ok)
    BY <1>3, <1>1, RecordIs, GotoIs, TakesIs DEF Procedures
  <2>2. LockStep(p)
    BY <1>0, <1>3, <2>1 DEF LockStep, OwnLocks, Holds, HoldsRun, HoldsLoad, HoldsGate, Takes,
           Went, Same, Has
  <2>3. CountStep(p)
    BY <1>0, <1>3, <2>1 DEF CountStep, OwnLocks, OwnCounts, Flagged, Inside, Awake, Takes, Went,
           Same, Has
  <2>4. SessionStep(p) /\ Apart(p)
    BY <1>0, <1>3, <2>1 DEF SessionStep, Apart, OwnLocks, OwnSession, Tenant, Keeps, Diagnoses,
           Alone2, HoldsRun, HoldsGate, OwnMode, Loads, LoadsSoon, Takes, Went, Same, Has
  <2>5. ModeStep(p)
    BY <1>0, <1>3, <2>1 DEF ModeStep, OwnLocks, OwnMode, Settled, Mode, Loads, LoadsSoon, Filing,
           Quiet, Safe, Decided, Takes, Went, Same, Has
  <2> QED BY <2>1, <2>2, <2>3, <2>4, <2>5 DEF Obeys, Takes, CalmStep
<1>4. CASE Step(p, "idle", Into(p, "begin", "probe"), s)
  <2>1. Takes(p, "idle", s) /\ Called(task'[p], task[p], "begin", "probe") /\ Same(task'[p], task[p]) /\ (task'[p].ok <=> task[p].ok)
    BY <1>4, <1>1, RecordIs, IntoIs, TakesIs DEF Procedures
  <2>2. LockStep(p)
    BY <1>0, <1>4, <2>1 DEF LockStep, OwnLocks, Holds, HoldsRun, HoldsLoad, HoldsGate, Takes,
           Called, Same, Has
  <2>3. CountStep(p)
    BY <1>0, <1>4, <2>1 DEF CountStep, OwnLocks, OwnCounts, Flagged, Inside, Awake, Takes, Called,
           Same, Has
  <2>4. SessionStep(p) /\ Apart(p)
    BY <1>0, <1>4, <2>1 DEF SessionStep, Apart, OwnLocks, OwnSession, Tenant, Keeps, Diagnoses,
           Alone2, HoldsRun, HoldsGate, OwnMode, Loads, LoadsSoon, Takes, Called, Same, Has
  <2>5. ModeStep(p)
    BY <1>0, <1>4, <2>1 DEF ModeStep, OwnLocks, OwnMode, Settled, Mode, Loads, LoadsSoon, Filing,
           Quiet, Safe, Decided, Takes, Called, Same, Has
  <2> QED BY <2>1, <2>2, <2>3, <2>4, <2>5 DEF Obeys, Takes, CalmStep
<1>5. CASE Step(p, "idle", Into(p, "off", "backup"), s)
  <2>1. Takes(p, "idle", s) /\ Called(task'[p], task[p], "off", "backup") /\ Same(task'[p], task[p]) /\ (task'[p].ok <=> task[p].ok)
    BY <1>5, <1>1, RecordIs, IntoIs, TakesIs DEF Procedures
  <2>2. LockStep(p)
    BY <1>0, <1>5, <2>1 DEF LockStep, OwnLocks, Holds, HoldsRun, HoldsLoad, HoldsGate, Takes,
           Called, Same, Has
  <2>3. CountStep(p)
    BY <1>0, <1>5, <2>1 DEF CountStep, OwnLocks, OwnCounts, Flagged, Inside, Awake, Takes, Called,
           Same, Has
  <2>4. SessionStep(p) /\ Apart(p)
    BY <1>0, <1>5, <2>1 DEF SessionStep, Apart, OwnLocks, OwnSession, Tenant, Keeps, Diagnoses,
           Alone2, HoldsRun, HoldsGate, OwnMode, Loads, LoadsSoon, Takes, Called, Same, Has
  <2>5. ModeStep(p)
    BY <1>0, <1>5, <2>1 DEF ModeStep, OwnLocks, OwnMode, Settled, Mode, Loads, LoadsSoon, Filing,
           Quiet, Safe, Decided, Takes, Called, Same, Has
  <2> QED BY <2>1, <2>2, <2>3, <2>4, <2>5 DEF Obeys, Takes, CalmStep
<1>6. CASE Step(p, "idle", Into(p, "off", "load"), s)
  <2>1. Takes(p, "idle", s) /\ Called(task'[p], task[p], "off", "load") /\ Same(task'[p], task[p]) /\ (task'[p].ok <=> task[p].ok)
    BY <1>6, <1>1, RecordIs, IntoIs, TakesIs DEF Procedures
  <2>2. LockStep(p)
    BY <1>0, <1>6, <2>1 DEF LockStep, OwnLocks, Holds, HoldsRun, HoldsLoad, HoldsGate, Takes,
           Called, Same, Has
  <2>3. CountStep(p)
    BY <1>0, <1>6, <2>1 DEF CountStep, OwnLocks, OwnCounts, Flagged, Inside, Awake, Takes, Called,
           Same, Has
  <2>4. SessionStep(p) /\ Apart(p)
    BY <1>0, <1>6, <2>1 DEF SessionStep, Apart, OwnLocks, OwnSession, Tenant, Keeps, Diagnoses,
           Alone2, HoldsRun, HoldsGate, OwnMode, Loads, LoadsSoon, Takes, Called, Same, Has
  <2>5. ModeStep(p)
    BY <1>0, <1>6, <2>1 DEF ModeStep, OwnLocks, OwnMode, Settled, Mode, Loads, LoadsSoon, Filing,
           Quiet, Safe, Decided, Takes, Called, Same, Has
  <2> QED BY <2>1, <2>2, <2>3, <2>4, <2>5 DEF Obeys, Takes, CalmStep
<1>7. CASE p = "console" /\ Step(p, "idle", Into(p, "stop", "stopped"), s)
  <2>1. Takes(p, "idle", s) /\ Called(task'[p], task[p], "stop", "stopped") /\ Same(task'[p], task[p]) /\ (task'[p].ok <=> task[p].ok)
    BY <1>7, <1>1, RecordIs, IntoIs, TakesIs DEF Procedures
  <2>2. LockStep(p)
    BY <1>0, <1>7, <2>1 DEF LockStep, OwnLocks, Holds, HoldsRun, HoldsLoad, HoldsGate, Takes,
           Called, Same, Has
  <2>3. CountStep(p)
    BY <1>0, <1>7, <2>1 DEF CountStep, OwnLocks, OwnCounts, Flagged, Inside, Awake, Takes, Called,
           Same, Has
  <2>4. SessionStep(p) /\ Apart(p)
    BY <1>0, <1>7, <2>1 DEF SessionStep, Apart, OwnLocks, OwnSession, Tenant, Keeps, Diagnoses,
           Alone2, HoldsRun, HoldsGate, OwnMode, Loads, LoadsSoon, Takes, Called, Same, Has
  <2>5. ModeStep(p)
    BY <1>0, <1>7, <2>1 DEF ModeStep, OwnLocks, OwnMode, Settled, Mode, Loads, LoadsSoon, Filing,
           Quiet, Safe, Decided, Takes, Called, Same, Has
  <2> QED BY <2>1, <2>2, <2>3, <2>4, <2>5 DEF Obeys, Takes, CalmStep
<1> QED BY <1>1, <1>2, <1>3, <1>4, <1>5, <1>6, <1>7
USE DEF Holds, HoldsRun, HoldsLoad, HoldsGate, Settled, Mode, Awake, Flagged, Inside, Tenant,
        Keeps, Diagnoses, Loads, LoadsSoon, Filing, Quiet, Safe, Decided, Alone2

(* CartBackup_SetPCMode notes the mode: a task turns it on only when it is *)
(* safe to, and off only when nobody counts on it.                         *)
LEMMA ModeSetKept ==
  ASSUME IInv, NEW p \in Tasks, p \in {"console", "keepalive"}, ModeSet(p)
  PROVE  Modal'
<1>1. TypeOK /\ Own(p) /\ Modal /\ s \in SharedType
  BY OwnIs DEF IInv, TypeOK
<1>2. PICK t : t = Goto(p, "mode_end")
  OBVIOUS
<1>3. t \in TaskType /\ Went(t, task[p], "mode_end") /\ Same(t, task[p]) /\ (t.ok <=> task[p].ok)
  <2>1. "mode_end" \in Labels
    BY DEF Labels
  <2> QED BY <1>1, <1>2, <2>1, GotoIs
<1>4. /\ task[p].at = "mode_set" /\ task'[p] = t /\ \A q \in Tasks \ {p} : task'[q] = task[q]
      /\ s' = [s EXCEPT !.PCModeActive = task[p].arg] /\ unseen' = unseen
  BY <1>1, <1>2, <1>3, StepIs DEF ModeSet, Plain, Only
<1>5. /\ SameCounts(s', s) /\ s'.on = s.on /\ s'.ModeApplied = s.ModeApplied
      /\ s'.AppliedEnabled = s.AppliedEnabled /\ s'.PCModeActive = task[p].arg
  BY <1>1, <1>4, ModeSetIs
<1>6. /\ Modes(task[p]) /\ ~Enables(task[p]) /\ Modes(t) /\ ~Enables(t) /\ HoldsRun(p, task[p])
      /\ ~Loads(p, t) /\ ~LoadsSoon(p, t) /\ ~LoadsSoon(p, task[p])
      /\ p = "console" => UpTo(task[p], {"transfer", "down"}) /\ HoldsGate(p, task[p])
      /\ p = "keepalive" => UpTo(task[p], {"applied"}) \/ task[p].arg
  BY <1>1, <1>3, <1>4 DEF Own, OwnLocks, OwnCounts, OwnSession, OwnMode, Went
<1>7. ASSUME p = "console", ~task[p].arg PROVE ~LoadingSoon
  BY <1>1, <1>6, <1>7 DEF Own, OwnLocks, OwnCounts, OwnSession, OwnMode
<1>8. ASSUME p = "console", ~task[p].arg, task["keepalive"].at \in {"mode_end", "applied"}
      PROVE  FALSE
  <2>1. /\ Local("keepalive", task["keepalive"])
        /\ Alone(p, task[p]) /\ Holds(p, task[p], s)
        /\ Holds("keepalive", task["keepalive"], s)
    BY TasksAre DEF IInv, Locks
  <2>2. HoldsGate("keepalive", task["keepalive"])
    BY <1>8
  <2> QED BY <1>6, <1>8, <2>1, <2>2
<1>9. /\ Settled(p, t, s') /\ \A q \in Tasks \ {p} : Settled(q, task[q], s')
  <2>1. Settled(p, t, s')
    BY <1>3, <1>5 DEF Went, Same, Has
  <2>2. ASSUME NEW q \in Tasks \ {p} PROVE Settled(q, task[q], s')
    <3>1. Settled(q, task[q], s)
      BY <1>1 DEF Modal
    <3> QED BY <1>5, <1>8, <3>1
  <2> QED BY <2>1, <2>2
<1>10. ASSUME unseen' = {}
       PROVE  /\ Decided(s', Loading', LoadingSoon')
              /\ \A q \in Tasks : Mode(q, task'[q], s', Loading', LoadingSoon')
  <2>1. PICK now : now = Loading'
    OBVIOUS
  <2>2. PICK soon : soon = LoadingSoon'
    OBVIOUS
  <2>3. /\ now \in BOOLEAN /\ soon \in BOOLEAN /\ Loading \in BOOLEAN /\ LoadingSoon \in BOOLEAN
        /\ (now => Loading) /\ (soon => LoadingSoon)
    BY <1>4, <1>6, <2>1, <2>2, LoadingIs DEF Loading, LoadingSoon
  <2>4. /\ Decided(s, Loading, LoadingSoon)
        /\ \A q \in Tasks : Mode(q, task[q], s, Loading, LoadingSoon)
    BY <1>1, <1>4, <1>10 DEF Modal
  <2>5. /\ task[p].arg => Safe(s, Loading, LoadingSoon)
        /\ p = "keepalive" /\ ~task[p].arg /\ s.on => ~s.AppliedEnabled
    BY <1>4, <1>6, <2>4 
  <2>6. Decided(s', now, soon)
    BY <1>5, <1>7, <2>3, <2>4, <2>5 DEF SameCounts
  <2>7. Mode(p, t, s', now, soon)
    BY <1>3, <1>4, <1>5, <1>6, <2>3, <2>4 DEF Went, Same, Has, SameCounts
  <2>8. ASSUME NEW q \in Tasks \ {p} PROVE Mode(q, task[q], s', now, soon)
    <3>1. Local(q, task[q]) /\ Mode(q, task[q], s, Loading, LoadingSoon)
      BY <2>4 DEF IInv
    <3>2. Modes(task[q]) /\ ~task[p].arg => ~LoadingSoon
      <4>1. Modes(task[q]) => q \in {"console", "keepalive"}
        BY <3>1
      <4>2. q = "console" => (LoadingSoon => LoadsSoon(q, task[q]))
        BY OwnIs DEF Own, OwnLocks, OwnCounts, OwnSession, OwnMode
      <4>3. q = "console" /\ Modes(task[q]) => ~LoadsSoon(q, task[q])
        BY <3>1
      <4> QED BY <1>7, <2>8, <4>1, <4>2, <4>3
    <3> QED BY <1>5, <2>3, <3>1, <3>2 DEF SameCounts
  <2> QED BY <1>4, <2>1, <2>2, <2>6, <2>7, <2>8
<1> QED BY <1>4, <1>9, <1>10 DEF Modal

(* ApplyModeLocked notes the setting that it applied. *)
LEMMA AppliedKept ==
  ASSUME IInv, NEW p \in Tasks, p = "keepalive", Applied(p)
  PROVE  Modal'
<1>1. TypeOK /\ Own(p) /\ Modal /\ s \in SharedType
  BY OwnIs DEF IInv, TypeOK
<1>2. PICK t : t = Goto(p, "give")
  OBVIOUS
<1>3. t \in TaskType /\ Went(t, task[p], "give") /\ Same(t, task[p]) /\ (t.ok <=> task[p].ok)
  <2>1. "give" \in Labels
    BY DEF Labels
  <2> QED BY <1>1, <1>2, <2>1, GotoIs
<1>4. /\ task[p].at = "applied" /\ task'[p] = t /\ \A q \in Tasks \ {p} : task'[q] = task[q]
      /\ s' = Rested([s EXCEPT !.ModeApplied = task[p].ok, !.AppliedEnabled = task[p].arg], p)
      /\ unseen' = unseen
  BY <1>1, <1>2, <1>3, StepIs DEF Applied, Plain, Only
<1>5. /\ s'.on = s.on /\ s'.Active = s.Active /\ s'.PCModeActive = s.PCModeActive
      /\ s'.ModeApplied = task[p].ok /\ s'.AppliedEnabled = task[p].arg
  BY <1>1, <1>4, AppliedIs
<1>6. /\ ~Modes(t) /\ ~Enables(t) /\ ~UpTo(t, {"applied"})
      /\ ~Loads(p, t) /\ ~LoadsSoon(p, t)
  BY <1>1, <1>3, <1>4 DEF Own, OwnLocks, OwnCounts, OwnSession, OwnMode, Went
<1>7. \A q \in Tasks : Settled(q, task'[q], s')
  <2>1. Settled(p, t, s')
    BY <1>3 DEF Went
  <2>2. \A q \in Tasks \ {p} : Settled(q, task[q], s)
    BY <1>1 DEF Modal
  <2> QED BY <1>4, <1>5, <2>1, <2>2
<1>8. ~Filing(task["console"]) /\ task["console"].ret["stop"] # "card"
  <2>1. HoldsGate("console", task["console"]) => s.Gate = "console"
    BY TasksAre DEF IInv, Locks
  <2>2. s.Gate = "keepalive"
    BY <1>1, <1>4 DEF Own, OwnLocks, OwnCounts, OwnSession, OwnMode
  <2> QED BY <2>1, <2>2
<1>9. ASSUME unseen' = {}
      PROVE  /\ Decided(s', Loading', LoadingSoon')
             /\ \A q \in Tasks : Mode(q, task'[q], s', Loading', LoadingSoon')
  <2>1. PICK now : now = Loading'
    OBVIOUS
  <2>2. PICK soon : soon = LoadingSoon'
    OBVIOUS
  <2>3. /\ now \in BOOLEAN /\ soon \in BOOLEAN /\ Loading \in BOOLEAN /\ LoadingSoon \in BOOLEAN
        /\ (now => Loading) /\ (soon => LoadingSoon)
    BY <1>4, <1>6, <2>1, <2>2, LoadingIs DEF Loading, LoadingSoon
  <2>4. /\ Decided(s, Loading, LoadingSoon)
        /\ \A q \in Tasks : Mode(q, task[q], s, Loading, LoadingSoon)
    BY <1>1, <1>4, <1>9 DEF Modal
  <2>5. task[p].arg /\ task[p].ok => s.PCModeActive
    BY <1>1, <1>4 DEF Own, OwnLocks, OwnCounts, OwnSession, OwnMode
  <2>6. Decided(s', now, soon)
    BY <1>5, <2>3, <2>4, <2>5
  <2>7. Mode(p, t, s', now, soon)
    <3>1. t.want => s'.on
      BY <1>3, <1>5, <2>4 DEF Same, Has
    <3> HIDE DEF Modes, Enables, UpTo
    <3> QED BY <1>6, <3>1
  <2>8. ASSUME NEW q \in Tasks \ {p} PROVE Mode(q, task[q], s', now, soon)
    <3>1. Mode(q, task[q], s, Loading, LoadingSoon)
      BY <2>4
    <3> HIDE DEF Filing
    <3> QED BY <1>5, <1>8, <2>3, <3>1
  <2> QED BY <1>4, <2>1, <2>2, <2>6, <2>7, <2>8
<1> QED BY <1>4, <1>7, <1>9 DEF Modal

HIDE DEF Local, Calls, Returns, Carries,
         Modes, Enables, Stops, Holds, HoldsRun, HoldsLoad, HoldsGate, UpTo, Moving, Serving,
         WithBulk, Settled, Mode, Awake, Flagged, Inside, Tenant, Keeps, Diagnoses, Loads,
         LoadsSoon, Filing, Quiet, Safe, Decided, Alone2, Procedures, None

-----------------------------------------------------------------------------
(* The steps that are not one task's own.  A job is handed to its task,    *)
(* which is free because the flag that the caller took is its own.         *)
LEMMA HandedKept ==
  ASSUME IInv, NEW p \in {"menu", "console"}, NEW q \in {"backup", "load"},
         \/ q = "backup" /\ task[p].at = "backup_run"
         \/ q = "load" /\ task[p].at = "load_run" /\ task[p].ok,
         task' = [task EXCEPT ![p] = Rest, ![q].at = "started"], s' = s, Plain
  PROVE  IInv'
<1>1. /\ p \in Tasks /\ q \in Tasks /\ p # q /\ q \notin {"console", "keepalive", "menu"}
      /\ "keepalive" \in Tasks /\ p # "keepalive"
  BY TasksAre
<1>2. /\ TypeOK /\ s \in SharedType
      /\ \A r \in Tasks : /\ task[r] \in TaskType /\ Local(r, task[r])
                          /\ Holds(r, task[r], s) /\ Alone(r, task[r])
                          /\ Tenant(r, task[r], s.hw) /\ Settled(r, task[r], s)
  BY DEF IInv, TypeOK, Locks, Sessions, Modal
<1>3. PICK u : u = [task[q] EXCEPT !.at = "started"]
  OBVIOUS
<1>4. "started" \in Labels
  BY DEF Labels
<1>5. /\ u \in TaskType /\ u.at = "started" /\ u.ret = task[q].ret
      /\ (u.want <=> task[q].want) /\ (u.bulk <=> task[q].bulk)
      /\ (u.card <=> task[q].card) /\ (u.mine <=> task[q].mine)
  BY <1>1, <1>2, <1>3, <1>4 DEF TaskType
<1>6. /\ task' \in [Tasks -> TaskType] /\ task'[p] = Rest /\ task'[q] = u
      /\ \A r \in Tasks \ {p, q} : task'[r] = task[r]
  BY <1>1, <1>2, <1>3, <1>5, RestIs DEF TypeOK
<1>7. Rests(Rest)
  BY RestIs
<1>8. /\ left' = left /\ unseen' = unseen /\ meddled' = meddled /\ intruded' = intruded
  BY DEF Plain
<1>9. task[q].at = "idle"
  <2>1. q = "backup" => HoldsRun(p, task[p])
    BY DEF HoldsRun
  <2>2. q = "load" => HoldsLoad(p, task[p])
    BY DEF HoldsLoad, UpTo
  <2>3. /\ HoldsRun(p, task[p]) => ~HoldsRun(q, task[q])
        /\ HoldsLoad(p, task[p]) => ~HoldsLoad(q, task[q])
    BY <1>1, <1>2 DEF Alone
  <2> QED BY <2>1, <2>2, <2>3 DEF HoldsRun, HoldsLoad
<1>10. /\ \A m \in Procedures : task[q].ret[m] = None /\ u.ret[m] = None
       /\ ~u.bulk /\ (q = "backup" => ~u.mine) /\ ~task[q].bulk
       /\ ~task[p].bulk
  <2>1. Local(q, task[q]) /\ Local(p, task[p])
    BY <1>1, <1>2
  <2>2. ~task[q].bulk /\ ~task[p].bulk /\ (q = "backup" => ~u.mine)
    BY <1>5, <1>9, <2>1 DEF Local, Carries, WithBulk, Moving
  <2>3. \A m \in Procedures : task[q].ret[m] = None
    BY <1>9, <2>1 DEF Local, Calls, Procedures, Modes, Stops, Enables, None
  <2> QED BY <1>5, <2>2, <2>3
<1>11. \A m \in Procedures : Rest.ret[m] = None
  BY <1>7 DEF Rests
<1>12. TypeOK'
  BY <1>2, <1>6, <1>8 DEF TypeOK
<1>13. \A r \in Tasks : Local(r, task'[r])
  <2>1. Local(p, Rest)
    BY <1>1, <1>7, <1>11
       DEF Local, Calls, Returns, Carries, Modes, Enables, Stops, UpTo, Moving, Serving,
           WithBulk, Procedures, None, Rests
  <2>2. Local(q, u)
    BY <1>1, <1>5, <1>10
       DEF Local, Calls, Returns, Carries, Modes, Enables, Stops, UpTo, Moving, Serving,
           WithBulk, Procedures, None
  <2> QED BY <1>2, <1>6, <2>1, <2>2
<1>14. /\ ~HoldsRun(p, Rest) /\ ~HoldsLoad(p, Rest) /\ ~HoldsGate(p, Rest) /\ ~Rest.card
       /\ HoldsRun(q, u) => HoldsRun(p, task[p])
       /\ HoldsLoad(q, u) => HoldsLoad(p, task[p])
       /\ ~HoldsGate(q, u)
  BY <1>1, <1>5, <1>7, <1>10, <1>11
     DEF HoldsRun, HoldsLoad, HoldsGate, UpTo, Modes, Moving, Serving, Procedures, None, Rests
<1>15. \A r \in Tasks : Holds(r, task'[r], s)
  <2>1. Holds(q, task[q], s) /\ Holds(p, task[p], s)
    BY <1>1, <1>2
  <2>2. Holds(q, u, s) /\ Holds(p, Rest, s)
    BY <1>5, <1>14, <2>1 DEF Holds
  <2> QED BY <1>2, <1>6, <2>2
<1>16. \A r \in Tasks : \A x \in Tasks \ {r} :
         /\ HoldsRun(r, task'[r]) => ~HoldsRun(x, task'[x])
         /\ HoldsLoad(r, task'[r]) => ~HoldsLoad(x, task'[x])
  <2>1. \A r \in Tasks : \A x \in Tasks \ {r} :
          /\ HoldsRun(r, task[r]) => ~HoldsRun(x, task[x])
          /\ HoldsLoad(r, task[r]) => ~HoldsLoad(x, task[x])
    BY <1>2 DEF Alone
  <2> QED BY <1>1, <1>6, <1>14, <2>1
<1>17. Locks'
  BY <1>15, <1>16 DEF Locks, Alone, Holds, HoldsRun, HoldsLoad, HoldsGate, Modes, UpTo
<1>18. Ending'
  BY <1>6, <1>10 DEF IInv, Ending
<1>19. Counted' /\ Awake(task["keepalive"], s)'
  <2>1. /\ Inside("backup", task'["backup"]) <=> Inside("backup", task["backup"])
        /\ Inside("load", task'["load"]) <=> Inside("load", task["load"])
    BY <1>1, <1>5, <1>6, <1>9, TasksAre DEF Inside
  <2>2. task'["keepalive"] = task["keepalive"]
    BY <1>1, <1>6
  <2>3. Counted /\ Awake(task["keepalive"], s)
    BY DEF IInv
  <2> QED BY <1>8, <2>1, <2>2, <2>3 DEF Counted, Awake, Flagged, One, UpTo
<1>20. Sessions'
  <2>1. \A r \in Tasks : Tenant(r, task'[r], s.hw)
    <3>1. Tenant(p, Rest, s.hw)
      BY <1>1, <1>2 DEF Tenant
    <3>2. Tenant(q, u, s.hw)
      BY <1>1, <1>2, <1>9 DEF Tenant
    <3> QED BY <1>2, <1>6, <3>1, <3>2
  <2>2. ASSUME ~intruded
        PROVE  \A r \in Tasks :
                 /\ Keeps(r, task'[r], s.hw)
                 /\ Diagnoses(r, task'[r]) => \A x \in Tasks \ {r} : ~task'[x].bulk
    <3>1. \A r \in Tasks : /\ Keeps(r, task[r], s.hw)
                           /\ Diagnoses(r, task[r]) => \A x \in Tasks \ {r} : ~task[x].bulk
      BY <2>2 DEF IInv, Sessions
    <3>2. /\ Keeps(p, Rest, s.hw) /\ Keeps(q, u, s.hw)
          /\ ~Diagnoses(p, Rest) /\ ~Diagnoses(q, u) /\ ~Rest.bulk
      BY <1>1, <1>5, <1>7, <1>10 DEF Keeps, Diagnoses, Rests
    <3> QED BY <1>6, <1>10, <3>1, <3>2
  <2>3. Sessions
    BY DEF IInv
  <2> QED BY <1>8, <2>1, <2>2, <2>3 DEF Sessions, Tenant, Keeps, Diagnoses
<1>21. Modal'
  <2>1. PICK now : now = Loading'
    OBVIOUS
  <2>2. PICK soon : soon = LoadingSoon'
    OBVIOUS
  <2>3. /\ now \in BOOLEAN /\ soon \in BOOLEAN /\ Loading \in BOOLEAN /\ LoadingSoon \in BOOLEAN
        /\ (now => Loading) /\ (soon => LoadingSoon)
    <3>1. now <=> \E r \in Tasks : Loads(r, task'[r])
      BY <2>1 DEF Loading, Loads
    <3>2. soon <=> \E r \in Tasks : LoadsSoon(r, task'[r])
      BY <2>2 DEF LoadingSoon, LoadsSoon
    <3>3. /\ ~Loads(p, Rest) /\ ~LoadsSoon(p, Rest) /\ ~LoadsSoon(q, u)
          /\ Loads(q, u) => Loads(p, task[p])
      BY <1>1, <1>5, <1>7 DEF Loads, LoadsSoon, Rests
    <3> QED BY <1>1, <1>6, <2>1, <2>2, <3>1, <3>2, <3>3 DEF Loading, LoadingSoon
  <2>4. \A r \in Tasks : Settled(r, task'[r], s)
    <3>1. Settled(p, Rest, s) /\ Settled(q, u, s)
      BY <1>1, <1>5, <1>7 DEF Settled, Rests
    <3> QED BY <1>2, <1>6, <3>1
  <2>5. ASSUME unseen = {}
        PROVE  /\ Decided(s, now, soon)
               /\ \A r \in Tasks : Mode(r, task'[r], s, now, soon)
    <3>1. /\ Decided(s, Loading, LoadingSoon)
          /\ \A r \in Tasks : Mode(r, task[r], s, Loading, LoadingSoon)
      BY <2>5 DEF IInv, Modal
    <3>2. Decided(s, now, soon)
      BY <2>3, <3>1 DEF Decided, Safe, Quiet
    <3>3. ASSUME NEW r \in Tasks \ {p, q} PROVE Mode(r, task[r], s, now, soon)
      <4>1. Mode(r, task[r], s, Loading, LoadingSoon)
        BY <3>1
      <4> QED BY <2>3, <4>1 DEF Mode, Safe, Quiet
    <3>4. Mode(p, Rest, s, now, soon)
      <4>1. ~Filing(Rest) /\ ~Modes(Rest) /\ ~Enables(Rest) /\ ~Rest.want
            /\ Rest.ret["stop"] = None
        BY <1>7, <1>11 DEF Rests, Filing, Modes, Enables, UpTo, Serving, Moving, Procedures, None
      <4> QED BY <1>1, <4>1 DEF Mode, None
    <3>5. Mode(q, u, s, now, soon)
      <4>1. ~Modes(u) /\ ~Enables(u) /\ (u.want <=> task[q].want)
        BY <1>5, <1>10 DEF Modes, Enables, Procedures
      <4>2. Mode(q, task[q], s, Loading, LoadingSoon)
        BY <1>1, <3>1
      <4> QED BY <1>1, <4>1, <4>2 DEF Mode
    <3> QED BY <1>6, <3>2, <3>3, <3>4, <3>5
  <2> QED BY <1>8, <2>1, <2>2, <2>4, <2>5 DEF Modal, Settled, Decided, Mode
<1> QED BY <1>12, <1>13, <1>17, <1>18, <1>19, <1>20, <1>21
        DEF IInv, Local, Calls, Returns, Carries, Modes, Enables, Stops, UpTo

(* The setting changes: who turns PC mode on by the old one has not seen   *)
(* it, and the keepalive has to apply the new one.                         *)
LEMMA ToggleKept ==
  ASSUME IInv, Toggle
  PROVE  IInv'
<1>1. /\ TypeOK /\ s \in SharedType /\ task' = task /\ meddled' = meddled /\ intruded' = intruded
      /\ s' = [s EXCEPT !.on = ~s.on] /\ task["menu"].at = "idle" /\ Spend("toggles")
  BY DEF IInv, TypeOK, Toggle
<1>2. /\ s' \in SharedType /\ SameCounts(s', s) /\ s'.on = ~s.on
      /\ s'.PCModeActive = s.PCModeActive /\ s'.ModeApplied = s.ModeApplied
      /\ s'.AppliedEnabled = s.AppliedEnabled /\ s'.hw = s.hw
      /\ Locked(s', s.Running, s.LoadRequested, s.Gate, s.MountGate)
  BY <1>1 DEF SharedType, SameCounts, Locked
<1>3. TypeOK'
  <2>1. {r \in Tasks : task[r].want} \subseteq Tasks /\ "keepalive" \in Tasks
    BY TasksAre
  <2>2. unseen' \subseteq Tasks
    BY <1>1, <2>1 DEF TypeOK, Toggle
  <2>3. left' \in [Bounds -> Nat]
    <3>1. "toggles" \in Bounds
      BY DEF Bounds
    <3> QED BY <1>1, <3>1 DEF TypeOK, Spend
  <2> QED BY <1>1, <1>2, <2>2, <2>3 DEF TypeOK
<1>4. \A r \in Tasks : Local(r, task[r])'
  BY <1>1 DEF IInv, Local, Calls, Returns, Carries, Modes, Enables, Stops, UpTo
<1>5. Locks'
  <2>1. \A r \in Tasks : Holds(r, task[r], s') /\ Alone(r, task[r])
    BY <1>2 DEF IInv, Locks, Holds, Locked
  <2> QED BY <1>1, <2>1 DEF Locks, Holds, Alone, HoldsRun, HoldsLoad, HoldsGate, Modes, UpTo
<1>6. Ending' /\ Counted' /\ Awake(task["keepalive"], s)'
  <2>1. Ending'
    BY <1>1, <1>2 DEF IInv, Ending, SameCounts
  <2>2. Counted'
    <3>1. Counted /\ Flagged(s') = Flagged(s) /\ s'.SleepInhibitCount = s.SleepInhibitCount
      BY <1>2 DEF IInv, SameCounts, Flagged
    <3> QED BY <1>1, <3>1 DEF Counted, Flagged, Inside, One
  <2>3. Awake(task["keepalive"], s')
    BY <1>2 DEF IInv, Awake, SameCounts
  <2> QED BY <1>1, <2>1, <2>2, <2>3 DEF Awake, UpTo
<1>7. Sessions'
  BY <1>1, <1>2 DEF IInv, Sessions, Tenant, Keeps, Diagnoses
<1>8. Modal'
  <2>1. /\ (Loading' <=> Loading) /\ (LoadingSoon' <=> LoadingSoon)
    BY <1>1 DEF Loading, LoadingSoon, Loads, LoadsSoon
  <2>2. \A r \in Tasks : Settled(r, task[r], s')
    <3>1. \A r \in Tasks : Settled(r, task[r], s)
      BY DEF IInv, Modal
    <3> QED BY <1>1, <1>2, <3>1 DEF Settled
  <2>3. ASSUME unseen' = {}
        PROVE  /\ Decided(s', Loading, LoadingSoon)
               /\ \A r \in Tasks : Mode(r, task[r], s', Loading, LoadingSoon)
    <3>1. /\ unseen = {}
          /\ s.on => \A r \in Tasks : ~task[r].want
          /\ ~s.on => ~s.AppliedEnabled
      BY <2>3 DEF Toggle
    <3>2. /\ Decided(s, Loading, LoadingSoon)
          /\ \A r \in Tasks : Mode(r, task[r], s, Loading, LoadingSoon)
      BY <3>1 DEF IInv, Modal
    <3>3. /\ s.on \in BOOLEAN /\ s'.Active = s.Active
          /\ s'.on /\ s.on => FALSE
          /\ ~s'.on /\ ~s.on => FALSE
      BY <1>1, <1>2 DEF SharedType, SameCounts
    <3>4. Decided(s', Loading, LoadingSoon)
      BY <1>2, <3>1, <3>2, <3>3 DEF Decided, Safe, Quiet
    <3>5. ASSUME NEW r \in Tasks PROVE Mode(r, task[r], s', Loading, LoadingSoon)
      <4>1. Mode(r, task[r], s, Loading, LoadingSoon)
        BY <3>2
      <4> QED BY <1>2, <3>1, <3>3, <4>1 DEF Mode, Safe, Quiet
    <3> QED BY <3>4, <3>5
  <2> QED BY <1>1, <2>1, <2>2, <2>3
          DEF Modal, Settled, Decided, Mode, Safe, Quiet, Filing, UpTo, Modes, Enables
<1> QED BY <1>3, <1>4, <1>5, <1>6, <1>7, <1>8 DEF IInv

(* The FPGA ends its session, and nobody works in it any more.             *)
LEMMA LostKept ==
  ASSUME IInv, SessionLost
  PROVE  IInv'
<1>1. /\ TypeOK /\ s \in SharedType /\ s' = [s EXCEPT !.hw = None] /\ Fault
      /\ task' = [r \in Tasks |-> IF r = "load" THEN task[r]
                                  ELSE [task[r] EXCEPT !.mine = FALSE]]
  BY DEF IInv, TypeOK, SessionLost
<1>2. /\ s' \in SharedType /\ SameCounts(s', s) /\ SameModes(s', s) /\ s'.hw = None
      /\ Locked(s', s.Running, s.LoadRequested, s.Gate, s.MountGate)
  BY <1>1, HwSet
<1>3. /\ unseen' = unseen /\ meddled' = meddled /\ intruded' = intruded
  BY <1>1 DEF Fault
<1>4. \A r \in Tasks : task[r] \in TaskType
  BY <1>1 DEF TypeOK
<1>5. \A r \in Tasks :
        /\ task'[r] \in TaskType /\ task'[r].at = task[r].at /\ task'[r].ret = task[r].ret
        /\ (task'[r].ok <=> task[r].ok) /\ (task'[r].arg <=> task[r].arg)
        /\ (task'[r].want <=> task[r].want) /\ (task'[r].bulk <=> task[r].bulk)
        /\ (task'[r].card <=> task[r].card) /\ (r # "load" => ~task'[r].mine)
  <2>1. SUFFICES ASSUME NEW r \in Tasks
                 PROVE  /\ task'[r] \in TaskType /\ task'[r].at = task[r].at
                        /\ task'[r].ret = task[r].ret
                        /\ (task'[r].ok <=> task[r].ok) /\ (task'[r].arg <=> task[r].arg)
                        /\ (task'[r].want <=> task[r].want) /\ (task'[r].bulk <=> task[r].bulk)
                        /\ (task'[r].card <=> task[r].card) /\ (r # "load" => ~task'[r].mine)
    OBVIOUS
  <2>2. PICK u : u = [task[r] EXCEPT !.mine = FALSE]
    OBVIOUS
  <2>3. task'[r] = IF r = "load" THEN task[r] ELSE u
    BY <1>1, <2>2
  <2>4. Noted(u, task[r])
        /\ Has(u, task[r].arg, task[r].want, task[r].bulk, task[r].card, FALSE)
    BY <1>4, <2>2, MineIs
  <2> QED BY <1>4, <2>3, <2>4 DEF Noted, Has
<1>6. TypeOK'
  <2>1. task' \in [Tasks -> TaskType]
    <3>1. PICK f : f = [r \in Tasks |-> task'[r]]
      OBVIOUS
    <3>2. task' = f
      BY <1>1, <3>1
    <3> QED BY <1>5, <3>1, <3>2
  <2>2. left' \in [Bounds -> Nat]
    <3>1. "events" \in Bounds
      BY DEF Bounds
    <3> QED BY <1>1, <3>1 DEF TypeOK, Fault, Spend
  <2> QED BY <1>1, <1>2, <1>3, <2>1, <2>2 DEF TypeOK
<1>7. ASSUME NEW r \in Tasks
      PROVE  /\ \A L : UpTo(task'[r], L) <=> UpTo(task[r], L)
             /\ Modes(task'[r]) <=> Modes(task[r])
             /\ Enables(task'[r]) <=> Enables(task[r])
             /\ Stops(task'[r]) <=> Stops(task[r])
  BY <1>5 DEF UpTo, Modes, Enables, Stops
<1>8. ASSUME NEW r \in Tasks
      PROVE  /\ HoldsRun(r, task'[r]) <=> HoldsRun(r, task[r])
             /\ HoldsLoad(r, task'[r]) <=> HoldsLoad(r, task[r])
             /\ HoldsGate(r, task'[r]) <=> HoldsGate(r, task[r])
             /\ Loads(r, task'[r]) <=> Loads(r, task[r])
             /\ LoadsSoon(r, task'[r]) <=> LoadsSoon(r, task[r])
             /\ Inside(r, task'[r]) <=> Inside(r, task[r])
             /\ Diagnoses(r, task'[r]) <=> Diagnoses(r, task[r])
             /\ Filing(task'[r]) <=> Filing(task[r])
  BY <1>5, <1>7 DEF HoldsRun, HoldsLoad, HoldsGate, Loads, LoadsSoon, Inside, Diagnoses, Filing
<1>9. ASSUME NEW r \in Tasks PROVE Local(r, task'[r])
  <2>1. Local(r, task[r])
    BY DEF IInv
  <2>2. Calls(task'[r])
    BY <1>5, <1>7, <2>1 DEF Local, Calls
  <2>3. Returns(r, task'[r])
    BY <1>5, <2>1 DEF Local, Returns
  <2>4. Carries(r, task'[r])
    BY <1>5, <1>7, <2>1 DEF Local, Carries
  <2> QED BY <2>2, <2>3, <2>4 DEF Local
<1>10. Locks'
  <2>1. ASSUME NEW r \in Tasks PROVE Holds(r, task'[r], s')
    <3>1. Holds(r, task[r], s)
      BY DEF IInv, Locks
    <3> QED BY <1>2, <1>5, <1>8, <3>1 DEF Holds, Locked
  <2>2. ASSUME NEW r \in Tasks, NEW x \in Tasks \ {r}
        PROVE  /\ HoldsRun(r, task'[r]) => ~HoldsRun(x, task'[x])
               /\ HoldsLoad(r, task'[r]) => ~HoldsLoad(x, task'[x])
    <3>1. Alone(r, task[r])
      BY DEF IInv, Locks
    <3> QED BY <1>8, <3>1 DEF Alone
  <2> QED BY <2>1, <2>2 DEF Locks, Holds, Alone, HoldsRun, HoldsLoad, HoldsGate, Modes, UpTo
<1>11. Ending' /\ Counted' /\ Awake(task["keepalive"], s)'
  <2>1. Ending'
    BY <1>2, <1>5 DEF IInv, Ending, SameCounts
  <2>2. Counted'
    <3>1. Counted /\ Flagged(s') = Flagged(s) /\ s'.SleepInhibitCount = s.SleepInhibitCount
      BY <1>2 DEF IInv, SameCounts, Flagged
    <3>2. /\ Inside("backup", task'["backup"]) <=> Inside("backup", task["backup"])
          /\ Inside("load", task'["load"]) <=> Inside("load", task["load"])
      BY <1>8, TasksAre
    <3> QED BY <1>3, <3>1, <3>2 DEF Counted, Flagged, Inside, One
  <2>3. Awake(task'["keepalive"], s')
    <3>1. "keepalive" \in Tasks /\ Awake(task["keepalive"], s)
      BY TasksAre DEF IInv
    <3> QED BY <1>2, <1>5, <1>7, <3>1 DEF Awake, SameCounts, SameModes
  <2> QED BY <2>1, <2>2, <2>3 DEF Awake, UpTo
<1>12. Sessions'
  <2>1. \A r \in Tasks : Tenant(r, task'[r], s'.hw)
    BY <1>2 DEF Tenant, None
  <2>2. ASSUME ~intruded, NEW r \in Tasks
        PROVE  /\ Keeps(r, task'[r], s'.hw)
               /\ Diagnoses(r, task'[r]) => \A x \in Tasks \ {r} : ~task'[x].bulk
    <3>1. Diagnoses(r, task[r]) => \A x \in Tasks \ {r} : ~task[x].bulk
      BY <2>2 DEF IInv, Sessions
    <3>2. Keeps(r, task'[r], s'.hw)
      BY <1>5 DEF Keeps
    <3> QED BY <1>5, <1>8, <3>1, <3>2
  <2> QED BY <1>2, <1>3, <2>1, <2>2 DEF Sessions, Tenant, Keeps, Diagnoses
<1>13. Modal'
  <2>1. (Loading' <=> Loading) /\ (LoadingSoon' <=> LoadingSoon)
    <3>1. Loading' <=> \E r \in Tasks : Loads(r, task'[r])
      BY DEF Loading, Loads
    <3>2. LoadingSoon' <=> \E r \in Tasks : LoadsSoon(r, task'[r])
      BY DEF LoadingSoon, LoadsSoon
    <3> QED BY <1>8, <3>1, <3>2 DEF Loading, LoadingSoon
  <2>2. ASSUME NEW r \in Tasks PROVE Settled(r, task'[r], s')
    <3>1. Settled(r, task[r], s)
      BY DEF IInv, Modal
    <3> QED BY <1>2, <1>5, <3>1 DEF Settled, SameModes
  <2>3. ASSUME unseen = {}
        PROVE  /\ Decided(s', Loading, LoadingSoon)
               /\ \A r \in Tasks : Mode(r, task'[r], s', Loading, LoadingSoon)
    <3>1. /\ Decided(s, Loading, LoadingSoon)
          /\ \A r \in Tasks : Mode(r, task[r], s, Loading, LoadingSoon)
      BY <2>3 DEF IInv, Modal
    <3>2. Decided(s', Loading, LoadingSoon)
      BY <1>2, <3>1 DEF Decided, Safe, Quiet, SameCounts, SameModes
    <3>3. ASSUME NEW r \in Tasks PROVE Mode(r, task'[r], s', Loading, LoadingSoon)
      <4>1. Mode(r, task[r], s, Loading, LoadingSoon)
        BY <3>1
      <4> QED BY <1>2, <1>5, <1>7, <1>8, <4>1 DEF Mode, Safe, Quiet, SameCounts, SameModes
    <3> QED BY <3>2, <3>3
  <2> QED BY <1>3, <2>1, <2>2, <2>3
          DEF Modal, Settled, Decided, Mode, Safe, Quiet, Filing, UpTo, Modes, Enables
<1> QED BY <1>6, <1>9, <1>10, <1>11, <1>12, <1>13
        DEF IInv, Local, Calls, Returns, Carries, Modes, Enables, Stops, UpTo

-----------------------------------------------------------------------------
(* What a step counts and notes. *)
Tally(p) == /\ left' = left \/ \E b \in Bounds : Spend(b)
            /\ unseen' \subseteq unseen \cup {p}
            /\ meddled' \in BOOLEAN /\ intruded' \in BOOLEAN

(* Every step counts and notes what it may. *)
LEMMA TallyIs ==
  ASSUME TypeOK, NEW p \in Tasks, Go(p) \/ Command(p) \/ (p = "menu" /\ MenuStart)
  PROVE  Tally(p)
<1>1. /\ "requests" \in Bounds /\ "events" \in Bounds /\ "commands" \in Bounds
      /\ "starts" \in Bounds
  BY DEF Bounds
<1>2. meddled \in BOOLEAN /\ intruded \in BOOLEAN /\ s \in SharedType /\ task[p].ok \in BOOLEAN
  BY RecordIs DEF TypeOK
<1>3. /\ Plain => Tally(p)
      /\ Fault => Tally(p)
      /\ Rising(p) /\ UNCHANGED <<left, meddled, intruded>> => Tally(p)
      /\ Rising(p) /\ Spend("requests") /\ UNCHANGED <<meddled, intruded>> => Tally(p)
      /\ Spend("requests") /\ UNCHANGED <<unseen, meddled, intruded>> => Tally(p)
      /\ Spend("events") /\ UNCHANGED <<unseen, meddled, intruded>> => Tally(p)
      /\ Spend("commands") /\ UNCHANGED <<unseen, meddled, intruded>> => Tally(p)
      /\ Spend("starts") /\ UNCHANGED <<unseen, meddled, intruded>> => Tally(p)
  BY <1>1, <1>2 DEF Tally, Plain, Fault, Rising
<1>4. Begin(p) \/ ModeOff(p) \/ BackupAsk(p) \/ LoadAsk(p) => Tally(p)
  BY <1>3 DEF Begin, ModeOff, BackupAsk, LoadAsk
<1>5. Begun(p) => Tally(p)
  <2>1. (meddled \/ s.SessionActive) \in BOOLEAN
    BY <1>2 DEF SharedType
  <2> QED BY <1>2, <2>1 DEF Begun, Tally
<1>6. Enable(p) \/ EnableStop(p) \/ EnableMode(p) => Tally(p)
  BY <1>3 DEF Enable, EnableStop, EnableMode
<1>7. SetPCMode(p) => Tally(p)
  BY <1>3 DEF SetPCMode, ModeRun, ModePing, ModeAct, ModeSet, ModeEnd
<1>8. VirtualCart_Stop(p) => Tally(p)
  BY <1>3 DEF VirtualCart_Stop, Stop, StopMount, StopRun, StopEnd, Mount
<1>9. CommandGate(p) \/ Closing(p) \/ Stopped(p) => Tally(p)
  BY <1>3 DEF CommandGate, Closing, Stopped
<1>10. Transfer(p) => Tally(p)
  BY <1>3 DEF Transfer
<1>11. Files(p) => Tally(p)
  BY <1>3 DEF Files, Mount
<1>12. Probe(p) => Tally(p)
  BY <1>2, <1>3 DEF Probe, Tally
<1>13. Apply(p) \/ Applied(p) \/ Give(p) \/ Wake(p) => Tally(p)
  BY <1>3 DEF Apply, Applied, Give, Wake
<1>14. BackupSteps(p) => Tally(p)
  BY <1>3 DEF BackupSteps, Mount
<1>15. LoadSteps(p) => Tally(p)
  BY <1>3 DEF LoadSteps, Mount
<1>16. SaveSteps(p) \/ SaveWake(p) => Tally(p)
  BY <1>3 DEF SaveSteps, SaveWake, Mount
<1>17. Command(p) \/ MenuStart => Tally(p)
  BY <1>3 DEF Command, MenuStart
<1> QED BY <1>4, <1>5, <1>6, <1>7, <1>8, <1>9, <1>10, <1>11, <1>12, <1>13, <1>14, <1>15,
           <1>16, <1>17
        DEF Go, Job

(* What obeys, keeps the invariant. *)
LEMMA StepKept ==
  ASSUME IInv, NEW p \in Tasks, Obeys(p), Modal', Tally(p)
  PROVE  IInv'
<1>1. TypeOK /\ Only(p) /\ s' \in SharedType
  BY DEF IInv, Obeys
<1>2. left' \in [Bounds -> Nat]
  BY <1>1 DEF TypeOK, Tally, Spend
<1>3. TypeOK'
  BY <1>1, <1>2 DEF TypeOK, Tally, Only
<1>4. Locks' /\ \A q \in Tasks : Local(q, task[q])'
  BY LocksKept
<1>5. Ending' /\ Counted' /\ Awake(task["keepalive"], s)'
  BY CountsKept
<1>6. Sessions'
  BY SessionsKept
<1> QED BY <1>3, <1>4, <1>5, <1>6 DEF IInv

(* A step of one task. *)
LEMMA GoKept ==
  ASSUME IInv, NEW p \in Tasks, Go(p)
  PROVE  IInv'
<1>1. TypeOK /\ Own(p) /\ Tally(p)
  BY OwnIs, TallyIs DEF IInv
<1>2. ASSUME Obeys(p), CalmStep(p) PROVE IInv'
  BY <1>1, <1>2, CalmKept, StepKept
<1>3. CASE Begin(p) \/ Begun(p)
  BY <1>1, <1>2, <1>3, BeginObeys, BegunObeys
<1>4. CASE p \in {"menu", "console"} /\ ModeOff(p)
  BY <1>1, <1>2, <1>4, ModeOffObeys
<1>5. CASE p \in {"menu", "console"} /\ BackupAsk(p)
  <2>1. CASE task[p].at = "backup_run" /\ s' = s /\ Plain
             /\ task' = [task EXCEPT ![p] = Rest, !["backup"].at = "started"]
    BY <1>5, <2>1, HandedKept
  <2>2. CASE \/ /\ Step(p, "backup", IF task[p].ok /\ ~s.Running THEN Goto(p, "backup_run")
                                     ELSE Rest,
                        [s EXCEPT !.Running = @ \/ task[p].ok])
                /\ Plain
             \/ Step(p, "backup_run", Rest, [s EXCEPT !.Running = FALSE]) /\ Fault
    BY <1>1, <1>2, <1>5, <2>2, AskObeys
  <2> QED BY <1>5, <2>1, <2>2 DEF BackupAsk
<1>6. CASE p \in {"menu", "console"} /\ LoadAsk(p)
  <2>1. CASE task[p].at = "load_run" /\ task[p].ok /\ s' = s /\ Plain
             /\ task' = [task EXCEPT ![p] = Rest, !["load"].at = "started"]
    BY <1>6, <2>1, HandedKept
  <2>2. CASE \/ /\ Step(p, "load", IF task[p].ok /\ ~s.LoadRequested
                                   THEN Into(p, "off", "load_run") ELSE Rest,
                        [s EXCEPT !.LoadRequested = @ \/ task[p].ok])
                /\ Plain
             \/ Step(p, "load_run", Rest, [s EXCEPT !.LoadRequested = FALSE]) /\ (Plain \/ Fault)
    BY <1>1, <1>2, <1>6, <2>2, AskObeys
  <2> QED BY <1>6, <2>1, <2>2 DEF LoadAsk
<1>7. CASE p \in {"console", "keepalive"} /\ SetPCMode(p)
  <2>1. CASE ModeSet(p)
    BY <1>1, <1>7, <2>1, ModeSetObeys, ModeSetKept, StepKept
  <2>2. CASE ModeRun(p) \/ ModePing(p) \/ ModeAct(p) \/ ModeEnd(p)
    BY <1>1, <1>2, <1>7, <2>2, SetPCModeObeys
  <2> QED BY <1>7, <2>1, <2>2 DEF SetPCMode
<1>8. CASE /\ p \in {"console", "keepalive"}
           /\ VirtualCart_Stop(p) \/ Enable(p) \/ EnableStop(p) \/ EnableMode(p)
  BY <1>1, <1>2, <1>8, StopObeys, EnableObeys
<1>9. CASE p = "console" /\ (CommandGate(p) \/ Transfer(p) \/ Files(p))
  BY <1>1, <1>2, <1>9, CommandGateObeys, TransferObeys, FilesObey
<1>10. CASE p = "console" /\ (Closing(p) \/ Probe(p) \/ Stopped(p))
  BY <1>1, <1>2, <1>10, ClosingObeys, ProbeObeys
<1>11. CASE p = "keepalive" /\ (Apply(p) \/ Give(p) \/ Wake(p))
  BY <1>1, <1>2, <1>11, ApplyObeys, WakeObeys
<1>12. CASE p = "keepalive" /\ Applied(p)
  BY <1>1, <1>12, AppliedObeys, AppliedKept, StepKept
<1>13. CASE p = "backup" /\ BackupSteps(p)
  BY <1>1, <1>2, <1>13, BackupStepsObey
<1>14. CASE p = "load" /\ LoadSteps(p)
  BY <1>1, <1>2, <1>14, LoadStepsObey
<1>15. CASE p = "save" /\ (SaveSteps(p) \/ SaveWake(p))
  BY <1>1, <1>2, <1>15, SaveObeys
<1> QED BY <1>3, <1>4, <1>5, <1>6, <1>7, <1>8, <1>9, <1>10, <1>11, <1>12, <1>13, <1>14, <1>15
        DEF Go, Job

(* Every step keeps the invariant. *)
LEMMA NextKept ==
  ASSUME IInv, [Next]_vars
  PROVE  IInv'
<1>1. TypeOK /\ "console" \in Tasks /\ "menu" \in Tasks
  BY TasksAre DEF IInv
<1>2. CASE Command("console")
  <2>1. Obeys("console") /\ CalmStep("console")
    BY <1>1, <1>2, OwnIs, CommandObeys DEF Command
  <2> QED BY <1>1, <1>2, <2>1, TallyIs, CalmKept, StepKept
<1>3. CASE MenuStart
  <2>1. Obeys("menu") /\ CalmStep("menu")
    BY <1>1, <1>3, OwnIs, CommandObeys DEF MenuStart
  <2> QED BY <1>1, <1>3, <2>1, TallyIs, CalmKept, StepKept
<1>4. CASE UNCHANGED vars
  <2>1. /\ task' = task /\ s' = s /\ left' = left
        /\ unseen' = unseen /\ meddled' = meddled /\ intruded' = intruded
    BY <1>4 DEF vars
  <2>2. TypeOK' /\ \A r \in Tasks : Local(r, task[r])'
    BY <2>1 DEF IInv, TypeOK, Local, Calls, Returns, Carries, Modes, Enables, Stops, UpTo
  <2>3. Locks'
    BY <2>1 DEF IInv, Locks, Holds, Alone, HoldsRun, HoldsLoad, HoldsGate, Modes, UpTo
  <2>4. Ending' /\ Counted' /\ Awake(task["keepalive"], s)'
    BY <2>1 DEF IInv, Ending, Counted, Awake, Flagged, Inside, One, UpTo
  <2>5. Sessions'
    BY <2>1 DEF IInv, Sessions, Tenant, Keeps, Diagnoses
  <2>6. Modal'
    BY <2>1 DEF IInv, Modal, Settled, Decided, Mode, Safe, Quiet, Filing, UpTo, Modes,
                Enables, Loading, LoadingSoon, Loads, LoadsSoon
  <2> QED BY <2>2, <2>3, <2>4, <2>5, <2>6 DEF IInv
<1>5. CASE \E p \in Tasks : Go(p)
  BY <1>5, GoKept
<1> QED BY <1>2, <1>3, <1>4, <1>5, ToggleKept, LostKept DEF Next

(* It holds at the start. *)
LEMMA InitIs == Init => IInv
<1>1. SUFFICES ASSUME Init PROVE IInv
  OBVIOUS
<1>2. /\ task = [p \in Tasks |-> Rest] /\ \A p \in Tasks : task[p] = Rest
      /\ unseen = {} /\ meddled = FALSE /\ intruded = FALSE
  BY <1>1 DEF Init
<1>3. Rest \in TaskType /\ Rests(Rest)
  BY RestIs
<1>4. PICK on \in BOOLEAN :
        /\ on => MaxToggles > 0
        /\ s = [on |-> on, Gate |-> None, ModeApplied |-> FALSE,
               AppliedEnabled |-> FALSE, SleepInhibited |-> FALSE,
               PCModeActive |-> FALSE, Running |-> FALSE, LoadRequested |-> FALSE,
               VRunning |-> FALSE, Active |-> FALSE, SessionActive |-> FALSE,
               SleepInhibitCount |-> 0, MountGate |-> None, hw |-> None]
        /\ left = [toggles |-> MaxToggles - IF on THEN 1 ELSE 0, starts |-> MaxStarts,
                   commands |-> MaxCommands, requests |-> MaxRequests,
                   events |-> MaxEvents]
  BY <1>1 DEF Init
<1>5. /\ s \in SharedType /\ ~s.PCModeActive /\ ~s.Active /\ ~s.ModeApplied
      /\ ~s.AppliedEnabled /\ ~s.SleepInhibited /\ ~s.SessionActive
      /\ s.SleepInhibitCount = 0 /\ s.hw = None
  BY <1>4 DEF SharedType
<1>6. TypeOK
  <2>1. PICK n : n = MaxToggles - IF on THEN 1 ELSE 0
    OBVIOUS
  <2>2. n \in Nat
    BY <1>4, <2>1, OwnershipAssumption
  <2>3. left \in [Bounds -> Nat]
    BY <1>4, <2>1, <2>2, OwnershipAssumption DEF Bounds
  <2> QED BY <1>2, <1>3, <1>5, <2>3 DEF TypeOK
<1>7. /\ ~Modes(Rest) /\ ~Enables(Rest) /\ ~Stops(Rest)
      /\ \A m \in Procedures : Rest.ret[m] = None
  BY <1>3 DEF Rests, Modes, Enables, Stops, Procedures
<1>8. \A p \in Tasks : Local(p, Rest)
  BY <1>3, <1>7 DEF Local, Calls, Returns, Carries, Rests, UpTo, WithBulk, Moving, Serving,
                    Procedures, None, Modes, Enables, Stops
<1>9. \A p \in Tasks : /\ ~HoldsRun(p, Rest) /\ ~HoldsLoad(p, Rest) /\ ~HoldsGate(p, Rest)
                       /\ ~Loads(p, Rest) /\ ~LoadsSoon(p, Rest) /\ ~Inside(p, Rest)
                       /\ ~Diagnoses(p, Rest)
  BY <1>3, <1>7 DEF HoldsRun, HoldsLoad, HoldsGate, Loads, LoadsSoon, Inside, Diagnoses, Rests,
                    UpTo, Moving, Serving, Procedures, None
<1>10. Locks
  BY <1>2, <1>3, <1>9 DEF Locks, Holds, Alone, Rests
<1>11. Ending /\ Counted /\ Awake(task["keepalive"], s)
  <2>1. "backup" \in Tasks /\ "load" \in Tasks /\ "keepalive" \in Tasks
    BY TasksAre
  <2> QED BY <1>2, <1>3, <1>5, <1>9, <2>1 DEF Ending, Counted, Awake, Flagged, One, Rests
<1>12. Sessions
  BY <1>2, <1>3, <1>5, <1>9 DEF Sessions, Tenant, Keeps, Rests, None
<1>13. ~Loading /\ ~LoadingSoon
  BY <1>2, <1>9 DEF Loading, LoadingSoon
<1>14. Modal
  <2>1. ~Filing(Rest) /\ ~UpTo(Rest, {"applied"}) /\ Rest.ret["stop"] = None
    BY <1>3, <1>7 DEF Filing, UpTo, Serving, Moving, Procedures, None, Rests
  <2>2. \A p \in Tasks : Mode(p, Rest, s, FALSE, FALSE) /\ Settled(p, Rest, s)
    BY <1>3, <1>5, <1>7, <2>1 DEF Mode, Settled, Rests, None
  <2>3. Decided(s, FALSE, FALSE)
    BY <1>5 DEF Decided, Safe, Quiet
  <2>4. Loading = FALSE /\ LoadingSoon = FALSE
    <3>1. Loading \in BOOLEAN /\ LoadingSoon \in BOOLEAN
      BY DEF Loading, LoadingSoon
    <3> QED BY <1>13, <3>1
  <2> QED BY <1>2, <2>2, <2>3, <2>4 DEF Modal
<1> QED BY <1>2, <1>6, <1>8, <1>10, <1>11, <1>12, <1>14 DEF IInv

-----------------------------------------------------------------------------
(* A job that has the cartridge keeps its session, and no game meets PC mode. *)
LEMMA InvIsOwners == IInv => OwnersKeepTheCart
<1>1. SUFFICES ASSUME IInv PROVE OwnersKeepTheCart
  OBVIOUS
<1>2. "backup" \in Tasks /\ "console" \in Tasks /\ "load" \in Tasks
  BY TasksAre
<1>3. ~intruded => JobsKeepTheirSession
  <2>1. SUFFICES ASSUME ~intruded PROVE JobsKeepTheirSession
    OBVIOUS
  <2>2. Keeps("backup", task["backup"], s.hw) /\ Keeps("console", task["console"], s.hw)
    BY <1>1, <1>2, <2>1 DEF IInv, Sessions
  <2> QED BY <2>2 DEF JobsKeepTheirSession, Owner, Keeps
<1>4. unseen = {} => PCModeExcludesGames
  <2>1. SUFFICES ASSUME unseen = {} PROVE PCModeExcludesGames
    OBVIOUS
  <2>2. s.PCModeActive => ~s.Active /\ ~Loading
    BY <1>1, <2>1 DEF IInv, Modal, Decided, Quiet
  <2>3. task["load"].at # "idle" => Loading
    BY <1>2 DEF Loading, Loads
  <2> QED BY <2>2, <2>3 DEF PCModeExcludesGames
<1> QED BY <1>3, <1>4 DEF OwnersKeepTheCart

(* The count is what works, so it is zero when nothing does. *)
LEMMA InvIsAccounted == IInv => SleepAccounted
<1>1. SUFFICES ASSUME IInv, ~meddled
               PROVE  /\ Working => s.SleepInhibitCount > 0
                      /\ AtRest => s.SleepInhibitCount = 0
  BY DEF SleepAccounted
<1>2. PICK n : n = s.SleepInhibitCount
  OBVIOUS
<1>3. /\ One(s.Active) \in {0, 1} /\ One(s.SleepInhibited) \in {0, 1}
      /\ One(s.SessionActive) \in {0, 1}
      /\ One(Inside("backup", task["backup"])) \in {0, 1}
      /\ One(Inside("load", task["load"])) \in {0, 1}
  BY DEF One
<1>4. /\ n \in Nat
      /\ n = One(s.Active) + One(s.SleepInhibited) + One(s.SessionActive)
             + One(Inside("backup", task["backup"])) + One(Inside("load", task["load"]))
  BY <1>1, <1>2, <1>3 DEF IInv, TypeOK, SharedType, Counted, Flagged
<1>5. ASSUME Working PROVE n > 0
  <2>1. \/ s.Active \/ s.SleepInhibited
        \/ Inside("backup", task["backup"]) \/ Inside("load", task["load"])
    BY <1>1, <1>5 DEF Working, IInv, Awake, Inside
  <2>2. \/ One(s.Active) = 1 \/ One(s.SleepInhibited) = 1
        \/ One(Inside("backup", task["backup"])) = 1 \/ One(Inside("load", task["load"])) = 1
    BY <2>1 DEF One
  <2> QED BY <1>3, <1>4, <2>2
<1>6. ASSUME AtRest PROVE n = 0
  <2>1. \A p \in Tasks : ~task[p].bulk
    BY <1>1, <1>6 DEF AtRest, IInv, Local, Carries, WithBulk, Moving
  <2>2. ~s.SessionActive
    BY <1>1, <2>1 DEF IInv, Ending
  <2>3. ~Inside("backup", task["backup"]) /\ ~Inside("load", task["load"])
    BY <1>6, TasksAre DEF AtRest, Inside
  <2>4. ~s.Active /\ ~s.SleepInhibited
    BY <1>6 DEF AtRest
  <2>5. /\ One(s.Active) = 0 /\ One(s.SleepInhibited) = 0 /\ One(s.SessionActive) = 0
        /\ One(Inside("backup", task["backup"])) = 0 /\ One(Inside("load", task["load"])) = 0
    BY <2>2, <2>3, <2>4 DEF One
  <2> QED BY <1>4, <2>5
<1> QED BY <1>2, <1>5, <1>6

-----------------------------------------------------------------------------
(* The invariant, of every behaviour. *)
THEOREM Invariance == Spec => []IInv
<1>1. Init => IInv
  BY InitIs
<1>2. IInv /\ [Next]_vars => IInv'
  BY NextKept
<1> QED BY <1>1, <1>2, PTL DEF Spec

(* The variables have their types, and the sleep count never falls below    *)
(* zero.                                                                    *)
THEOREM TypeCorrect == Spec => []TypeOK
<1>1. IInv => TypeOK
  BY DEF IInv
<1> QED BY <1>1, Invariance, PTL

(* No backup and no transfer of PC mode loses the FPGA's session to another *)
(* task (CartBackup_Start, CartBackup_SetPCMode and PCSD_Run against each   *)
(* other), and PC mode never meets a game that plays or loads               *)
(* (VirtualCart_Start against EnableLocked), with the exceptions that       *)
(* OwnersKeepTheCart names.                                                 *)
THEOREM OwnersKeep == Spec => []OwnersKeepTheCart
<1> QED BY InvIsOwners, Invariance, PTL

(* The inhibit count of power management is positive while a game, PC mode, *)
(* a backup or a load needs the MCU, and zero once they are over, whatever  *)
(* was refused or failed on the way.                                        *)
THEOREM SleepIsAccounted == Spec => []SleepAccounted
<1> QED BY InvIsAccounted, Invariance, PTL
=============================================================================

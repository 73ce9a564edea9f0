---------------------------- MODULE BackupProofs ----------------------------
(* Proofs about Backup, for every set of headers, every number of runs,    *)
(* errors and power cuts, and every depth of the queues.  A run that fails *)
(* and whose roll back meets no error leaves every backup as it was; no    *)
(* published backup is torn or of the wrong bank; a backup that was        *)
(* reported as passed is never without a copy; and between sessions the    *)
(* RAM of the cartridge is off.                                            *)
(* The first two need where the task can be and what it has decoded there  *)
(* (Way, Turn), how far the sweeps over the artifacts have come (Marks,    *)
(* Recovered, Missing), what the three names of an artifact hold then      *)
(* (Kept, SetAside, Untouched), and which of its files will do (Written,   *)
(* InPlace, Spared).  The others rest on lemmas about the mapper chips:    *)
(* what each write does, that a plan of writes brings the bank it is for   *)
(* into view whatever was skipped because it was cached (RomIsInView),    *)
(* and that the plan that restores the mapper switches RAM off (RamIsOff). *)
(* On those stand who holds the cartridge (Held), and how the banks go     *)
(* from the cartridge through the buffers and the queue to the writer      *)
(* (Course, InView, Pipe, Apart, Complete).                                *)
EXTENDS Backup, SequenceTheorems, TLAPS

-----------------------------------------------------------------------------
(* The variables these proofs are about. *)
TypeOK ==
  /\ fs \in [Names -> [final : Int, temp : Int, old : Int]]
  /\ before \in [Names -> [final : Int, temp : Int, old : Int]]
  /\ art \in Names
  /\ want \subseteq Artifacts
  /\ run \in Nat

Early == {"mount", "enter", "header", "probe"}
Cleaning == {"stop", "stopping", "release", "restore", "exit"}
Rolling == {"discard", "withdraw", "putBack"}
Replacing == {"stage", "swap", "verify", "drop"}
(* The older backup has not been dropped, and nothing is rolled back. *)
Onwards == Early \cup Cleaning \cup
           {"recover", "open", "dump", "begin", "read", "check", "openSave", "enable",
            "ram", "readRam", "upload", "finish", "stage", "swap", "verify"}

(* Where the task can be: what it has decoded, whose turn it is, and how   *)
(* it got there.                                                           *)
Way ==
  /\ failed => pc \in Cleaning \cup Rolling \cup {"unmount"}
  /\ pc \in Rolling => failed /\ info = "named"
  /\ info = "named" <=> want # {}
  /\ pc \in Early => info # "named"
  /\ pc \notin Early /\ ~failed => info = "named"
  /\ pc \in {"open", "dump", "check", "openSave"} => route = "menu"
  /\ pc \in {"probe", "upload"} => route # "menu"
  /\ pc \in {"stop", "stopping", "release"} /\ route # "menu" => failed

AtFirst ==
  \/ pc \in Early \cup Cleaning \cup {"open", "dump", "check", "openSave", "unmount"}
  \/ route = "menu" /\ pc \in {"begin", "read", "enable", "ram", "readRam"}

Turn == /\ want # {} => art \in want
        /\ AtFirst => art = First

(* In the sweep over the artifacts that is under way, a has had its turn.  *)
Done(a) == Rank[a] < Rank[art]

Marks ==
  /\ staged \cup published \subseteq want
  /\ ~failed /\ pc \notin Replacing \cup {"unmount"} => staged = {} /\ published = {}
  /\ pc = "stage" => published = {} /\ \A a \in staged : Done(a)
  /\ pc = "swap" => \A a \in published : Done(a)

Recovered ==
  \A a \in want :
    \/ pc = "recover" /\ Done(a)
    \/ pc \notin Early \cup {"recover"} /\ ~failed
    => before[a].old = None

Missing ==
  \A a \in want \ staged :
    (pc = "stage" /\ Done(a)) \/ pc = "swap" => before[a].final = None

Control ==
  pc # "idle" => outcome = "running" /\ Way /\ Turn /\ Marks /\ Recovered /\ Missing

-----------------------------------------------------------------------------
(* What the names of an artifact hold. *)
Untouched(a) == fs[a].final = before[a].final /\ fs[a].old = before[a].old
SetAside(a) == IF a \in staged
                 THEN /\ fs[a].final = None /\ fs[a].old = before[a].final
                      /\ before[a].old = None
               ELSE Untouched(a)
Replaced(a) == /\ before[a].old = None
               /\ fs[a].old = IF a \in staged THEN before[a].final ELSE None
               /\ a \notin staged => before[a].final = None
Kept(a) == IF a \in published THEN Replaced(a) ELSE SetAside(a)

(* How far the roll back is with it. *)
Withdrawn(a) ==
  IF route = "menu" THEN pc = "putBack" \/ (pc = "withdraw" /\ Done(a))
  ELSE \/ pc = "withdraw" /\ Done(a)
       \/ pc \in {"putBack", "discard"} /\ Rank[a] <= Rank[art]
Restored(a) ==
  IF route = "menu" THEN pc = "putBack" /\ Done(a)
  ELSE \/ pc \in {"withdraw", "putBack"} /\ Done(a)
       \/ pc = "discard" /\ Rank[a] <= Rank[art]

Rolled(a) == IF Restored(a) THEN Untouched(a)
             ELSE IF Withdrawn(a) THEN SetAside(a) ELSE Kept(a)

Holding ==
  \A a \in Names :
    /\ pc \in Onwards => Kept(a)
    /\ pc \in Rolling /\ ~undone => Rolled(a)
    /\ pc = "unmount" /\ failed /\ ~undone => Untouched(a)

IInv == TypeOK /\ Control /\ Holding /\ AllOrNothing

-----------------------------------------------------------------------------
Written(a) ==
  \/ pc = "stage"
  \/ pc = "swap" /\ ~Done(a)
  \/ pc = "finish" /\ Done(a)
  \/ route # "menu" /\ pc \in {"upload", "begin", "read", "enable", "ram", "readRam"}
                    /\ Done(a)
  \/ route # "menu" /\ pc \in {"restore", "exit"} /\ ~failed

InPlace(a) == \/ pc = "swap" /\ Done(a)
              \/ pc \in {"verify", "drop"}
              \/ pc = "unmount" /\ ~failed

(* The older backup of a replaced artifact will do. *)
Spared(a) == pc \in Onwards \cup Rolling /\ ~Withdrawn(a) /\ a \in staged \cup published

Safe == /\ passed \in [Artifacts -> Int]
        /\ \A a \in Artifacts : passed[a] <= run /\ Available(a) >= passed[a]

Keeping ==
  /\ Safe
  /\ \A a \in want : /\ Written(a) => fs[a].temp \in {run, Bad}
                     /\ InPlace(a) => fs[a].final = run
                     /\ Spared(a) => fs[a].old >= passed[a]
-----------------------------------------------------------------------------
(* The order of the artifacts, and a sweep over the wanted ones. *)

(* The artifacts have different ranks. *)
LEMMA RankIs ==
  /\ \A a \in Names : Rank[a] \in Nat
  /\ \A a, b \in Names : Rank[a] = Rank[b] => a = b
BY DEF Names, Rank

(* Least picks the artifact of the lowest rank. *)
LEMMA LeastIs ==
  ASSUME NEW S, S \subseteq Names, S # {}
  PROVE  /\ Least(S) \in S
         /\ \A a \in S : Rank[Least(S)] <= Rank[a]
<1>1. CASE "rom" \in S
  BY <1>1 DEF Least, Names, Rank
<1>2. CASE "rom" \notin S /\ "save" \in S
  BY <1>2 DEF Least, Names, Rank
<1>3. CASE "rom" \notin S /\ "save" \notin S
  <2>1. S = {"rtc"}
    BY <1>3 DEF Names
  <2> QED BY <1>3, <2>1 DEF Least, Names, Rank
<1> QED BY <1>1, <1>2, <1>3

(* A sweep begins with the first wanted artifact: none has had its turn. *)
LEMMA FirstIs ==
  ASSUME want \subseteq Names, want # {}
  PROVE  /\ First \in want
         /\ \A a \in want : ~(Rank[a] < Rank[First])
<1>1. First = Least(want)
  BY DEF First
<1>2. /\ Least(want) \in want
      /\ \A a \in want : Rank[Least(want)] <= Rank[a]
  BY LeastIs
<1> QED BY <1>1, <1>2, RankIs

(* A step of a sweep either goes on to the next artifact, and those that   *)
(* have had their turn are then the one it was at and those before it; or  *)
(* it was at the last one, and everything wanted has had its turn.         *)
LEMMA SweepIs ==
  ASSUME want \subseteq Names, art \in want, NEW p, NEW done, After(p, done)
  PROVE  /\ UNCHANGED <<failed, info, acquired, route, want, n>>
         /\ \/ /\ pc' = p /\ art' \in want
               /\ \A a \in want : Rank[a] < Rank[art'] <=> Rank[a] <= Rank[art]
            \/ /\ pc' = done /\ art' = First
               /\ \A a \in want : Rank[a] <= Rank[art]
<1>1. UNCHANGED <<failed, info, acquired, route, want, n>>
  BY DEF After
<1>2. CASE Later = {}
  <2>1. pc' = done /\ art' = First
    BY <1>2 DEF After
  <2>2. \A a \in want : ~(Rank[a] > Rank[art])
    BY <1>2 DEF Later
  <2> QED BY <1>1, <2>1, <2>2, RankIs
<1>3. CASE Later # {}
  <2>1. pc' = p /\ art' = Least(Later)
    BY <1>3 DEF After
  <2>2. Later \subseteq Names
    BY DEF Later
  <2>3. /\ art' \in Later
        /\ \A a \in Later : Rank[art'] <= Rank[a]
    BY <1>3, <2>1, <2>2, LeastIs
  <2>4. art' \in want /\ Rank[art'] > Rank[art]
    BY <2>3 DEF Later
  <2>5. ASSUME NEW a \in want
        PROVE  Rank[a] < Rank[art'] <=> Rank[a] <= Rank[art]
    <3>1. Rank[a] \in Nat /\ Rank[art] \in Nat /\ Rank[art'] \in Nat
      BY <2>4, RankIs
    <3>2. Rank[a] > Rank[art] => Rank[art'] <= Rank[a]
      BY <2>3 DEF Later
    <3> QED BY <2>4, <3>1, <3>2
  <2> QED BY <1>1, <2>1, <2>4, <2>5
<1> QED BY <1>2, <1>3

(* Cleanup is entered at the first artifact, with the error that leads     *)
(* there.                                                                  *)
LEMMA CleanupWay ==
  ASSUME TypeOK, pc # "idle", outcome = "running" /\ Way /\ Turn, Cleanup, outcome' = outcome
  PROVE  outcome' = "running" /\ Way' /\ Turn'
<1>1. /\ pc' = "stop" /\ failed' = TRUE /\ art' = First
      /\ UNCHANGED <<info, route, want>>
  BY DEF Cleanup
<1>2. want # {} => art' \in want'
  BY <1>1, FirstIs DEF TypeOK, Artifacts
<1>3. First' = First
  BY <1>1 DEF First
<1>4. Turn'
  BY <1>1, <1>2, <1>3 DEF Turn
<1>5. Way'
  BY <1>1 DEF Way, Early, Cleaning, Rolling
<1> QED BY <1>4, <1>5

(* What a step of a sweep leaves of Turn, and where it leads. *)
LEMMA SweepWay ==
  ASSUME TypeOK, Turn, want # {}, NEW p, NEW done, After(p, done)
  PROVE  /\ UNCHANGED <<failed, info, route, want>>
         /\ want' # {} /\ art' \in want'
         /\ pc' = p \/ (pc' = done /\ art' = First')
<1>1. want \subseteq Names /\ art \in want
  BY DEF TypeOK, Turn, Artifacts
<1>2. /\ UNCHANGED <<failed, info, route, want>>
      /\ \/ pc' = p /\ art' \in want
         \/ pc' = done /\ art' = First
  BY <1>1, SweepIs
<1>3. First' = First
  BY <1>2 DEF First
<1> QED BY <1>1, <1>2, <1>3, FirstIs

(* So does a step of the roll back.                                        *)
LEMMA RollWay ==
  ASSUME TypeOK, pc # "idle" => outcome = "running" /\ Way /\ Turn, Onward,
         outcome' = outcome
  PROVE  outcome' = "running" /\ Way' /\ Turn'
<1> USE DEF Way, Turn, AtFirst, Early, Cleaning, Rolling
<1>1. /\ outcome = "running" /\ Way /\ Turn
      /\ pc \in Rolling /\ want # {}
  BY DEF Onward
<1>2. ASSUME NEW p \in Rolling, NEW q \in Rolling \cup {"unmount"}, After(p, q)
      PROVE  Way' /\ Turn'
  <2>1. /\ UNCHANGED <<failed, info, route, want>>
        /\ want' # {} /\ art' \in want'
        /\ pc' \in Rolling \/ (pc' = "unmount" /\ art' = First')
    BY <1>1, <1>2, SweepWay
  <2> QED BY <1>1, <2>1
<1>3. ASSUME NEW p \in Rolling, Go(p)
      PROVE  Way' /\ Turn'
  BY <1>1, <1>3 DEF Go
<1> QED BY <1>1, <1>2, <1>3 DEF Onward, Each

(* No step leaves the task anywhere else than Way and Turn say.            *)
LEMMA WayStep ==
  ASSUME TypeOK, pc # "idle" => outcome = "running" /\ Way /\ Turn, Next
  PROVE  pc' # "idle" => outcome' = "running" /\ Way' /\ Turn'
<1> USE DEF TypeOK, Go, Bank, Cleanup, Fault, Steady, Files, Chip, Fresh, history, task,
        Early, Cleaning, Rolling, Way, Turn, AtFirst, AfterSession, RollBack
<1>1. CASE ReadHeader
  <2>1. /\ pc = "header" /\ outcome = "running" /\ Way /\ Turn /\ outcome' = outcome
        /\ art' = art /\ route' = route
    BY <1>1 DEF ReadHeader
  <2>2. want = {} /\ art = "rom" /\ info # "named"
    BY <2>1 DEF First
  <2>3. CASE pc' = "stop"
    <3>1. failed' = TRUE /\ want' = want /\ info' # "named"
      BY <1>1, <2>3 DEF ReadHeader
    <3> QED BY <2>1, <2>2, <2>3, <3>1 DEF First
  <2>4. CASE pc' = "probe"
    <3>1. failed' = failed /\ want' = want /\ info' = "decoded" /\ route # "menu"
      BY <1>1, <2>4 DEF ReadHeader
    <3> QED BY <2>1, <2>2, <2>4, <3>1 DEF First
  <2>5. CASE pc' = "recover"
    <3>1. failed' = failed /\ want' = Artifacts \ {"rtc"} /\ info' = "named"
      BY <1>1, <2>5 DEF ReadHeader
    <3>2. "rom" \in want'
      BY <3>1 DEF Artifacts, Names
    <3> QED BY <2>1, <2>2, <2>5, <3>1, <3>2 DEF First
  <2> QED BY <1>1, <2>3, <2>4, <2>5 DEF ReadHeader
<1>2. CASE ProbeRtc
  <2>1. /\ pc = "probe" /\ outcome = "running" /\ Way /\ Turn /\ outcome' = outcome
        /\ route' = route /\ want' \subseteq Names
    BY <1>2 DEF ProbeRtc, Artifacts
  <2>2. want = {} /\ art = "rom" /\ info # "named"
    BY <2>1 DEF First
  <2>3. CASE want' = {}
    <3>1. pc' = "stop" /\ failed' = TRUE /\ info' = info /\ art' = art
      BY <1>2, <2>3 DEF ProbeRtc
    <3> QED BY <2>1, <2>2, <2>3, <3>1 DEF First
  <2>4. CASE want' # {}
    <3>1. /\ pc' = "recover" /\ failed' = failed /\ info' = "named"
          /\ art' = Least(want')
      BY <1>2, <2>4 DEF ProbeRtc
    <3>2. art' \in want'
      BY <2>1, <2>4, <3>1, LeastIs
    <3> QED BY <2>1, <2>2, <2>4, <3>1, <3>2
  <2> QED BY <2>3, <2>4
<1>3. CASE Recover
  <2>1. /\ outcome' = outcome /\ pc = "recover"
        /\ After("recover", IF route = "menu" THEN "open" ELSE "upload")
    BY <1>3 DEF Recover, Each
  <2>2. want # {}
    BY <2>1
  <2>3. /\ UNCHANGED <<failed, info, route, want>>
        /\ want' # {} /\ art' \in want'
        /\ \/ pc' = "recover"
           \/ pc' = (IF route = "menu" THEN "open" ELSE "upload") /\ art' = First'
    BY <2>1, <2>2, SweepWay
  <2> QED BY <2>1, <2>2, <2>3
<1>4. CASE FinishFile
  <2>1. outcome' = outcome /\ pc = "finish" /\ After("finish", "stage")
    BY <1>4 DEF FinishFile, Each
  <2>2. want # {}
    BY <2>1
  <2>3. /\ UNCHANGED <<failed, info, route, want>>
        /\ want' # {} /\ art' \in want'
        /\ \/ pc' = "finish"
           \/ pc' = "stage" /\ art' = First'
    BY <2>1, <2>2, SweepWay
  <2> QED BY <2>1, <2>2, <2>3
<1>5. CASE BackupEnd
  <2>1. outcome' = outcome /\ pc = "finish" /\ route # "menu" /\ After("upload", "restore")
    BY <1>5 DEF BackupEnd, Each
  <2>2. want # {}
    BY <2>1
  <2>3. /\ UNCHANGED <<failed, info, route, want>>
        /\ want' # {} /\ art' \in want'
        /\ \/ pc' = "upload"
           \/ pc' = "restore" /\ art' = First'
    BY <2>1, <2>2, SweepWay
  <2> QED BY <2>1, <2>2, <2>3
<1>6. CASE Stage
  <2>1. outcome' = outcome /\ pc = "stage" /\ After("stage", "swap")
    BY <1>6 DEF Stage, Each
  <2>2. want # {}
    BY <2>1
  <2>3. /\ UNCHANGED <<failed, info, route, want>>
        /\ want' # {} /\ art' \in want'
        /\ \/ pc' = "stage"
           \/ pc' = "swap" /\ art' = First'
    BY <2>1, <2>2, SweepWay
  <2> QED BY <2>1, <2>2, <2>3
<1>7. CASE SwapIn
  <2>1. /\ outcome' = outcome /\ pc = "swap"
        /\ After("swap", IF route = "menu" THEN "verify" ELSE "drop")
    BY <1>7 DEF SwapIn, Each
  <2>2. want # {}
    BY <2>1
  <2>3. /\ UNCHANGED <<failed, info, route, want>>
        /\ want' # {} /\ art' \in want'
        /\ \/ pc' = "swap"
           \/ pc' = (IF route = "menu" THEN "verify" ELSE "drop") /\ art' = First'
    BY <2>1, <2>2, SweepWay
  <2> QED BY <2>1, <2>2, <2>3
<1>8. CASE VerifyPublishedFile
  <2>1. outcome' = outcome /\ pc = "verify" /\ After("verify", "drop")
    BY <1>8 DEF VerifyPublishedFile, Each
  <2>2. want # {}
    BY <2>1
  <2>3. /\ UNCHANGED <<failed, info, route, want>>
        /\ want' # {} /\ art' \in want'
        /\ \/ pc' = "verify"
           \/ pc' = "drop" /\ art' = First'
    BY <2>1, <2>2, SweepWay
  <2> QED BY <2>1, <2>2, <2>3
<1>9. CASE DropOld
  <2>1. outcome' = outcome /\ pc = "drop" /\ After("drop", "unmount")
    BY <1>9 DEF DropOld, Each
  <2>2. want # {}
    BY <2>1
  <2>3. /\ UNCHANGED <<failed, info, route, want>>
        /\ want' # {} /\ art' \in want'
        /\ \/ pc' = "drop"
           \/ pc' = "unmount" /\ art' = First'
    BY <2>1, <2>2, SweepWay
  <2> QED BY <2>1, <2>2, <2>3
<1>10. CASE Discard
  <2>1. outcome' = outcome /\ Onward
    BY <1>10 DEF Discard
  <2> QED BY <2>1, RollWay
<1>11. CASE Withdraw
  <2>1. outcome' = outcome /\ Onward
    BY <1>11 DEF Withdraw
  <2> QED BY <2>1, RollWay
<1>12. CASE PutBack
  <2>1. outcome' = outcome /\ Onward
    BY <1>12 DEF PutBack
  <2> QED BY <2>1, RollWay
<1>13. CASE HeaderFails
  <2>1. pc # "idle" /\ Cleanup /\ outcome' = outcome
    BY <1>13 DEF HeaderFails
  <2> QED BY <2>1, CleanupWay
<1>14. CASE ProbeFails
  <2>1. pc # "idle" /\ Cleanup /\ outcome' = outcome
    BY <1>14 DEF ProbeFails
  <2> QED BY <2>1, CleanupWay
<1>15. CASE UploadFails
  <2>1. pc # "idle" /\ Cleanup /\ outcome' = outcome
    BY <1>15 DEF UploadFails
  <2> QED BY <2>1, CleanupWay
<1>16. CASE OpenFails
  <2>1. pc # "idle" /\ Cleanup /\ outcome' = outcome
    BY <1>16 DEF OpenFails
  <2> QED BY <2>1, CleanupWay
<1>17. CASE BeginFails
  <2>1. pc # "idle" /\ Cleanup /\ outcome' = outcome
    BY <1>17 DEF BeginFails
  <2> QED BY <2>1, CleanupWay
<1>18. CASE RamFails
  <2>1. pc # "idle" /\ Cleanup /\ outcome' = outcome
    BY <1>18 DEF RamFails
  <2> QED BY <2>1, CleanupWay
<1>19. CASE DropOldFails
  <2>1. outcome' = outcome /\ pc = "drop" /\ After("drop", "unmount")
    BY <1>19 DEF DropOldFails, Each
  <2>2. want # {}
    BY <2>1
  <2>3. /\ UNCHANGED <<failed, info, route, want>>
        /\ want' # {} /\ art' \in want'
        /\ \/ pc' = "drop"
           \/ pc' = "unmount" /\ art' = First'
    BY <2>1, <2>2, SweepWay
  <2> QED BY <2>1, <2>2, <2>3
<1>20. CASE CallFails
  <2>1. pc # "idle" /\ Cleanup /\ outcome' = outcome
    BY <1>20 DEF CallFails
  <2> QED BY <2>1, CleanupWay
<1>21. CASE RollBackFails
  <2>1. outcome' = outcome /\ Onward
    BY <1>21 DEF RollBackFails
  <2> QED BY <2>1, RollWay
<1> USE DEF First
<1>22. CASE Mount
  BY <1>22, FirstIs DEF Mount
<1>23. CASE Enter
  BY <1>23, FirstIs DEF Enter
<1>24. CASE BeginUpload
  BY <1>24, FirstIs DEF BeginUpload
<1>25. CASE StreamBank
  BY <1>25, FirstIs DEF StreamBank
<1>26. CASE OpenRom
  BY <1>26, FirstIs DEF OpenRom
<1>27. CASE TakeBuffer
  BY <1>27, FirstIs DEF TakeBuffer
<1>28. CASE BeginRomBankRange
  BY <1>28, FirstIs DEF BeginRomBankRange
<1>29. CASE ReadBank
  BY <1>29, FirstIs DEF ReadBank
<1>30. CASE StopRomWriter
  BY <1>30, FirstIs DEF StopRomWriter
<1>31. CASE RomWriterStopped
  BY <1>31, FirstIs DEF RomWriterStopped
<1>32. CASE CheckSum
  BY <1>32, FirstIs DEF CheckSum
<1>33. CASE OpenSave
  BY <1>33, FirstIs DEF OpenSave
<1>34. CASE EnableRam
  BY <1>34, FirstIs DEF EnableRam
<1>35. CASE SelectRam
  BY <1>35, FirstIs DEF SelectRam
<1>36. CASE ReadRam
  BY <1>36, FirstIs DEF ReadRam
<1>37. CASE RestoreMapper
  BY <1>37, FirstIs DEF RestoreMapper
<1>38. CASE Exit
  BY <1>38, FirstIs DEF Exit
<1>39. CASE Release
  BY <1>39, FirstIs DEF Release
<1>40. CASE Unmount
  BY <1>40, FirstIs DEF Unmount
<1>41. CASE WriterTake
  BY <1>41, FirstIs DEF WriterTake
<1>42. CASE Write
  BY <1>42, FirstIs DEF Write
<1>43. CASE WriteFails
  BY <1>43, FirstIs DEF WriteFails
<1>44. CASE RestoreFails
  BY <1>44, FirstIs DEF RestoreFails
<1>45. CASE ExitFails
  BY <1>45, FirstIs DEF ExitFails
<1>46. CASE AbortFails
  BY <1>46, FirstIs DEF AbortFails
<1>47. CASE UnmountFails
  BY <1>47, FirstIs DEF UnmountFails
<1>48. CASE PowerCut
  BY <1>48, FirstIs DEF PowerCut
<1>49. CASE Start
  BY <1>49, FirstIs DEF Start
<1> QED BY <1>1, <1>2, <1>3, <1>4, <1>5, <1>6, <1>7, <1>8, <1>9, <1>10, <1>11, <1>12, <1>13,
       <1>14, <1>15, <1>16, <1>17, <1>18, <1>19, <1>20, <1>21, <1>22, <1>23, <1>24, <1>25,
       <1>26, <1>27, <1>28, <1>29, <1>30, <1>31, <1>32, <1>33, <1>34, <1>35, <1>36, <1>37,
       <1>38, <1>39, <1>40, <1>41, <1>42, <1>43, <1>44, <1>45, <1>46, <1>47, <1>48, <1>49
       DEF Next, Proceed, RomWriterTask, Faults

-----------------------------------------------------------------------------
(* The actions that touch neither a backup nor the one it replaces. *)
Quietly ==
  \/ Mount \/ Enter \/ ReadHeader \/ ProbeRtc \/ BeginUpload \/ StreamBank
  \/ OpenRom \/ TakeBuffer \/ BeginRomBankRange \/ ReadBank
  \/ StopRomWriter \/ RomWriterStopped \/ CheckSum
  \/ OpenSave \/ EnableRam \/ SelectRam \/ ReadRam \/ RestoreMapper \/ Exit
  \/ FinishFile \/ BackupEnd \/ Release \/ WriterTake \/ Write
  \/ HeaderFails \/ ProbeFails \/ UploadFails \/ OpenFails \/ BeginFails \/ WriteFails
  \/ RamFails \/ RestoreFails \/ ExitFails \/ CallFails \/ AbortFails

Still ==
  /\ \A a \in Names : fs'[a].final = fs[a].final /\ fs'[a].old = fs[a].old
  /\ fs' \in [Names -> [final : Int, temp : Int, old : Int]]
  /\ UNCHANGED <<staged, published, head, before, run, passed, undone, route, outcome>>

(* Where such an action may lead. *)
Move ==
  /\ pc \in Onwards
  /\ pc' \in (Onwards \ {"swap", "verify"}) \cup Rolling \cup {"unmount"}
  /\ want' \subseteq Artifacts /\ (pc \notin Early => want' = want)
  /\ ~failed' => pc \notin Replacing /\ ~failed
  /\ pc' = "recover" => pc \in Early
  /\ pc \in Early \cup {"recover"} /\ ~failed' => pc' \in Early \cup {"recover"}
  /\ pc' \in Rolling => pc' = RollBack
  /\ pc' \in Rolling \cup {"stage", "recover"} => art' = First'
  /\ pc' = "unmount" => failed' /\ info' # "named"

(* Writing a temporary file leaves the other names alone. *)
LEMMA TempOnly ==
  ASSUME TypeOK, NEW a \in Names, NEW v \in Int, fs' = [fs EXCEPT ![a].temp = v]
  PROVE  /\ fs' \in [Names -> [final : Int, temp : Int, old : Int]]
         /\ \A b \in Names : /\ fs'[b].final = fs[b].final /\ fs'[b].old = fs[b].old
                             /\ fs'[b].temp = IF b = a THEN v ELSE fs[b].temp
BY DEF TypeOK

(* The quiet actions leave every backup, and the older one, alone.         *)
LEMMA StillStep ==
  ASSUME TypeOK, Quietly
  PROVE  Still
<1> USE DEF Go, Bank, Cleanup, Fault, Steady, Files, Chip, history, task, marks,
        sums, queues, pipeline, chip, Partly
<1> DEFINE Rest == UNCHANGED <<staged, published, head, before, run, passed, undone, route,
                               outcome>>
           Same == fs' = fs /\ Rest
           Temp == Rest /\ \E a \in Names, v \in Int : fs' = [fs EXCEPT ![a].temp = v]
<1>a. Same => Still
  BY DEF Still, TypeOK
<1>b. Temp => Still
  BY TempOnly DEF Still
<1>c. "rom" \in Names /\ "save" \in Names /\ Bad \in Int
  BY DEF Names, Bad
<1>d. art \in Names
  BY DEF TypeOK
<1>1. CASE FinishFile
  <2>1. fs' = [fs EXCEPT ![art].temp = IF Whole THEN run ELSE Bad]
    BY <1>1 DEF FinishFile, Close
  <2>2. (IF Whole THEN run ELSE Bad) \in Int
    BY <1>c DEF TypeOK
  <2> QED BY <1>1, <1>b, <1>d, <2>1, <2>2 DEF FinishFile, Close, Each, After
<1>2. CASE BackupEnd
  <2>1. fs' = [fs EXCEPT ![art].temp = IF Whole THEN run ELSE Bad]
    BY <1>2 DEF BackupEnd, Close
  <2>2. (IF Whole THEN run ELSE Bad) \in Int
    BY <1>c DEF TypeOK
  <2> QED BY <1>2, <1>b, <1>d, <2>1, <2>2 DEF BackupEnd, Close, Each, After
<1>3. CASE Mount
  BY <1>3, <1>a DEF Mount
<1>4. CASE Enter
  BY <1>4, <1>a DEF Enter
<1>5. CASE ReadHeader
  BY <1>5, <1>a DEF ReadHeader
<1>6. CASE ProbeRtc
  BY <1>6, <1>a DEF ProbeRtc
<1>7. CASE BeginUpload
  BY <1>7, <1>b, <1>c, <1>d DEF BeginUpload, OpenTemp
<1>8. CASE StreamBank
  BY <1>8, <1>a DEF StreamBank
<1>9. CASE OpenRom
  BY <1>9, <1>b, <1>c, <1>d DEF OpenRom, OpenTemp
<1>10. CASE TakeBuffer
  BY <1>10, <1>a DEF TakeBuffer
<1>11. CASE BeginRomBankRange
  BY <1>11, <1>a DEF BeginRomBankRange
<1>12. CASE ReadBank
  BY <1>12, <1>a DEF ReadBank
<1>13. CASE StopRomWriter
  BY <1>13, <1>a DEF StopRomWriter
<1>14. CASE RomWriterStopped
  BY <1>14, <1>a DEF RomWriterStopped
<1>15. CASE CheckSum
  BY <1>15, <1>a DEF CheckSum
<1>16. CASE OpenSave
  BY <1>16, <1>b, <1>c, <1>d DEF OpenSave, OpenTemp
<1>17. CASE EnableRam
  BY <1>17, <1>a DEF EnableRam
<1>18. CASE SelectRam
  BY <1>18, <1>a DEF SelectRam
<1>19. CASE ReadRam
  BY <1>19, <1>a DEF ReadRam
<1>20. CASE RestoreMapper
  BY <1>20, <1>a DEF RestoreMapper
<1>21. CASE Exit
  BY <1>21, <1>a DEF Exit
<1>22. CASE Release
  BY <1>22, <1>a DEF Release
<1>23. CASE WriterTake
  BY <1>23, <1>a DEF WriterTake
<1>24. CASE Write
  BY <1>24, <1>a DEF Write
<1>25. CASE HeaderFails
  BY <1>25, <1>a DEF HeaderFails
<1>26. CASE ProbeFails
  BY <1>26, <1>a DEF ProbeFails
<1>27. CASE UploadFails
  BY <1>27, <1>a, <1>b, <1>c, <1>d DEF UploadFails, OpenTemp
<1>28. CASE OpenFails
  BY <1>28, <1>a, <1>b, <1>c, <1>d DEF OpenFails, OpenTemp
<1>29. CASE BeginFails
  BY <1>29, <1>a DEF BeginFails
<1>30. CASE WriteFails
  BY <1>30, <1>a DEF WriteFails
<1>31. CASE RamFails
  BY <1>31, <1>a DEF RamFails
<1>32. CASE RestoreFails
  BY <1>32, <1>a DEF RestoreFails
<1>33. CASE ExitFails
  BY <1>33, <1>a DEF ExitFails
<1>34. CASE CallFails
  BY <1>34, <1>a DEF CallFails
<1>35. CASE AbortFails
  BY <1>35, <1>a DEF AbortFails
<1> QED BY <1>1, <1>2, <1>3, <1>4, <1>5, <1>6, <1>7, <1>8, <1>9, <1>10, <1>11, <1>12, <1>13,
       <1>14, <1>15, <1>16, <1>17, <1>18, <1>19, <1>20, <1>21, <1>22, <1>23, <1>24, <1>25,
       <1>26, <1>27, <1>28, <1>29, <1>30, <1>31, <1>32, <1>33, <1>34, <1>35
       DEF Quietly

(* They lead where Move says; the writer's lead the backup task nowhere.   *)
LEMMA MoveStep ==
  ASSUME TypeOK, pc # "idle" => Way /\ Turn, Quietly
  PROVE  Move \/ UNCHANGED <<pc, failed, info, want, art>>
<1>a. want \subseteq Artifacts
  BY DEF TypeOK
<1> USE DEF Go, Bank, Fault, Steady, Files, Chip, history, task, AfterSession, RollBack
<1>1. CASE ReadHeader
  <2>1. pc = "header" /\ want = {} /\ art = "rom" /\ art' = art /\ ~failed
    BY <1>1, <1>a DEF ReadHeader, Way, Turn, AtFirst, First, Early, Cleaning, Rolling
  <2>2. "rom" \in Artifacts \ {"rtc"}
    BY DEF Artifacts, Names
  <2>3. \/ pc' = "stop" /\ failed' = TRUE
        \/ pc' = "probe" /\ failed' = failed
        \/ pc' = "recover" /\ failed' = failed /\ "rom" \in want'
    BY <1>1, <2>2 DEF ReadHeader
  <2>4. want' = want \/ want' = Artifacts \ {"rtc"}
    BY <1>1 DEF ReadHeader
  <2> QED BY <1>a, <2>1, <2>3, <2>4 DEF Move, First, Least, Onwards, Early, Cleaning,
         Rolling, Replacing
<1>2. CASE FinishFile
  <2>1. pc = "finish" /\ After("finish", "stage") /\ ~failed /\ want # {} /\ Turn
    BY <1>2, <1>a DEF FinishFile, Each, Way, Early, Cleaning, Rolling
  <2>2. /\ UNCHANGED <<failed, info, route, want>>
        /\ pc' = "finish" \/ (pc' = "stage" /\ art' = First')
    BY <2>1, SweepWay
  <2> QED BY <1>a, <2>1, <2>2 DEF Move, Onwards, Early, Cleaning, Rolling, Replacing
<1>3. CASE BackupEnd
  <2>1. pc = "finish" /\ After("upload", "restore") /\ ~failed /\ want # {} /\ Turn
    BY <1>3, <1>a DEF BackupEnd, Each, Way, Early, Cleaning, Rolling
  <2>2. /\ UNCHANGED <<failed, info, route, want>>
        /\ pc' = "upload" \/ (pc' = "restore" /\ art' = First')
    BY <2>1, SweepWay
  <2> QED BY <1>a, <2>1, <2>2 DEF Move, Onwards, Early, Cleaning, Rolling, Replacing
<1>4. CASE HeaderFails
  <2>1. pc \in Onwards /\ Cleanup
    BY <1>4, <1>a DEF HeaderFails, Onwards, Early, Cleaning
  <2> QED BY <1>a, <2>1 DEF Cleanup, Move, Onwards, Early, Cleaning, Rolling, Replacing
<1>5. CASE ProbeFails
  <2>1. pc \in Onwards /\ Cleanup
    BY <1>5, <1>a DEF ProbeFails, Onwards, Early, Cleaning
  <2> QED BY <1>a, <2>1 DEF Cleanup, Move, Onwards, Early, Cleaning, Rolling, Replacing
<1>6. CASE UploadFails
  <2>1. pc \in Onwards /\ Cleanup
    BY <1>6, <1>a DEF UploadFails, Onwards, Early, Cleaning
  <2> QED BY <1>a, <2>1 DEF Cleanup, Move, Onwards, Early, Cleaning, Rolling, Replacing
<1>7. CASE OpenFails
  <2>1. pc \in Onwards /\ Cleanup
    BY <1>7, <1>a DEF OpenFails, Onwards, Early, Cleaning
  <2> QED BY <1>a, <2>1 DEF Cleanup, Move, Onwards, Early, Cleaning, Rolling, Replacing
<1>8. CASE BeginFails
  <2>1. pc \in Onwards /\ Cleanup
    BY <1>8, <1>a DEF BeginFails, Onwards, Early, Cleaning
  <2> QED BY <1>a, <2>1 DEF Cleanup, Move, Onwards, Early, Cleaning, Rolling, Replacing
<1>9. CASE RamFails
  <2>1. pc \in Onwards /\ Cleanup
    BY <1>9, <1>a DEF RamFails, Onwards, Early, Cleaning
  <2> QED BY <1>a, <2>1 DEF Cleanup, Move, Onwards, Early, Cleaning, Rolling, Replacing
<1>10. CASE CallFails
  <2>1. pc \in Onwards /\ Cleanup
    BY <1>10, <1>a DEF CallFails, Onwards, Early, Cleaning
  <2> QED BY <1>a, <2>1 DEF Cleanup, Move, Onwards, Early, Cleaning, Rolling, Replacing
<1> USE DEF Move, Way, Turn, AtFirst, First, Onwards, Early, Cleaning, Rolling, Replacing
<1>11. CASE Mount
  BY <1>11, <1>a DEF Mount
<1>12. CASE Enter
  BY <1>12, <1>a DEF Enter
<1>13. CASE ProbeRtc
  BY <1>13, <1>a DEF ProbeRtc
<1>14. CASE BeginUpload
  BY <1>14, <1>a DEF BeginUpload
<1>15. CASE StreamBank
  BY <1>15, <1>a DEF StreamBank
<1>16. CASE OpenRom
  BY <1>16, <1>a DEF OpenRom
<1>17. CASE TakeBuffer
  BY <1>17, <1>a DEF TakeBuffer, Cleanup
<1>18. CASE BeginRomBankRange
  BY <1>18, <1>a DEF BeginRomBankRange
<1>19. CASE ReadBank
  BY <1>19, <1>a DEF ReadBank
<1>20. CASE StopRomWriter
  BY <1>20, <1>a DEF StopRomWriter
<1>21. CASE RomWriterStopped
  BY <1>21, <1>a DEF RomWriterStopped, Cleanup
<1>22. CASE CheckSum
  BY <1>22, <1>a DEF CheckSum, Cleanup
<1>23. CASE OpenSave
  BY <1>23, <1>a DEF OpenSave
<1>24. CASE EnableRam
  BY <1>24, <1>a DEF EnableRam
<1>25. CASE SelectRam
  BY <1>25, <1>a DEF SelectRam
<1>26. CASE ReadRam
  BY <1>26, <1>a DEF ReadRam
<1>27. CASE RestoreMapper
  BY <1>27, <1>a DEF RestoreMapper
<1>28. CASE Exit
  BY <1>28, <1>a DEF Exit
<1>29. CASE Release
  BY <1>29, <1>a DEF Release
<1>30. CASE WriterTake
  BY <1>30, <1>a DEF WriterTake
<1>31. CASE Write
  BY <1>31, <1>a DEF Write
<1>32. CASE WriteFails
  BY <1>32, <1>a DEF WriteFails
<1>33. CASE RestoreFails
  BY <1>33, <1>a DEF RestoreFails
<1>34. CASE ExitFails
  BY <1>34, <1>a DEF ExitFails
<1>35. CASE AbortFails
  BY <1>35, <1>a DEF AbortFails
<1> QED BY <1>1, <1>2, <1>3, <1>4, <1>5, <1>6, <1>7, <1>8, <1>9, <1>10, <1>11, <1>12, <1>13,
       <1>14, <1>15, <1>16, <1>17, <1>18, <1>19, <1>20, <1>21, <1>22, <1>23, <1>24, <1>25,
       <1>26, <1>27, <1>28, <1>29, <1>30, <1>31, <1>32, <1>33, <1>34, <1>35
       DEF Quietly

(* What the steps of the replacement do to the names of the artifact whose *)
(* turn it is.                                                             *)
LEMMA RecoverIs ==
  ASSUME TypeOK, Recover
  PROVE  /\ fs' \in [Names -> [final : Int, temp : Int, old : Int]]
         /\ \A a \in Names : fs'[a].temp = fs[a].temp /\ (a # art => fs'[a] = fs[a])
         /\ fs'[art].final = Available(art)
         /\ fs'[art].old = None
         /\ before' = fs' /\ pc = "recover"
         /\ UNCHANGED <<staged, published, head, run, passed, undone, outcome>>
         /\ After("recover", IF route = "menu" THEN "open" ELSE "upload")
<1>1. /\ pc = "recover" /\ before' = fs'
      /\ UNCHANGED <<staged, published, head, run, passed, undone, outcome>>
      /\ After("recover", IF route = "menu" THEN "open" ELSE "upload")
  BY DEF Recover, Each, marks
<1> DEFINE r == [fs[art] EXCEPT !.final = Available(art), !.old = None]
<1>0. art \in Names /\ fs[art] \in [final : Int, temp : Int, old : Int] /\ None \in Int
  BY DEF TypeOK, None
<1>2. fs' = [fs EXCEPT ![art] = r]
  BY DEF Recover, Files
<1>3. /\ r \in [final : Int, temp : Int, old : Int]
      /\ r.final = Available(art)
      /\ r.old = None /\ r.temp = fs[art].temp
  BY <1>0 DEF Available
<1> HIDE DEF r
<1> QED BY <1>0, <1>1, <1>2, <1>3 DEF TypeOK

(* Stage sets the older file aside, if there is one.                       *)
LEMMA StageIs ==
  ASSUME TypeOK, Stage
  PROVE  /\ fs' \in [Names -> [final : Int, temp : Int, old : Int]]
         /\ \A a \in Names : fs'[a].temp = fs[a].temp /\ (a # art => fs'[a] = fs[a])
         /\ IF fs[art].final = None
              THEN fs'[art] = fs[art] /\ staged' = staged
            ELSE /\ fs'[art].final = None /\ fs'[art].old = fs[art].final
                 /\ staged' = staged \cup {art}
         /\ pc = "stage"
         /\ UNCHANGED <<published, head, before, run, passed, undone, outcome>>
         /\ After("stage", "swap")
<1>0. art \in Names /\ fs[art] \in [final : Int, temp : Int, old : Int] /\ None \in Int
  BY DEF TypeOK, None
<1>1. /\ pc = "stage"
      /\ UNCHANGED <<published, head, before, run, passed, undone, outcome>>
      /\ After("stage", "swap")
  BY DEF Stage, Each, history
<1>2. CASE fs[art].final = None
  BY <1>1, <1>2 DEF TypeOK, Stage, Files
<1>3. CASE fs[art].final # None
  <2> DEFINE r == [fs[art] EXCEPT !.old = fs[art].final, !.final = None]
  <2>1. fs' = [fs EXCEPT ![art] = r] /\ staged' = staged \cup {art}
    BY <1>3 DEF Stage, Files
  <2>2. /\ r \in [final : Int, temp : Int, old : Int]
        /\ r.final = None /\ r.old = fs[art].final /\ r.temp = fs[art].temp
    BY <1>0
  <2> HIDE DEF r
  <2> QED BY <1>0, <1>1, <1>3, <2>1, <2>2 DEF TypeOK
<1> QED BY <1>2, <1>3

(* SwapIn gives the new file the backup's name.                            *)
LEMMA SwapInIs ==
  ASSUME TypeOK, SwapIn
  PROVE  /\ fs' \in [Names -> [final : Int, temp : Int, old : Int]]
         /\ \A a \in Names : fs'[a].old = fs[a].old /\ (a # art => fs'[a] = fs[a])
         /\ fs'[art].final = fs[art].temp
         /\ published' = published \cup {art} /\ pc = "swap"
         /\ UNCHANGED <<staged, head, before, run, passed, undone, outcome>>
         /\ After("swap", IF route = "menu" THEN "verify" ELSE "drop")
<1>1. /\ pc = "swap" /\ published' = published \cup {art}
      /\ UNCHANGED <<staged, head, before, run, passed, undone, outcome>>
      /\ After("swap", IF route = "menu" THEN "verify" ELSE "drop")
  BY DEF SwapIn, Each, history
<1>0. art \in Names /\ fs[art] \in [final : Int, temp : Int, old : Int] /\ None \in Int
  BY DEF TypeOK, None
<1> DEFINE r == [fs[art] EXCEPT !.final = fs[art].temp, !.temp = None]
<1>2. fs' = [fs EXCEPT ![art] = r]
  BY DEF SwapIn, Files
<1>3. /\ r \in [final : Int, temp : Int, old : Int]
      /\ r.final = fs[art].temp /\ r.old = fs[art].old
  BY <1>0
<1> HIDE DEF r
<1> QED BY <1>0, <1>1, <1>2, <1>3 DEF TypeOK

(* DropOld unlinks no more than the older file.                            *)
LEMMA DropOldIs ==
  ASSUME TypeOK, DropOld
  PROVE  /\ fs' \in [Names -> [final : Int, temp : Int, old : Int]]
         /\ \A a \in Names : fs'[a].final = fs[a].final /\ (a # art => fs'[a] = fs[a])
         /\ pc = "drop"
         /\ UNCHANGED <<staged, published, head, before, run, passed, undone, outcome>>
         /\ After("drop", "unmount")
BY DEF TypeOK, DropOld, Files, Each, history, marks, None

(* Discard unlinks no more than the temporary file.                        *)
LEMMA DiscardIs ==
  ASSUME TypeOK, Discard
  PROVE  /\ fs' \in [Names -> [final : Int, temp : Int, old : Int]]
         /\ \A a \in Names : fs'[a].final = fs[a].final /\ fs'[a].old = fs[a].old
         /\ pc = "discard" /\ Onward
         /\ UNCHANGED <<staged, published, head, before, run, passed, undone, outcome>>
BY DEF TypeOK, Discard, Files, history, marks, None

(* Withdraw unlinks what was published.                                    *)
LEMMA WithdrawIs ==
  ASSUME TypeOK, Withdraw
  PROVE  /\ fs' \in [Names -> [final : Int, temp : Int, old : Int]]
         /\ \A a \in Names : fs'[a].old = fs[a].old /\ (a # art => fs'[a] = fs[a])
         /\ fs'[art].final = (IF art \in published THEN None ELSE fs[art].final)
         /\ pc = "withdraw" /\ Onward
         /\ UNCHANGED <<staged, published, head, before, run, passed, undone, outcome>>
BY DEF TypeOK, Withdraw, Files, history, marks, None

(* PutBack renames the older file back, unless its name is taken.          *)
LEMMA PutBackIs ==
  ASSUME TypeOK, PutBack
  PROVE  /\ fs' \in [Names -> [final : Int, temp : Int, old : Int]]
         /\ \A a \in Names : a # art => fs'[a] = fs[a]
         /\ IF art \in staged /\ fs[art].final = None
              THEN fs'[art].final = fs[art].old /\ fs'[art].old = None
            ELSE fs'[art] = fs[art]
         /\ pc = "putBack" /\ Onward
         /\ UNCHANGED <<staged, published, head, before, run, passed, undone, outcome>>
<1>0. art \in Names /\ fs[art] \in [final : Int, temp : Int, old : Int] /\ None \in Int
  BY DEF TypeOK, None
<1>1. /\ pc = "putBack" /\ Onward
      /\ UNCHANGED <<staged, published, head, before, run, passed, undone, outcome>>
  BY DEF PutBack, history, marks
<1>2. CASE art \in staged /\ fs[art].final = None
  <2> DEFINE r == [fs[art] EXCEPT !.final = fs[art].old, !.old = None]
  <2>1. fs' = [fs EXCEPT ![art] = r]
    BY <1>2 DEF PutBack, Files
  <2>2. /\ r \in [final : Int, temp : Int, old : Int]
        /\ r.final = fs[art].old /\ r.old = None
    BY <1>0
  <2> HIDE DEF r
  <2> QED BY <1>0, <1>1, <1>2, <2>1, <2>2 DEF TypeOK
<1>3. CASE ~(art \in staged /\ fs[art].final = None)
  BY <1>1, <1>3 DEF TypeOK, PutBack, Files
<1> QED BY <1>2, <1>3

(* A call that only reads, or that fails where no cleanup follows, changes *)
(* no file.                                                                *)
LEMMA StuckIs ==
  ASSUME TypeOK, VerifyPublishedFile \/ DropOldFails \/ RollBackFails
  PROVE  /\ fs' = fs
         /\ UNCHANGED <<staged, published, head, before, run, passed, outcome>>
         /\ \/ pc = "verify" /\ After("verify", "drop") /\ undone' = undone
            \/ pc = "drop" /\ After("drop", "unmount") /\ undone' = undone
            \/ pc \in Rolling /\ Onward /\ undone' = TRUE
BY DEF TypeOK, VerifyPublishedFile, DropOldFails, RollBackFails, Files, history, marks,
       Fault, Steady, Each, Rolling

(* A step of the roll back keeps what it is about. *)
LEMMA OnwardIs ==
  ASSUME TypeOK, pc # "idle" => Way /\ Turn, Onward
  PROVE  /\ UNCHANGED <<failed, info, route, want>>
         /\ want # {} /\ art \in want /\ art' \in want /\ failed /\ pc \in Rolling
         /\ \/ /\ pc' \in Rolling /\ pc' # pc /\ art' = art /\ route # "menu"
               /\ pc = "withdraw" => pc' = "putBack"
               /\ pc = "putBack" => pc' = "discard"
               /\ pc # "discard"
            \/ /\ pc' = IF route = "menu" THEN pc ELSE "withdraw"
               /\ route = "menu" \/ pc = "discard"
               /\ \A a \in want : Rank[a] < Rank[art'] <=> Rank[a] <= Rank[art]
            \/ /\ art' = First /\ \A a \in want : Rank[a] <= Rank[art]
               /\ IF route = "menu"
                    THEN \/ pc = "discard" /\ pc' = "withdraw"
                         \/ pc = "withdraw" /\ pc' = "putBack"
                         \/ pc = "putBack" /\ pc' = "unmount"
                  ELSE pc = "discard" /\ pc' = "unmount"
<1>1. pc \in Rolling /\ failed /\ want # {} /\ art \in want /\ want \subseteq Names
  BY DEF Onward, Way, Turn, TypeOK, Rolling, Artifacts
<1>2. First \in want
  BY <1>1, FirstIs
<1>3. CASE route = "menu"
  <2>1. PICK done : /\ After(pc, done)
                    /\ \/ pc = "discard" /\ done = "withdraw"
                       \/ pc = "withdraw" /\ done = "putBack"
                       \/ pc = "putBack" /\ done = "unmount"
    BY <1>3 DEF Onward, Each
  <2>2. /\ UNCHANGED <<failed, info, acquired, route, want, n>>
        /\ \/ /\ pc' = pc /\ art' \in want
              /\ \A a \in want : Rank[a] < Rank[art'] <=> Rank[a] <= Rank[art]
           \/ /\ pc' = done /\ art' = First
              /\ \A a \in want : Rank[a] <= Rank[art]
    BY <1>1, <2>1, SweepIs
  <2> QED BY <1>1, <1>2, <1>3, <2>1, <2>2
<1>4. CASE route # "menu" /\ pc = "discard"
  <2>1. After("withdraw", "unmount")
    BY <1>4 DEF Onward, Go
  <2>2. /\ UNCHANGED <<failed, info, acquired, route, want, n>>
        /\ \/ /\ pc' = "withdraw" /\ art' \in want
              /\ \A a \in want : Rank[a] < Rank[art'] <=> Rank[a] <= Rank[art]
           \/ /\ pc' = "unmount" /\ art' = First
              /\ \A a \in want : Rank[a] <= Rank[art]
    BY <1>1, <2>1, SweepIs
  <2> QED BY <1>1, <1>2, <1>4, <2>2
<1>5. CASE route # "menu" /\ pc # "discard"
  BY <1>1, <1>5 DEF Onward, Go, Rolling
<1> QED BY <1>3, <1>4, <1>5

(* Every step is one of these.                                             *)
LEMMA NextIs ==
  ASSUME Next
  PROVE  \/ Quietly \/ Recover \/ Stage \/ SwapIn \/ DropOld
         \/ VerifyPublishedFile \/ DropOldFails \/ RollBackFails
         \/ Discard \/ Withdraw \/ PutBack
         \/ Start \/ Unmount \/ UnmountFails \/ PowerCut
BY DEF Next, Proceed, RomWriterTask, Faults, Quietly

(* No step leaves the types.                                               *)
LEMMA TypeStep ==
  ASSUME TypeOK, pc # "idle" => outcome = "running" /\ Way /\ Turn, Next
  PROVE  TypeOK'
<1>1. pc' # "idle" => Way' /\ Turn'
  BY WayStep
<1>2. ASSUME pc' # "idle", want' \subseteq Artifacts'
      PROVE  art' \in Names
  <2>1. CASE want' # {}
    BY <1>1, <1>2, <2>1 DEF Turn, Artifacts
  <2>2. CASE want' = {}
    <3>1. AtFirst'
      BY <1>1, <1>2, <2>2 DEF Way, AtFirst, Early, Cleaning, Rolling
    <3>2. art' = "rom"
      BY <1>1, <1>2, <2>2, <3>1 DEF Turn, First
    <3> QED BY <3>2 DEF Names
  <2> QED BY <2>1, <2>2
<1>3. ASSUME head' = head, want' \subseteq Artifacts
      PROVE  want' \subseteq Artifacts'
  BY <1>3 DEF Artifacts, cart
<1>4. ASSUME Quietly
      PROVE  TypeOK'
  <2>1. Still /\ (Move \/ UNCHANGED <<pc, failed, info, want, art>>)
    BY <1>4, StillStep, MoveStep
  <2>2. want' \subseteq Artifacts'
    BY <1>3, <2>1 DEF Still, Move, TypeOK
  <2>3. art' \in Names
    BY <1>2, <2>1, <2>2 DEF Move, Onwards, Early, Cleaning, Rolling, TypeOK
  <2> QED BY <2>1, <2>2, <2>3 DEF TypeOK, Still
<1>5. ASSUME fs' \in [Names -> [final : Int, temp : Int, old : Int]],
             before' = before \/ before' = fs', pc' # "idle",
             UNCHANGED <<want, head, run>>
      PROVE  TypeOK'
  <2>1. want' \subseteq Artifacts'
    BY <1>3, <1>5 DEF TypeOK
  <2> QED BY <1>2, <1>5, <2>1 DEF TypeOK
<1>6. ASSUME NEW p, NEW done, After(p, done), p # "idle", done # "idle"
      PROVE  pc' # "idle" /\ want' = want
  BY <1>6 DEF After
<1>7. ASSUME Onward
      PROVE  pc' # "idle" /\ want' = want
  <2>1. pc' \in Rolling \cup {"unmount"} /\ want' = want
    BY <1>7, OnwardIs DEF Rolling
  <2> QED BY <2>1 DEF Rolling
<1>8. CASE Recover
  <2>1. After("recover", IF route = "menu" THEN "open" ELSE "upload")
    BY <1>8, RecoverIs
  <2>2. pc' # "idle" /\ want' = want
    BY <1>6, <2>1
  <2> QED BY <1>5, <1>8, <2>2, RecoverIs
<1>9. CASE Stage
  <2>1. pc' # "idle" /\ want' = want
    BY <1>6, <1>9, StageIs
  <2> QED BY <1>5, <1>9, <2>1, StageIs
<1>10. CASE SwapIn
  <2>1. After("swap", IF route = "menu" THEN "verify" ELSE "drop")
    BY <1>10, SwapInIs
  <2>2. pc' # "idle" /\ want' = want
    BY <1>6, <2>1
  <2> QED BY <1>5, <1>10, <2>2, SwapInIs
<1>11. CASE DropOld
  <2>1. pc' # "idle" /\ want' = want
    BY <1>6, <1>11, DropOldIs
  <2> QED BY <1>5, <1>11, <2>1, DropOldIs
<1>12. CASE VerifyPublishedFile \/ DropOldFails \/ RollBackFails
  <2>1. pc' # "idle" /\ want' = want
    BY <1>6, <1>7, <1>12, StuckIs
  <2> QED BY <1>5, <1>12, <2>1, StuckIs DEF TypeOK
<1>13. CASE Discard
  BY <1>5, <1>7, <1>13, DiscardIs
<1>14. CASE Withdraw
  BY <1>5, <1>7, <1>14, WithdrawIs
<1>15. CASE PutBack
  BY <1>5, <1>7, <1>15, PutBackIs
<1>16. CASE Start
  <2>1. /\ art' = "rom" /\ want' = {} /\ run' = run + 1
        /\ fs' = fs /\ before' = fs
    BY <1>16 DEF Start, Fresh
  <2> QED BY <2>1 DEF TypeOK, Names
<1>17. CASE Unmount \/ UnmountFails
  <2>1. UNCHANGED <<fs, before, want, art, run, head>>
    BY <1>17 DEF Unmount, UnmountFails, Go, Files
  <2>2. want' \subseteq Artifacts'
    BY <1>3, <2>1 DEF TypeOK
  <2> QED BY <2>1, <2>2 DEF TypeOK
<1>18. CASE PowerCut
  <2>1. /\ art' = "rom" /\ want' = {}
        /\ UNCHANGED <<fs, before, run>>
    BY <1>18 DEF PowerCut, Fresh
  <2> QED BY <2>1 DEF TypeOK, Names
<1> QED BY <1>4, <1>8, <1>9, <1>10, <1>11, <1>12, <1>13, <1>14, <1>15, <1>16, <1>17, <1>18,
       NextIs

(* The steps of a sweep, in terms of Done. *)
LEMMA SweepDone ==
  ASSUME TypeOK, Turn, want # {}, NEW p, NEW done, After(p, done)
  PROVE  /\ UNCHANGED <<failed, info, route, want>> /\ art \in want
         /\ \/ /\ pc' = p
               /\ \A a \in want : Done(a)' <=> Rank[a] <= Rank[art]
            \/ /\ pc' = done /\ art' = First
               /\ \A a \in want : Rank[a] <= Rank[art]
<1>1. want \subseteq Names /\ art \in want
  BY DEF TypeOK, Turn, Artifacts
<1> QED BY <1>1, SweepIs DEF Done

(* What has had its turn still has it after the sweep's step, and what     *)
(* has its turn now has then had it.                                       *)
LEMMA DoneIs ==
  ASSUME TypeOK, Turn, want # {}
  PROVE  /\ ~Done(art) /\ Rank[art] <= Rank[art]
         /\ \A a \in want : Rank[a] <= Rank[art] <=> Done(a) \/ a = art
<1>1. want \subseteq Names /\ art \in want
  BY DEF TypeOK, Turn, Artifacts
<1> QED BY <1>1, RankIs DEF Done

(* What is staged or published is wanted, and has had its turn.            *)
LEMMA MarksStep ==
  ASSUME TypeOK, Control, Next, pc' # "idle"
  PROVE  Marks'
<1>1. Way' /\ Turn'
  BY WayStep DEF Control
<1>2. CASE Quietly
  <2>1. Still /\ (Move \/ UNCHANGED <<pc, failed, info, want, art>>)
    BY <1>2, StillStep, MoveStep DEF Control
  <2>2. CASE Move
    <3>1. pc # "idle" /\ Way /\ Marks
      BY <2>2 DEF Move, Onwards, Early, Cleaning, Control
    <3>2. staged' \cup published' \subseteq want'
      BY <2>1, <2>2, <3>1 DEF Still, Move, Marks, Way
    <3>3. ~failed' => staged' = {} /\ published' = {}
      BY <2>1, <2>2, <3>1 DEF Still, Move, Marks, Onwards, Early, Cleaning
    <3>4. pc' # "swap" /\ (pc' = "stage" => ~failed')
      BY <1>1, <2>2 DEF Move, Way, Onwards, Early, Cleaning, Rolling
    <3> QED BY <3>2, <3>3, <3>4 DEF Marks
  <2>3. CASE UNCHANGED <<pc, failed, info, want, art>>
    <3>1. Marks
      BY <2>3 DEF Control
    <3> QED BY <2>1, <2>3, <3>1 DEF Still, Marks, Done
  <2> QED BY <2>1, <2>2, <2>3
<1>3. ASSUME pc \in Replacing \cup {"recover"}
      PROVE  Way /\ Turn /\ Marks /\ ~failed /\ want # {}
  BY <1>3 DEF Control, Way, Replacing, Early, Cleaning, Rolling
<1>4. CASE Recover
  <2>1. After("recover", IF route = "menu" THEN "open" ELSE "upload")
    BY <1>4, RecoverIs
  <2>2. pc = "recover" /\ staged' = {} /\ published' = {}
    BY <1>3, <1>4, RecoverIs DEF Marks, Replacing
  <2>3. pc' \in {"recover", "open", "upload"}
    BY <1>3, <2>1, <2>2, SweepDone
  <2> QED BY <2>2, <2>3 DEF Marks
<1>5. CASE Stage
  <2>1. pc = "stage" /\ Way /\ Turn /\ Marks /\ ~failed /\ want # {}
    BY <1>3, <1>5, StageIs DEF Replacing
  <2>2. /\ UNCHANGED <<failed, info, route, want>> /\ art \in want
        /\ \/ pc' = "stage" /\ \A a \in want : Done(a)' <=> Rank[a] <= Rank[art]
           \/ pc' = "swap"
    BY <1>5, <2>1, StageIs, SweepDone
  <2>3. staged' \subseteq staged \cup {art} /\ published' = {}
    BY <1>5, <2>1, StageIs DEF Marks
  <2>4. staged' \subseteq want'
    BY <2>1, <2>2, <2>3 DEF Marks
  <2>5. pc' = "stage" => \A a \in staged' : Done(a)'
    BY <2>1, <2>2, <2>3, DoneIs DEF Marks
  <2> QED BY <2>2, <2>3, <2>4, <2>5 DEF Marks, Replacing
<1>6. CASE SwapIn
  <2>1. pc = "swap" /\ Way /\ Turn /\ Marks /\ ~failed /\ want # {}
    BY <1>3, <1>6, SwapInIs DEF Replacing
  <2>2. After("swap", IF route = "menu" THEN "verify" ELSE "drop")
    BY <1>6, SwapInIs
  <2>3. /\ UNCHANGED <<failed, info, route, want>> /\ art \in want
        /\ \/ pc' = "swap" /\ \A a \in want : Done(a)' <=> Rank[a] <= Rank[art]
           \/ pc' \in {"verify", "drop"}
    BY <2>1, <2>2, SweepDone
  <2>4. staged' = staged /\ published' = published \cup {art}
    BY <1>6, SwapInIs
  <2>5. staged' \cup published' \subseteq want'
    BY <2>1, <2>3, <2>4 DEF Marks
  <2>6. pc' = "swap" => \A a \in published' : Done(a)'
    BY <2>1, <2>3, <2>4, DoneIs DEF Marks
  <2> QED BY <2>3, <2>5, <2>6 DEF Marks, Replacing
<1>7. CASE DropOld \/ VerifyPublishedFile \/ DropOldFails
  <2>1. /\ pc \in {"verify", "drop"}
        /\ After("verify", "drop") \/ After("drop", "unmount")
        /\ UNCHANGED <<staged, published>>
    BY <1>7, StuckIs, DropOldIs DEF DropOldFails, VerifyPublishedFile, Each
  <2>2. Turn /\ Marks /\ want # {}
    BY <1>3, <2>1 DEF Replacing
  <2>3. want' = want /\ pc' \in {"verify", "drop", "unmount"}
    BY <2>1, <2>2, SweepDone
  <2> QED BY <2>1, <2>2, <2>3 DEF Marks, Replacing
<1>8. CASE RollBackFails \/ Discard \/ Withdraw \/ PutBack
  <2>1. Onward /\ UNCHANGED <<staged, published>> /\ pc # "idle"
    BY <1>8, DiscardIs, WithdrawIs, PutBackIs DEF RollBackFails, marks
  <2>2. Way /\ Turn /\ Marks
    BY <2>1 DEF Control
  <2>3. /\ UNCHANGED <<failed, want>> /\ failed
        /\ pc' \in Rolling \cup {"unmount"}
    BY <2>1, <2>2, OnwardIs DEF Rolling
  <2> QED BY <2>1, <2>2, <2>3 DEF Marks, Rolling
<1>9. CASE Start
  BY <1>9 DEF Start, Fresh, Marks
<1>10. CASE Unmount \/ UnmountFails \/ PowerCut
  BY <1>10 DEF Unmount, UnmountFails, PowerCut, Go
<1> QED BY <1>2, <1>4, <1>5, <1>6, <1>7, <1>8, <1>9, <1>10, NextIs

(* Once the sweep of Stage is past an artifact that it did not stage,      *)
(* there was none.                                                         *)
LEMMA MissingStep ==
  ASSUME TypeOK, Control, Holding, Next, pc' # "idle"
  PROVE  Missing'
<1>1. Way' /\ Turn'
  BY WayStep DEF Control
<1>2. CASE Quietly
  <2>1. Still /\ (Move \/ UNCHANGED <<pc, failed, info, want, art>>)
    BY <1>2, StillStep, MoveStep DEF Control
  <2>2. CASE Move
    <3>1. pc' # "swap" /\ (pc' = "stage" => art' = First')
      BY <2>2 DEF Move, Onwards, Early, Cleaning, Rolling
    <3>2. want' \subseteq Names
      BY TypeStep DEF TypeOK, Artifacts, Control
    <3>3. ASSUME NEW a \in want', pc' = "stage"
          PROVE  ~Done(a)'
      <4>1. want' # {} => \A b \in want' : ~(Rank[b] < Rank[First'])
        BY <3>2, LeastIs, RankIs DEF First
      <4> QED BY <3>1, <3>3, <4>1 DEF Done
    <3> QED BY <3>1, <3>3 DEF Missing
  <2>3. CASE UNCHANGED <<pc, failed, info, want, art>>
    <3>1. Missing
      BY <2>3 DEF Control
    <3> QED BY <2>1, <2>3, <3>1 DEF Still, Missing, Done
  <2> QED BY <2>1, <2>2, <2>3
<1>3. ASSUME pc \in Replacing \cup {"recover"}
      PROVE  Way /\ Turn /\ Marks /\ Missing /\ ~failed /\ want # {}
  BY <1>3 DEF Control, Way, Replacing, Early, Cleaning, Rolling
<1>4. CASE Recover
  <2>1. After("recover", IF route = "menu" THEN "open" ELSE "upload") /\ pc = "recover"
    BY <1>4, RecoverIs
  <2>2. pc' \in {"recover", "open", "upload"}
    BY <1>3, <2>1, SweepDone
  <2> QED BY <2>2 DEF Missing
<1>5. CASE Stage
  <2>1. pc = "stage" /\ Way /\ Turn /\ Marks /\ Missing /\ want # {}
    BY <1>3, <1>5, StageIs DEF Replacing
  <2>2. /\ want' = want /\ art \in want
        /\ \/ pc' = "stage" /\ \A a \in want : Done(a)' <=> Rank[a] <= Rank[art]
           \/ pc' = "swap" /\ \A a \in want : Rank[a] <= Rank[art]
    BY <1>5, <2>1, StageIs, SweepDone
  <2>3. before' = before /\ staged \subseteq staged'
    BY <1>5, StageIs
  <2>4. art \in Names /\ art \notin staged /\ art \notin published
    BY <2>1, DoneIs DEF Marks, TypeOK
  <2>5. Untouched(art)
    BY <2>1, <2>4 DEF Holding, Onwards, Kept, SetAside
  <2>6. art \notin staged' => before[art].final = None
    BY <1>5, <2>5, StageIs DEF Untouched
  <2>7. ASSUME NEW a \in want' \ staged', (pc' = "stage" /\ Done(a)') \/ pc' = "swap"
        PROVE  before'[a].final = None
    <3>1. Rank[a] <= Rank[art]
      BY <2>2, <2>7
    <3>2. Done(a) \/ a = art
      BY <2>1, <2>2, <2>7, <3>1, DoneIs
    <3> QED BY <2>1, <2>2, <2>3, <2>6, <2>7, <3>2 DEF Missing
  <2> QED BY <2>7 DEF Missing
<1>6. CASE SwapIn
  <2>1. pc = "swap" /\ Missing /\ Turn /\ want # {}
    BY <1>3, <1>6, SwapInIs DEF Replacing
  <2>2. After("swap", IF route = "menu" THEN "verify" ELSE "drop")
    BY <1>6, SwapInIs
  <2>3. pc' \in {"swap", "verify", "drop"} /\ want' = want
    BY <2>1, <2>2, SweepDone
  <2>4. staged' = staged /\ before' = before
    BY <1>6, SwapInIs
  <2> QED BY <2>1, <2>3, <2>4 DEF Missing
<1>7. CASE DropOld \/ VerifyPublishedFile \/ DropOldFails
  <2>1. /\ pc \in {"verify", "drop"}
        /\ After("verify", "drop") \/ After("drop", "unmount")
    BY <1>7, StuckIs, DropOldIs DEF DropOldFails, VerifyPublishedFile, Each
  <2>2. pc' \in {"verify", "drop", "unmount"}
    BY <1>3, <2>1, SweepDone DEF Replacing
  <2> QED BY <2>2 DEF Missing
<1>8. CASE RollBackFails \/ Discard \/ Withdraw \/ PutBack
  <2>1. Onward /\ pc # "idle"
    BY <1>8, DiscardIs, WithdrawIs, PutBackIs DEF RollBackFails
  <2>2. pc' \in Rolling \cup {"unmount"}
    BY <2>1, OnwardIs DEF Rolling, Control
  <2> QED BY <2>2 DEF Missing, Rolling
<1>9. CASE Start
  BY <1>9 DEF Start, Fresh, Missing
<1>10. CASE Unmount \/ UnmountFails \/ PowerCut
  BY <1>10 DEF Unmount, UnmountFails, PowerCut, Go
<1> QED BY <1>2, <1>4, <1>5, <1>6, <1>7, <1>8, <1>9, <1>10, NextIs

(* From the recovery on nothing wanted has an older file beside its        *)
(* backup.                                                                 *)
LEMMA RecoveredStep ==
  ASSUME TypeOK, Control, Holding, Next, pc' # "idle"
  PROVE  Recovered'
<1>1. Way' /\ Turn'
  BY WayStep DEF Control
<1>2. CASE Quietly
  <2>1. Still /\ (Move \/ UNCHANGED <<pc, failed, info, want, art>>)
    BY <1>2, StillStep, MoveStep DEF Control
  <2>2. CASE Move
    <3>1. pc # "idle" /\ Recovered
      BY <2>2 DEF Move, Onwards, Early, Cleaning, Control
    <3>2. want' \subseteq Names
      BY TypeStep DEF TypeOK, Artifacts, Control
    <3>3. ASSUME NEW a \in want', pc' = "recover"
          PROVE  ~Done(a)'
      <4>1. art' = First'
        BY <2>2, <3>3 DEF Move
      <4>2. want' # {} => \A b \in want' : ~(Rank[b] < Rank[First'])
        BY <3>2, LeastIs, RankIs DEF First
      <4> QED BY <3>3, <4>1, <4>2 DEF Done
    <3>4. ASSUME pc' \notin Early \cup {"recover"}, ~failed'
          PROVE  pc \notin Early \cup {"recover"} /\ ~failed /\ want' = want
      BY <2>2, <3>4 DEF Move
    <3> QED BY <2>1, <3>1, <3>3, <3>4 DEF Recovered, Still
  <2>3. CASE UNCHANGED <<pc, failed, info, want, art>>
    <3>1. Recovered
      BY <2>3 DEF Control
    <3> QED BY <2>1, <2>3, <3>1 DEF Still, Recovered, Done
  <2> QED BY <2>1, <2>2, <2>3
<1>3. ASSUME pc \in Replacing \cup {"recover"}
      PROVE  Way /\ Turn /\ Marks /\ Recovered /\ ~failed /\ want # {}
  BY <1>3 DEF Control, Way, Replacing, Early, Cleaning, Rolling
<1>4. CASE Recover
  <2>1. pc = "recover" /\ Turn /\ Marks /\ Recovered /\ ~failed /\ want # {}
    BY <1>3, <1>4, RecoverIs
  <2>2. After("recover", IF route = "menu" THEN "open" ELSE "upload")
    BY <1>4, RecoverIs
  <2>3. /\ want' = want /\ art \in want
        /\ \/ pc' = "recover" /\ \A a \in want : Done(a)' <=> Rank[a] <= Rank[art]
           \/ pc' \in {"open", "upload"} /\ \A a \in want : Rank[a] <= Rank[art]
    BY <2>1, <2>2, SweepDone
  <2>4. ASSUME NEW a \in want', pc' = "recover" => Done(a)'
        PROVE  before'[a].old = None
    <3>1. a \in want /\ a \in Names /\ Rank[a] <= Rank[art]
      BY <2>3, <2>4 DEF TypeOK, Artifacts
    <3>2. CASE a = art
      BY <1>4, <3>2, RecoverIs
    <3>3. CASE a # art
      <4>1. Done(a)
        BY <2>1, <3>1, <3>3, DoneIs
      <4>2. before[a].old = None
        BY <2>1, <3>1, <4>1 DEF Recovered
      <4>3. Untouched(a)
        BY <2>1, <3>1 DEF Holding, Onwards, Kept, SetAside, Marks, Replacing
      <4> QED BY <1>4, <3>1, <3>3, <4>2, <4>3, RecoverIs DEF Untouched
    <3> QED BY <3>2, <3>3
  <2> QED BY <2>3, <2>4 DEF Recovered
<1>5. CASE Stage \/ SwapIn \/ DropOld \/ VerifyPublishedFile \/ DropOldFails
  <2>1. pc \in Replacing /\ before' = before
    BY <1>5, StageIs, SwapInIs, DropOldIs, StuckIs
       DEF Replacing, VerifyPublishedFile, DropOldFails
  <2>2. want' = want /\ failed' = failed
    BY <1>5 DEF Stage, SwapIn, DropOld, VerifyPublishedFile, DropOldFails, Each, After
  <2>3. Recovered /\ ~failed
    BY <1>3, <2>1
  <2>4. pc' # "recover"
    BY <1>5 DEF Stage, SwapIn, DropOld, VerifyPublishedFile, DropOldFails, Each, After
  <2> QED BY <2>1, <2>2, <2>3, <2>4 DEF Recovered, Replacing, Early
<1>6. CASE RollBackFails \/ Discard \/ Withdraw \/ PutBack
  <2>1. Onward
    BY <1>6, DiscardIs, WithdrawIs, PutBackIs DEF RollBackFails
  <2>2. failed' /\ pc' \in Rolling \cup {"unmount"}
    BY <2>1, OnwardIs DEF Rolling, Control
  <2> QED BY <2>2 DEF Recovered, Rolling
<1>7. CASE Start
  BY <1>7 DEF Start, Fresh, Recovered
<1>8. CASE Unmount \/ UnmountFails \/ PowerCut
  BY <1>8 DEF Unmount, UnmountFails, PowerCut, Go
<1> QED BY <1>2, <1>4, <1>5, <1>6, <1>7, <1>8, NextIs

-----------------------------------------------------------------------------
(* What a step of the roll back means for each artifact. *)

(* Discard changes nothing about how far the names are restored, and it is *)
(* the last step for a PC's file.                                          *)
LEMMA DiscardMeans ==
  ASSUME TypeOK, Way, Turn, pc = "discard", Onward, NEW a \in want
  PROVE  /\ pc' \in Rolling => /\ Restored(a)' <=> Restored(a)
                               /\ Withdrawn(a)' <=> Withdrawn(a)
         /\ pc' \in Rolling \/ (pc' = "unmount" /\ Restored(a))
<1>1. want \subseteq Names
  BY DEF TypeOK, Artifacts
<1>2. First \in want /\ ~(Rank[a] < Rank[First])
  BY <1>1, FirstIs
<1> QED BY <1>2, OnwardIs DEF Restored, Withdrawn, Done, Rolling

(* Withdraw comes before PutBack for each artifact.                        *)
LEMMA WithdrawMeans ==
  ASSUME TypeOK, Way, Turn, pc = "withdraw", Onward, NEW a \in want
  PROVE  /\ pc' \in Rolling
         /\ Restored(a)' <=> Restored(a)
         /\ Withdrawn(a)' <=> Withdrawn(a) \/ a = art
         /\ ~Withdrawn(art) /\ ~Restored(art)
<1>1. want \subseteq Names
  BY DEF TypeOK, Artifacts
<1>2. First \in want /\ ~(Rank[a] < Rank[First])
  BY <1>1, FirstIs
<1>3. /\ ~Done(art)
      /\ Rank[a] <= Rank[art] <=> Done(a) \/ a = art
  BY DoneIs
<1> QED BY <1>2, <1>3, OnwardIs DEF Restored, Withdrawn, Done, Rolling

(* PutBack comes after Withdraw, and is the last step for a menu's file.   *)
LEMMA PutBackMeans ==
  ASSUME TypeOK, Way, Turn, pc = "putBack", Onward, NEW a \in want
  PROVE  /\ pc' \in Rolling => /\ Restored(a)' <=> Restored(a) \/ a = art
                               /\ Withdrawn(a)' <=> Withdrawn(a)
         /\ pc' \in Rolling \/ (pc' = "unmount" /\ (Restored(a) \/ a = art))
         /\ Withdrawn(art) /\ ~Restored(art)
<1>1. want \subseteq Names
  BY DEF TypeOK, Artifacts
<1>2. First \in want /\ ~(Rank[a] < Rank[First])
  BY <1>1, FirstIs
<1>3. /\ ~Done(art)
      /\ Rank[a] <= Rank[art] <=> Done(a) \/ a = art
      /\ Rank[art] <= Rank[art]
  BY DoneIs
<1> QED BY <1>2, <1>3, OnwardIs DEF Restored, Withdrawn, Done, Rolling

(* Nothing is done to the names of what is not wanted. *)
LEMMA UnwantedIs ==
  ASSUME Marks, NEW a, a \notin want, Kept(a) \/ SetAside(a) \/ Untouched(a)
  PROVE  Untouched(a)
BY DEF Marks, Kept, SetAside

(* An artifact whose names and marks a step leaves alone. *)
LEMMA SameKept ==
  ASSUME NEW a, fs'[a].final = fs[a].final, fs'[a].old = fs[a].old, before' = before,
         a \in staged' <=> a \in staged, a \in published' <=> a \in published
  PROVE  /\ Kept(a) => Kept(a)'
         /\ SetAside(a) => SetAside(a)'
         /\ Untouched(a) => Untouched(a)'
BY DEF Kept, SetAside, Untouched, Replaced

(* The quiet actions, the entry into the roll back among them, keep what   *)
(* the names hold.                                                         *)
LEMMA QuietHolding ==
  ASSUME TypeOK, Control, Holding, Quietly, pc' # "idle"
  PROVE  Holding'
<1> USE DEF Holding
<1>1. Still /\ (Move \/ UNCHANGED <<pc, failed, info, want, art>>)
  BY StillStep, MoveStep DEF Control
<1>2. Next
  BY DEF Quietly, Next, Proceed, RomWriterTask, Faults
<1>3. Way' /\ Turn' /\ Marks' /\ TypeOK'
  BY <1>2, WayStep, MarksStep, TypeStep DEF Control
<1>4. ASSUME NEW a \in Names
      PROVE  /\ Kept(a) => Kept(a)'
             /\ SetAside(a) => SetAside(a)'
             /\ Untouched(a) => Untouched(a)'
  BY <1>1, <1>4, SameKept DEF Still
<1>5. CASE Move
  <2>1. pc \in Onwards /\ pc # "idle" /\ Marks
    BY <1>5 DEF Move, Onwards, Early, Cleaning, Control
  <2>2. ASSUME NEW a \in Names
        PROVE  Kept(a)'
    BY <1>4, <2>1, <2>2
  <2>3. ASSUME NEW a \in Names, pc' \in Rolling
        PROVE  Rolled(a)'
    <3>1. pc' = RollBack /\ art' = First' /\ route' = route
      BY <1>1, <1>5, <2>3 DEF Move, Still
    <3>2. CASE a \in want'
      <4>1. want' \subseteq Names
        BY <1>3 DEF TypeOK, Artifacts
      <4>2. ~(Rank[a] < Rank[First'])
        BY <3>2, <4>1, LeastIs, RankIs DEF First
      <4>3. ~Done(a)'
        BY <3>1, <4>2 DEF Done
      <4>4. ~Restored(a)' /\ ~Withdrawn(a)'
        BY <3>1, <4>3 DEF RollBack, Restored, Withdrawn
      <4> QED BY <2>2, <2>3, <4>4 DEF Rolled
    <3>3. CASE a \notin want'
      <4>1. a \notin staged' /\ a \notin published'
        BY <1>3, <3>3 DEF Marks
      <4>2. Kept(a)'
        BY <2>2
      <4> QED BY <4>1, <4>2 DEF Rolled, Kept, SetAside
    <3> QED BY <3>2, <3>3
  <2>4. ASSUME NEW a \in Names, pc' = "unmount"
        PROVE  Untouched(a)'
    <3>1. want' = {}
      BY <1>3, <1>5, <2>4 DEF Move, Way
    <3>2. a \notin staged' /\ a \notin published'
      BY <1>3, <3>1 DEF Marks
    <3>3. Kept(a)'
      BY <2>2, <2>4
    <3> QED BY <3>2, <3>3 DEF Kept, SetAside
  <2> QED BY <2>2, <2>3, <2>4
<1>6. CASE UNCHANGED <<pc, failed, info, want, art>>
  <2>1. undone' = undone /\ route' = route
    BY <1>1 DEF Still
  <2>2. ASSUME NEW a \in Names
        PROVE  /\ Restored(a)' <=> Restored(a)
               /\ Withdrawn(a)' <=> Withdrawn(a)
    BY <1>6, <2>1 DEF Restored, Withdrawn, Done
  <2>3. ASSUME NEW a \in Names, Rolled(a)
        PROVE  Rolled(a)'
    BY <1>4, <2>2, <2>3 DEF Rolled
  <2> QED BY <1>4, <1>6, <2>1, <2>3
<1> QED BY <1>1, <1>5, <1>6

(* The recovery is what a run is measured against.                         *)
LEMMA RecoverHolding ==
  ASSUME TypeOK, Control, Holding, Recover
  PROVE  Holding'
<1>1. /\ pc = "recover" /\ Way /\ Turn /\ Marks /\ ~failed /\ want # {}
      /\ UNCHANGED <<staged, published>> /\ before' = fs'
  BY RecoverIs DEF Control, Way, Cleaning, Rolling, Early
<1>2. staged' = {} /\ published' = {}
  BY <1>1 DEF Marks, Replacing
<1>3. After("recover", IF route = "menu" THEN "open" ELSE "upload")
  BY RecoverIs
<1>4. pc' \in {"recover", "open", "upload"}
  BY <1>1, <1>3, SweepDone
<1>5. \A a \in Names : Kept(a)'
  BY <1>1, <1>2 DEF Kept, SetAside, Untouched
<1> QED BY <1>4, <1>5 DEF Holding, Rolling

(* What Stage sets aside was the backup, and there was no older one.       *)
LEMMA StageHolding ==
  ASSUME TypeOK, Control, Holding, Stage
  PROVE  Holding'
<1>1. /\ pc = "stage" /\ Way /\ Turn /\ Marks /\ Recovered /\ ~failed /\ want # {}
      /\ before' = before /\ published' = published
  BY StageIs DEF Control, Way, Cleaning, Rolling, Early
<1>2. art \in want /\ art \in Names /\ pc' \in {"stage", "swap"}
  BY <1>1, StageIs, SweepDone DEF TypeOK
<1>3. art \notin staged /\ art \notin published
  BY <1>1, DoneIs DEF Marks
<1>4. before[art].old = None
  BY <1>1, <1>2 DEF Recovered, Early
<1>5. \A a \in Names : Kept(a)
  BY <1>1 DEF Holding, Onwards
<1>6. Untouched(art)
  BY <1>2, <1>3, <1>5 DEF Kept, SetAside
<1>7. ASSUME NEW a \in Names, a # art
      PROVE  Kept(a)'
  BY <1>1, <1>5, <1>7, SameKept, StageIs
<1>8. ASSUME NEW a \in Names, a = art
      PROVE  Kept(a)'
  <2>1. CASE fs[a].final = None
    <3>1. fs'[a] = fs[a] /\ staged' = staged
      BY <1>8, <2>1, StageIs
    <3> QED BY <1>1, <1>3, <1>6, <1>8, <3>1 DEF Kept, SetAside, Untouched
  <2>2. CASE fs[a].final # None
    <3>1. fs'[a].final = None /\ fs'[a].old = fs[a].final /\ a \in staged'
      BY <1>8, <2>2, StageIs
    <3> QED BY <1>1, <1>3, <1>4, <1>6, <1>8, <3>1 DEF Kept, SetAside, Untouched
  <2> QED BY <2>1, <2>2
<1> QED BY <1>2, <1>7, <1>8 DEF Holding, Rolling

(* What SwapIn replaces is set aside or was missing.                       *)
LEMMA SwapInHolding ==
  ASSUME TypeOK, Control, Holding, SwapIn
  PROVE  Holding'
<1>1. /\ pc = "swap" /\ Way /\ Turn /\ Marks /\ Recovered /\ Missing /\ ~failed /\ want # {}
      /\ before' = before /\ published' = published \cup {art} /\ staged' = staged
  BY SwapInIs DEF Control, Way, Cleaning, Rolling, Early
<1>2. After("swap", IF route = "menu" THEN "verify" ELSE "drop")
  BY SwapInIs
<1>3. art \in want /\ art \in Names /\ pc' \in {"swap", "verify", "drop"}
  BY <1>1, <1>2, SweepDone DEF TypeOK
<1>4. art \notin published
  BY <1>1, DoneIs DEF Marks
<1>5. before[art].old = None
  BY <1>1, <1>3 DEF Recovered, Early
<1>6. \A a \in Names : Kept(a)
  BY <1>1 DEF Holding, Onwards
<1>7. SetAside(art)
  BY <1>3, <1>4, <1>6 DEF Kept
<1>8. art \notin staged => before[art].final = None
  BY <1>1, <1>3 DEF Missing
<1>9. ASSUME NEW a \in Names, a = art
      PROVE  Kept(a)'
  <2>1. fs'[a].old = fs[a].old /\ a \in published'
    BY <1>1, <1>9, SwapInIs
  <2>2. Replaced(a)'
    BY <1>1, <1>5, <1>7, <1>8, <1>9, <2>1 DEF Replaced, SetAside, Untouched
  <2> QED BY <2>1, <2>2 DEF Kept
<1>10. ASSUME NEW a \in Names, a # art
       PROVE  Kept(a)'
  BY <1>1, <1>6, <1>10, SameKept, SwapInIs
<1> QED BY <1>3, <1>9, <1>10 DEF Holding, Rolling

(* No roll back follows once the older files are dropped.                  *)
LEMMA DropHolding ==
  ASSUME TypeOK, Control, Holding, DropOld \/ VerifyPublishedFile \/ DropOldFails
  PROVE  Holding'
<1>1. \/ /\ pc = "verify" /\ fs' = fs /\ UNCHANGED <<before, staged, published>>
         /\ After("verify", "drop")
      \/ pc = "drop" /\ After("drop", "unmount")
  <2>1. CASE DropOld
    BY <2>1, DropOldIs
  <2>2. CASE VerifyPublishedFile
    <3>1. pc = "verify"
      BY <2>2 DEF VerifyPublishedFile
    <3>2. fs' = fs /\ UNCHANGED <<before, staged, published>>
      BY <2>2, StuckIs
    <3>3. After("verify", "drop")
      BY <2>2 DEF VerifyPublishedFile, Each
    <3> QED BY <3>1, <3>2, <3>3
  <2>3. CASE DropOldFails
    <3>1. pc = "drop"
      BY <2>3 DEF DropOldFails
    <3> QED BY <2>3, <3>1, StuckIs DEF Rolling
  <2> QED BY <2>1, <2>2, <2>3
<1>2. Way /\ Turn /\ ~failed /\ want # {}
  BY <1>1 DEF Control, Way, Cleaning, Rolling, Early
<1>3. CASE pc = "verify"
  <2>1. pc' \in {"verify", "drop"}
    BY <1>1, <1>2, <1>3, SweepDone
  <2>2. \A a \in Names : Kept(a)'
    BY <1>1, <1>3, SameKept DEF Holding, Onwards
  <2> QED BY <2>1, <2>2 DEF Holding, Rolling
<1>4. CASE pc = "drop"
  <2>1. pc' \in {"drop", "unmount"} /\ ~failed'
    BY <1>1, <1>2, <1>4, SweepDone
  <2> QED BY <2>1 DEF Holding, Rolling, Onwards, Early, Cleaning
<1> QED BY <1>1, <1>3, <1>4

(* A roll back whose calls succeed brings every artifact from Kept over    *)
(* SetAside to Untouched.                                                  *)
LEMMA RollHolding ==
  ASSUME TypeOK, Control, Holding, RollBackFails \/ Discard \/ Withdraw \/ PutBack
  PROVE  Holding'
<1>1. Onward /\ pc \in Rolling /\ before' = before
  BY DiscardIs, WithdrawIs, PutBackIs, StuckIs DEF RollBackFails, Rolling
<1>2. Way /\ Turn /\ Marks
  BY <1>1 DEF Control, Rolling
<1>3. /\ UNCHANGED <<want, failed, info, route>> /\ pc' \in Rolling \cup {"unmount"}
      /\ art \in want /\ art \in Names
  BY <1>1, <1>2, OnwardIs DEF Rolling, TypeOK
<1>4. pc' \notin Onwards
  BY <1>3 DEF Onwards, Early, Cleaning, Rolling
<1>5. ASSUME NEW a \in Names, ~undone', ~RollBackFails
      PROVE  Rolled(a) /\ undone' = undone /\ staged' = staged /\ published' = published
  BY <1>1, <1>5, DiscardIs, WithdrawIs, PutBackIs DEF Holding
<1>6. ASSUME NEW a \in Names, a \notin want, ~undone', ~RollBackFails
      PROVE  Untouched(a)' /\ a \notin staged' /\ a \notin published'
  <2>1. Rolled(a) /\ a # art /\ staged' = staged /\ published' = published
    BY <1>3, <1>5, <1>6
  <2>2. Untouched(a)
    BY <1>2, <1>6, <2>1, UnwantedIs DEF Rolled
  <2>3. fs'[a].final = fs[a].final /\ fs'[a].old = fs[a].old
    BY <1>6, <2>1, DiscardIs, WithdrawIs, PutBackIs
  <2> QED BY <1>1, <1>2, <1>6, <2>1, <2>2, <2>3 DEF Untouched, Marks
<1>7. ASSUME NEW a \in want, ~undone', ~RollBackFails
      PROVE  IF pc' \in Rolling THEN Rolled(a)' ELSE Untouched(a)'
  <2>1. a \in Names /\ Rolled(a) /\ staged' = staged /\ published' = published
    BY <1>5, <1>7 DEF TypeOK, Artifacts
  <2>2. ASSUME fs'[a].final = fs[a].final, fs'[a].old = fs[a].old
        PROVE  /\ Kept(a) => Kept(a)'
               /\ SetAside(a) => SetAside(a)'
               /\ Untouched(a) => Untouched(a)'
    BY <1>1, <2>1, <2>2, SameKept
  <2>3. CASE Discard
    <3>1. pc = "discard"
      BY <2>3, DiscardIs
    <3>2. /\ pc' \in Rolling => /\ Restored(a)' <=> Restored(a)
                                /\ Withdrawn(a)' <=> Withdrawn(a)
          /\ pc' \in Rolling \/ (pc' = "unmount" /\ Restored(a))
      BY <1>1, <1>2, <3>1, DiscardMeans
    <3>3. fs'[a].final = fs[a].final /\ fs'[a].old = fs[a].old
      BY <2>1, <2>3, DiscardIs
    <3> QED BY <2>1, <2>2, <3>2, <3>3 DEF Rolled
  <2>4. CASE Withdraw
    <3>1. pc = "withdraw"
      BY <2>4, WithdrawIs
    <3>2. /\ pc' \in Rolling
          /\ Restored(a)' <=> Restored(a)
          /\ Withdrawn(a)' <=> Withdrawn(a) \/ a = art
          /\ ~Withdrawn(art) /\ ~Restored(art)
      BY <1>1, <1>2, <3>1, WithdrawMeans
    <3>3. CASE a # art
      <4>1. fs'[a] = fs[a]
        BY <2>1, <2>4, <3>3, WithdrawIs
      <4> QED BY <2>1, <2>2, <3>2, <3>3, <4>1 DEF Rolled
    <3>4. CASE a = art
      <4>1. Kept(a) /\ ~Restored(a)' /\ Withdrawn(a)'
        BY <2>1, <3>2, <3>4 DEF Rolled
      <4>2. /\ fs'[a].old = fs[a].old
            /\ fs'[a].final = IF a \in published THEN None ELSE fs[a].final
        BY <2>1, <2>4, <3>4, WithdrawIs
      <4>3. SetAside(a)'
        BY <1>1, <2>1, <4>1, <4>2 DEF Kept, SetAside, Replaced, Untouched
      <4> QED BY <3>2, <4>1, <4>3 DEF Rolled
    <3> QED BY <3>3, <3>4
  <2>5. CASE PutBack
    <3>1. pc = "putBack"
      BY <2>5, PutBackIs
    <3>2. /\ pc' \in Rolling => /\ Restored(a)' <=> Restored(a) \/ a = art
                                /\ Withdrawn(a)' <=> Withdrawn(a)
          /\ pc' \in Rolling \/ (pc' = "unmount" /\ (Restored(a) \/ a = art))
          /\ Withdrawn(art) /\ ~Restored(art)
      BY <1>1, <1>2, <3>1, PutBackMeans
    <3>3. CASE a # art
      <4>1. fs'[a] = fs[a]
        BY <2>1, <2>5, <3>3, PutBackIs
      <4> QED BY <2>1, <2>2, <3>2, <3>3, <4>1 DEF Rolled
    <3>4. CASE a = art
      <4>1. SetAside(a) /\ (pc' \in Rolling => Restored(a)')
        BY <2>1, <3>2, <3>4 DEF Rolled
      <4>2. IF a \in staged /\ fs[a].final = None
              THEN fs'[a].final = fs[a].old /\ fs'[a].old = None
            ELSE fs'[a] = fs[a]
        BY <2>1, <2>5, <3>4, PutBackIs
      <4>3. Untouched(a)'
        BY <1>1, <2>1, <4>1, <4>2 DEF SetAside, Untouched
      <4> QED BY <4>1, <4>3 DEF Rolled
    <3> QED BY <3>3, <3>4
  <2> QED BY <1>7, <2>3, <2>4, <2>5
<1>8. ASSUME NEW a \in Names, ~undone'
      PROVE  IF pc' \in Rolling THEN Rolled(a)' ELSE Untouched(a)'
  <2>1. ~RollBackFails
    BY <1>8 DEF RollBackFails
  <2>2. CASE a \in want
    BY <1>7, <1>8, <2>1, <2>2
  <2>3. CASE a \notin want
    <3>1. Untouched(a)' /\ a \notin staged' /\ a \notin published'
      BY <1>6, <1>8, <2>1, <2>3
    <3> QED BY <3>1 DEF Rolled, SetAside, Kept
  <2> QED BY <2>2, <2>3
<1> QED BY <1>3, <1>4, <1>8 DEF Holding, Rolling

(* Every step keeps what the names hold.                                   *)
LEMMA HoldingStep ==
  ASSUME TypeOK, Control, Holding, Next, pc' # "idle"
  PROVE  Holding'
<1>1. CASE Start
  <2>1. /\ pc' = "mount" /\ staged' = {} /\ published' = {}
        /\ fs' = fs /\ before' = fs
    BY <1>1 DEF Start, Fresh
  <2>2. \A a \in Names : Kept(a)'
    BY <2>1 DEF Kept, SetAside, Untouched
  <2> QED BY <2>1, <2>2 DEF Holding, Rolling
<1>2. CASE Unmount \/ UnmountFails \/ PowerCut
  BY <1>2 DEF Unmount, UnmountFails, PowerCut, Go
<1> QED BY <1>1, <1>2, QuietHolding, RecoverHolding, StageHolding, SwapInHolding,
           DropHolding, RollHolding, NextIs

(* A run that ends in failure has been rolled back.                        *)
LEMMA AllOrNothingStep ==
  ASSUME TypeOK, Control, Holding, AllOrNothing, Next
  PROVE  AllOrNothing'
<1>1. pc' # "idle" => outcome' = "running"
  BY WayStep DEF Control
<1>2. Artifacts' \subseteq Names
  BY DEF Artifacts
<1>3. CASE pc' # "idle"
  BY <1>1, <1>3 DEF AllOrNothing
<1>4. CASE Unmount
  <2>1. /\ pc = "unmount" /\ UNCHANGED <<fs, before, undone>>
        /\ outcome' = "failed" => failed
    BY <1>4 DEF Unmount, Files
  <2>2. failed /\ ~undone => \A a \in Names : Untouched(a)
    BY <2>1 DEF Holding
  <2> QED BY <1>2, <2>1, <2>2 DEF AllOrNothing, Untouched
<1>5. CASE UnmountFails \/ PowerCut
  <2>1. outcome' # "failed"
    BY <1>5 DEF UnmountFails, PowerCut
  <2> QED BY <2>1 DEF AllOrNothing
<1>6. CASE Quietly /\ pc' = "idle"
  <2>1. Still /\ UNCHANGED pc
    BY <1>6, StillStep, MoveStep DEF Control, Move, Onwards, Early, Cleaning, Rolling
  <2>2. /\ UNCHANGED <<before, undone, outcome, head>>
        /\ \A a \in Names : fs'[a].final = fs[a].final /\ fs'[a].old = fs[a].old
    BY <2>1 DEF Still
  <2>3. Artifacts' = Artifacts
    BY <2>2 DEF Artifacts, cart
  <2> QED BY <1>2, <2>2, <2>3 DEF AllOrNothing
<1>7. CASE Start
  BY <1>3, <1>7 DEF Start
<1>8. CASE Recover \/ Stage \/ SwapIn \/ DropOld \/ VerifyPublishedFile \/ DropOldFails
  <2>1. pc' # "idle"
    BY <1>8 DEF Recover, Stage, SwapIn, DropOld, VerifyPublishedFile, DropOldFails, Each,
           After
  <2> QED BY <1>3, <2>1
<1>9. CASE RollBackFails \/ Discard \/ Withdraw \/ PutBack
  <2>1. Onward
    BY <1>9, DiscardIs, WithdrawIs, PutBackIs DEF RollBackFails
  <2>2. pc' # "idle"
    BY <2>1, OnwardIs DEF Rolling, Control
  <2> QED BY <1>3, <2>2
<1> QED BY <1>3, <1>4, <1>5, <1>6, <1>7, <1>8, <1>9, NextIs

-----------------------------------------------------------------------------
(* The first state has nothing to roll back.                               *)
LEMMA Initial == Init => IInv
<1> SUFFICES ASSUME Init PROVE IInv
  OBVIOUS
<1>1. /\ pc = "idle" /\ art = "rom" /\ want = {} /\ run = 0
      /\ before = fs /\ outcome = "none"
  BY DEF Init
<1>2. fs \in [Names -> [final : Int, temp : Int, old : Int]]
  <2>1. PICK older \in {None, 0} :
          fs = [a \in Names |->
                  IF a \in Artifacts THEN [Found EXCEPT !.final = older] ELSE Found]
    BY DEF Init
  <2>2. older \in Int /\ Found \in [final : Int, temp : Int, old : Int]
    BY <2>1 DEF None, Found
  <2>3. [Found EXCEPT !.final = older] \in [final : Int, temp : Int, old : Int]
    BY <2>2
  <2> HIDE DEF Found
  <2> QED BY <2>1, <2>2, <2>3
<1> QED BY <1>1, <1>2 DEF IInv, TypeOK, Control, Holding, AllOrNothing, Names,
           Onwards, Early, Cleaning, Rolling

(* Every step, and every stutter, preserves the invariant.                 *)
LEMMA Inductive ==
  ASSUME IInv, [Next]_vars
  PROVE  IInv'
<1> USE DEF IInv
<1>1. CASE Next
  <2>1. TypeOK' /\ AllOrNothing'
    BY <1>1, TypeStep, AllOrNothingStep DEF Control
  <2>2. pc' # "idle" => outcome' = "running" /\ Way' /\ Turn'
    BY <1>1, WayStep DEF Control
  <2>3. pc' # "idle" => Marks' /\ Recovered' /\ Missing' /\ Holding'
    BY <1>1, MarksStep, RecoveredStep, MissingStep, HoldingStep
  <2>4. Control'
    BY <2>2, <2>3 DEF Control
  <2>5. Holding'
    BY <2>3 DEF Holding, Onwards, Early, Cleaning, Rolling
  <2> QED BY <2>1, <2>4, <2>5
<1>2. CASE UNCHANGED vars
  <2> USE <1>2 DEF vars, task, marks, history
  <2>1. UNCHANGED <<pc, failed, info, route, want, art, staged, published, fs, head, run,
                    before, outcome, undone>>
    OBVIOUS
  <2> QED BY <2>1 DEF TypeOK, Control, Way, Turn, AtFirst, First, Marks, Recovered,
          Missing, Done, Holding, Kept, SetAside, Replaced, Untouched, Rolled, Restored,
          Withdrawn, AllOrNothing, Artifacts, cart
<1> QED BY <1>1, <1>2

(* The inductive invariant holds. *)
THEOREM Invariance == Spec => []IInv
<1>1. Init => IInv
  BY Initial
<1>2. IInv /\ [Next]_vars => IInv'
  BY Inductive
<1> QED BY <1>1, <1>2, PTL DEF Spec

(* The variables the proofs are about keep their types.                    *)
THEOREM TypeCorrect == Spec => []TypeOK
<1>1. IInv => TypeOK
  BY DEF IInv
<1> QED BY <1>1, Invariance, PTL

(* A run that fails, at any call, in any phase and asked for by whomever,  *)
(* leaves the names of ROM, save and clock as its recovery left them,      *)
(* unless a call of the roll back itself failed (cart_backup.c and         *)
(* pc_sd.c, Cleanup).                                                      *)
THEOREM ReplacesAllOrNothing == Spec => []AllOrNothing
<1>1. IInv => AllOrNothing
  BY DEF IInv
<1> QED BY <1>1, Invariance, PTL

-----------------------------------------------------------------------------
(* What is known of a temporary file is known of the file the step leaves. *)
Carried(a) == \/ a \in want /\ Written(a) /\ fs'[a].temp = fs[a].temp
              \/ fs'[a].temp = run
              \/ pc = "finish" /\ ~Whole /\ fs'[a].temp = Bad

(* A quiet action after which a temporary file counts as written has just  *)
(* written it, or found it so.                                             *)
LEMMA QuietWritten ==
  ASSUME TypeOK, Control, Quietly, pc # "idle", NEW a \in want', Written(a)'
  PROVE  Carried(a)
<1> USE DEF Go, Bank, Fault, Steady, Files, Chip, history, task, Carried
<1>a. Way /\ Turn /\ art \in Names
  BY DEF Control, TypeOK
<1>b. ASSUME Cleanup
      PROVE  FALSE
  BY <1>b DEF Cleanup, Written
<1>c. a \in Names
  BY TypeStep DEF TypeOK, Artifacts, Quietly, Next, Proceed, RomWriterTask, Faults, Control
<1>d. ASSUME art' = First'
      PROVE  ~Done(a)'
  <2>1. want' \subseteq Names
    BY TypeStep DEF TypeOK, Artifacts, Quietly, Next, Proceed, RomWriterTask, Faults,
           Control
  <2> QED BY <1>d, <2>1, LeastIs, RankIs DEF First, Done
<1>e. ASSUME OpenTemp(art) = fs'
      PROVE  a = art \/ fs'[a].temp = fs[a].temp
  BY <1>c, <1>e DEF OpenTemp, TypeOK
<1>1. CASE BeginUpload
  <2>1. /\ OpenTemp(art) = fs' /\ pc = "upload" /\ UNCHANGED <<want, art, route>>
        /\ pc' \in {"begin", "enable", "finish"}
    BY <1>1 DEF BeginUpload
  <2>2. Done(a)'
    BY <2>1 DEF Written
  <2>3. Done(a) /\ route # "menu"
    BY <1>a, <2>1, <2>2 DEF Done, Way
  <2>4. a # art
    BY <1>a, <2>1, <2>3, RankIs DEF Done
  <2> QED BY <1>e, <2>1, <2>3, <2>4 DEF Written
<1>2. CASE Exit
  <2>1. fs' = fs /\ UNCHANGED <<want, route, failed, info, art>> /\ art' = First'
        /\ pc \in {"exit", "release"}
    BY <1>2, <1>a DEF Exit, Turn, AtFirst, Cleaning, First
  <2>2. ~Done(a)'
    BY <1>d, <2>1
  <2> QED BY <1>2, <1>a, <2>1, <2>2 DEF Exit, Written, AfterSession, RollBack, Way
<1>3. CASE FinishFile
  <2>1. /\ pc = "finish" /\ After("finish", "stage") /\ want # {}
        /\ fs' = [fs EXCEPT ![art].temp = IF Whole THEN run ELSE Bad]
    BY <1>3, <1>a DEF FinishFile, Close, Each, Way, Early, Cleaning, Rolling
  <2>2. /\ want' = want
        /\ \/ pc' = "finish" /\ \A b \in want : Done(b)' <=> Rank[b] <= Rank[art]
           \/ pc' = "stage" /\ \A b \in want : Rank[b] <= Rank[art]
    BY <1>a, <2>1, SweepDone
  <2>3. Rank[a] <= Rank[art]
    BY <2>2 DEF Written
  <2>4. Done(a) \/ a = art
    BY <1>a, <2>1, <2>2, <2>3, DoneIs
  <2>5. fs'[a].temp = IF a = art THEN IF Whole THEN run ELSE Bad ELSE fs[a].temp
    BY <1>c, <2>1 DEF TypeOK
  <2> QED BY <2>1, <2>2, <2>4, <2>5 DEF Written
<1>4. CASE BackupEnd
  <2>1. /\ pc = "finish" /\ After("upload", "restore") /\ want # {}
        /\ fs' = [fs EXCEPT ![art].temp = IF Whole THEN run ELSE Bad]
    BY <1>4, <1>a DEF BackupEnd, Close, Each, Way, Early, Cleaning, Rolling
  <2>2. /\ want' = want
        /\ \/ pc' = "upload" /\ \A b \in want : Done(b)' <=> Rank[b] <= Rank[art]
           \/ pc' = "restore" /\ \A b \in want : Rank[b] <= Rank[art]
    BY <1>a, <2>1, SweepDone
  <2>3. Rank[a] <= Rank[art]
    BY <2>2 DEF Written
  <2>4. Done(a) \/ a = art
    BY <1>a, <2>1, <2>2, <2>3, DoneIs
  <2>5. fs'[a].temp = IF a = art THEN IF Whole THEN run ELSE Bad ELSE fs[a].temp
    BY <1>c, <2>1 DEF TypeOK
  <2> QED BY <2>1, <2>2, <2>4, <2>5 DEF Written
<1>5. CASE Release
  <2>1. fs' = fs /\ UNCHANGED <<want, route, failed, info, art>> /\ art' = First'
        /\ pc \in {"exit", "release"}
    BY <1>5, <1>a DEF Release, Turn, AtFirst, Cleaning, First
  <2>2. ~Done(a)'
    BY <1>d, <2>1
  <2> QED BY <1>5, <1>a, <2>1, <2>2 DEF Release, Written, AfterSession, RollBack, Way
<1> USE DEF Written, Done, Way, Turn, AtFirst, AfterSession, RollBack, Early, Cleaning,
       Rolling
<1>6. CASE Mount
  BY <1>6, <1>a DEF Mount
<1>7. CASE Enter
  BY <1>7, <1>a DEF Enter
<1>8. CASE ReadHeader
  BY <1>8, <1>a DEF ReadHeader
<1>9. CASE ProbeRtc
  BY <1>9, <1>a DEF ProbeRtc
<1>10. CASE StreamBank
  BY <1>10, <1>a DEF StreamBank
<1>11. CASE OpenRom
  BY <1>11, <1>a DEF OpenRom
<1>12. CASE TakeBuffer
  BY <1>12, <1>a, <1>b DEF TakeBuffer
<1>13. CASE BeginRomBankRange
  BY <1>13, <1>a DEF BeginRomBankRange
<1>14. CASE ReadBank
  BY <1>14, <1>a DEF ReadBank
<1>15. CASE StopRomWriter
  BY <1>15, <1>a DEF StopRomWriter
<1>16. CASE RomWriterStopped
  BY <1>16, <1>b DEF RomWriterStopped
<1>17. CASE CheckSum
  BY <1>17, <1>a, <1>b DEF CheckSum
<1>18. CASE OpenSave
  BY <1>18, <1>a DEF OpenSave
<1>19. CASE EnableRam
  BY <1>19, <1>a DEF EnableRam
<1>20. CASE SelectRam
  BY <1>20, <1>a DEF SelectRam
<1>21. CASE ReadRam
  BY <1>21, <1>a DEF ReadRam
<1>22. CASE RestoreMapper
  BY <1>22, <1>a DEF RestoreMapper
<1>23. CASE WriterTake
  BY <1>23, <1>a DEF WriterTake
<1>24. CASE Write
  BY <1>24, <1>a DEF Write
<1>25. CASE HeaderFails
  BY <1>25, <1>b DEF HeaderFails
<1>26. CASE ProbeFails
  BY <1>26, <1>b DEF ProbeFails
<1>27. CASE UploadFails
  BY <1>27, <1>b DEF UploadFails
<1>28. CASE OpenFails
  BY <1>28, <1>b DEF OpenFails
<1>29. CASE BeginFails
  BY <1>29, <1>b DEF BeginFails
<1>30. CASE WriteFails
  BY <1>30, <1>a DEF WriteFails
<1>31. CASE RamFails
  BY <1>31, <1>b DEF RamFails
<1>32. CASE RestoreFails
  BY <1>32, <1>a DEF RestoreFails
<1>33. CASE ExitFails
  BY <1>33, <1>a DEF ExitFails
<1>34. CASE CallFails
  BY <1>34, <1>b DEF CallFails
<1>35. CASE AbortFails
  BY <1>35, <1>a DEF AbortFails
<1> QED BY <1>1, <1>2, <1>3, <1>4, <1>5, <1>6, <1>7, <1>8, <1>9, <1>10, <1>11, <1>12, <1>13,
       <1>14, <1>15, <1>16, <1>17, <1>18, <1>19, <1>20, <1>21, <1>22, <1>23, <1>24, <1>25,
       <1>26, <1>27, <1>28, <1>29, <1>30, <1>31, <1>32, <1>33, <1>34, <1>35
       DEF Quietly

(* Any step after which it counts as written has done so.                  *)
LEMMA CarriedStep ==
  ASSUME IInv, Next, NEW a \in want', Written(a)'
  PROVE  Carried(a) /\ run' = run
<1> USE DEF IInv
<1>1. TypeOK' /\ a \in Names /\ pc' # "idle"
  BY TypeStep DEF TypeOK, Artifacts, Control, Written
<1>2. CASE Quietly /\ pc # "idle"
  BY <1>2, QuietWritten, StillStep DEF Still
<1>3. CASE Quietly /\ pc = "idle"
  BY <1>1, <1>3, MoveStep DEF Move, Onwards, Early, Cleaning
<1>4. CASE Recover
  <2>1. /\ pc = "recover" /\ Turn /\ want # {}
        /\ After("recover", IF route = "menu" THEN "open" ELSE "upload")
    BY <1>4, RecoverIs DEF Control, Way, Early, Cleaning, Rolling
  <2>2. /\ want' = want
        /\ \/ pc' = "recover"
           \/ pc' \in {"open", "upload"} /\ art' = First
    BY <2>1, SweepDone
  <2>3. art' = First => ~Done(a)'
    <3>1. want \subseteq Names
      BY DEF TypeOK, Artifacts
    <3> QED BY <2>1, <2>2, <3>1, FirstIs DEF Done
  <2> QED BY <2>2, <2>3 DEF Written
<1>5. CASE Stage \/ SwapIn
  <2>1. /\ Turn /\ want # {} /\ run' = run
        /\ \/ pc = "stage" /\ After("stage", "swap") /\ fs'[a].temp = fs[a].temp
           \/ /\ pc = "swap" /\ After("swap", IF route = "menu" THEN "verify" ELSE "drop")
              /\ a # art => fs'[a] = fs[a]
    <3>1. pc \in {"stage", "swap"}
      BY <1>5, StageIs, SwapInIs
    <3>2. Turn /\ want # {}
      BY <3>1 DEF Control, Way, Early, Cleaning, Rolling
    <3>3. CASE Stage
      BY <1>1, <3>2, <3>3, StageIs
    <3>4. CASE SwapIn
      BY <1>1, <3>2, <3>4, SwapInIs
    <3> QED BY <1>5, <3>3, <3>4
  <2>2. CASE pc = "stage"
    <3>1. want' = want
      BY <2>1, <2>2, SweepDone
    <3> QED BY <2>1, <2>2, <3>1 DEF Carried, Written
  <2>3. CASE pc = "swap"
    <3>1. After("swap", IF route = "menu" THEN "verify" ELSE "drop")
      BY <2>1, <2>3
    <3>2. /\ want' = want /\ pc' \in {"swap", "verify", "drop"}
          /\ pc' = "swap" => (Done(a)' <=> Rank[a] <= Rank[art])
      BY <2>1, <3>1, SweepDone
    <3>3. ~Done(a) /\ a # art
      BY <2>1, <3>2, DoneIs DEF Written
    <3> QED BY <2>1, <2>3, <3>2, <3>3 DEF Carried, Written
  <2> QED BY <2>1, <2>2, <2>3
<1>6. CASE DropOld \/ VerifyPublishedFile \/ DropOldFails
  <2>1. pc' \in {"verify", "drop", "unmount"}
    BY <1>6 DEF DropOld, VerifyPublishedFile, DropOldFails, Each, After
  <2> QED BY <2>1 DEF Written
<1>7. CASE RollBackFails \/ Discard \/ Withdraw \/ PutBack
  <2>1. Onward
    BY <1>7, DiscardIs, WithdrawIs, PutBackIs DEF RollBackFails
  <2>2. pc' \in Rolling \cup {"unmount"}
    BY <2>1, OnwardIs DEF Rolling, Control
  <2> QED BY <2>2 DEF Written, Rolling
<1>8. CASE Start \/ Unmount \/ UnmountFails \/ PowerCut
  BY <1>8 DEF Start, Unmount, UnmountFails, PowerCut, Go, Written
<1> QED BY <1>2, <1>3, <1>4, <1>5, <1>6, <1>7, <1>8, NextIs

(* Before a file is swapped in, it was closed by this run.                 *)
LEMMA WrittenStep ==
  ASSUME IInv, Keeping, Next, NEW a \in want', Written(a)'
  PROVE  fs'[a].temp \in {run', Bad}
<1>1. Carried(a) /\ run' = run
  BY CarriedStep
<1>2. a \in want /\ Written(a) => fs[a].temp \in {run, Bad}
  BY DEF Keeping
<1> QED BY <1>1, <1>2 DEF Carried

-----------------------------------------------------------------------------
(* What a sequence of writes does to the chip: one step per write, from    *)
(* h[0] to h[n].  No plan has more than five.                              *)
Trace(i, r, w, len, h) ==
  /\ h[0] = r /\ ChipWrites(i, r, w) = h[len]
  /\ \A k \in 1 .. len : h[k] = ChipWrite(i, h[k - 1], w[k])

(* What a few writes do is the last of a trace of them.                    *)
LEMMA WritesAre ==
  ASSUME NEW i, NEW r, NEW w, NEW len \in 0 .. 5, Len(w) = len
  PROVE  \E h : Trace(i, r, w, len, h)
<1>0. \A k \in 1 .. len : k \in {1, 2, 3, 4, 5}
  OBVIOUS
<1> DEFINE Is(f) == f = [k \in 0 .. Len(w) |-> IF k = 0 THEN r
                                               ELSE ChipWrite(i, f[k - 1], w[k])]
           S(x, k) == ChipWrite(i, x, w[k])
           s1 == S(r, 1)
           s2 == S(s1, 2)
           s3 == S(s2, 3)
           s4 == S(s3, 4)
           s5 == S(s4, 5)
           g == [k \in 0 .. len |-> IF k = 0 THEN r ELSE IF k = 1 THEN s1
                                  ELSE IF k = 2 THEN s2 ELSE IF k = 3 THEN s3
                                  ELSE IF k = 4 THEN s4 ELSE s5]
           h == CHOOSE f : Is(f)
<1>1. Is(g)
  <2>1. ASSUME NEW k \in 1 .. len
        PROVE  g[k] = S(g[k - 1], k)
    BY <1>0
  <2> QED BY <2>1
<1>2. Is(h)
  BY <1>1
<1>3. ChipWrites(i, r, w) = h[len]
  BY DEF ChipWrites
<1> HIDE DEF h
<1>4. h[0] = r /\ \A k \in 1 .. len : h[k] = ChipWrite(i, h[k - 1], w[k])
  BY <1>2
<1> QED BY <1>3, <1>4 DEF Trace

(* No write changes nothing.                                               *)
LEMMA NoWrites ==
  ASSUME NEW i, NEW r
  PROVE  ChipWrites(i, r, << >>) = r
<1>1. PICK h : Trace(i, r, << >>, 0, h)
  BY WritesAre
<1> QED BY <1>1 DEF Trace

(* A write after a few others does to the chip what it does on its own.    *)
LEMMA WritesAppend ==
  ASSUME NEW i, NEW r, NEW X, NEW s \in Seq(X), NEW len \in 0 .. 4, Len(s) = len, NEW w \in X
  PROVE  ChipWrites(i, r, Append(s, w)) = ChipWrite(i, ChipWrites(i, r, s), w)
<1>1. /\ Len(Append(s, w)) = len + 1 /\ Append(s, w)[len + 1] = w
      /\ \A k \in 1 .. len : Append(s, w)[k] = s[k]
      /\ len + 1 \in 0 .. 5 /\ len \in 0 .. 5
  OBVIOUS
<1>2. PICK h : Trace(i, r, s, len, h)
  BY <1>1, WritesAre
<1>3. PICK g : Trace(i, r, Append(s, w), len + 1, g)
  BY <1>1, WritesAre
<1>4. /\ g[0] = h[0]
      /\ \A k \in 1 .. len : g[k - 1] = h[k - 1] => g[k] = h[k]
  BY <1>1, <1>2, <1>3 DEF Trace
<1>5. g[len] = h[len]
  BY <1>4
<1>6. g[len + 1] = ChipWrite(i, g[len], w)
  BY <1>1, <1>3 DEF Trace
<1> QED BY <1>2, <1>3, <1>5, <1>6 DEF Trace

(* One, two, three and four writes, one after the other.                   *)
LEMMA OneWrite ==
  ASSUME NEW i, NEW r, NEW a
  PROVE  ChipWrites(i, r, <<a>>) = ChipWrite(i, r, a)
<1>1. PICK h : Trace(i, r, <<a>>, 1, h)
  BY WritesAre
<1> QED BY <1>1 DEF Trace

(* Two writes.                                                             *)
LEMMA TwoWrites ==
  ASSUME NEW i, NEW r, NEW a, NEW b
  PROVE  ChipWrites(i, r, <<a, b>>) = ChipWrite(i, ChipWrite(i, r, a), b)
<1>1. PICK h : Trace(i, r, <<a, b>>, 2, h)
  BY WritesAre
<1>2. h[1] = ChipWrite(i, r, a) /\ h[2] = ChipWrite(i, h[1], b)
  BY <1>1 DEF Trace
<1> QED BY <1>1, <1>2 DEF Trace

(* Three writes.                                                           *)
LEMMA ThreeWrites ==
  ASSUME NEW i, NEW r, NEW a, NEW b, NEW c
  PROVE  ChipWrites(i, r, <<a, b, c>>)
           = ChipWrite(i, ChipWrite(i, ChipWrite(i, r, a), b), c)
<1>0. Len(<<a, b, c>>) = 3 /\ 3 \in 0 .. 5
  OBVIOUS
<1>1. PICK h : Trace(i, r, <<a, b, c>>, 3, h)
  BY Zenon, <1>0, WritesAre
<1>2. h[1] = ChipWrite(i, r, a) /\ h[2] = ChipWrite(i, h[1], b)
      /\ h[3] = ChipWrite(i, h[2], c)
  BY <1>1 DEF Trace
<1> QED BY <1>1, <1>2 DEF Trace

(* Four writes.                                                            *)
LEMMA FourWrites ==
  ASSUME NEW i, NEW r, NEW a, NEW b, NEW c, NEW d
  PROVE  ChipWrites(i, r, <<a, b, c, d>>)
           = ChipWrite(i, ChipWrite(i, ChipWrite(i, ChipWrite(i, r, a), b), c), d)
<1>0. Len(<<a, b, c, d>>) = 4 /\ 4 \in 0 .. 5
  OBVIOUS
<1>1. PICK h : Trace(i, r, <<a, b, c, d>>, 4, h)
  BY Zenon, <1>0, WritesAre
<1>2. h[1] = ChipWrite(i, r, a) /\ h[2] = ChipWrite(i, h[1], b)
      /\ h[3] = ChipWrite(i, h[2], c) /\ h[4] = ChipWrite(i, h[3], d)
  BY <1>1 DEF Trace
<1> QED BY <1>1, <1>2 DEF Trace

(* The sizes a supported cartridge has. *)
Sized(i) ==
  /\ i.kind \in {"rom_only", "mbc1", "mbc2", "mbc3", "mbc5", "huc1"}
  /\ i.banks \in Nat /\ i.banks > 1 /\ i.ramBanks \in Nat
  /\ i.kind = "rom_only" => i.banks = 2 /\ i.ramBanks <= 1
  /\ i.kind = "mbc1" => i.banks <= 128 /\ i.ramBanks <= 4
  /\ i.kind = "mbc2" => i.banks <= 16 /\ i.ramBanks <= 1
  /\ i.kind = "mbc3" => i.banks <= (IF i.mbc30 THEN 256 ELSE 128) /\ i.ramBanks <= 8
  /\ i.kind = "mbc5" => i.banks <= 512 /\ i.ramBanks <= 16
  /\ i.kind = "huc1" => i.banks <= 64 /\ i.ramBanks <= 4

(* The geometry of every header the program supports keeps to them.        *)
LEMMA SupportedIsSized ==
  ASSUME NEW h, Supported(h)
  PROVE  Sized(Info(h))
<1> DEFINE k == Kind(h.type)
<1>1. k \in {"rom_only", "mbc1", "mbc2", "mbc3", "mbc5", "huc1"}
  BY DEF Supported, Kind
<1>2. RamSize(h.ramCode) \in Int
  BY DEF RamSize
<1>3. /\ Info(h).kind = k /\ Info(h).mbc30 = IsMbc30(h) /\ Info(h).banks = RomBanks(h.romCode)
      /\ Info(h).ramBanks = IF ~HasRam(h.type) THEN 0 ELSE IF k = "mbc2" THEN 1
                            ELSE (RamSize(h.ramCode) + 7) \div 8
  BY DEF Info
<1> HIDE DEF k
<1>4. RomBanks(h.romCode) \in 2 .. MaxRomBanks(h)
  BY DEF Supported
<1>5. /\ k = "rom_only" => MaxRomBanks(h) = 2 /\ MaxRamSize(h) = 8
      /\ k = "mbc1" => MaxRomBanks(h) = 128 /\ MaxRamSize(h) = 32
      /\ k = "mbc2" => MaxRomBanks(h) = 16
      /\ k = "mbc3" => /\ MaxRomBanks(h) = (IF IsMbc30(h) THEN 256 ELSE 128)
                       /\ MaxRamSize(h) <= 64
      /\ k = "mbc5" => MaxRomBanks(h) = 512 /\ MaxRamSize(h) <= 128
      /\ k = "huc1" => MaxRomBanks(h) = 64 /\ MaxRamSize(h) = 32
      /\ MaxRamSize(h) \in Int /\ MaxRomBanks(h) \in Int
  BY <1>1 DEF MaxRomBanks, MaxRamSize, k
<1>6. HasRam(h.type) /\ k # "mbc2" => RamSize(h.ramCode) \in 1 .. MaxRamSize(h)
  BY DEF Supported, k
<1>7. /\ Info(h).banks \in Nat /\ Info(h).banks > 1
      /\ k = "rom_only" => Info(h).banks = 2
      /\ k = "mbc1" => Info(h).banks <= 128
      /\ k = "mbc2" => Info(h).banks <= 16
      /\ k = "mbc3" => Info(h).banks <= (IF IsMbc30(h) THEN 256 ELSE 128)
      /\ k = "mbc5" => Info(h).banks <= 512
      /\ k = "huc1" => Info(h).banks <= 64
  BY <1>3, <1>4, <1>5
<1>8. ASSUME NEW x \in Nat, NEW y \in Nat, x <= 8 * y
      PROVE  (x + 7) \div 8 \in Nat /\ (x + 7) \div 8 <= y
  BY <1>8
<1>9. /\ Info(h).ramBanks \in Nat
      /\ k = "rom_only" => Info(h).ramBanks <= 1
      /\ k = "mbc1" => Info(h).ramBanks <= 4
      /\ k = "mbc2" => Info(h).ramBanks <= 1
      /\ k = "mbc3" => Info(h).ramBanks <= 8
      /\ k = "mbc5" => Info(h).ramBanks <= 16
      /\ k = "huc1" => Info(h).ramBanks <= 4
  <2>1. CASE ~HasRam(h.type) \/ k = "mbc2"
    BY <1>3, <2>1
  <2>2. CASE HasRam(h.type) /\ k # "mbc2"
    <3>1. /\ RamSize(h.ramCode) \in Nat /\ RamSize(h.ramCode) <= MaxRamSize(h)
          /\ Info(h).ramBanks = (RamSize(h.ramCode) + 7) \div 8
      BY <1>2, <1>3, <1>6, <2>2
    <3> DEFINE m == IF k = "rom_only" THEN 1 ELSE IF k = "mbc1" \/ k = "huc1" THEN 4
                    ELSE IF k = "mbc3" THEN 8 ELSE 16
    <3>2. m \in Nat /\ RamSize(h.ramCode) <= 8 * m
      BY <1>1, <1>5, <2>2, <3>1
    <3>3. Info(h).ramBanks \in Nat /\ Info(h).ramBanks <= m
      <4> HIDE DEF m
      <4> QED BY <1>8, <3>1, <3>2
    <3> QED BY <2>2, <3>3
  <2> QED BY <2>1, <2>2
<1> QED BY <1>1, <1>3, <1>7, <1>9 DEF Sized

(* The registers of a chip, and the writes.                                *)
Registers == [on : BOOLEAN, lo : Nat, hi : Nat, mode : Nat, rb : Nat]
MapperWrites == [address : Nat, value : Nat]

(* A register set to a number leaves a chip with registers.                *)
LEMMA RegisterIs ==
  ASSUME NEW r \in Registers
  PROVE  /\ \A b \in BOOLEAN : [r EXCEPT !.on = b] \in Registers
         /\ \A v \in Nat : /\ [r EXCEPT !.lo = v] \in Registers
                           /\ [r EXCEPT !.hi = v] \in Registers
                           /\ [r EXCEPT !.mode = v] \in Registers
                           /\ [r EXCEPT !.rb = v] \in Registers
BY DEF Registers

(* So does every write.                                                    *)
LEMMA WriteIs ==
  ASSUME NEW i, NEW r \in Registers, NEW w \in MapperWrites
  PROVE  ChipWrite(i, r, w) \in Registers
<1>1. ASSUME NEW k \in Nat \ {0}
      PROVE  w.value % k \in Nat
  BY DEF MapperWrites
<1>2. \A v \in Nat : NonZero(v) \in Nat
  BY DEF NonZero
<1>3. Low(w.value) \in BOOLEAN /\ (w.value # \h0E) \in BOOLEAN
  BY DEF Low
<1>4. /\ w.value \in Nat /\ w.value % 2 \in Nat /\ w.value % 4 \in Nat /\ w.value % 16 \in Nat
      /\ NonZero(w.value % 16) \in Nat
      /\ NonZero(w.value % 32) \in Nat
      /\ NonZero(w.value % 64) \in Nat
      /\ NonZero(w.value % 128) \in Nat
      /\ NonZero(w.value % 256) \in Nat
  BY <1>1, <1>2 DEF MapperWrites
<1>5. /\ [r EXCEPT !.on = Low(w.value)] \in Registers
      /\ [r EXCEPT !.on = w.value # \h0E] \in Registers
      /\ [r EXCEPT !.lo = w.value] \in Registers
      /\ [r EXCEPT !.lo = NonZero(w.value % 16)] \in Registers
      /\ [r EXCEPT !.lo = NonZero(w.value % 32)] \in Registers
      /\ [r EXCEPT !.lo = NonZero(w.value % 64)] \in Registers
      /\ [r EXCEPT !.lo = NonZero(w.value % 128)] \in Registers
      /\ [r EXCEPT !.lo = NonZero(w.value % 256)] \in Registers
      /\ [r EXCEPT !.hi = w.value % 2] \in Registers
      /\ [r EXCEPT !.hi = w.value % 4] \in Registers
      /\ [r EXCEPT !.mode = w.value % 2] \in Registers
      /\ [r EXCEPT !.rb = w.value % 16] \in Registers
  BY Zenon, <1>3, <1>4, RegisterIs
<1> QED BY <1>5 DEF ChipWrite

(* What a write to each area does to the chip.                             *)
LEMMA AreaIs ==
  ASSUME NEW i, NEW r, NEW w, NEW area \in 0 .. 5, w.address \div \h2000 = area
  PROVE  /\ i.kind \in {"mbc1", "mbc3", "mbc5"} /\ area = 0 =>
              ChipWrite(i, r, w) = [r EXCEPT !.on = Low(w.value)]
         /\ i.kind = "huc1" /\ area = 0 =>
              ChipWrite(i, r, w) = [r EXCEPT !.on = w.value # \h0E]
         /\ i.kind = "mbc2" /\ area < 2 =>
              ChipWrite(i, r, w) = IF (w.address \div 256) % 2 = 1
                                   THEN [r EXCEPT !.lo = NonZero(w.value % 16)]
                                   ELSE [r EXCEPT !.on = Low(w.value)]
         /\ i.kind = "mbc1" /\ area = 1 =>
              ChipWrite(i, r, w) = [r EXCEPT !.lo = NonZero(w.value % 32)]
         /\ i.kind = "mbc1" /\ area = 2 => ChipWrite(i, r, w) = [r EXCEPT !.hi = w.value % 4]
         /\ i.kind = "mbc1" /\ area = 3 => ChipWrite(i, r, w) = [r EXCEPT !.mode = w.value % 2]
         /\ i.kind = "mbc3" /\ area = 1 =>
              ChipWrite(i, r, w) =
                [r EXCEPT !.lo = NonZero(w.value % (IF i.mbc30 THEN 256 ELSE 128))]
         /\ i.kind = "huc1" /\ area = 1 =>
              ChipWrite(i, r, w) = [r EXCEPT !.lo = NonZero(w.value % 64)]
         /\ i.kind = "mbc5" /\ area = 1 =>
              ChipWrite(i, r, w) = IF w.address < \h3000 THEN [r EXCEPT !.lo = w.value]
                                   ELSE [r EXCEPT !.hi = w.value % 2]
         /\ i.kind \in {"mbc3", "mbc5", "huc1"} /\ area = 2 =>
              ChipWrite(i, r, w) = [r EXCEPT !.rb = w.value % 16]
         /\ area > 3 => ChipWrite(i, r, w) = r
<1>1. CASE area = 0
  BY <1>1 DEF ChipWrite
<1>2. CASE area = 1
  BY <1>2 DEF ChipWrite
<1>3. CASE area = 2
  BY <1>3 DEF ChipWrite
<1>4. CASE area = 3
  BY <1>4 DEF ChipWrite
<1>5. CASE area > 3
  <2>1. CASE area = 4
    BY <2>1 DEF ChipWrite
  <2>2. CASE area = 5
    BY <2>2 DEF ChipWrite
  <2> QED BY <1>5, <2>1, <2>2
<1> QED BY <1>1, <1>2, <1>3, <1>4, <1>5

(* What each write of a plan does to the chip it is for. *)
LEMMA WIs ==
  ASSUME NEW v
  PROVE  /\ \A a : W(a, v).address = a /\ W(a, v).value = v % 256
         /\ \h0000 \div \h2000 = 0 /\ \h4000 \div \h2000 = 2 /\ \h6000 \div \h2000 = 3
         /\ \hA000 \div \h2000 = 5 /\ (\h0000 \div 256) % 2 = 0
         /\ \h2000 \div \h2000 = 1 /\ \h3000 \div \h2000 = 1 /\ \h2100 \div \h2000 = 1
         /\ (\h2100 \div 256) % 2 = 1
BY DEF W

(* What the writes that switch RAM on and off, and those that choose its   *)
(* bank, do.                                                               *)
LEMMA RamWriteIs ==
  ASSUME NEW i, NEW r, NEW v
  PROVE  /\ i.kind \in {"mbc1", "mbc2", "mbc3", "mbc5"} =>
              ChipWrite(i, r, W(\h0000, v)) = [r EXCEPT !.on = Low(v % 256)]
         /\ i.kind = "huc1" =>
              ChipWrite(i, r, W(\h0000, v)) = [r EXCEPT !.on = (v % 256) # \h0E]
         /\ i.kind = "mbc1" =>
              /\ ChipWrite(i, r, W(\h4000, v)) = [r EXCEPT !.hi = (v % 256) % 4]
              /\ ChipWrite(i, r, W(\h6000, v)) = [r EXCEPT !.mode = (v % 256) % 2]
         /\ i.kind \in {"mbc3", "mbc5", "huc1"} =>
              ChipWrite(i, r, W(\h4000, v)) = [r EXCEPT !.rb = (v % 256) % 16]
         /\ i.kind = "huc1" => ChipWrite(i, r, W(\hA000, v)) = r
<1>1. W(\h0000, v).address \div \h2000 = 0 /\ W(\h0000, v).value = v % 256
      /\ (W(\h0000, v).address \div 256) % 2 = 0
  BY WIs
<1>2. W(\h4000, v).address \div \h2000 = 2 /\ W(\h4000, v).value = v % 256
  BY WIs
<1>3. W(\h6000, v).address \div \h2000 = 3 /\ W(\h6000, v).value = v % 256
  BY WIs
<1>4. W(\hA000, v).address \div \h2000 = 5
  BY WIs
<1>5. /\ i.kind \in {"mbc1", "mbc2", "mbc3", "mbc5"} =>
            ChipWrite(i, r, W(\h0000, v)) = [r EXCEPT !.on = Low(v % 256)]
      /\ i.kind = "huc1" =>
            ChipWrite(i, r, W(\h0000, v)) = [r EXCEPT !.on = (v % 256) # \h0E]
  BY <1>1, AreaIs
<1>6. /\ i.kind = "mbc1" => ChipWrite(i, r, W(\h4000, v)) = [r EXCEPT !.hi = (v % 256) % 4]
      /\ i.kind \in {"mbc3", "mbc5", "huc1"} =>
           ChipWrite(i, r, W(\h4000, v)) = [r EXCEPT !.rb = (v % 256) % 16]
  BY <1>2, AreaIs
<1>7. i.kind = "mbc1" => ChipWrite(i, r, W(\h6000, v)) = [r EXCEPT !.mode = (v % 256) % 2]
  BY <1>3, AreaIs
<1>8. ChipWrite(i, r, W(\hA000, v)) = r
  BY <1>4, AreaIs
<1> QED BY <1>5, <1>6, <1>7, <1>8

(* What the writes that choose a ROM bank do.                              *)
LEMMA RomWriteIs ==
  ASSUME NEW i, NEW r, NEW v
  PROVE  /\ i.kind = "mbc1" =>
              ChipWrite(i, r, W(\h2000, v)) = [r EXCEPT !.lo = NonZero((v % 256) % 32)]
         /\ i.kind = "mbc2" =>
              ChipWrite(i, r, W(\h2100, v)) = [r EXCEPT !.lo = NonZero((v % 256) % 16)]
         /\ i.kind = "mbc3" =>
              ChipWrite(i, r, W(\h2000, v)) =
                [r EXCEPT !.lo = NonZero((v % 256) % (IF i.mbc30 THEN 256 ELSE 128))]
         /\ i.kind = "huc1" =>
              ChipWrite(i, r, W(\h2000, v)) = [r EXCEPT !.lo = NonZero((v % 256) % 64)]
         /\ i.kind = "mbc5" =>
              /\ ChipWrite(i, r, W(\h2000, v)) = [r EXCEPT !.lo = v % 256]
              /\ ChipWrite(i, r, W(\h3000, v)) = [r EXCEPT !.hi = (v % 256) % 2]
<1>1. W(\h2000, v).address \div \h2000 = 1 /\ W(\h2000, v).value = v % 256
      /\ W(\h2000, v).address < \h3000
  BY WIs
<1>2. W(\h2100, v).address \div \h2000 = 1 /\ W(\h2100, v).value = v % 256
      /\ (W(\h2100, v).address \div 256) % 2 = 1
  BY WIs
<1>3. W(\h3000, v).address \div \h2000 = 1 /\ W(\h3000, v).value = v % 256
      /\ ~(W(\h3000, v).address < \h3000)
  BY WIs
<1>4. i.kind = "mbc1" =>
        ChipWrite(i, r, W(\h2000, v)) = [r EXCEPT !.lo = NonZero((v % 256) % 32)]
  BY <1>1, AreaIs
<1>5. i.kind = "mbc2" =>
        ChipWrite(i, r, W(\h2100, v)) = [r EXCEPT !.lo = NonZero((v % 256) % 16)]
  BY <1>2, AreaIs
<1>6. i.kind = "mbc3" =>
        ChipWrite(i, r, W(\h2000, v)) =
          [r EXCEPT !.lo = NonZero((v % 256) % (IF i.mbc30 THEN 256 ELSE 128))]
  BY <1>1, AreaIs
<1>7. i.kind = "huc1" =>
        ChipWrite(i, r, W(\h2000, v)) = [r EXCEPT !.lo = NonZero((v % 256) % 64)]
  BY <1>1, AreaIs
<1>8. i.kind = "mbc5" => /\ ChipWrite(i, r, W(\h2000, v)) = [r EXCEPT !.lo = v % 256]
                         /\ ChipWrite(i, r, W(\h3000, v)) = [r EXCEPT !.hi = (v % 256) % 2]
  BY <1>1, <1>3, AreaIs
<1> QED BY <1>4, <1>5, <1>6, <1>7, <1>8

(* Switching RAM on, bringing a bank of it into view, and switching it off *)
(* again.                                                                  *)
LEMMA RamIsOn ==
  ASSUME NEW i, Sized(i), NEW r \in Registers
  PROVE  /\ ChipWrites(i, r, PlanRamEnable(i)) \in Registers
         /\ i.kind # "rom_only" => ChipWrites(i, r, PlanRamEnable(i)).on
<1>1. CASE i.kind = "rom_only"
  BY <1>1, NoWrites DEF PlanRamEnable
<1>2. CASE i.kind # "rom_only"
  <2>1. ChipWrites(i, r, PlanRamEnable(i)) = ChipWrite(i, r, W(\h0000, \h0A))
    BY <1>2, OneWrite DEF PlanRamEnable
  <2> DEFINE w == W(\h0000, \h0A)
  <2>2. w.value = 10 /\ w.address \div \h2000 = 0 /\ (w.address \div 256) % 2 = 0
    BY DEF W
  <2>3. Low(w.value) /\ w.value # \h0E
    BY <2>2 DEF Low
  <2> HIDE DEF w
  <2>4. \/ ChipWrite(i, r, w) = [r EXCEPT !.on = Low(w.value)]
        \/ ChipWrite(i, r, w) = [r EXCEPT !.on = w.value # \h0E]
    BY <1>2, <2>2, AreaIs DEF Sized
  <2>5. ChipWrite(i, r, w) = [r EXCEPT !.on = TRUE]
    <3>1. [r EXCEPT !.on = Low(w.value)] = [r EXCEPT !.on = TRUE]
      BY <2>3
    <3>2. [r EXCEPT !.on = w.value # \h0E] = [r EXCEPT !.on = TRUE]
      BY <2>3
    <3> QED BY <2>4, <3>1, <3>2
  <2>6. ChipWrite(i, r, w) \in Registers /\ ChipWrite(i, r, w).on
    BY <2>5 DEF Registers
  <2> QED BY <2>1, <2>6 DEF w
<1> QED BY <1>1, <1>2

(* A number that is small enough is its own remainder.                     *)
LEMMA ModIs ==
  ASSUME NEW b \in Nat, NEW m \in Nat, b < m
  PROVE  b % m = b
OBVIOUS

(* After the plan of a RAM bank that bank is the one in view, and RAM is   *)
(* as enabled as it was.                                                   *)
LEMMA RamIsInView ==
  ASSUME NEW i, Sized(i), NEW r \in Registers, i.kind # "rom_only" => r.on,
         NEW b \in Nat, b < i.ramBanks
  PROVE  LET after == ChipWrites(i, r, PlanRamBank(i, b))
         IN  after \in Registers /\ after.on = r.on /\ RamSeen(i, after) = b
<1> DEFINE after == ChipWrites(i, r, PlanRamBank(i, b))
<1>0. b % i.ramBanks = b
  BY ModIs DEF Sized
<1>1. CASE i.kind \in {"rom_only", "mbc2"}
  <2>1. after = r /\ b = 0
    BY <1>1, NoWrites DEF PlanRamBank, Sized
  <2> QED BY <1>1, <2>1 DEF RamSeen
<1>2. CASE i.kind = "mbc1"
  <2>1. after = ChipWrite(i, ChipWrite(i, r, W(\h6000, 1)), W(\h4000, b))
    BY <1>2, TwoWrites DEF PlanRamBank
  <2>2. (1 % 256) % 2 = 1 /\ (b % 256) % 4 = b /\ 1 * b = b
    BY <1>2 DEF Sized
  <2>3. ChipWrite(i, r, W(\h6000, 1)) = [r EXCEPT !.mode = 1]
    BY <1>2, <2>2, RamWriteIs
  <2> DEFINE x == [r EXCEPT !.mode = 1]
  <2> HIDE DEF x
  <2>4. after = [x EXCEPT !.hi = (b % 256) % 4]
    <3>1. ChipWrite(i, x, W(\h4000, b)) = [x EXCEPT !.hi = (b % 256) % 4]
      BY <1>2, RamWriteIs
    <3> QED BY <2>1, <2>3, <3>1 DEF x
  <2>5. /\ after \in Registers /\ after.on = r.on /\ after.mode = 1 /\ after.hi = b
    <3>1. after = [x EXCEPT !.hi = b]
      BY <2>2, <2>4
    <3>2. x \in Registers /\ x.on = r.on /\ x.mode = 1
      BY DEF x, Registers
    <3> HIDE DEF after
    <3> QED BY <3>1, <3>2 DEF Registers
  <2> HIDE DEF after
  <2>6. RamSeen(i, after) = (after.mode * after.hi) % i.ramBanks
    BY <1>2, <2>5 DEF RamSeen
  <2>7. after.mode * after.hi = b
    BY <2>2, <2>5
  <2> QED BY <1>0, <2>5, <2>6, <2>7 DEF after
<1>3. CASE i.kind \in {"mbc3", "huc1", "mbc5"}
  <2>1. \E v \in {b, b % 16} : after = ChipWrite(i, r, W(\h4000, v))
    BY <1>3, OneWrite DEF PlanRamBank
  <2>2. (b % 256) % 16 = b /\ ((b % 16) % 256) % 16 = b
    BY <1>3 DEF Sized
  <2>3. after = [r EXCEPT !.rb = b]
    BY <1>3, <2>1, <2>2, RamWriteIs
  <2>4. after \in Registers /\ after.on = r.on /\ after.rb = b
    BY <2>3 DEF Registers
  <2> HIDE DEF after
  <2>5. RamSeen(i, after) = after.rb % i.ramBanks
    BY <1>3, <2>4 DEF RamSeen
  <2> QED BY <1>0, <2>4, <2>5 DEF after
<1> QED BY <1>1, <1>2, <1>3 DEF Sized

(* A write that does not go where RAM is switched. *)
Elsewhere(i, w) == /\ w \in MapperWrites /\ w.address \div \h2000 \in 1 .. 5
                   /\ i.kind = "mbc2" => (w.address \div 256) % 2 = 1

(* It leaves RAM as enabled as it was.                                     *)
LEMMA OnStays ==
  ASSUME NEW i, NEW r \in Registers, NEW w, Elsewhere(i, w)
  PROVE  ChipWrite(i, r, w) \in Registers /\ ChipWrite(i, r, w).on = r.on
<1>1. ASSUME NEW y
      PROVE  /\ [r EXCEPT !.lo = y].on = r.on /\ [r EXCEPT !.hi = y].on = r.on
             /\ [r EXCEPT !.mode = y].on = r.on /\ [r EXCEPT !.rb = y].on = r.on
  BY DEF Registers
<1>2. ChipWrite(i, r, w).on = r.on
  BY <1>1 DEF ChipWrite, Elsewhere
<1> QED BY <1>2, WriteIs DEF Elsewhere

(* After the plan that restores the mapper RAM is off.                     *)
LEMMA RamIsOff ==
  ASSUME NEW i, i.kind \in {"mbc1", "mbc2", "mbc3", "mbc5", "huc1"}, NEW r \in Registers
  PROVE  ~ChipWrites(i, r, PlanRestore(i)).on
<1> DEFINE w == W(\h0000, IF i.kind = "huc1" THEN \h0E ELSE 0)
           off == ChipWrite(i, r, w)
           after == ChipWrites(i, r, PlanRestore(i))
<1>1. off \in Registers /\ ~off.on
  <2>1. /\ w.value = (IF i.kind = "huc1" THEN \h0E ELSE 0) /\ w \in MapperWrites
        /\ w.address \div \h2000 = 0 /\ (w.address \div 256) % 2 = 0
    BY DEF W, MapperWrites
  <2> HIDE DEF w
  <2>2. \/ off = [r EXCEPT !.on = Low(w.value)] /\ w.value = 0
        \/ off = [r EXCEPT !.on = w.value # \h0E] /\ w.value = \h0E
    BY <2>1, AreaIs
  <2> HIDE DEF off
  <2>a. \A x : x = [r EXCEPT !.on = FALSE] => x \in Registers /\ ~x.on
    BY DEF Registers
  <2>3. CASE off = [r EXCEPT !.on = Low(w.value)] /\ w.value = 0
    <3>1. Low(w.value) = FALSE
      BY <2>3 DEF Low
    <3>2. [r EXCEPT !.on = Low(w.value)] = [r EXCEPT !.on = FALSE]
      BY Zenon, <3>1
    <3>3. off = [r EXCEPT !.on = FALSE]
      BY Zenon, <2>3, <3>2
    <3> QED BY <2>a, <3>3
  <2>4. CASE off = [r EXCEPT !.on = w.value # \h0E] /\ w.value = \h0E
    <3>1. (w.value # \h0E) = FALSE
      BY <2>4
    <3>2. [r EXCEPT !.on = w.value # \h0E] = [r EXCEPT !.on = FALSE]
      BY Zenon, <3>1
    <3>3. off = [r EXCEPT !.on = FALSE]
      BY Zenon, <2>4, <3>2
    <3> QED BY <2>a, <3>3
  <2> QED BY <2>2, <2>3, <2>4
<1>2. ASSUME NEW x \in Registers, ~x.on, NEW v \in {0, 1},
             NEW a \in {\h2000, \h2100, \h3000, \h4000, \h6000, \hA000},
             i.kind = "mbc2" => a = \h2100
      PROVE  ChipWrite(i, x, W(a, v)) \in Registers /\ ~ChipWrite(i, x, W(a, v)).on
  <2> DEFINE u == W(a, v)
  <2>1. u \in MapperWrites /\ u.address = a
    BY DEF W, MapperWrites
  <2>2. /\ a \div \h2000 \in 1 .. 5
        /\ i.kind = "mbc2" => (a \div 256) % 2 = 1
    BY <1>2
  <2> HIDE DEF u
  <2>3. Elsewhere(i, u)
    BY <2>1, <2>2 DEF Elsewhere
  <2>5. ChipWrite(i, x, u) \in Registers /\ ChipWrite(i, x, u).on = x.on
    BY <2>3, OnStays
  <2> QED BY <1>2, <2>5 DEF u
<1> HIDE DEF off
<1>3. CASE i.kind = "mbc1"
  <2>1. after = ChipWrite(i, ChipWrite(i, ChipWrite(i, off, W(\h6000, 0)), W(\h4000, 0)),
                          W(\h2000, 1))
    BY <1>3, FourWrites DEF PlanRestore, off
  <2> QED BY <1>1, <1>2, <1>3, <2>1
<1>4. CASE i.kind = "mbc2"
  <2>1. after = ChipWrite(i, off, W(\h2100, 1))
    BY <1>4, TwoWrites DEF PlanRestore, off
  <2> QED BY <1>1, <1>2, <1>4, <2>1
<1>5. CASE i.kind = "mbc3"
  <2>1. after = ChipWrite(i, ChipWrite(i, off, W(\h4000, 0)), W(\h2000, 1))
    BY <1>5, ThreeWrites DEF PlanRestore, off
  <2> QED BY <1>1, <1>2, <1>5, <2>1
<1>6. CASE i.kind = "mbc5"
  <2>1. after = ChipWrite(i, ChipWrite(i, ChipWrite(i, off, W(\h4000, 0)), W(\h3000, 0)),
                          W(\h2000, 1))
    BY <1>6, FourWrites DEF PlanRestore, off
  <2> QED BY <1>1, <1>2, <1>6, <2>1
<1>7. CASE i.kind = "huc1"
  <2>1. after = ChipWrite(i, ChipWrite(i, ChipWrite(i, off, W(\hA000, 0)), W(\h4000, 0)),
                          W(\h2000, 1))
    BY <1>7, FourWrites DEF PlanRestore, off
  <2> QED BY <1>1, <1>2, <1>7, <2>1
<1> QED BY <1>3, <1>4, <1>5, <1>6, <1>7

(* What the chip's registers are when a write would not change them. *)
LEMMA SameRegister ==
  ASSUME NEW r \in Registers, NEW v \in Nat
  PROVE  /\ [r EXCEPT !.lo = v] = r => r.lo = v
         /\ [r EXCEPT !.hi = v] = r => r.hi = v
         /\ [r EXCEPT !.mode = v] = r => r.mode = v
BY DEF Registers

(* The bank of ROM that registers bring into view. *)
LEMMA RomSeenIs ==
  ASSUME NEW i, NEW r
  PROVE  /\ i.kind = "mbc1" => /\ RomSeen(i, r, \h0000) = (r.mode * r.hi * 32) % i.banks
                               /\ RomSeen(i, r, \h4000) = (r.hi * 32 + r.lo) % i.banks
         /\ i.kind # "mbc1" => RomSeen(i, r, \h0000) = 0 % i.banks
         /\ i.kind = "rom_only" => RomSeen(i, r, \h4000) = 1 % i.banks
         /\ i.kind = "mbc5" => RomSeen(i, r, \h4000) = (r.hi * 256 + r.lo) % i.banks
         /\ i.kind \in {"mbc2", "mbc3", "huc1"} => RomSeen(i, r, \h4000) = r.lo % i.banks
<1>1. i.kind = "mbc1" => /\ RomSeen(i, r, \h0000) = (r.mode * r.hi * 32) % i.banks
                         /\ RomSeen(i, r, \h4000) = (r.hi * 32 + r.lo) % i.banks
  BY DEF RomSeen
<1>2. i.kind # "mbc1" => RomSeen(i, r, \h0000) = 0 % i.banks
  BY DEF RomSeen
<1>3. i.kind = "rom_only" => RomSeen(i, r, \h4000) = 1 % i.banks
  BY DEF RomSeen
<1>4. i.kind = "mbc5" => RomSeen(i, r, \h4000) = (r.hi * 256 + r.lo) % i.banks
  BY DEF RomSeen
<1>5. i.kind \in {"mbc2", "mbc3", "huc1"} => RomSeen(i, r, \h4000) = r.lo % i.banks
  BY DEF RomSeen
<1> QED BY <1>1, <1>2, <1>3, <1>4, <1>5

(* None of the writes would change the chip. *)
InEffect(i, r, plan) == \A k \in 1 .. Len(plan) : ChipWrite(i, r, plan[k]) = r

(* When the writes of its plan are in effect, a bank is seen at its        *)
(* window, on every mapper and in every size.                              *)
LEMMA RomIsInView ==
  ASSUME NEW i, Sized(i), NEW r \in Registers, NEW b \in Nat, b < i.banks,
         InEffect(i, r, PlanRomBank(i, b))
  PROVE  RomSeen(i, r, Window(i, b)) = b
<1> DEFINE plan == PlanRomBank(i, b)
<1>0. b % i.banks = b /\ 0 % i.banks = 0 /\ i.banks \in Nat
  BY ModIs DEF Sized
<1>1. CASE i.kind = "rom_only"
  <2>1. b = 0 \/ b = 1
    BY <1>1 DEF Sized
  <2>2. Window(i, b) = IF b = 0 THEN \h0000 ELSE \h4000
    BY <1>1 DEF Window, Mbc1Aligned
  <2> QED BY <1>0, <1>1, <2>1, <2>2, RomSeenIs
<1>2. CASE i.kind # "mbc1" /\ b = 0
  <2>1. Window(i, b) = \h0000
    BY <1>2 DEF Window
  <2> QED BY <1>0, <1>2, <2>1, RomSeenIs
<1>3. CASE i.kind = "mbc1" /\ b = 0
  <2>1. plan = << W(\h6000, 0), W(\h4000, 0), W(\h2000, 1) >>
    BY <1>3 DEF PlanRomBank
  <2>2. Window(i, b) = \h0000
    BY <1>3 DEF Window
  <2>3. ChipWrite(i, r, W(\h6000, 0)) = r
    BY <2>1 DEF InEffect
  <2>4. (0 % 256) % 2 = 0
    OBVIOUS
  <2>5. [r EXCEPT !.mode = 0] = r
    BY <1>3, <2>3, <2>4, RamWriteIs
  <2>6. r.mode = 0
    BY <2>5, SameRegister
  <2>7. r.mode * r.hi * 32 = 0
    BY <2>6 DEF Registers
  <2> QED BY <1>0, <1>3, <2>2, <2>7, RomSeenIs
<1>4. CASE i.kind = "mbc1" /\ b # 0 /\ b % 32 = 0
  <2>1. plan = << W(\h6000, 1), W(\h4000, (b \div 32) % 4) >>
    BY <1>4 DEF PlanRomBank
  <2>2. Window(i, b) = \h0000
    BY <1>4 DEF Window, Mbc1Aligned
  <2>3. ChipWrite(i, r, W(\h6000, 1)) = r /\ ChipWrite(i, r, W(\h4000, (b \div 32) % 4)) = r
    BY <2>1 DEF InEffect
  <2>4. b < 128
    BY <1>4 DEF Sized
  <2>5. (1 % 256) % 2 = 1 /\ (((b \div 32) % 4) % 256) % 4 = b \div 32 /\ b \div 32 \in Nat
    BY <2>4
  <2>6. [r EXCEPT !.mode = 1] = r /\ [r EXCEPT !.hi = b \div 32] = r
    BY <1>4, <2>3, <2>5, RamWriteIs
  <2>7. r.mode = 1 /\ r.hi = b \div 32
    BY <2>5, <2>6, SameRegister
  <2>8. r.mode * r.hi * 32 = b
    <3>1. r.mode * r.hi = b \div 32
      BY <2>5, <2>7
    <3>2. (b \div 32) * 32 = b
      BY <1>4
    <3> QED BY <3>1, <3>2
  <2> QED BY <1>0, <1>4, <2>2, <2>8, RomSeenIs
<1>5. CASE i.kind = "mbc1" /\ b % 32 # 0
  <2>1. plan = << W(\h6000, 0), W(\h4000, (b \div 32) % 4), W(\h2000, b % 32) >>
    BY <1>5 DEF PlanRomBank
  <2>2. Window(i, b) = \h4000
    BY <1>5 DEF Window, Mbc1Aligned
  <2>3. /\ ChipWrite(i, r, W(\h4000, (b \div 32) % 4)) = r
        /\ ChipWrite(i, r, W(\h2000, b % 32)) = r
    BY <2>1 DEF InEffect
  <2>4. b < 128
    BY <1>5 DEF Sized
  <2>5. (((b \div 32) % 4) % 256) % 4 = b \div 32 /\ ((b % 32) % 256) % 32 = b % 32
        /\ b \div 32 \in Nat /\ b % 32 \in Nat
    BY <2>4
  <2>6. [r EXCEPT !.hi = b \div 32] = r /\ [r EXCEPT !.lo = b % 32] = r
    <3>1. NonZero(b % 32) = b % 32
      BY <1>5 DEF NonZero
    <3>2. ChipWrite(i, r, W(\h4000, (b \div 32) % 4))
            = [r EXCEPT !.hi = (((b \div 32) % 4) % 256) % 4]
      BY <1>5, RamWriteIs
    <3>3. ChipWrite(i, r, W(\h2000, b % 32)) = [r EXCEPT !.lo = NonZero(((b % 32) % 256) % 32)]
      BY <1>5, RomWriteIs
    <3> QED BY <2>3, <2>5, <3>1, <3>2, <3>3
  <2>7. r.hi = b \div 32 /\ r.lo = b % 32
    BY <2>5, <2>6, SameRegister
  <2>8. r.hi * 32 + r.lo = b
    BY <2>7
  <2> QED BY <1>0, <1>5, <2>2, <2>8, RomSeenIs
<1>6. CASE i.kind \in {"mbc2", "mbc3", "huc1", "mbc5"} /\ b # 0
  <2>1. Window(i, b) = \h4000
    BY <1>6 DEF Window, Mbc1Aligned
  <2>2. CASE i.kind = "mbc2"
    <3>1. plan = << W(\h2100, b % 16) >>
      BY <1>6, <2>2 DEF PlanRomBank
    <3>2. ChipWrite(i, r, W(\h2100, b % 16)) = r
      BY <3>1 DEF InEffect
    <3>3. ((b % 16) % 256) % 16 = b
      BY <2>2 DEF Sized
    <3>4. NonZero(b) = b
      BY <1>6 DEF NonZero
    <3>5. [r EXCEPT !.lo = b] = r
      BY <2>2, <3>2, <3>3, <3>4, RomWriteIs
    <3> QED BY <1>0, <2>1, <2>2, <3>5, SameRegister, RomSeenIs
  <2>3. CASE i.kind = "mbc3"
    <3>1. plan = << W(\h2000, b) >>
      BY <1>6, <2>3 DEF PlanRomBank
    <3>2. ChipWrite(i, r, W(\h2000, b)) = r
      BY <3>1 DEF InEffect
    <3>3. (b % 256) % (IF i.mbc30 THEN 256 ELSE 128) = b
      BY <2>3 DEF Sized
    <3>4. NonZero(b) = b
      BY <1>6 DEF NonZero
    <3>5. [r EXCEPT !.lo = b] = r
      BY <2>3, <3>2, <3>3, <3>4, RomWriteIs
    <3> QED BY <1>0, <2>1, <2>3, <3>5, SameRegister, RomSeenIs
  <2>4. CASE i.kind = "huc1"
    <3>1. plan = << W(\h2000, b) >>
      BY <1>6, <2>4 DEF PlanRomBank
    <3>2. ChipWrite(i, r, W(\h2000, b)) = r
      BY <3>1 DEF InEffect
    <3>3. (b % 256) % 64 = b
      BY <2>4 DEF Sized
    <3>4. NonZero(b) = b
      BY <1>6 DEF NonZero
    <3>5. [r EXCEPT !.lo = b] = r
      BY <2>4, <3>2, <3>3, <3>4, RomWriteIs
    <3> QED BY <1>0, <2>1, <2>4, <3>5, SameRegister, RomSeenIs
  <2>5. CASE i.kind = "mbc5"
    <3>1. plan = << W(\h2000, b), W(\h3000, (b \div 256) % 2) >>
      BY <1>6, <2>5 DEF PlanRomBank
    <3>2. ChipWrite(i, r, W(\h2000, b)) = r /\ ChipWrite(i, r, W(\h3000, (b \div 256) % 2)) = r
      BY <3>1 DEF InEffect
    <3>3. b < 512
      BY <2>5 DEF Sized
    <3>4. (((b \div 256) % 2) % 256) % 2 = b \div 256 /\ b \div 256 \in Nat /\ b % 256 \in Nat
      BY <3>3
    <3>5. [r EXCEPT !.lo = b % 256] = r /\ [r EXCEPT !.hi = b \div 256] = r
      BY <2>5, <3>2, <3>4, RomWriteIs
    <3>6. r.lo = b % 256 /\ r.hi = b \div 256
      BY <3>4, <3>5, SameRegister
    <3>7. r.hi * 256 + r.lo = b
      BY <3>6
    <3> QED BY <1>0, <2>1, <2>5, <3>7, RomSeenIs
  <2> QED BY <1>6, <2>2, <2>3, <2>4, <2>5
<1> QED BY <1>1, <1>2, <1>3, <1>4, <1>5, <1>6 DEF Sized

(* The addresses to which the plans for ROM write, the register that each  *)
(* sets, and these writes.                                                 *)
RomAddresses(i) == CASE i.kind = "mbc1"             -> {\h6000, \h4000, \h2000}
                     [] i.kind = "mbc2"             -> {\h2100}
                     [] i.kind \in {"mbc3", "huc1"} -> {\h2000}
                     [] i.kind = "mbc5"             -> {\h2000, \h3000}
                     [] OTHER                       -> {}
(* The register each of them writes to, and the writes.                    *)
RegisterAt(a) == IF a = \h6000 THEN "mode" ELSE IF a \in {\h4000, \h3000} THEN "hi" ELSE "lo"
RomWrites(i) == [address : RomAddresses(i), value : Nat]

(* A write sets register f to v, whatever the registers hold.              *)
Sets(i, w, f, v) == \A x \in Registers : ChipWrite(i, x, w) = [x EXCEPT ![f] = v]

(* Each of them sets one register, whatever the others are. *)
LEMMA SetsOne ==
  ASSUME NEW i, NEW w \in RomWrites(i)
  PROVE  \E v \in Nat : Sets(i, w, RegisterAt(w.address), v)
<1>1. w.value \in Nat /\ w.address \in RomAddresses(i)
  BY DEF RomWrites
<1>2. \A v \in Nat : NonZero(v) \in Nat
  BY DEF NonZero
<1>3. /\ w.value % 2 \in Nat /\ w.value % 4 \in Nat
      /\ NonZero(w.value % 32) \in Nat /\ NonZero(w.value % 16) \in Nat
      /\ NonZero(w.value % 64) \in Nat
      /\ NonZero(w.value % (IF i.mbc30 THEN 256 ELSE 128)) \in Nat
  BY <1>1, <1>2
<1>4. CASE i.kind = "mbc1" /\ w.address = \h6000
  <2>1. w.address \div \h2000 = 3 /\ RegisterAt(w.address) = "mode"
    BY <1>4 DEF RegisterAt
  <2>2. \A x \in Registers : ChipWrite(i, x, w) = [x EXCEPT !.mode = w.value % 2]
    BY <1>4, <2>1, AreaIs
  <2> QED BY <1>3, <2>1, <2>2 DEF Sets
<1>5. CASE i.kind = "mbc1" /\ w.address = \h4000
  <2>1. w.address \div \h2000 = 2 /\ RegisterAt(w.address) = "hi"
    BY <1>5 DEF RegisterAt
  <2>2. \A x \in Registers : ChipWrite(i, x, w) = [x EXCEPT !.hi = w.value % 4]
    BY <1>5, <2>1, AreaIs
  <2> QED BY <1>3, <2>1, <2>2 DEF Sets
<1>6. CASE i.kind \in {"mbc1", "mbc3", "huc1"} /\ w.address = \h2000
  <2>1. w.address \div \h2000 = 1 /\ RegisterAt(w.address) = "lo"
    BY <1>6 DEF RegisterAt
  <2>2. CASE i.kind = "mbc1"
    <3>1. \A x \in Registers : ChipWrite(i, x, w) = [x EXCEPT !.lo = NonZero(w.value % 32)]
      BY <2>1, <2>2, AreaIs
    <3> QED BY <1>3, <2>1, <3>1 DEF Sets
  <2>3. CASE i.kind = "mbc3"
    <3>1. \A x \in Registers :
            ChipWrite(i, x, w) =
              [x EXCEPT !.lo = NonZero(w.value % (IF i.mbc30 THEN 256 ELSE 128))]
      BY <2>1, <2>3, AreaIs
    <3> QED BY <1>3, <2>1, <3>1 DEF Sets
  <2>4. CASE i.kind = "huc1"
    <3>1. \A x \in Registers : ChipWrite(i, x, w) = [x EXCEPT !.lo = NonZero(w.value % 64)]
      BY <2>1, <2>4, AreaIs
    <3> QED BY <1>3, <2>1, <3>1 DEF Sets
  <2> QED BY <1>6, <2>2, <2>3, <2>4
<1>7. CASE i.kind = "mbc2" /\ w.address = \h2100
  <2>1. /\ w.address \div \h2000 = 1 /\ (w.address \div 256) % 2 = 1
        /\ RegisterAt(w.address) = "lo"
    BY <1>7 DEF RegisterAt
  <2>2. \A x \in Registers : ChipWrite(i, x, w) = [x EXCEPT !.lo = NonZero(w.value % 16)]
    BY <1>7, <2>1, AreaIs
  <2> QED BY <1>3, <2>1, <2>2 DEF Sets
<1>8. CASE i.kind = "mbc5" /\ w.address = \h2000
  <2>1. /\ w.address \div \h2000 = 1 /\ w.address < \h3000 /\ RegisterAt(w.address) = "lo"
    BY <1>8 DEF RegisterAt
  <2>2. \A x \in Registers : ChipWrite(i, x, w) = [x EXCEPT !.lo = w.value]
    BY <1>8, <2>1, AreaIs
  <2> QED BY <1>1, <2>1, <2>2 DEF Sets
<1>9. CASE i.kind = "mbc5" /\ w.address = \h3000
  <2>1. /\ w.address \div \h2000 = 1 /\ ~(w.address < \h3000) /\ RegisterAt(w.address) = "hi"
    BY <1>9 DEF RegisterAt
  <2>2. \A x \in Registers : ChipWrite(i, x, w) = [x EXCEPT !.hi = w.value % 2]
    BY <1>9, <2>1, AreaIs
  <2> QED BY <1>3, <2>1, <2>2 DEF Sets
<1> QED BY <1>1, <1>4, <1>5, <1>6, <1>7, <1>8, <1>9 DEF RomAddresses

(* A write that was made is in effect, and stays so when another register  *)
(* is written.                                                             *)
LEMMA EffectIs ==
  ASSUME NEW i, NEW r \in Registers, NEW w \in RomWrites(i)
  PROVE  /\ ChipWrite(i, r, w) \in Registers
         /\ ChipWrite(i, ChipWrite(i, r, w), w) = ChipWrite(i, r, w)
         /\ \A u \in RomWrites(i) :
              u.address # w.address /\ ChipWrite(i, r, u) = r =>
                ChipWrite(i, ChipWrite(i, r, w), u) = ChipWrite(i, r, w)
<1>1. w \in MapperWrites
  BY DEF RomWrites, MapperWrites, RomAddresses
<1>2. ChipWrite(i, r, w) \in Registers
  BY <1>1, WriteIs
<1>3. PICK v \in Nat : Sets(i, w, RegisterAt(w.address), v)
  BY SetsOne
<1>4. RegisterAt(w.address) \in {"lo", "hi", "mode"}
  BY DEF RegisterAt
<1>5. ASSUME NEW f \in {"lo", "hi", "mode"}
      PROVE  [[r EXCEPT ![f] = v] EXCEPT ![f] = v] = [r EXCEPT ![f] = v]
  BY DEF Registers
<1>6. ChipWrite(i, ChipWrite(i, r, w), w) = ChipWrite(i, r, w)
  BY <1>2, <1>3, <1>4, <1>5 DEF Sets
<1>7. ASSUME NEW u \in RomWrites(i), u.address # w.address, ChipWrite(i, r, u) = r
      PROVE  ChipWrite(i, ChipWrite(i, r, w), u) = ChipWrite(i, r, w)
  <2>1. PICK x \in Nat : Sets(i, u, RegisterAt(u.address), x)
    BY SetsOne
  <2>2. RegisterAt(u.address) \in {"lo", "hi", "mode"}
    BY DEF RegisterAt
  <2>3. RegisterAt(u.address) # RegisterAt(w.address)
    BY <1>7 DEF RegisterAt, RomWrites, RomAddresses
  <2>4. [r EXCEPT ![RegisterAt(u.address)] = x] = r
    BY <1>7, <2>1 DEF Sets
  <2>5. ASSUME NEW f \in {"lo", "hi", "mode"}, NEW g \in {"lo", "hi", "mode"}, f # g,
               [r EXCEPT ![f] = x] = r
        PROVE  [[r EXCEPT ![g] = v] EXCEPT ![f] = x] = [r EXCEPT ![g] = v]
    <3>1. r[f] = x
      BY <2>5 DEF Registers
    <3>2. [r EXCEPT ![g] = v] \in Registers
      BY DEF Registers
    <3>3. [r EXCEPT ![g] = v][f] = x
      BY <2>5, <3>1 DEF Registers
    <3>4. ASSUME NEW y \in Registers, y[f] = x
          PROVE  [y EXCEPT ![f] = x] = y
      BY <3>4 DEF Registers
    <3> QED BY <3>2, <3>3, <3>4
  <2> QED BY <1>2, <1>3, <1>4, <2>1, <2>2, <2>3, <2>4, <2>5 DEF Sets
<1> QED BY <1>2, <1>6, <1>7

(* The cache after a few writes, one step per write. *)
CacheTrace(c, w, len, h) == /\ h[0] = c /\ CacheAll(c, w) = h[len]
                          /\ \A k \in 1 .. len : h[k] = CacheMapperWrite(h[k - 1], w[k])

(* What the cache holds after a few writes is the last of a trace of them. *)
LEMMA CacheIs ==
  ASSUME NEW c, NEW w, NEW len \in 0 .. 3, Len(w) = len
  PROVE  \E h : CacheTrace(c, w, len, h)
<1>0. \A k \in 1 .. len : k \in {1, 2, 3}
  OBVIOUS
<1> DEFINE Is(f) == f = [k \in 0 .. Len(w) |-> IF k = 0 THEN c
                                               ELSE CacheMapperWrite(f[k - 1], w[k])]
           S(x, k) == CacheMapperWrite(x, w[k])
           s1 == S(c, 1)
           s2 == S(s1, 2)
           s3 == S(s2, 3)
           g == [k \in 0 .. len |-> IF k = 0 THEN c ELSE IF k = 1 THEN s1
                                  ELSE IF k = 2 THEN s2 ELSE s3]
           h == CHOOSE f : Is(f)
<1>1. Is(g)
  <2>1. ASSUME NEW k \in 1 .. len
        PROVE  g[k] = S(g[k - 1], k)
    BY <1>0
  <2> QED BY <2>1
<1>2. Is(h)
  BY <1>1
<1>3. CacheAll(c, w) = h[len]
  BY DEF CacheAll
<1> HIDE DEF h
<1>4. h[0] = c /\ \A k \in 1 .. len : h[k] = CacheMapperWrite(h[k - 1], w[k])
  BY <1>2
<1> QED BY <1>3, <1>4 DEF CacheTrace

(* No write leaves the cache as it is.                                     *)
LEMMA CacheNone ==
  ASSUME NEW c
  PROVE  CacheAll(c, << >>) = c
<1>1. PICK h : CacheTrace(c, << >>, 0, h)
  BY CacheIs
<1> QED BY <1>1 DEF CacheTrace

(* A write after a few others is cached as it is on its own.               *)
LEMMA CacheAppend ==
  ASSUME NEW c, NEW X, NEW s \in Seq(X), NEW len \in 0 .. 2, Len(s) = len, NEW w \in X
  PROVE  CacheAll(c, Append(s, w)) = CacheMapperWrite(CacheAll(c, s), w)
<1>1. /\ Len(Append(s, w)) = len + 1 /\ Append(s, w)[len + 1] = w
      /\ \A k \in 1 .. len : Append(s, w)[k] = s[k]
      /\ len + 1 \in 0 .. 3 /\ len \in 0 .. 3
  OBVIOUS
<1>2. PICK h : CacheTrace(c, s, len, h)
  BY <1>1, CacheIs
<1>3. PICK g : CacheTrace(c, Append(s, w), len + 1, g)
  BY <1>1, CacheIs
<1>4. /\ g[0] = h[0]
      /\ \A k \in 1 .. len : g[k - 1] = h[k - 1] => g[k] = h[k]
  BY <1>1, <1>2, <1>3 DEF CacheTrace
<1>5. g[len] = h[len]
  BY <1>4
<1>6. g[len + 1] = CacheMapperWrite(g[len], w)
  BY <1>1, <1>3 DEF CacheTrace
<1> QED BY <1>2, <1>3, <1>5, <1>6 DEF CacheTrace

(* What is left of a plan, one step per write. *)
PlanTrace(p, c, len, h) ==
  /\ h[0] = << >> /\ Changed(p, c) = h[len]
  /\ \A k \in 1 .. len : h[k] = IF p[k] \in c THEN h[k - 1] ELSE Append(h[k - 1], p[k])

(* What is left of a plan is the last of a trace of it.                    *)
LEMMA ChangedIs ==
  ASSUME NEW p, NEW c, NEW len \in 0 .. 3, Len(p) = len
  PROVE  \E h : PlanTrace(p, c, len, h)
<1>0. \A k \in 1 .. len : k \in {1, 2, 3}
  OBVIOUS
<1> DEFINE S(x, k) == IF p[k] \in c THEN x ELSE Append(x, p[k])
           Is(f) == f = [k \in 0 .. Len(p) |-> IF k = 0 THEN << >> ELSE S(f[k - 1], k)]
           s1 == S(<< >>, 1)
           s2 == S(s1, 2)
           s3 == S(s2, 3)
           g == [k \in 0 .. len |-> IF k = 0 THEN << >> ELSE IF k = 1 THEN s1
                                  ELSE IF k = 2 THEN s2 ELSE s3]
           h == CHOOSE f : Is(f)
<1>3. Changed(p, c) = h[len]
  BY DEF Changed
<1> HIDE DEF S
<1>1. Is(g)
  <2>1. ASSUME NEW k \in 1 .. len
        PROVE  g[k] = S(g[k - 1], k)
    BY <1>0
  <2> QED BY <2>1
<1>2. Is(h)
  BY <1>1
<1> HIDE DEF h
<1>4. h[0] = << >> /\ \A k \in 1 .. len : h[k] = S(h[k - 1], k)
  BY <1>2
<1> QED BY <1>3, <1>4 DEF PlanTrace, S

(* What the cache holds is in effect. *)
SettledAt(i, r, c) == /\ r \in Registers /\ c \subseteq RomWrites(i)
                      /\ \A w \in c : ChipWrite(i, r, w) = r

(* A write that is sent and cached leaves the cache settled, and forgets   *)
(* only what was written to its address.                                   *)
LEMMA OneMore ==
  ASSUME NEW i, NEW r, NEW c, SettledAt(i, r, c), NEW w \in RomWrites(i)
  PROVE  /\ SettledAt(i, ChipWrite(i, r, w), CacheMapperWrite(c, w))
         /\ w \in CacheMapperWrite(c, w)
         /\ \A u \in c : u.address # w.address => u \in CacheMapperWrite(c, w)
<1>1. /\ w \in CacheMapperWrite(c, w)
      /\ \A u \in c : u.address # w.address => u \in CacheMapperWrite(c, w)
      /\ \A u \in CacheMapperWrite(c, w) : u = w \/ (u \in c /\ u.address # w.address)
  BY DEF CacheMapperWrite
<1>2. ChipWrite(i, r, w) \in Registers
  BY EffectIs DEF SettledAt
<1>3. ASSUME NEW u \in CacheMapperWrite(c, w)
      PROVE  /\ u \in RomWrites(i)
             /\ ChipWrite(i, ChipWrite(i, r, w), u) = ChipWrite(i, r, w)
  BY <1>1, EffectIs DEF SettledAt
<1> QED BY <1>1, <1>2, <1>3 DEF SettledAt

(* A plan writes each register once. *)
OncePlan(i, plan, len) == /\ plan \in Seq(RomWrites(i)) /\ Len(plan) = len
                        /\ \A j, k \in 1 .. len : j # k => plan[j].address # plan[k].address

(* So does the plan of every ROM bank of a supported cartridge.            *)
LEMMA PlanIs ==
  ASSUME NEW i, Sized(i), NEW b \in Nat, b < i.banks
  PROVE  \E len \in 0 .. 3 : OncePlan(i, PlanRomBank(i, b), len)
<1>1. ASSUME NEW a \in RomAddresses(i), NEW v \in Int
      PROVE  W(a, v) \in RomWrites(i) /\ W(a, v).address = a
  BY DEF W, RomWrites
<1>2. b \div 32 \in Nat /\ (b \div 32) % 4 \in Int /\ b % 32 \in Int /\ b % 16 \in Int
      /\ (b \div 256) % 2 \in Int
  OBVIOUS
<1>3. ASSUME NEW x \in RomWrites(i)
      PROVE  OncePlan(i, <<x>>, 1)
  BY DEF OncePlan
<1>4. ASSUME NEW x \in RomWrites(i), NEW y \in RomWrites(i), x.address # y.address
      PROVE  OncePlan(i, <<x, y>>, 2)
  BY <1>4 DEF OncePlan
<1>5. ASSUME NEW x \in RomWrites(i), NEW y \in RomWrites(i), NEW z \in RomWrites(i),
             x.address # y.address, x.address # z.address, y.address # z.address
      PROVE  OncePlan(i, <<x, y, z>>, 3)
  <2>1. \A j \in 1 .. 3 : j \in {1, 2, 3}
    OBVIOUS
  <2> QED BY <1>5, <2>1 DEF OncePlan
<1>6. OncePlan(i, << >>, 0)
  BY DEF OncePlan
<1>7. CASE i.kind = "mbc1"
  <2>1. /\ \h6000 \in RomAddresses(i) /\ \h4000 \in RomAddresses(i)
        /\ \h2000 \in RomAddresses(i)
    BY <1>7 DEF RomAddresses
  <2>2. \/ PlanRomBank(i, b) = << W(\h6000, 0), W(\h4000, 0), W(\h2000, 1) >>
        \/ PlanRomBank(i, b) = << W(\h6000, 1), W(\h4000, (b \div 32) % 4) >>
        \/ PlanRomBank(i, b)
             = << W(\h6000, 0), W(\h4000, (b \div 32) % 4), W(\h2000, b % 32) >>
    BY <1>7 DEF PlanRomBank
  <2>3. CASE PlanRomBank(i, b) = << W(\h6000, 0), W(\h4000, 0), W(\h2000, 1) >>
    <3>1. OncePlan(i, << W(\h6000, 0), W(\h4000, 0), W(\h2000, 1) >>, 3)
      BY <1>1, <1>5, <2>1
    <3> QED BY <2>3, <3>1
  <2>4. CASE PlanRomBank(i, b) = << W(\h6000, 1), W(\h4000, (b \div 32) % 4) >>
    <3>1. OncePlan(i, << W(\h6000, 1), W(\h4000, (b \div 32) % 4) >>, 2)
      BY <1>1, <1>2, <1>4, <2>1
    <3> QED BY <2>4, <3>1
  <2>5. CASE PlanRomBank(i, b) =
               << W(\h6000, 0), W(\h4000, (b \div 32) % 4), W(\h2000, b % 32) >>
    <3>1. OncePlan(i, << W(\h6000, 0), W(\h4000, (b \div 32) % 4), W(\h2000, b % 32) >>, 3)
      BY <1>1, <1>2, <1>5, <2>1
    <3> QED BY <2>5, <3>1
  <2> QED BY <2>2, <2>3, <2>4, <2>5
<1>8. CASE i.kind # "mbc1" /\ PlanRomBank(i, b) = << >>
  BY <1>6, <1>8
<1>9. CASE i.kind # "mbc1" /\ PlanRomBank(i, b) # << >>
  <2>1. \/ i.kind = "mbc2" /\ PlanRomBank(i, b) = << W(\h2100, b % 16) >>
        \/ i.kind \in {"mbc3", "huc1"} /\ PlanRomBank(i, b) = << W(\h2000, b) >>
        \/ /\ i.kind = "mbc5"
           /\ PlanRomBank(i, b) = << W(\h2000, b), W(\h3000, (b \div 256) % 2) >>
    BY <1>9 DEF PlanRomBank, Sized
  <2>2. CASE i.kind = "mbc2" /\ PlanRomBank(i, b) = << W(\h2100, b % 16) >>
    <3>1. W(\h2100, b % 16) \in RomWrites(i)
      BY <1>1, <1>2, <2>2 DEF RomAddresses
    <3> QED BY <1>3, <2>2, <3>1
  <2>3. CASE i.kind \in {"mbc3", "huc1"} /\ PlanRomBank(i, b) = << W(\h2000, b) >>
    <3>1. W(\h2000, b) \in RomWrites(i)
      BY <1>1, <2>3 DEF RomAddresses
    <3> QED BY <1>3, <2>3, <3>1
  <2>4. CASE /\ i.kind = "mbc5"
             /\ PlanRomBank(i, b) = << W(\h2000, b), W(\h3000, (b \div 256) % 2) >>
    <3>1. \h2000 \in RomAddresses(i) /\ \h3000 \in RomAddresses(i)
      BY <2>4 DEF RomAddresses
    <3>2. OncePlan(i, << W(\h2000, b), W(\h3000, (b \div 256) % 2) >>, 2)
      BY <1>1, <1>2, <1>4, <3>1
    <3> QED BY <2>4, <3>2
  <2> QED BY <2>1, <2>2, <2>3, <2>4
<1> QED BY <1>7, <1>8, <1>9

(* After the writes that the cache does not know to be in effect, all of   *)
(* the plan is.                                                            *)
LEMMA BeginIs ==
  ASSUME NEW i, NEW r, NEW c, SettledAt(i, r, c), NEW plan, NEW len \in 0 .. 3,
         OncePlan(i, plan, len)
  PROVE  LET todo == Changed(plan, c)
         IN  /\ SettledAt(i, ChipWrites(i, r, todo), CacheAll(c, todo))
             /\ InEffect(i, ChipWrites(i, r, todo), plan)
             /\ todo \in Seq(RomWrites(i)) /\ Len(todo) <= 3
<1>1. PICK h : PlanTrace(plan, c, len, h)
  BY ChangedIs DEF OncePlan
<1> DEFINE R(k) == ChipWrites(i, r, h[k])
           C(k) == CacheAll(c, h[k])
           P(k) == /\ h[k] \in Seq(RomWrites(i)) /\ Len(h[k]) <= k
                   /\ SettledAt(i, R(k), C(k))
                   /\ \A j \in 1 .. k : plan[j] \in C(k)
                   /\ \A u \in c :
                        (\A j \in 1 .. k : plan[j].address # u.address) => u \in C(k)
<1>2. P(0)
  <2>1. h[0] = << >>
    BY <1>1 DEF PlanTrace
  <2>2. R(0) = r /\ C(0) = c
    BY <2>1, NoWrites, CacheNone
  <2> QED BY <2>1, <2>2
<1>3. ASSUME NEW k \in 1 .. len, P(k - 1)
      PROVE  P(k)
  <2>1. plan[k] \in RomWrites(i) /\ k \in 1 .. 3
    BY DEF OncePlan
  <2>2. \A j \in 1 .. k - 1 : plan[j].address # plan[k].address
    BY DEF OncePlan
  <2>3. CASE plan[k] \in c
    <3>1. h[k] = h[k - 1]
      BY <1>1, <2>3 DEF PlanTrace
    <3>2. plan[k] \in C(k - 1)
      BY <1>3, <2>2, <2>3
    <3> HIDE DEF R, C
    <3>3. R(k) = R(k - 1) /\ C(k) = C(k - 1)
      BY <3>1 DEF R, C
    <3> QED BY <1>3, <3>1, <3>2, <3>3
  <2>4. CASE plan[k] \notin c
    <3>1. h[k] = Append(h[k - 1], plan[k])
      BY <1>1, <2>4 DEF PlanTrace
    <3>2. Len(h[k - 1]) \in 0 .. 2
      <4>1. h[k - 1] \in Seq(RomWrites(i)) /\ Len(h[k - 1]) <= k - 1
        BY <1>3
      <4>2. Len(h[k - 1]) \in Nat
        BY <4>1
      <4>3. ASSUME NEW x \in Nat, x <= k - 1
            PROVE  x \in 0 .. 2
        BY <2>1, <4>3
      <4> QED BY <4>1, <4>2, <4>3
    <3>3. R(k) = ChipWrite(i, R(k - 1), plan[k])
      BY <1>3, <2>1, <3>1, <3>2, WritesAppend
    <3>4. C(k) = CacheMapperWrite(C(k - 1), plan[k])
      BY <1>3, <2>1, <3>1, <3>2, CacheAppend
    <3>5. h[k] \in Seq(RomWrites(i)) /\ Len(h[k]) <= k
      BY <1>3, <2>1, <3>1
    <3> HIDE DEF R, C
    <3>6. /\ SettledAt(i, R(k), C(k)) /\ plan[k] \in C(k)
          /\ \A u \in C(k - 1) : u.address # plan[k].address => u \in C(k)
      BY <1>3, <2>1, <3>3, <3>4, OneMore
    <3> QED BY <1>3, <2>2, <3>5, <3>6
  <2> QED BY <2>3, <2>4
<1> HIDE DEF P
<1>4. P(len)
  <2>1. 1 \in 1 .. len => P(1)
    BY <1>2, <1>3
  <2>2. 2 \in 1 .. len => P(2)
    BY <1>3, <2>1
  <2>3. 3 \in 1 .. len => P(3)
    BY <1>3, <2>2
  <2> QED BY <1>2, <2>1, <2>2, <2>3
<1>5. Changed(plan, c) = h[len]
  BY <1>1 DEF PlanTrace
<1>6. /\ SettledAt(i, R(len), C(len)) /\ \A j \in 1 .. len : plan[j] \in C(len)
      /\ h[len] \in Seq(RomWrites(i)) /\ Len(h[len]) <= len /\ Len(h[len]) <= 3
  <2>1. /\ SettledAt(i, R(len), C(len)) /\ \A j \in 1 .. len : plan[j] \in C(len)
        /\ h[len] \in Seq(RomWrites(i)) /\ Len(h[len]) <= len
    BY <1>4 DEF P
  <2>2. Len(h[len]) \in Nat
    BY <2>1
  <2> QED BY <2>1, <2>2
<1> HIDE DEF R, C
<1>7. InEffect(i, R(len), plan)
  BY <1>6 DEF InEffect, SettledAt, OncePlan
<1> QED BY <1>5, <1>6, <1>7 DEF R, C

(* A few writes leave registers.                                           *)
LEMMA WritesTyped ==
  ASSUME NEW i, NEW r \in Registers, NEW w \in Seq(MapperWrites), NEW len \in 0 .. 5, Len(w) = len
  PROVE  ChipWrites(i, r, w) \in Registers
<1>1. PICK h : Trace(i, r, w, len, h)
  BY WritesAre
<1>2. \A k \in 1 .. len : w[k] \in MapperWrites
  OBVIOUS
<1>3. ASSUME NEW k \in 1 .. len, h[k - 1] \in Registers
      PROVE  h[k] \in Registers
  <2>1. h[k] = ChipWrite(i, h[k - 1], w[k])
    BY <1>1 DEF Trace
  <2> QED BY <1>2, <1>3, <2>1, WriteIs
<1>4. h[0] \in Registers
  BY <1>1 DEF Trace
<1>5. 1 \in 1 .. len => h[1] \in Registers
  BY <1>3, <1>4
<1>6. 2 \in 1 .. len => h[2] \in Registers
  BY <1>3, <1>5
<1>7. 3 \in 1 .. len => h[3] \in Registers
  BY <1>3, <1>6
<1>8. 4 \in 1 .. len => h[4] \in Registers
  BY <1>3, <1>7
<1>9. 5 \in 1 .. len => h[5] \in Registers
  BY <1>3, <1>8
<1> QED BY <1>1, <1>4, <1>5, <1>6, <1>7, <1>8, <1>9 DEF Trace

(* So does the beginning of them, where a call fails. *)
Short(w) == w \in Seq(MapperWrites) /\ Len(w) \in 0 .. 5

(* A few writes leave a chip with registers, and so does the beginning of  *)
(* them.                                                                   *)
LEMMA ShortWrites ==
  ASSUME NEW i, NEW r \in Registers, NEW w, Short(w)
  PROVE  /\ ChipWrites(i, r, w) \in Registers
         /\ \A k \in 0 .. Len(w) : ChipWrites(i, r, SubSeq(w, 1, k)) \in Registers
<1>1. Len(w) \in 0 .. 5 /\ w \in Seq(MapperWrites)
  BY DEF Short
<1>2. ASSUME NEW k \in 0 .. Len(w)
      PROVE  SubSeq(w, 1, k) \in Seq(MapperWrites) /\ Len(SubSeq(w, 1, k)) = k /\ k \in 0 .. 5
  <2>0. ASSUME NEW x \in 0 .. 5, NEW y \in 0 .. x
        PROVE  y \in Nat /\ y <= x /\ y \in 0 .. 5
    OBVIOUS
  <2>1. k \in Nat /\ k <= Len(w) /\ k \in 0 .. 5
    BY <1>1, <2>0
  <2>2. \A j \in 1 .. Len(w) : w[j] \in MapperWrites
    BY <1>1
  <2>5. 1 \in Nat /\ w \in Seq(MapperWrites)
    BY <1>1
  <2>3. SubSeq(w, 1, k) = [j \in 1 .. k |-> w[j]]
    BY <1>1, <2>1
  <2>4. \A j \in 1 .. k : w[j] \in MapperWrites
    BY <1>1, <2>1, <2>2
  <2> QED BY <2>1, <2>3, <2>4
<1>3. ASSUME NEW k \in 0 .. Len(w)
      PROVE  ChipWrites(i, r, SubSeq(w, 1, k)) \in Registers
  BY <1>2, WritesTyped
<1> QED BY <1>1, <1>3, WritesTyped

(* Every list of writes the task sends is a short one.                     *)
LEMMA PlansAreShort ==
  ASSUME NEW i
  PROVE  /\ Short(Normalize) /\ Short(PlanRamEnable(i))
         /\ i.kind \in {"rom_only", "unknown", "mbc1", "mbc2", "mbc3", "mbc5", "huc1"} =>
              Short(PlanRestore(i))
         /\ \A b \in Nat : Sized(i) => Short(PlanRamBank(i, b))
<1>1. \A a \in Nat, v \in Int : W(a, v) \in MapperWrites
  BY DEF W, MapperWrites
<1>2. Short(<< >>)
  BY DEF Short
<1>3. ASSUME NEW a \in MapperWrites
      PROVE  Short(<<a>>)
  BY DEF Short
<1>4. ASSUME NEW a \in MapperWrites, NEW b \in MapperWrites
      PROVE  Short(<<a, b>>)
  BY DEF Short
<1>5. ASSUME NEW a \in MapperWrites, NEW b \in MapperWrites, NEW c \in MapperWrites
      PROVE  Short(<<a, b, c>>)
  BY DEF Short
<1>6. ASSUME NEW a \in MapperWrites, NEW b \in MapperWrites, NEW c \in MapperWrites,
             NEW d \in MapperWrites
      PROVE  Short(<<a, b, c, d>>)
  BY DEF Short
<1>7. ASSUME NEW a \in MapperWrites, NEW b \in MapperWrites, NEW c \in MapperWrites,
             NEW d \in MapperWrites, NEW e \in MapperWrites
      PROVE  Short(<<a, b, c, d, e>>)
  BY DEF Short
<1>8. Short(Normalize)
  <2>1. /\ W(\h0000, 0) \in MapperWrites /\ W(\h6000, 0) \in MapperWrites
        /\ W(\h4000, 0) \in MapperWrites /\ W(\h3000, 0) \in MapperWrites
        /\ W(\h2100, 1) \in MapperWrites
    BY <1>1
  <2> QED BY <1>7, <2>1 DEF Normalize
<1>9. Short(PlanRamEnable(i))
  BY <1>1, <1>2, <1>3 DEF PlanRamEnable
<1>10. i.kind \in {"rom_only", "unknown"} => Short(PlanRestore(i))
  BY <1>2 DEF PlanRestore
<1>a. /\ W(\h0000, 0) \in MapperWrites /\ W(\h0000, \h0E) \in MapperWrites
      /\ W(\h2000, 1) \in MapperWrites /\ W(\h2100, 1) \in MapperWrites
      /\ W(\h3000, 0) \in MapperWrites /\ W(\h4000, 0) \in MapperWrites
      /\ W(\h6000, 0) \in MapperWrites /\ W(\h6000, 1) \in MapperWrites
      /\ W(\hA000, 0) \in MapperWrites
  BY <1>1
<1>11. i.kind = "mbc2" => Short(PlanRestore(i))
  BY <1>a, <1>4 DEF PlanRestore
<1>12. i.kind = "mbc3" => Short(PlanRestore(i))
  BY <1>1, <1>5 DEF PlanRestore
<1>13. i.kind \in {"mbc1", "mbc5", "huc1"} => Short(PlanRestore(i))
  <2>1. CASE i.kind = "mbc1"
    BY <1>a, <1>6, <2>1 DEF PlanRestore
  <2>2. CASE i.kind = "mbc5"
    BY <1>a, <1>6, <2>2 DEF PlanRestore
  <2>3. CASE i.kind = "huc1"
    BY <1>a, <1>6, <2>3 DEF PlanRestore
  <2> QED BY <2>1, <2>2, <2>3
<1>14. ASSUME NEW b \in Nat, Sized(i)
       PROVE  Short(PlanRamBank(i, b))
  <2>1. CASE i.kind \in {"rom_only", "mbc2"}
    BY <1>2, <2>1 DEF PlanRamBank
  <2>2. CASE i.kind = "mbc1"
    <3>1. W(\h4000, b) \in MapperWrites
      BY <1>1
    <3> QED BY <1>a, <1>4, <2>2, <3>1 DEF PlanRamBank
  <2>3. CASE i.kind \in {"mbc3", "huc1", "mbc5"}
    <3>1. \E v \in Int : PlanRamBank(i, b) = << W(\h4000, v) >>
      BY <2>3 DEF PlanRamBank
    <3> QED BY <1>1, <1>3, <3>1
  <2> QED BY <1>14, <2>1, <2>2, <2>3 DEF Sized
<1> QED BY <1>8, <1>9, <1>10, <1>11, <1>12, <1>13, <1>14

-----------------------------------------------------------------------------
(* The calls between ENTER and EXIT. *)
Session == {"header", "probe", "recover", "open", "dump", "begin", "read", "check",
            "openSave", "enable", "ram", "readRam", "upload", "restore", "exit"}
(* RAM is switched by the mapper of the cartridge. *)
Switched == Kind(head.type) \notin {"rom_only", "unknown"}

(* The cartridge is in a session as long as its registers are written, and *)
(* handed back with its RAM switched off.                                  *)
Held ==
  /\ regs \in Registers /\ stream \in {"none", "open", "unheard"}
  /\ pc \in Session \/ (pc = "finish" /\ route # "menu") => acquired
  /\ \/ pc \in Rolling \cup Replacing \cup {"unmount", "idle", "mount", "enter"}
     \/ pc = "finish" /\ route = "menu"
     => ~acquired
  /\ pc \in {"stop", "stopping"} /\ ~failed => acquired
  /\ pc \in {"mount", "enter"} => info = "none"
  /\ stream = "unheard" => strained
  /\ stream = "open" => acquired
  /\ stream = "open" /\ ~strained =>
       pc \in {"read", "readRam"} \/ (pc \in {"stop", "stopping", "release"} /\ failed)
  /\ (~acquired \/ pc = "exit") /\ info # "none" /\ ~strained /\ Switched => ~regs.on

-----------------------------------------------------------------------------
(* The dump of the menu's run, with its writer. *)
Reading == {"dump", "begin", "read"}
(* The writer runs from the dump until it has acknowledged STOP.           *)
Dumping == route = "menu" /\ pc \in Reading \cup {"stop", "stopping"}

(* Where the writer can be, and what the run knows and has counted.        *)
Course ==
  /\ n \in Nat /\ buf \in [Buffers -> Int]
  /\ writer # "off" => Dumping
  /\ ~failed => /\ pc # "release"
                /\ Dumping => writer # "off"
                /\ pc \notin {"idle", "mount", "enter", "header"} => Supported(head)
                /\ pc \in Early \cup {"recover", "open"} => n = 0
                /\ pc \in Reading => n < cart.banks
                /\ pc \in {"stop", "stopping"} => n = cart.banks

(* The bank it is at is the next one in view.                              *)
InView ==
  /\ pc \in Reading => SettledAt(cart, regs, cache)
  /\ pc = "read" => RomSeen(cart, regs, Window(cart, n)) = n
  /\ pc \in {"openSave", "enable", "ram", "readRam"} => cart.ramBanks > 0
  /\ pc \in {"ram", "readRam"} => /\ n < cart.ramBanks /\ save = n
                                  /\ cart.kind # "rom_only" => regs.on
  /\ pc = "readRam" => RamSeen(cart, regs) = n

(* The STOP in the queue. *)
Stops == IF pc = "stopping" /\ writer # "done" THEN 1 ELSE 0
(* A buffer that is neither queued nor being written.                      *)
Spare(b) == /\ \A k \in 1 .. Len(work) : work[k] # b
            /\ writer = "write" => index # b

(* The buffers in the queue hold the banks the writer has not yet summed,  *)
(* in their order; what is summed is written, or being written.            *)
Pipe ==
  /\ work \in Seq(Int) /\ sum \in Nat /\ sum <= n
  /\ writer \in {"wait", "write", "done"}
  /\ writer = "done" => pc = "stopping" /\ sum = n
  /\ Len(work) = n - sum + Stops
  /\ Stops = 1 => work[Len(work)] = Stop
  /\ \A k \in 1 .. n - sum : work[k] \in Buffers /\ buf[work[k]] = sum + k - 1
  /\ writer = "write" => index \in Buffers /\ buf[index] = sum - 1 /\ sum > 0
  /\ wok => rom = IF writer = "write" THEN sum - 1 ELSE sum

(* The buffer that is filled, and those that are free, are none of these.  *)
Apart ==
  /\ free \in Seq(Buffers)
  /\ \A k \in 1 .. Len(free) : Spare(free[k])
  /\ \A j, k \in 1 .. Len(free) : j # k => free[j] # free[k]
  /\ pc \in {"begin", "read"} => /\ hold \in Buffers /\ Spare(hold)
                                 /\ \A k \in 1 .. Len(free) : free[k] # hold

(* What has been written of ROM and save. *)
Complete ==
  /\ route = "menu" /\ ~failed =>
       /\ pc \in {"check", "openSave", "enable", "ram", "readRam", "restore", "exit", "finish"}
            => rom = cart.banks
       /\ pc \in {"restore", "exit", "finish"} /\ cart.ramBanks > 0 => save = cart.ramBanks
  /\ route # "menu" =>
       /\ pc \in {"begin", "read"} => art = "rom" /\ rom = n
       /\ pc \in {"enable", "ram", "readRam"} => art = "save"
       /\ pc = "finish" => Whole

(* How the banks flow from the cartridge to the files, together.           *)
Flow == /\ Course /\ InView /\ Complete
        /\ Dumping /\ ~failed => Pipe
        /\ Dumping /\ ~failed /\ pc \in Reading => Apart

(* No file that will be published is torn. *)
WholeFiles == /\ PublishedIsWhole
              /\ \A a \in want : Written(a) => fs[a].temp # Bad

(* What every step keeps: where the task is, how the cartridge is held,    *)
(* how the banks flow, and that no torn file is published.                 *)
BankInv == IInv /\ Held /\ Flow /\ WholeFiles

-----------------------------------------------------------------------------
(* Nobody changes the cartridge in the slot. *)
LEMMA HeadStays ==
  ASSUME IInv, Next
  PROVE  head' = head
<1>1. CASE Quietly
  BY <1>1, StillStep DEF IInv, Still
<1>2. CASE Recover \/ Stage \/ SwapIn \/ DropOld \/ VerifyPublishedFile \/ DropOldFails
  BY <1>2 DEF Recover, Stage, SwapIn, DropOld, VerifyPublishedFile, DropOldFails, Fault,
    history
<1>3. CASE RollBackFails \/ Discard \/ Withdraw \/ PutBack
  BY <1>3 DEF RollBackFails, Discard, Withdraw, PutBack, Fault, history
<1>4. CASE Start \/ Unmount \/ UnmountFails \/ PowerCut
  BY <1>4 DEF Start, Unmount, UnmountFails, PowerCut
<1> QED BY <1>1, <1>2, <1>3, <1>4, NextIs

(* What a game, or the power, may have left in the registers. *)
LEMMA PlayedIs ==
  ASSUME NEW h
  PROVE  Played(h) \subseteq Registers /\ PowerUp \in Registers
<1>1. PowerUp \in Registers
  BY DEF PowerUp, Registers
<1>2. [on |-> TRUE, lo |-> 17, hi |-> 1, mode |-> 1, rb |-> 2] \in Registers
  BY DEF Registers
<1> QED BY <1>1, <1>2 DEF Played

(* What the registers are after a reset or a game that has switched RAM    *)
(* off.                                                                    *)
LEMMA RamOffIs ==
  ASSUME regs \in Registers
  PROVE  /\ RamOff \in Registers
         /\ \A on \in BOOLEAN : [RamOff EXCEPT !.on = on] \in Registers
<1>1. [regs EXCEPT !.on = FALSE] \in Registers
  BY RegisterIs
<1>2. [[regs EXCEPT !.on = FALSE] EXCEPT !.rb = 0] \in Registers
  BY <1>1, RegisterIs
<1>3. RamOff = [[regs EXCEPT !.on = FALSE] EXCEPT !.rb = 0]
  BY DEF RamOff, Registers
<1> QED BY <1>2, <1>3, RegisterIs

(* The kinds of mapper. *)
LEMMA KindIs ==
  ASSUME NEW t
  PROVE  Kind(t) \in {"rom_only", "unknown", "mbc1", "mbc2", "mbc3", "mbc5", "huc1"}
BY DEF Kind

(* What BeginRomBankRange writes is short, and what it leaves is settled.  *)
LEMMA BeginWrites ==
  ASSUME NEW i, Sized(i), NEW r, NEW c, SettledAt(i, r, c), NEW b \in Nat, b < i.banks
  PROVE  LET todo == Changed(PlanRomBank(i, b), c)
         IN  /\ Short(todo)
             /\ SettledAt(i, ChipWrites(i, r, todo), CacheAll(c, todo))
             /\ InEffect(i, ChipWrites(i, r, todo), PlanRomBank(i, b))
<1> DEFINE todo == Changed(PlanRomBank(i, b), c)
<1>1. PICK k \in 0 .. 3 : OncePlan(i, PlanRomBank(i, b), k)
  BY PlanIs
<1>2. /\ SettledAt(i, ChipWrites(i, r, todo), CacheAll(c, todo))
      /\ InEffect(i, ChipWrites(i, r, todo), PlanRomBank(i, b))
      /\ todo \in Seq(RomWrites(i)) /\ Len(todo) <= 3
  BY <1>1, BeginIs
<1> HIDE DEF todo
<1>3. RomAddresses(i) \subseteq Nat
  BY DEF RomAddresses
<1>4. RomWrites(i) \subseteq MapperWrites
  BY <1>3 DEF RomWrites, MapperWrites
<1>5. todo \in Seq(MapperWrites) /\ Len(todo) \in 0 .. 5
  <2>2. todo \in Seq(MapperWrites) /\ Len(todo) \in Nat
    BY <1>2, <1>4, SeqMonotonic
  <2>3. ASSUME NEW x \in Nat, x <= 3
        PROVE  x \in 0 .. 5
    BY <2>3
  <2> QED BY <1>2, <2>2, <2>3
<1> QED BY <1>2, <1>5 DEF todo, Short

(* Past the header, the cartridge is one the program knows. *)
LEMMA Known ==
  ASSUME Control, Course, pc \in Reading \cup {"enable", "ram", "readRam"}
  PROVE  ~failed /\ Supported(head) /\ Sized(cart)
<1>1. ~failed
  BY DEF Control, Way, Reading, Cleaning, Rolling
<1>2. Supported(head)
  BY <1>1 DEF Course, Reading
<1> QED BY <1>1, <1>2, SupportedIsSized DEF cart

(* The registers stay registers.                                           *)
LEMMA RegistersStep ==
  ASSUME IInv, Course, InView, regs \in Registers, Next
  PROVE  regs' \in Registers
<1> USE DEF Go, Bank, Fault, Steady, Files, Chip, history, task, chip
<1>1. CASE regs' = regs
  BY <1>1
<1>2. ASSUME NEW w, Short(w), regs' = ChipWrites(cart, regs, w)
      PROVE  regs' \in Registers
  BY <1>2, ShortWrites
<1>3. ASSUME NEW w, Short(w), NEW k \in 0 .. Len(w),
             regs' = ChipWrites(cart, regs, SubSeq(w, 1, k))
      PROVE  regs' \in Registers
  BY <1>3, ShortWrites
<1>4. Short(PlanRestore(cart))
  BY KindIs, PlansAreShort DEF cart, Info
<1>5. ASSUME NEW w, Short(w), Partly(w)
      PROVE  regs' \in Registers
  BY <1>3, <1>5 DEF Partly
<1>6. CASE ReadHeader
  BY <1>2, <1>6, PlansAreShort DEF ReadHeader
<1>7. CASE HeaderFails
  BY <1>3, <1>7, PlansAreShort DEF HeaderFails
<1>8. CASE ProbeRtc
  BY <1>8, RamOffIs DEF ProbeRtc
<1>9. CASE ProbeFails
  BY <1>9, RamOffIs DEF ProbeFails
<1>10. CASE BeginRomBankRange \/ BeginFails
  <2>1. pc = "begin"
    BY <1>10 DEF BeginRomBankRange, BeginFails
  <2>2. Sized(cart) /\ n \in Nat /\ n < cart.banks /\ SettledAt(cart, regs, cache)
    BY <2>1, Known DEF IInv, Course, InView, Reading
  <2>3. Short(Changed(PlanRomBank(cart, n), cache))
    BY <2>2, BeginWrites
  <2> QED BY <1>2, <1>5, <1>10, <2>3 DEF BeginRomBankRange, BeginFails
<1>11. CASE EnableRam
  BY <1>2, <1>11, PlansAreShort DEF EnableRam
<1>12. CASE SelectRam \/ RamFails
  <2>1. pc \in {"enable", "ram"}
    BY <1>12 DEF SelectRam, RamFails
  <2>2. Sized(cart) /\ n \in Nat
    BY <2>1, Known DEF IInv, Course
  <2>3. Short(PlanRamEnable(cart)) /\ (pc = "ram" => Short(PlanRamBank(cart, n)))
    BY <2>2, PlansAreShort
  <2>4. CASE SelectRam
    BY <1>2, <2>3, <2>4 DEF SelectRam
  <2>5. CASE RamFails
    BY <1>5, <2>3, <2>5 DEF RamFails
  <2> QED BY <1>12, <2>4, <2>5
<1>13. CASE BeginUpload
  BY <1>13, RamOffIs DEF BeginUpload
<1>14. CASE UploadFails
  BY <1>14, RamOffIs DEF UploadFails
<1>15. CASE RestoreMapper
  BY <1>2, <1>4, <1>15 DEF RestoreMapper
<1>16. CASE RestoreFails
  BY <1>3, <1>4, <1>16 DEF RestoreFails
<1>17. CASE Start
  BY <1>17, PlayedIs DEF Start
<1>18. CASE PowerCut
  BY <1>18, PlayedIs DEF PowerCut
<1>19. CASE \/ Mount \/ Enter \/ Recover \/ StreamBank \/ OpenRom \/ TakeBuffer \/ ReadBank
            \/ StopRomWriter \/ RomWriterStopped \/ CheckSum \/ OpenSave \/ ReadRam \/ Exit
  BY <1>1, <1>19 DEF Mount, Enter, Recover, StreamBank, OpenRom, TakeBuffer, ReadBank,
     StopRomWriter, RomWriterStopped, CheckSum, OpenSave, ReadRam, Exit
<1>20. CASE \/ FinishFile \/ BackupEnd \/ Stage \/ SwapIn \/ VerifyPublishedFile \/ DropOld
            \/ Release \/ Discard \/ Withdraw \/ PutBack \/ Unmount \/ RomWriterTask
  BY <1>1, <1>20 DEF FinishFile, BackupEnd, Close, Stage, SwapIn, VerifyPublishedFile,
     DropOld, Release, Discard, Withdraw, PutBack, Unmount, RomWriterTask, WriterTake, Write
<1>21. CASE \/ OpenFails \/ WriteFails \/ ExitFails \/ DropOldFails \/ CallFails
            \/ AbortFails \/ RollBackFails \/ UnmountFails
  BY <1>1, <1>21 DEF OpenFails, WriteFails, ExitFails, DropOldFails, CallFails, AbortFails,
     RollBackFails, UnmountFails
<1> QED BY <1>6, <1>7, <1>8, <1>9, <1>10, <1>11, <1>12, <1>13, <1>14, <1>15, <1>16, <1>17,
       <1>18, <1>19, <1>20, <1>21 DEF Next, Proceed, Faults

(* No step leaves the cartridge in a session it is not in, or hands it     *)
(* back with its RAM on.                                                   *)
LEMMA HeldStep ==
  ASSUME IInv, Held, Next, regs' \in Registers
  PROVE  Held'
<1> USE DEF Go, Bank, Cleanup, Fault, Steady, Files, Chip, history, task, chip, AfterSession,
       RollBack
<1>a. head' = head /\ Switched' = Switched
  BY HeadStays DEF Switched
<1>b. pc # "idle" => Way
  BY DEF IInv, Control
<1>c. ASSUME pc \in Session \cup {"stop", "stopping"}, info # "none", ~strained, acquired,
             Switched, stream = "none", regs' = ChipWrites(cart, regs, PlanRestore(cart))
      PROVE  ~regs'.on
  <2>1. cart.kind \in {"mbc1", "mbc2", "mbc3", "mbc5", "huc1"}
    BY <1>c, KindIs DEF cart, Info, Switched
  <2> QED BY <1>c, <2>1, RamIsOff DEF Held
<1>e. ASSUME Onward
      PROVE  /\ pc \in Rolling /\ pc' \in Rolling \cup {"unmount"}
             /\ UNCHANGED <<failed, info, acquired, route>>
  BY <1>e DEF Onward, Each, After, Rolling
<1> USE DEF Held, Way, Session, Early, Cleaning, Rolling, Replacing
<1>1. CASE Mount
  BY <1>1, <1>a, <1>b DEF Mount
<1>2. CASE Enter
  BY <1>2, <1>a, <1>b DEF Enter
<1>3. CASE ReadHeader
  BY <1>3, <1>a, <1>b DEF ReadHeader
<1>4. CASE ProbeRtc
  BY <1>4, <1>a, <1>b DEF ProbeRtc
<1>5. CASE BeginUpload
  BY <1>5, <1>a, <1>b DEF BeginUpload
<1>6. CASE StreamBank
  BY <1>6, <1>a, <1>b DEF StreamBank
<1>7. CASE OpenRom
  BY <1>7, <1>a, <1>b DEF OpenRom
<1>8. CASE TakeBuffer
  BY <1>8, <1>a, <1>b DEF TakeBuffer
<1>9. CASE BeginRomBankRange
  BY <1>9, <1>a, <1>b DEF BeginRomBankRange
<1>10. CASE ReadBank
  BY <1>10, <1>a, <1>b DEF ReadBank
<1>11. CASE StopRomWriter
  BY <1>11, <1>a, <1>b DEF StopRomWriter
<1>12. CASE RomWriterStopped
  BY <1>12, <1>a, <1>b DEF RomWriterStopped
<1>13. CASE CheckSum
  BY <1>13, <1>a, <1>b DEF CheckSum
<1>14. CASE OpenSave
  BY <1>14, <1>a, <1>b DEF OpenSave
<1>15. CASE EnableRam
  BY <1>15, <1>a, <1>b DEF EnableRam
<1>16. CASE SelectRam
  BY <1>16, <1>a, <1>b DEF SelectRam
<1>17. CASE ReadRam
  BY <1>17, <1>a, <1>b DEF ReadRam
<1>18. CASE RestoreMapper
  BY <1>c, <1>18, <1>a, <1>b DEF RestoreMapper
<1>19. CASE Exit
  BY <1>19, <1>a, <1>b DEF Exit
<1>20. CASE FinishFile
  BY <1>20, <1>a, <1>b DEF FinishFile, Close, Each, After
<1>21. CASE BackupEnd
  BY <1>21, <1>a, <1>b DEF BackupEnd, Close, Each, After
<1>22. CASE Release
  BY <1>22, <1>a, <1>b DEF Release
<1>23. CASE WriterTake
  BY <1>23, <1>a, <1>b DEF WriterTake
<1>24. CASE Write
  BY <1>24, <1>a, <1>b DEF Write
<1>25. CASE HeaderFails
  BY <1>25, <1>a, <1>b DEF HeaderFails
<1>26. CASE ProbeFails
  BY <1>26, <1>a, <1>b DEF ProbeFails
<1>27. CASE UploadFails
  BY <1>27, <1>a, <1>b DEF UploadFails
<1>28. CASE OpenFails
  BY <1>28, <1>a, <1>b DEF OpenFails
<1>29. CASE BeginFails
  BY <1>29, <1>a, <1>b DEF BeginFails, Partly
<1>30. CASE WriteFails
  BY <1>30, <1>a, <1>b DEF WriteFails
<1>31. CASE RamFails
  BY <1>31, <1>a, <1>b DEF RamFails, Partly
<1>32. CASE RestoreFails
  BY <1>32, <1>a, <1>b DEF RestoreFails
<1>33. CASE ExitFails
  BY <1>33, <1>a, <1>b DEF ExitFails
<1>34. CASE CallFails
  BY <1>34, <1>a, <1>b DEF CallFails
<1>35. CASE AbortFails
  BY <1>35, <1>a, <1>b DEF AbortFails
<1>36. CASE Recover
  BY <1>36, <1>a, <1>b DEF Recover, Each, After
<1>37. CASE Stage
  BY <1>37, <1>a, <1>b DEF Stage, Each, After
<1>38. CASE SwapIn
  BY <1>38, <1>a, <1>b DEF SwapIn, Each, After
<1>39. CASE DropOld
  BY <1>39, <1>a, <1>b DEF DropOld, Each, After
<1>40. CASE VerifyPublishedFile
  BY <1>40, <1>a, <1>b DEF VerifyPublishedFile, Each, After
<1>41. CASE DropOldFails
  BY <1>41, <1>a, <1>b DEF DropOldFails, Each, After
<1>42. CASE RollBackFails
  BY <1>42, <1>a, <1>e DEF RollBackFails
<1>43. CASE Discard
  BY <1>43, <1>a, <1>e DEF Discard
<1>44. CASE Withdraw
  BY <1>44, <1>a, <1>e DEF Withdraw
<1>45. CASE PutBack
  BY <1>45, <1>a, <1>e DEF PutBack
<1>46. CASE Unmount
  BY <1>46, <1>a, <1>b DEF Unmount
<1>47. CASE UnmountFails
  BY <1>47, <1>a, <1>b DEF UnmountFails
<1>48. CASE Start
  BY <1>48, <1>a, <1>b DEF Start, Fresh
<1>49. CASE PowerCut
  BY PlayedIs, <1>49, <1>a, <1>b DEF PowerCut, Fresh
<1> QED BY <1>1, <1>2, <1>3, <1>4, <1>5, <1>6, <1>7, <1>8, <1>9, <1>10, <1>11, <1>12, <1>13,
      <1>14, <1>15, <1>16, <1>17, <1>18, <1>19, <1>20, <1>21, <1>22, <1>23, <1>24, <1>25,
      <1>26, <1>27, <1>28, <1>29, <1>30, <1>31, <1>32, <1>33, <1>34, <1>35, <1>36, <1>37,
      <1>38, <1>39, <1>40, <1>41, <1>42, <1>43, <1>44, <1>45, <1>46, <1>47, <1>48, <1>49
   DEF Next, Proceed, RomWriterTask, Faults

-----------------------------------------------------------------------------
(* The queues when the dump begins. *)
LEMMA OpenPipe ==
  ASSUME OpenRom, n = 0
  PROVE  Pipe' /\ Apart'
<1>1. /\ pc' = "dump" /\ writer' = "wait" /\ wok' = TRUE /\ sum' = 0 /\ rom' = 0
      /\ work' = << >> /\ free' = [k \in 1 .. Depth |-> k - 1] /\ n' = 0
  BY DEF OpenRom, Go
<1>2. Pipe'
  <2>1. << >> \in Seq(Int) /\ Len(<< >>) = 0
    OBVIOUS
  <2>2. Stops' = 0
    BY <1>1 DEF Stops
  <2> QED BY <1>1, <2>1, <2>2 DEF Pipe
<1>3. Depth \in Nat /\ Buffers = 0 .. Depth - 1
  BY BackupAssumption DEF Buffers
<1>4. free' \in Seq(Buffers) /\ Len(free') = Depth
  <2>1. \A k \in 1 .. Depth : k - 1 \in Buffers
    BY <1>3
  <2>2. free' \in [1 .. Depth -> Buffers]
    BY <1>1, <2>1
  <2> QED BY <1>1, <1>3, <2>2
<1>5. \A k \in 1 .. Depth : free'[k] = k - 1
  BY <1>1
<1>6. \A b : Spare(b)'
  BY <1>1 DEF Spare
<1> QED BY <1>1, <1>2, <1>3, <1>4, <1>5, <1>6 DEF Apart

(* The queues when a buffer is taken. *)
LEMMA TakePipe ==
  ASSUME TakeBuffer, wok, Pipe, Apart
  PROVE  Pipe' /\ Apart'
<1>1. /\ pc = "dump" /\ pc' = "begin" /\ free # << >>
      /\ hold' = Head(free) /\ free' = Tail(free)
      /\ UNCHANGED <<n, work, buf, writer, index, wok, sum, rom>>
  BY DEF TakeBuffer, Go, sums
<1>2. Pipe'
  BY <1>1 DEF Pipe, Stops
<1>3. /\ free \in Seq(Buffers) /\ free' \in Seq(Buffers) /\ hold' \in Buffers
      /\ Len(free) \in Nat /\ Len(free) > 0 /\ Len(free') = Len(free) - 1 /\ hold' = free[1]
      /\ \A k \in 1 .. Len(free') : free'[k] = free[k + 1]
  BY <1>1, HeadTailProperties, EmptySeq, LenProperties DEF Apart
<1> DEFINE Clear(b) == /\ \A k \in 1 .. Len(work') : work'[k] # b
                       /\ writer' = "write" => index' # b
<1>4. \A b : Spare(b) => Clear(b)
  BY <1>1 DEF Spare
<1>5. \A k \in 1 .. Len(free') : k + 1 \in 1 .. Len(free) /\ k + 1 # 1
  BY <1>3
<1>6. 1 \in 1 .. Len(free)
  BY <1>3
<1>7. Clear(hold')
  BY <1>3, <1>4, <1>6 DEF Apart
<1>8. \A k \in 1 .. Len(free') : Clear(free'[k]) /\ free'[k] # hold'
  BY <1>3, <1>4, <1>5, <1>6 DEF Apart
<1>9. \A j, k \in 1 .. Len(free') : j # k => free'[j] # free'[k]
  <2>1. ASSUME NEW j \in 1 .. Len(free'), NEW k \in 1 .. Len(free'), j # k
        PROVE  free'[j] # free'[k]
    <3>1. j + 1 # k + 1
      BY <2>1
    <3> QED BY <1>3, <1>5, <3>1 DEF Apart
  <2> QED BY <2>1
<1> QED BY <1>2, <1>3, <1>7, <1>8, <1>9 DEF Apart, Spare

(* They do not hold the buffer that a bank is read into. *)
LEMMA BeginPipe ==
  ASSUME BeginRomBankRange, Pipe, Apart, buf \in [Buffers -> Int], n \in Nat
  PROVE  Pipe' /\ Apart' /\ buf' \in [Buffers -> Int]
<1>1. /\ pc = "begin" /\ pc' = "read" /\ buf' = [buf EXCEPT ![hold] = Bad]
      /\ UNCHANGED <<n, work, free, hold, writer, index, wok, sum, rom>>
  BY DEF BeginRomBankRange, Go, queues, sums
<1>2. hold \in Buffers /\ Spare(hold)
  BY <1>1 DEF Apart
<1>3. /\ buf' \in [Buffers -> Int]
      /\ \A b \in Buffers : b # hold => buf'[b] = buf[b]
  BY <1>1, <1>2 DEF Bad
<1>4. Apart'
  BY <1>1 DEF Apart, Spare
<1>5. Stops = 0 /\ Stops' = 0 /\ n - sum = Len(work)
  <2>1. sum \in Nat /\ Len(work) \in Nat
    BY LenProperties DEF Pipe
  <2> QED BY <1>1, <2>1 DEF Stops, Pipe
<1>6. \A k \in 1 .. n - sum : buf'[work[k]] = buf[work[k]]
  BY <1>2, <1>3, <1>5 DEF Pipe, Spare
<1>7. writer = "write" => buf'[index] = buf[index]
  BY <1>2, <1>3 DEF Pipe, Spare
<1> QED BY <1>1, <1>3, <1>4, <1>5, <1>6, <1>7 DEF Pipe

(* The bank that is in goes to the end of the queue.                       *)
LEMMA ReadPipe ==
  ASSUME ReadBank, Pipe, Apart, buf \in [Buffers -> Int], n \in Nat,
         RomSeen(cart, regs, Window(cart, n)) = n
  PROVE  Pipe' /\ (pc' \in Reading => Apart') /\ buf' \in [Buffers -> Int]
<1>1. /\ pc = "read" /\ pc' \in {"dump", "stop"} /\ buf' = [buf EXCEPT ![hold] = n]
      /\ work' = Append(work, hold) /\ n' = n + 1
      /\ UNCHANGED <<free, writer, index, wok, sum, rom>>
  BY DEF ReadBank, Bank, sums
<1>2. hold \in Buffers /\ Spare(hold)
  BY <1>1 DEF Apart
<1>3. /\ buf' \in [Buffers -> Int] /\ buf'[hold] = n
      /\ \A b \in Buffers : b # hold => buf'[b] = buf[b]
  BY <1>1, <1>2
<1>4. hold \in Int /\ work \in Seq(Int) /\ Len(work) \in Nat /\ sum \in Nat
  BY <1>2, LenProperties, BackupAssumption DEF Buffers, Pipe
<1>5. /\ work' \in Seq(Int) /\ Len(work') = Len(work) + 1
      /\ \A k \in 1 .. Len(work) : work'[k] = work[k]
      /\ work'[Len(work) + 1] = hold
  BY <1>1, <1>4, AppendProperties
<1>6. Stops = 0 /\ Stops' = 0 /\ n - sum = Len(work)
  BY <1>1, <1>4 DEF Stops, Pipe
<1>7. Len(work') = n' - sum' + Stops' /\ sum' \in Nat /\ sum' <= n'
  BY <1>1, <1>4, <1>5, <1>6 DEF Pipe
<1>8. ASSUME NEW k \in 1 .. n' - sum'
      PROVE  work'[k] \in Buffers /\ buf'[work'[k]] = sum' + k - 1
  <2>1. CASE k = Len(work) + 1
    BY <1>1, <1>2, <1>3, <1>4, <1>5, <1>6, <2>1
  <2>2. CASE k \in 1 .. Len(work)
    <3>1. work'[k] = work[k] /\ work[k] \in Buffers /\ buf[work[k]] = sum + k - 1
      BY <1>5, <1>6, <2>2 DEF Pipe
    <3>2. work[k] # hold
      BY <1>2, <2>2 DEF Spare
    <3> QED BY <1>1, <1>3, <3>1, <3>2
  <2> QED BY <1>1, <1>4, <1>6, <1>8, <2>1, <2>2
<1>9. writer = "write" => buf'[index] = buf[index]
  BY <1>2, <1>3 DEF Pipe, Spare
<1>10. Pipe'
  BY <1>1, <1>3, <1>5, <1>6, <1>7, <1>8, <1>9 DEF Pipe
<1> DEFINE Clear(b) == /\ \A k \in 1 .. Len(work') : work'[k] # b
                       /\ writer' = "write" => index' # b
<1>11. ASSUME pc' \in Reading
       PROVE  Apart'
  <2>1. ASSUME NEW b, Spare(b), b # hold
        PROVE  Clear(b)
    <3>1. ASSUME NEW k \in 1 .. Len(work')
          PROVE  work'[k] # b
      <4>1. k = Len(work) + 1 \/ k \in 1 .. Len(work)
        BY <1>4, <1>5, <3>1
      <4> QED BY <1>5, <2>1, <4>1 DEF Spare
    <3> QED BY <1>1, <2>1, <3>1 DEF Spare
  <2>2. pc' = "dump"
    BY <1>1, <1>11 DEF Reading
  <2>3. \A k \in 1 .. Len(free) : Clear(free[k])
    BY <1>1, <2>1 DEF Apart
  <2> QED BY <1>1, <2>2, <2>3 DEF Apart, Spare
<1> QED BY <1>3, <1>10, <1>11

(* The STOP goes there after the last of them. *)
LEMMA StopPipe ==
  ASSUME StopRomWriter, Pipe, writer # "off", n \in Nat
  PROVE  Pipe'
<1>1. /\ pc = "stop" /\ pc' = "stopping" /\ work' = Append(work, Stop)
      /\ UNCHANGED <<n, buf, writer, index, wok, sum, rom>>
  BY DEF StopRomWriter, Go, sums
<1>2. Stop \in Int /\ work \in Seq(Int) /\ Len(work) \in Nat /\ sum \in Nat
  BY LenProperties DEF Stop, Pipe
<1>3. /\ work' \in Seq(Int) /\ Len(work') = Len(work) + 1
      /\ \A k \in 1 .. Len(work) : work'[k] = work[k]
      /\ work'[Len(work) + 1] = Stop
  BY <1>1, <1>2, AppendProperties
<1>4. writer # "done" /\ Stops = 0 /\ Stops' = 1 /\ n - sum = Len(work)
  BY <1>1, <1>2 DEF Stops, Pipe
<1>5. \A k \in 1 .. n - sum : work'[k] = work[k]
  BY <1>3, <1>4
<1>6. Len(work') = n - sum + Stops' /\ work'[Len(work')] = Stop
  BY <1>2, <1>3, <1>4
<1> QED BY <1>1, <1>3, <1>4, <1>5, <1>6 DEF Pipe

(* The writer takes a bank, or the STOP after the last one.                *)
LEMMA TakeWork ==
  ASSUME WriterTake, Pipe, n \in Nat
  PROVE  Pipe' /\ (Apart /\ pc \in Reading => Apart')
<1>1. /\ writer = "wait" /\ work # << >> /\ work' = Tail(work)
      /\ UNCHANGED <<pc, n, buf, free, hold, wok, rom>>
  BY DEF WriterTake, task
<1>2. /\ work \in Seq(Int) /\ sum \in Nat /\ sum <= n
      /\ Len(work) \in Nat /\ Len(work) > 0 /\ Len(work') = Len(work) - 1
      /\ work' \in Seq(Int) /\ Head(work) = work[1]
      /\ \A k \in 1 .. Len(work') : work'[k] = work[k + 1]
  BY <1>1, HeadTailProperties, EmptySeq, LenProperties DEF Pipe
<1>3. Stop \notin Buffers
  BY BackupAssumption DEF Stop, Buffers
<1>4. CASE work[1] = Stop
  <2>1. writer' = "done" /\ UNCHANGED <<index, sum>>
    BY <1>2, <1>4 DEF WriterTake
  <2>2. ~(1 \in 1 .. n - sum)
    BY <1>3, <1>4 DEF Pipe
  <2>3. n - sum = 0
    BY <1>2, <2>2
  <2>4. pc = "stopping" /\ Stops = 1 /\ Len(work) = 1
    BY <1>1, <1>2, <2>3 DEF Pipe, Stops
  <2>5. Stops' = 0 /\ Len(work') = 0 /\ sum' = n'
    BY <1>1, <1>2, <2>1, <2>3, <2>4 DEF Stops
  <2>6. Pipe'
    BY <1>1, <1>2, <2>1, <2>3, <2>4, <2>5 DEF Pipe
  <2> QED BY <2>4, <2>6 DEF Reading
<1>5. CASE work[1] # Stop
  <2>1. /\ writer' = "write" /\ index' = work[1] /\ sum' = Extend(sum, buf[work[1]])
    BY <1>2, <1>5 DEF WriterTake
  <2>2. Stops' = Stops /\ Stops \in {0, 1}
    BY <1>1, <2>1 DEF Stops
  <2>3. n - sum > 0
    <3>1. CASE Stops = 0
      BY <1>2, <3>1 DEF Pipe
    <3>2. CASE Stops = 1
      <4>1. Len(work) # 1
        BY <1>5, <3>2 DEF Pipe
      <4> QED BY <1>2, <3>2, <4>1 DEF Pipe
    <3> QED BY <2>2, <3>1, <3>2
  <2>4. 1 \in 1 .. n - sum
    BY <1>2, <2>3
  <2>5. work[1] \in Buffers /\ buf[work[1]] = sum
    BY <1>2, <2>4 DEF Pipe
  <2>6. sum' = sum + 1
    BY <1>2, <2>1, <2>5 DEF Extend
  <2>7. \A k \in 1 .. n' - sum' : k + 1 \in 1 .. n - sum /\ k \in 1 .. Len(work')
    BY <1>1, <1>2, <2>2, <2>6 DEF Pipe
  <2>8. ASSUME NEW k \in 1 .. n' - sum'
        PROVE  work'[k] \in Buffers /\ buf'[work'[k]] = sum' + k - 1
    <3>1. k + 1 \in 1 .. n - sum /\ work'[k] = work[k + 1]
      BY <1>2, <2>7
    <3>2. work[k + 1] \in Buffers /\ buf[work[k + 1]] = sum + (k + 1) - 1
      BY <3>1 DEF Pipe
    <3>3. work'[k] \in Buffers /\ buf'[work'[k]] = sum + (k + 1) - 1
      BY <1>1, <3>1, <3>2
    <3>4. sum + (k + 1) - 1 = sum' + k - 1
      BY <1>2, <2>6, <2>8
    <3> QED BY <3>3, <3>4
  <2>9. Stops' = 1 => work'[Len(work')] = Stop
    <3>1. ASSUME Stops' = 1
          PROVE  work'[Len(work')] = Stop
      <4>1. Len(work') \in 1 .. Len(work') /\ Len(work') + 1 = Len(work)
        BY <1>2, <2>2, <2>3, <3>1 DEF Pipe
      <4> QED BY <1>2, <2>2, <3>1, <4>1 DEF Pipe
    <3> QED BY <3>1
  <2>10. Len(work') = n' - sum' + Stops' /\ sum' \in Nat /\ sum' <= n' /\ sum' > 0
    BY <1>1, <1>2, <2>2, <2>3, <2>6 DEF Pipe
  <2>11. wok' => rom' = sum' - 1
    BY <1>1, <1>2, <2>6 DEF Pipe
  <2>12. buf'[index'] = sum' - 1
    BY <1>1, <1>2, <2>1, <2>5, <2>6
  <2>13. Pipe'
    BY <1>2, <2>1, <2>5, <2>8, <2>9, <2>10, <2>11, <2>12 DEF Pipe
  <2> DEFINE Clear(b) == /\ \A k \in 1 .. Len(work') : work'[k] # b
                         /\ writer' = "write" => index' # b
  <2>14. ASSUME NEW b, Spare(b)
         PROVE  Clear(b)
    <3>1. \A k \in 1 .. Len(work') : k + 1 \in 1 .. Len(work)
      BY <1>2
    <3>2. 1 \in 1 .. Len(work)
      BY <1>2
    <3> QED BY <1>2, <2>1, <2>14, <3>1, <3>2 DEF Spare
  <2>15. Apart => Apart'
    BY <1>1, <2>14 DEF Apart, Spare
  <2> QED BY <2>13, <2>15
<1> QED BY <1>4, <1>5

(* It gives the buffer back when the bank is written, or could not be.     *)
LEMMA WritePipe ==
  ASSUME Write \/ WriteFails, Pipe, n \in Nat
  PROVE  Pipe' /\ (Apart /\ pc \in Reading => Apart')
<1>1. /\ writer = "write" /\ writer' = "wait" /\ index' = None
      /\ free' = Append(free, index) /\ UNCHANGED <<pc, n, buf, work, hold, sum>>
  BY DEF Write, WriteFails, task
<1>2. sum \in Nat /\ sum > 0 /\ index \in Buffers /\ buf[index] = sum - 1
      /\ Len(work) \in Nat
  BY <1>1, LenProperties DEF Pipe
<1>3. wok' => rom' = sum'
  <2>1. CASE WriteFails
    BY <2>1 DEF WriteFails
  <2>2. CASE Write
    <3>1. wok' = wok /\ (wok => rom' = Extend(rom, sum - 1) /\ rom = sum - 1)
      BY <1>1, <1>2, <2>2 DEF Write, Pipe
    <3> QED BY <1>1, <1>2, <3>1 DEF Extend
  <2> QED BY <2>1, <2>2
<1>4. Stops' = Stops
  BY <1>1 DEF Stops
<1>5. Pipe'
  BY <1>1, <1>3, <1>4 DEF Pipe
<1>6. ASSUME Apart, pc \in Reading
      PROVE  Apart'
  <2>1. Stops = 0 /\ n - sum = Len(work)
    BY <1>2, <1>6 DEF Stops, Pipe, Reading
  <2>2. \A k \in 1 .. Len(work) : work[k] # index
    <3>1. ASSUME NEW k \in 1 .. Len(work)
          PROVE  work[k] # index
      <4>1. buf[work[k]] = sum + k - 1
        BY <2>1, <3>1 DEF Pipe
      <4> QED BY <1>2, <3>1, <4>1
    <3> QED BY <3>1
  <2>3. /\ free \in Seq(Buffers) /\ Len(free) \in Nat
        /\ free' \in Seq(Buffers) /\ Len(free') = Len(free) + 1
        /\ \A k \in 1 .. Len(free) : free'[k] = free[k]
        /\ free'[Len(free) + 1] = index
    BY <1>1, <1>2, <1>6, AppendProperties, LenProperties DEF Apart
  <2>4. ASSUME NEW k \in 1 .. Len(free')
        PROVE  k \in 1 .. Len(free) \/ k = Len(free) + 1
    BY <2>3, <2>4
  <2>5. \A k \in 1 .. Len(free) : free[k] # index
    BY <1>1, <1>6 DEF Apart, Spare
  <2> DEFINE Clear(b) == /\ \A k \in 1 .. Len(work') : work'[k] # b
                         /\ writer' = "write" => index' # b
  <2>6. \A b : Spare(b) \/ b = index => Clear(b)
    BY <1>1, <2>2 DEF Spare
  <2>7. \A k \in 1 .. Len(free') : Clear(free'[k])
    BY <1>6, <2>3, <2>4, <2>6 DEF Apart
  <2>8. ASSUME NEW j \in 1 .. Len(free'), NEW k \in 1 .. Len(free'), j # k
        PROVE  free'[j] # free'[k]
    <3>1. CASE j \in 1 .. Len(free) /\ k \in 1 .. Len(free)
      BY <1>6, <2>3, <2>8, <3>1 DEF Apart
    <3>2. CASE j = Len(free) + 1 /\ k \in 1 .. Len(free)
      BY <2>3, <2>5, <3>2
    <3>3. CASE k = Len(free) + 1 /\ j \in 1 .. Len(free)
      BY <2>3, <2>5, <3>3
    <3> QED BY <2>4, <2>8, <3>1, <3>2, <3>3
  <2>9. pc \in {"begin", "read"} => /\ hold \in Buffers /\ Clear(hold)
                                    /\ \A k \in 1 .. Len(free') : free'[k] # hold
    <3>1. pc \in {"begin", "read"} => hold # index /\ hold \in Buffers /\ Clear(hold)
      BY <1>1, <1>6, <2>6 DEF Apart, Spare
    <3> QED BY <1>6, <2>3, <2>4, <3>1 DEF Apart
  <2> QED BY <1>1, <2>3, <2>7, <2>8, <2>9 DEF Apart, Spare
<1> QED BY <1>5, <1>6

(* Where the run has failed, no bank is asked for. *)
LEMMA FlowOver ==
  ASSUME failed', pc' \in Cleaning \cup Rolling \cup {"unmount"}, n' \in Nat,
         buf' \in [Buffers -> Int], writer' # "off" => Dumping'
  PROVE  Flow'
BY DEF Flow, Course, InView, Complete, Dumping, Reading, Cleaning, Rolling

(* Nor is one where the session is over. *)
LEMMA FlowBeyond ==
  ASSUME pc' \in Replacing \cup {"unmount", "idle"}, n' \in Nat,
         buf' \in [Buffers -> Int], writer' = "off",
         pc' # "idle" => failed' \/ Supported(head')
  PROVE  Flow'
BY DEF Flow, Course, InView, Complete, Dumping, Reading, Replacing, Early

(* The steps that fail, and those of a run that has. *)
LEMMA FlowFails ==
  ASSUME Control, Flow, pc # "idle",
         \/ Cleanup
         \/ /\ failed /\ UNCHANGED <<failed, route, n>>
            /\ pc' \in Cleaning \cup Rolling \cup {"unmount"}
            /\ writer # "off" => pc' = "stopping" \/ pc' = pc,
         writer' = writer \/ writer' = "off" \/ writer # "off",
         buf' = buf \/ buf' = [i \in Buffers |-> Bad]
  PROVE  Flow'
<1>1. /\ failed' /\ route' = route /\ n' = n
      /\ pc' \in Cleaning \cup Rolling \cup {"unmount"}
  BY DEF Cleanup, Cleaning
<1>2. writer # "off" => Dumping
  BY DEF Flow, Course
<1>3. writer' # "off" => Dumping'
  BY <1>1, <1>2 DEF Dumping, Cleanup, Reading
<1>4. n \in Nat /\ buf' \in [Buffers -> Int]
  BY DEF Flow, Course, Bad
<1> QED BY <1>1, <1>3, <1>4, FlowOver

(* No step leaves the flow of the banks: each is read where it is in view, *)
(* goes through the queue in its turn, and is written after the one before *)
(* it, or the run fails.                                                   *)
LEMMA FlowStep ==
  ASSUME IInv, Held, Flow, Next, regs' \in Registers
  PROVE  Flow'
<1> USE DEF Go, Bank, Fault, Steady, Files, Chip, history, task, chip, pipeline, queues, sums
<1>a. head' = head /\ cart' = cart /\ Artifacts' = Artifacts
  BY HeadStays DEF cart, Artifacts
<1>b. /\ pc # "idle" => Control /\ Way /\ Turn
      /\ art \in Names /\ want \subseteq Artifacts /\ Control
  BY DEF IInv, Control, TypeOK
<1>c. /\ n \in Nat /\ buf \in [Buffers -> Int] /\ [i \in Buffers |-> Bad] \in [Buffers -> Int]
      /\ writer # "off" => Dumping
  BY DEF Flow, Course, Bad
<1>d. ASSUME ~failed, pc \notin {"idle", "mount", "enter", "header"}
      PROVE  Supported(head) /\ Sized(cart)
  BY <1>d, SupportedIsSized DEF cart, Flow, Course
<1>1. CASE HeaderFails
  BY <1>1, <1>b, FlowFails DEF HeaderFails
<1>2. CASE ProbeFails
  BY <1>2, <1>b, FlowFails DEF ProbeFails
<1>3. CASE UploadFails
  BY <1>3, <1>b, FlowFails DEF UploadFails
<1>4. CASE OpenFails
  BY <1>4, <1>b, FlowFails DEF OpenFails
<1>5. CASE BeginFails
  BY <1>5, <1>b, FlowFails DEF BeginFails, Partly
<1>6. CASE RamFails
  BY <1>6, <1>b, FlowFails DEF RamFails, Partly
<1>7. CASE CallFails
  BY <1>7, <1>b, FlowFails DEF CallFails
<1>8. CASE ExitFails
  <2>1. /\ failed' /\ n' = n /\ buf' = buf /\ writer' = writer /\ writer = "off"
        /\ pc' \in Rolling \cup {"unmount"}
    BY <1>8, <1>c DEF ExitFails, RollBack, Dumping, Reading, Rolling
  <2> QED BY <1>c, <2>1, FlowOver
<1>9. CASE AbortFails
  BY <1>9, <1>b, <1>c, FlowFails DEF AbortFails, Flow, Course, Dumping, Reading, Way,
    Cleaning, Rolling
<1>10. CASE Release
  BY <1>10, <1>b, <1>c, FlowFails DEF Release, AfterSession, RollBack, Flow, Course,
    Dumping, Reading, Way, Cleaning, Rolling
<1>11. CASE RollBackFails \/ Discard \/ Withdraw \/ PutBack
  <2>1. Onward /\ UNCHANGED <<writer, buf>>
    BY <1>11 DEF RollBackFails, Discard, Withdraw, PutBack
  <2>2. /\ UNCHANGED <<failed, route, n>> /\ pc \in Rolling
        /\ pc' \in Rolling \cup {"unmount"}
    BY <2>1 DEF Onward, Each, After, Rolling
  <2> QED BY <1>b, <1>c, <2>1, <2>2, FlowFails DEF Way, Dumping, Reading, Rolling
<1>12. CASE Stage \/ SwapIn \/ VerifyPublishedFile \/ DropOld \/ DropOldFails
  <2>1. /\ UNCHANGED <<writer, buf, n, failed>> /\ pc \in Replacing
        /\ pc' \in Replacing \cup {"unmount"}
    BY <1>12 DEF Stage, SwapIn, VerifyPublishedFile, DropOld, DropOldFails, Each, After,
      Replacing
  <2> QED BY <1>a, <1>b, <1>c, <1>d, <2>1, FlowBeyond DEF Dumping, Reading, Replacing
<1>13. CASE Unmount \/ UnmountFails
  <2>1. UNCHANGED <<writer, buf, n>> /\ pc = "unmount" /\ pc' = "idle"
    BY <1>13 DEF Unmount, UnmountFails
  <2> QED BY <1>c, <2>1, FlowBeyond DEF Dumping, Reading
<1>14. CASE PowerCut
  <2>1. buf' = [i \in Buffers |-> Bad] /\ n' = 0 /\ writer' = "off" /\ pc' = "idle"
    BY <1>14 DEF PowerCut, Fresh
  <2> QED BY <1>c, <2>1, FlowBeyond
<1>15. CASE Start
  <2>1. buf' = [i \in Buffers |-> Bad] /\ n' = 0 /\ writer' = "off" /\ pc' = "mount"
    BY <1>15 DEF Start, Fresh
  <2> QED BY <1>c, <2>1 DEF Flow, Course, InView, Complete, Dumping, Reading, Early
<1>16. CASE Mount
  BY <1>16, <1>a, <1>b, <1>c, <1>d DEF Mount, Way, Flow, Course, InView, Complete, Dumping,
    Reading,
     Early, Cleaning, Rolling
<1>17. CASE Enter
  BY <1>17, <1>a, <1>b, <1>c, <1>d DEF Enter, Way, Flow, Course, InView, Complete, Dumping,
    Reading,
     Early, Cleaning, Rolling
<1>18. CASE ReadHeader
  BY <1>18, <1>a, <1>b, <1>c, <1>d DEF ReadHeader, Way, Flow, Course, InView, Complete,
    Dumping, Reading,
     Early, Cleaning, Rolling
<1>19. CASE ProbeRtc
  BY <1>19, <1>a, <1>b, <1>c, <1>d DEF ProbeRtc, Way, Flow, Course, InView, Complete,
    Dumping, Reading,
     Early, Cleaning, Rolling
<1>20. CASE Recover
  BY <1>20, <1>a, <1>b, <1>c, <1>d DEF Recover, Each, After, Way, Flow, Course, InView,
    Complete, Dumping, Reading,
     Early, Cleaning, Rolling
<1>21. CASE OpenRom
  <2>1. n = 0 /\ ~failed /\ Sized(cart) /\ Supported(head) /\ route = "menu"
    BY <1>21, <1>b, <1>d DEF OpenRom, Way, Cleaning, Rolling, Flow, Course
  <2>2. Pipe' /\ Apart'
    BY <1>21, <2>1, OpenPipe
  <2>3. /\ pc' = "dump" /\ writer' = "wait" /\ UNCHANGED <<n, buf, route, failed, regs>>
        /\ cache' = {}
    BY <1>21 DEF OpenRom
  <2>4. SettledAt(cart, regs', {})
    BY DEF SettledAt
  <2> QED BY <1>a, <1>c, <2>1, <2>2, <2>3, <2>4 DEF Flow, Course, InView, Complete, Dumping,
          Reading, Sized, Early
<1>22. CASE TakeBuffer
  <2>1. /\ pc = "dump" /\ ~failed /\ route = "menu" /\ UNCHANGED <<writer, buf, route, regs, cache>>
        /\ Control /\ writer # "off"
    BY <1>22, <1>b DEF TakeBuffer, Cleanup, Way, Cleaning, Rolling, Flow, Course, Dumping,
      Reading
  <2>2. CASE ~wok
    BY <1>22, <2>1, <2>2, FlowFails DEF TakeBuffer
  <2>3. CASE wok
    <3>1. Pipe' /\ Apart'
      BY <1>22, <2>1, <2>3, TakePipe DEF Flow, Dumping, Reading
    <3>2. pc' = "begin" /\ UNCHANGED <<n, failed>>
      BY <1>22, <2>3 DEF TakeBuffer
    <3> QED BY <1>a, <1>c, <1>d, <2>1, <3>1, <3>2 DEF Flow, Course, InView, Complete,
          Dumping,
            Reading, Early
  <2> QED BY <2>2, <2>3
<1>23. CASE BeginRomBankRange
  <2>1. pc = "begin" /\ ~failed /\ Sized(cart) /\ SettledAt(cart, regs, cache) /\ n < cart.banks
    BY <1>23, <1>b, <1>d DEF BeginRomBankRange, Way, Cleaning, Rolling, Early, Flow, Course,
      InView, Reading
  <2>2. /\ SettledAt(cart, regs', cache') /\ InEffect(cart, regs', PlanRomBank(cart, n))
    BY <1>23, <1>c, <2>1, BeginWrites DEF BeginRomBankRange
  <2>3. RomSeen(cart, regs', Window(cart, n)) = n
    BY <1>c, <2>1, <2>2, RomIsInView
  <2>4. pc' = "read" /\ UNCHANGED <<failed, route, n, art, writer, rom>>
    BY <1>23 DEF BeginRomBankRange
  <2>5. buf' \in [Buffers -> Int]
    BY <1>23, <1>c DEF BeginRomBankRange, Bad
  <2>6. CASE route = "menu"
    <3>1. Pipe' /\ Apart'
      BY <1>23, <1>c, <2>1, <2>6, BeginPipe DEF Flow, Dumping, Reading
    <3> QED BY <1>a, <1>c, <1>d, <2>1, <2>2, <2>3, <2>4, <2>5, <2>6, <3>1
            DEF Flow, Course, InView, Complete, Dumping, Reading, Early
  <2>7. CASE route # "menu"
    BY <1>a, <1>c, <1>d, <2>1, <2>2, <2>3, <2>4, <2>5, <2>7
       DEF Flow, Course, InView, Complete, Dumping, Reading, Early
  <2> QED BY <2>6, <2>7
<1>24. CASE ReadBank
  <2>1. /\ pc = "read" /\ ~failed /\ Supported(head) /\ SettledAt(cart, regs, cache)
        /\ n < cart.banks /\ route = "menu" /\ RomSeen(cart, regs, Window(cart, n)) = n
        /\ writer # "off" /\ cart.banks \in Nat
    BY <1>24, <1>b, <1>d DEF ReadBank, Way, Cleaning, Rolling, Early, Flow, Course, InView,
      Reading,
       Dumping, Sized
  <2>2. Pipe' /\ (pc' \in Reading => Apart') /\ buf' \in [Buffers -> Int]
    BY <1>24, <1>c, <2>1, ReadPipe DEF Flow, Dumping, Reading
  <2>3. /\ n' = n + 1 /\ pc' = (IF n + 1 = cart.banks THEN "stop" ELSE "dump")
        /\ UNCHANGED <<failed, route, writer, regs, cache>>
    BY <1>24 DEF ReadBank
  <2>4. n' \in Nat /\ (n' = cart.banks \/ n' < cart.banks)
    BY <1>c, <2>1, <2>3
  <2> QED BY <1>a, <2>1, <2>2, <2>3, <2>4
          DEF Flow, Course, InView, Complete, Dumping, Reading, Early
<1>25. CASE StreamBank
  <2>1. /\ pc = "read" /\ ~failed /\ Supported(head) /\ SettledAt(cart, regs, cache)
        /\ n < cart.banks /\ route # "menu" /\ RomSeen(cart, regs, Window(cart, n)) = n
        /\ writer = "off" /\ cart.banks \in Nat /\ rom = n /\ art = "rom"
    BY <1>25, <1>b, <1>c, <1>d DEF StreamBank, Way, Cleaning, Rolling, Early, Flow, Course,
      InView, Reading,
       Dumping, Sized, Complete
  <2>2. rom' = n + 1
    BY <1>25, <1>c, <2>1 DEF StreamBank, Extend
  <2>3. /\ n' = n + 1 /\ pc' = (IF n + 1 = cart.banks THEN "finish" ELSE "begin")
        /\ UNCHANGED <<failed, route, art, writer, regs, cache, buf>>
    BY <1>25 DEF StreamBank
  <2>4. n' \in Nat /\ (n' = cart.banks \/ n' < cart.banks)
    BY <1>c, <2>1, <2>3
  <2> QED BY <1>a, <1>c, <2>1, <2>2, <2>3, <2>4
          DEF Flow, Course, InView, Complete, Whole, Dumping, Reading, Early
<1>26. CASE RomWriterTask \/ WriteFails
  <2>1. /\ writer \notin {"off", "done"} /\ writer' # "off" /\ Dumping
        /\ UNCHANGED <<pc, failed, route, n, art, regs, cache, buf>>
    BY <1>26, <1>c DEF RomWriterTask, WriterTake, Write, WriteFails
  <2>2. CASE failed
    BY <1>b, <2>1, <2>2, FlowFails DEF Way, Dumping, Reading
  <2>3. CASE ~failed
    <3>1. Pipe' /\ (pc' \in Reading => Apart')
      BY <1>26, <1>c, <2>1, <2>3, TakeWork, WritePipe DEF RomWriterTask, Flow
    <3> QED BY <1>a, <1>c, <2>1, <2>3, <3>1 DEF Flow, Course, InView, Complete, Dumping,
          Reading, Early
  <2> QED BY <2>2, <2>3
<1>27. CASE StopRomWriter
  <2>1. /\ pc = "stop" /\ UNCHANGED <<failed, route, n, art, writer, regs, cache, buf, rom, save>>
        /\ pc' = IF writer = "off" THEN "release" ELSE "stopping"
    BY <1>27 DEF StopRomWriter
  <2>2. CASE failed
    BY <1>b, <2>1, <2>2, FlowFails DEF Cleaning
  <2>3. CASE ~failed
    <3>1. route = "menu" /\ writer # "off" /\ Pipe /\ n = cart.banks
      BY <1>b, <2>1, <2>3 DEF Way, Flow, Course, Dumping
    <3>2. Pipe'
      BY <1>27, <1>c, <3>1, StopPipe
    <3> QED BY <1>a, <1>c, <1>d, <2>1, <2>3, <3>1, <3>2 DEF Flow, Course, InView, Complete,
          Dumping, Reading, Early
  <2> QED BY <2>2, <2>3
<1>28. CASE RomWriterStopped
  <2>1. /\ pc = "stopping" /\ writer = "done" /\ writer' = "off" /\ buf' = [i \in Buffers |-> Bad]
    BY <1>28 DEF RomWriterStopped
  <2>2. CASE failed
    BY <1>28, <1>c, <2>1, <2>2, FlowOver DEF RomWriterStopped, Cleaning
  <2>3. CASE ~failed /\ ~wok
    BY <1>28, <1>b, <2>1, <2>3, FlowFails DEF RomWriterStopped
  <2>4. CASE ~failed /\ wok
    <3>1. pc' = "check" /\ UNCHANGED <<failed, route, n, rom, save>>
      BY <1>28, <2>4 DEF RomWriterStopped
    <3>2. rom = cart.banks
      BY <1>b, <2>1, <2>4 DEF Way, Flow, Course, Dumping, Pipe
    <3>3. route = "menu"
      BY <1>b, <2>1, <2>4 DEF Way
    <3> QED BY <1>a, <1>c, <1>d, <2>1, <2>4, <3>1, <3>2, <3>3 DEF Flow, Course, InView,
          Complete, Dumping, Reading, Early
  <2> QED BY <2>2, <2>3, <2>4
<1>29. CASE CheckSum
  <2>1. /\ pc = "check" /\ ~failed /\ route = "menu" /\ writer = "off"
        /\ UNCHANGED <<route, writer, buf, rom, save, regs>>
    BY <1>29, <1>b, <1>c DEF CheckSum, Cleanup, Way, Cleaning, Rolling, Dumping, Reading
  <2>2. CASE Cleanup
    BY <1>b, <2>1, <2>2, FlowFails
  <2>3. CASE /\ UNCHANGED <<failed, n>>
            /\ pc' = IF cart.ramBanks > 0 THEN "openSave" ELSE "restore"
    BY <1>a, <1>c, <1>d, <2>1, <2>3 DEF Flow, Course, InView, Complete, Dumping, Reading,
      Early
  <2> QED BY <1>29, <2>2, <2>3 DEF CheckSum
<1>30. CASE OpenSave
  BY <1>30, <1>a, <1>b, <1>c, <1>d DEF OpenSave, Way, Cleaning, Rolling, Flow, Course,
    InView, Complete, Dumping, Reading, Early
<1>31. CASE EnableRam
  <2>1. /\ pc = "enable" /\ ~failed /\ Sized(cart) /\ writer = "off" /\ cart.ramBanks > 0
    BY <1>31, <1>b, <1>c, <1>d DEF EnableRam, Way, Cleaning, Rolling, Dumping, Reading,
      Flow, InView
  <2>2. /\ pc' = "ram" /\ n' = 0 /\ save' = 0 /\ UNCHANGED <<failed, route, art, writer, buf, rom>>
    BY <1>31 DEF EnableRam
  <2>3. cart.kind # "rom_only" => regs'.on
    BY <1>31, <2>1, RamIsOn DEF EnableRam, Held
  <2> QED BY <1>a, <1>c, <1>d, <2>1, <2>2, <2>3 DEF Flow, Course, InView, Complete, Dumping,
        Reading, Early
<1>32. CASE SelectRam
  <2>1. /\ pc = "ram" /\ ~failed /\ Sized(cart) /\ writer = "off" /\ n < cart.ramBanks
        /\ cart.kind # "rom_only" => regs.on
    BY <1>32, <1>b, <1>c, <1>d DEF SelectRam, Way, Cleaning, Rolling, Dumping, Reading,
      Flow, InView
  <2>2. /\ pc' = "readRam" /\ UNCHANGED <<n, save, failed, route, art, writer, buf, rom>>
    BY <1>32 DEF SelectRam
  <2>3. regs'.on = regs.on /\ RamSeen(cart, regs') = n
    BY <1>32, <1>c, <2>1, RamIsInView DEF SelectRam, Held
  <2> QED BY <1>a, <1>c, <1>d, <2>1, <2>2, <2>3 DEF Flow, Course, InView, Complete, Dumping,
        Reading, Early
<1>33. CASE ReadRam
  <2>1. /\ pc = "readRam" /\ ~failed /\ Sized(cart) /\ writer = "off" /\ n < cart.ramBanks
        /\ RamSeen(cart, regs) = n /\ save = n /\ cart.ramBanks \in Nat
    BY <1>33, <1>b, <1>c, <1>d DEF ReadRam, Way, Cleaning, Rolling, Dumping, Reading, Flow,
      InView, Sized
  <2>2. save' = n + 1
    BY <1>33, <1>c, <2>1 DEF ReadRam, Extend
  <2>3. /\ n' = n + 1 /\ UNCHANGED <<failed, route, art, writer, buf, rom, regs>>
        /\ pc' = IF n + 1 # cart.ramBanks THEN "ram"
                 ELSE IF route = "menu" THEN "restore" ELSE "finish"
    BY <1>33 DEF ReadRam
  <2>4. n' \in Nat /\ (n' = cart.ramBanks \/ n' < cart.ramBanks)
    BY <1>c, <2>1, <2>3
  <2> QED BY <1>a, <1>c, <1>d, <2>1, <2>2, <2>3, <2>4 DEF Flow, Course, InView, Complete,
        Whole, Dumping, Reading, Early
<1>34. CASE BeginUpload
  <2>1. /\ pc = "upload" /\ ~failed /\ Sized(cart) /\ writer = "off" /\ route # "menu"
        /\ art \in Artifacts
    BY <1>34, <1>b, <1>c, <1>d DEF BeginUpload, Way, Turn, Cleaning, Rolling, Early,
      Dumping, Reading
  <2>2. /\ pc' = (IF art = "rom" THEN "begin" ELSE IF art = "save" THEN "enable" ELSE "finish")
        /\ n' = 0 /\ (art = "rom" => rom' = 0) /\ cache' = {}
        /\ UNCHANGED <<failed, route, art, writer, buf>>
    BY <1>34 DEF BeginUpload
  <2>3. SettledAt(cart, regs', {})
    BY DEF SettledAt
  <2>4. art = "save" => cart.ramBanks > 0
    BY <2>1 DEF Artifacts
  <2> QED BY <1>a, <1>c, <1>d, <2>1, <2>2, <2>3, <2>4 DEF Flow, Course, InView, Complete,
        Whole,
          Dumping, Reading, Early, Sized
<1>35. CASE RestoreMapper \/ RestoreFails
  <2>1. /\ pc = "restore" /\ pc' = "exit" /\ writer = "off"
        /\ UNCHANGED <<failed, route, n, rom, save, buf, writer>>
    BY <1>35, <1>c DEF RestoreMapper, RestoreFails, Dumping, Reading
  <2> QED BY <1>a, <1>c, <1>d, <2>1 DEF Flow, Course, InView, Complete, Dumping, Reading,
        Early
<1>36. CASE Exit
  <2>1. /\ pc = "exit" /\ pc' = AfterSession /\ writer = "off"
        /\ UNCHANGED <<failed, route, n, rom, save, buf, writer>>
    BY <1>36, <1>c DEF Exit, Dumping, Reading
  <2> QED BY <1>a, <1>c, <1>d, <2>1 DEF AfterSession, RollBack, Flow, Course, InView,
        Complete, Dumping, Reading, Early
<1>37. CASE FinishFile \/ BackupEnd
  <2>1. /\ pc = "finish" /\ writer = "off"
        /\ UNCHANGED <<failed, route, n, rom, save, buf, writer>>
        /\ pc' \in IF route = "menu" THEN {"finish", "stage"} ELSE {"upload", "restore"}
    BY <1>37, <1>c DEF FinishFile, BackupEnd, Close, Each, After, Dumping, Reading
  <2> QED BY <1>a, <1>c, <1>d, <2>1 DEF Flow, Course, InView, Complete, Dumping, Reading,
        Early
<1> QED BY <1>1, <1>2, <1>3, <1>4, <1>5, <1>6, <1>7, <1>8, <1>9, <1>10, <1>11, <1>12, <1>13,
      <1>14, <1>15, <1>16, <1>17, <1>18, <1>19, <1>20, <1>21, <1>22, <1>23, <1>24, <1>25,
      <1>26, <1>27, <1>28, <1>29, <1>30, <1>31, <1>32, <1>33, <1>34, <1>35, <1>36, <1>37
  DEF Next, Proceed, Faults

-----------------------------------------------------------------------------
(* What has been read is whole when its file is closed: of the ROM every   *)
(* bank, of the save every bank that the cartridge has.                    *)
LEMMA FinishWhole ==
  ASSUME IInv, Flow, pc = "finish"
  PROVE  Whole
<1>1. ~failed /\ art \in want /\ want \subseteq Artifacts
  BY DEF IInv, Control, Way, Turn, TypeOK, Early, Cleaning, Rolling
<1>2. art = "save" => cart.ramBanks > 0
  BY <1>1 DEF Artifacts
<1> QED BY <1>1, <1>2 DEF Flow, Complete, Whole

(* So no file that has been written, and will be published, is torn.       *)
LEMMA WholeWritten ==
  ASSUME IInv, Flow, WholeFiles, Next, NEW a \in want', Written(a)'
  PROVE  fs'[a].temp # Bad
<1>1. Carried(a)
  BY CarriedStep
<1>2. run # Bad
  BY DEF IInv, TypeOK, Bad
<1>3. pc = "finish" => Whole
  BY FinishWhole
<1> QED BY <1>1, <1>2, <1>3 DEF Carried, WholeFiles

(* Nor is one that is published.                                           *)
LEMMA WholeStep ==
  ASSUME IInv, WholeFiles, Next
  PROVE  PublishedIsWhole'
<1> USE DEF IInv
<1>1. Artifacts' = Artifacts /\ Artifacts \subseteq Names
  BY HeadStays DEF Artifacts, cart
<1>2. None # Bad
  BY DEF None, Bad
<1>3. \A a \in Artifacts : fs[a].final # Bad /\ fs[a].old # Bad
  BY DEF WholeFiles, PublishedIsWhole
<1>4. ASSUME \A a \in Artifacts : fs'[a].final # Bad /\ fs'[a].old # Bad
      PROVE  PublishedIsWhole'
  BY <1>1, <1>4 DEF PublishedIsWhole
<1>5. CASE Quietly
  BY <1>1, <1>3, <1>4, <1>5, StillStep DEF Still
<1>6. CASE Recover
  <2>1. ASSUME NEW a \in Artifacts
        PROVE  fs'[a].final # Bad /\ fs'[a].old # Bad
    BY <1>1, <1>2, <1>3, <1>6, RecoverIs DEF Available
  <2> QED BY <1>4, <2>1
<1>7. CASE Stage
  <2>1. ASSUME NEW a \in Artifacts
        PROVE  fs'[a].final # Bad /\ fs'[a].old # Bad
    BY <1>1, <1>2, <1>3, <1>7, StageIs
  <2> QED BY <1>4, <2>1
<1>8. CASE SwapIn
  <2>1. pc = "swap" /\ Turn /\ want # {} /\ art \in want
    BY <1>8, SwapInIs DEF Control, Way, Turn, Early, Cleaning, Rolling
  <2>2. fs[art].temp # Bad
    BY <2>1, DoneIs DEF WholeFiles, Written
  <2>3. ASSUME NEW a \in Artifacts
        PROVE  fs'[a].final # Bad /\ fs'[a].old # Bad
    BY <1>1, <1>3, <1>8, <2>2, SwapInIs
  <2> QED BY <1>4, <2>3
<1>9. CASE DropOld
  <2>1. fs' = [fs EXCEPT ![art].old = None] \/ fs' = fs
    BY <1>9 DEF DropOld, Files
  <2>2. ASSUME NEW a \in Artifacts
        PROVE  fs'[a].final # Bad /\ fs'[a].old # Bad
    BY <1>1, <1>2, <1>3, <2>1 DEF TypeOK
  <2> QED BY <1>4, <2>2
<1>10. CASE VerifyPublishedFile \/ DropOldFails \/ RollBackFails
  BY <1>3, <1>4, <1>10, StuckIs
<1>11. CASE Discard
  BY <1>1, <1>3, <1>4, <1>11, DiscardIs
<1>12. CASE Withdraw
  <2>1. ASSUME NEW a \in Artifacts
        PROVE  fs'[a].final # Bad /\ fs'[a].old # Bad
    BY <1>1, <1>2, <1>3, <1>12, WithdrawIs
  <2> QED BY <1>4, <2>1
<1>13. CASE PutBack
  <2>1. ASSUME NEW a \in Artifacts
        PROVE  fs'[a].final # Bad /\ fs'[a].old # Bad
    BY <1>1, <1>2, <1>3, <1>13, PutBackIs
  <2> QED BY <1>4, <2>1
<1>14. CASE Start \/ Unmount \/ UnmountFails \/ PowerCut
  <2>1. fs' = fs
    BY <1>14 DEF Start, Unmount, UnmountFails, PowerCut, Files
  <2> QED BY <1>3, <1>4, <2>1
<1> QED BY <1>5, <1>6, <1>7, <1>8, <1>9, <1>10, <1>11, <1>12, <1>13, <1>14, NextIs

(* At first nothing is read, held or written.                              *)
LEMMA BankInitial == Init => BankInv
<1> SUFFICES ASSUME Init PROVE BankInv
  OBVIOUS
<1>1. IInv
  BY Initial
<1>2. Held
  BY PlayedIs DEF Init, Held, Session, Rolling, Replacing
<1>3. Flow
  BY DEF Init, Flow, Course, InView, Complete, Dumping, Reading, Early, Bad
<1>4. WholeFiles
  <2>1. PICK older \in {None, 0} :
          fs = [a \in Names |->
                  IF a \in Artifacts THEN [Found EXCEPT !.final = older] ELSE Found]
    BY DEF Init
  <2>2. Artifacts \subseteq Names
    BY DEF Artifacts
  <2>3. ASSUME NEW a \in Artifacts
        PROVE  fs[a].final # Bad /\ fs[a].old # Bad
    <3>1. fs[a] = [Found EXCEPT !.final = older]
      BY <2>1, <2>2
    <3> QED BY <3>1 DEF Found, None, Bad
  <2>4. want = {}
    BY DEF Init
  <2> QED BY <2>3, <2>4 DEF WholeFiles, PublishedIsWhole
<1> QED BY <1>1, <1>2, <1>3, <1>4 DEF BankInv

(* Every step, and every stutter, preserves it.                            *)
LEMMA BankInductive ==
  ASSUME BankInv, [Next]_vars
  PROVE  BankInv'
<1> USE DEF BankInv
<1>1. IInv'
  BY Inductive
<1>2. CASE Next
  <2>1. regs' \in Registers
    BY <1>2, RegistersStep DEF Held, Flow
  <2>2. Held'
    BY <1>2, <2>1, HeldStep
  <2>3. Flow'
    BY <1>2, <2>1, FlowStep
  <2>4. WholeFiles'
    BY <1>2, WholeStep, WholeWritten DEF WholeFiles
  <2> QED BY <1>1, <2>2, <2>3, <2>4
<1>3. CASE UNCHANGED vars
  <2>1. UNCHANGED <<pc, failed, info, acquired, route, want, n, art, cache, hold, work, free,
                    buf, writer, index, wok, sum, rom, regs, stream, save, fs, head, strained>>
    BY <1>3 DEF vars, task, queues, sums, chip, history
  <2>2. cart' = cart
    BY <2>1 DEF cart
  <2>3. Held'
    BY <2>1 DEF Held, Switched
  <2>4. Flow'
    <3>1. Pipe' <=> Pipe
      BY <2>1 DEF Pipe, Stops
    <3>2. Apart' <=> Apart
      BY <2>1 DEF Apart, Spare
    <3>3. Course' /\ InView' /\ Complete'
      BY <2>1, <2>2 DEF Flow, Course, InView, Complete, Dumping, Whole
    <3> QED BY <2>1, <3>1, <3>2, <3>3 DEF Flow, Dumping
  <2>5. WholeFiles'
    BY <2>1, <2>2 DEF WholeFiles, PublishedIsWhole, Written, Done, Artifacts
  <2> QED BY <1>1, <2>3, <2>4, <2>5
<1> QED BY <1>2, <1>3

(* Every behaviour keeps the inductive invariant.                          *)
LEMMA BankInvariance == Spec => []BankInv
<1>1. Init => BankInv
  BY BankInitial
<1>2. BankInv /\ [Next]_vars => BankInv'
  BY BankInductive
<1> QED BY <1>1, <1>2, PTL DEF Spec

(* Nothing incomplete, torn or with a bank out of its place ever stands    *)
(* under the name of a backup: for every mapper, every size of ROM and     *)
(* RAM and every depth of the queues, the writes that BeginRomBankRange    *)
(* and ReadRam plan, less those the cache knows, bring each bank into view *)
(* (cart_mapper.c), and reader and writer hand it on in its turn           *)
(* (cart_backup.c, DumpRom and RomWriterTask).                             *)
THEOREM PublishedWhole == Spec => []PublishedIsWhole
<1>1. BankInv => PublishedIsWhole
  BY DEF BankInv, WholeFiles
<1> QED BY <1>1, BankInvariance, PTL

(* However a run ends, the cartridge is handed back with its RAM switched  *)
(* off, unless the call that does so fails (cart_backup.c, Cleanup).       *)
THEOREM HandedBack == Spec => []CartIsHandedBack
<1>1. BankInv => CartIsHandedBack
  BY DEF BankInv, Held, CartIsHandedBack, Switched
<1> QED BY <1>1, BankInvariance, PTL

-----------------------------------------------------------------------------
(* What has been swapped in and is whole is this run's file.               *)
LEMMA InPlaceStep ==
  ASSUME IInv, Keeping, PublishedIsWhole', Next, NEW a \in want', InPlace(a)'
  PROVE  fs'[a].final = run'
<1> USE DEF IInv
<1>1. TypeOK' /\ a \in Names /\ a \in Artifacts' /\ pc' # "idle"
  BY TypeStep DEF TypeOK, Artifacts, Control, InPlace
<1>2. CASE Quietly
  <2>1. Still /\ (Move \/ UNCHANGED <<pc, failed, info, want, art>>)
    BY <1>2, StillStep, MoveStep DEF Control
  <2>2. CASE Move
    BY <2>2 DEF Move, InPlace, Onwards, Early, Cleaning, Rolling
  <2>3. CASE UNCHANGED <<pc, failed, info, want, art>>
    BY <1>1, <2>1, <2>3 DEF Still, InPlace, Done, Keeping
  <2> QED BY <2>1, <2>2, <2>3
<1>3. CASE Recover
  BY <1>3 DEF Recover, Each, After, InPlace
<1>4. CASE Stage
  <2>1. /\ Turn /\ want # {} /\ After("stage", "swap") /\ want \subseteq Names
    BY <1>4, StageIs DEF Control, Way, Early, Cleaning, Rolling, TypeOK, Artifacts
  <2>2. want' = want /\ (pc' = "stage" \/ (pc' = "swap" /\ art' = First))
    BY <2>1, SweepDone
  <2>3. art' = First => ~Done(a)'
    BY <2>1, <2>2, FirstIs DEF Done
  <2> QED BY <2>2, <2>3 DEF InPlace
<1>5. CASE SwapIn
  <2>1. pc = "swap" /\ Turn /\ want # {} /\ run' = run
    BY <1>5, SwapInIs DEF Control, Way, Early, Cleaning, Rolling
  <2>2. After("swap", IF route = "menu" THEN "verify" ELSE "drop")
    BY <1>5, SwapInIs
  <2>3. /\ want' = want /\ pc' \in {"swap", "verify", "drop"}
        /\ pc' = "swap" => (Done(a)' <=> Rank[a] <= Rank[art])
        /\ pc' # "swap" => Rank[a] <= Rank[art]
    BY <2>1, <2>2, SweepDone
  <2>4. Done(a) \/ a = art
    BY <2>1, <2>3, DoneIs DEF InPlace
  <2>5. CASE a # art
    <3>1. fs'[a] = fs[a] /\ InPlace(a)
      BY <1>1, <1>5, <2>1, <2>4, <2>5, SwapInIs DEF InPlace
    <3> QED BY <2>1, <2>3, <3>1 DEF Keeping
  <2>6. CASE a = art
    <3>1. fs[a].temp \in {run, Bad}
      BY <2>1, <2>3, <2>6, DoneIs DEF Keeping, Written
    <3>2. fs'[a].final = fs[a].temp
      BY <1>5, <2>6, SwapInIs
    <3>3. fs'[a].final # Bad
      BY <1>1 DEF PublishedIsWhole
    <3> QED BY <2>1, <3>1, <3>2, <3>3
  <2> QED BY <2>5, <2>6
<1>6. CASE DropOld \/ VerifyPublishedFile \/ DropOldFails
  <2>1. /\ pc \in {"verify", "drop"} /\ run' = run
        /\ fs'[a].final = fs[a].final
    BY <1>1, <1>6, DropOldIs, StuckIs DEF VerifyPublishedFile, DropOldFails
  <2>2. want' = want
    BY <1>6 DEF DropOld, VerifyPublishedFile, DropOldFails, Each, After
  <2> QED BY <2>1, <2>2 DEF Keeping, InPlace
<1>7. CASE RollBackFails \/ Discard \/ Withdraw \/ PutBack
  <2>1. Onward
    BY <1>7, DiscardIs, WithdrawIs, PutBackIs DEF RollBackFails
  <2>2. pc' \in Rolling \cup {"unmount"} /\ failed'
    BY <2>1, OnwardIs DEF Rolling, Control
  <2> QED BY <2>2 DEF InPlace, Rolling
<1>8. CASE Start \/ Unmount \/ UnmountFails \/ PowerCut
  BY <1>8 DEF Start, Unmount, UnmountFails, PowerCut, Go, InPlace
<1> QED BY <1>2, <1>3, <1>4, <1>5, <1>6, <1>7, <1>8, NextIs

(* As long as a replaced artifact may have to be put back, the older       *)
(* backup will do.                                                         *)
LEMMA SparedStep ==
  ASSUME IInv, Keeping, Next, NEW a \in want', Spared(a)'
  PROVE  fs'[a].old >= passed'[a]
<1> USE DEF IInv
<1>1. TypeOK' /\ a \in Names /\ pc' # "idle"
  BY TypeStep DEF TypeOK, Artifacts, Control, Spared, Onwards, Early, Cleaning, Rolling
<1>2. ASSUME a \in want, Spared(a), fs'[a].old = fs[a].old, passed' = passed
      PROVE  fs'[a].old >= passed'[a]
  BY <1>2 DEF Keeping
<1>3. ASSUME pc \in Onwards
      PROVE  ~Withdrawn(a) /\ pc # "idle" /\ Marks
  BY <1>3 DEF Withdrawn, Onwards, Early, Cleaning, Control
<1>4. CASE Quietly
  <2>1. Still /\ (Move \/ UNCHANGED <<pc, failed, info, want, art>>)
    BY <1>4, StillStep, MoveStep DEF Control
  <2>2. fs'[a].old = fs[a].old /\ passed' = passed
    BY <1>1, <2>1 DEF Still
  <2>3. CASE Move
    <3>1. pc \in Onwards /\ Marks
      BY <1>3, <2>3 DEF Move
    <3>2. a \in staged \cup published
      BY <2>1 DEF Still, Spared
    <3> QED BY <1>2, <1>3, <2>2, <3>1, <3>2 DEF Spared, Marks
  <2>4. CASE UNCHANGED <<pc, failed, info, want, art>>
    <3>1. a \in want /\ Spared(a)
      BY <2>1, <2>4 DEF Still, Spared, Withdrawn, Done
    <3> QED BY <1>2, <2>2, <3>1
  <2> QED BY <2>1, <2>3, <2>4
<1>5. CASE Recover
  <2>1. /\ pc = "recover" /\ Marks /\ ~failed /\ UNCHANGED <<staged, published>>
    BY <1>5, RecoverIs DEF Control, Way, Cleaning, Rolling
  <2> QED BY <2>1 DEF Marks, Replacing, Spared
<1>6. ASSUME pc \in {"stage", "swap"}
      PROVE  /\ Way /\ Turn /\ Marks /\ Missing /\ want # {} /\ pc \in Onwards
             /\ \A b \in Names : Kept(b)
  BY <1>6 DEF Control, Way, Early, Cleaning, Rolling, Onwards, Holding
<1>7. CASE Stage
  <2>1. /\ pc = "stage" /\ passed' = passed /\ published' = published
        /\ After("stage", "swap")
    BY <1>7, StageIs
  <2>2. want' = want
    BY <1>6, <2>1, SweepDone
  <2>3. CASE a # art
    <3>1. fs'[a] = fs[a] /\ a \in staged \cup published
      BY <1>1, <1>7, <2>1, <2>3, StageIs DEF Spared
    <3> QED BY <1>2, <1>3, <1>6, <2>1, <2>2, <3>1 DEF Spared
  <2>4. CASE a = art
    <3>1. a \notin staged /\ a \notin published
      BY <1>6, <2>1, <2>4, DoneIs DEF Marks
    <3>2. fs[a].final # None /\ fs'[a].old = fs[a].final
      BY <1>7, <2>1, <2>4, <3>1, StageIs DEF Spared
    <3>3. a \in Artifacts
      BY <2>2 DEF TypeOK
    <3> QED BY <2>1, <3>2, <3>3 DEF Keeping, Safe, Available
  <2> QED BY <2>3, <2>4
<1>8. CASE SwapIn
  <2>1. pc = "swap" /\ passed' = passed /\ staged' = staged /\ published' = published \cup {art}
    BY <1>8, SwapInIs
  <2>2. After("swap", IF route = "menu" THEN "verify" ELSE "drop")
    BY <1>8, SwapInIs
  <2>3. want' = want
    BY <1>6, <2>1, <2>2, SweepDone
  <2>4. fs'[a].old = fs[a].old
    BY <1>1, <1>8, SwapInIs
  <2>5. CASE a \in staged \cup published
    BY <1>2, <1>3, <1>6, <2>1, <2>3, <2>4, <2>5 DEF Spared
  <2>6. CASE a \notin staged /\ a \notin published
    <3>1. fs[a].final = before[a].final
      BY <1>1, <1>6, <2>1, <2>6 DEF Kept, SetAside, Untouched
    <3>2. before[a].final = None
      BY <1>6, <2>1, <2>3, <2>6 DEF Missing
    <3>3. a \in Artifacts /\ Available(a) = fs[a].old
      BY <2>3, <3>1, <3>2 DEF Available, TypeOK
    <3> QED BY <2>1, <2>4, <3>3 DEF Keeping, Safe
  <2> QED BY <2>5, <2>6
<1>9. CASE DropOld \/ DropOldFails
  <2>1. pc' \in {"drop", "unmount"}
    BY <1>9 DEF DropOld, DropOldFails, Each, After
  <2> QED BY <2>1 DEF Spared, Onwards, Early, Cleaning, Rolling
<1>10. CASE VerifyPublishedFile
  <2>1. pc \in Onwards
    BY <1>10 DEF VerifyPublishedFile, Onwards
  <2>2. /\ want' = want /\ fs' = fs /\ UNCHANGED <<staged, published, passed>>
    BY <1>10, StuckIs DEF VerifyPublishedFile, Each, After
  <2> QED BY <1>2, <1>3, <2>1, <2>2 DEF Spared
<1>11. CASE RollBackFails \/ Discard \/ Withdraw \/ PutBack
  <2>1. /\ Onward /\ UNCHANGED <<staged, published, passed>> /\ pc \in Rolling
    BY <1>11, DiscardIs, WithdrawIs, PutBackIs, StuckIs DEF RollBackFails, Rolling
  <2>2. Way /\ Turn /\ want' = want
    BY <2>1, OnwardIs DEF Control, Rolling
  <2>3. pc' \in Rolling
    BY <2>1, <2>2, OnwardIs DEF Spared, Onwards, Early, Cleaning, Rolling
  <2>4. ~Withdrawn(a)
    <3>1. CASE pc = "discard"
      BY <2>1, <2>2, <2>3, <3>1, DiscardMeans DEF Spared
    <3>2. CASE pc = "withdraw"
      BY <2>1, <2>2, <2>3, <3>2, WithdrawMeans DEF Spared
    <3>3. CASE pc = "putBack"
      BY <2>1, <2>2, <2>3, <3>3, PutBackMeans DEF Spared
    <3> QED BY <2>1, <3>1, <3>2, <3>3 DEF Rolling
  <2>5. fs'[a].old = fs[a].old
    <3>1. CASE RollBackFails
      BY <3>1, StuckIs
    <3>2. CASE Discard
      BY <1>1, <3>2, DiscardIs
    <3>3. CASE Withdraw
      BY <1>1, <3>3, WithdrawIs
    <3>4. CASE PutBack
      <4>1. pc = "putBack" /\ a \in want
        BY <2>2, <3>4, PutBackIs
      <4>2. Withdrawn(art)
        BY <2>1, <2>2, <4>1, PutBackMeans
      <4> QED BY <1>1, <2>4, <3>4, <4>2, PutBackIs
    <3> QED BY <1>11, <3>1, <3>2, <3>3, <3>4
  <2> QED BY <1>2, <2>1, <2>2, <2>4, <2>5 DEF Spared
<1>12. CASE Start
  BY <1>12 DEF Start, Fresh, Spared
<1>13. CASE Unmount \/ UnmountFails \/ PowerCut
  BY <1>1, <1>13 DEF Unmount, UnmountFails, PowerCut, Go
<1> QED BY <1>4, <1>5, <1>7, <1>8, <1>9, <1>10, <1>11, <1>12, <1>13, NextIs

(* No step takes away the last copy of a passed backup.                    *)
LEMMA SafeStep ==
  ASSUME IInv, Keeping, PublishedIsWhole', Next
  PROVE  Safe'
<1> USE DEF IInv
<1>1. TypeOK' /\ Artifacts \subseteq Names
  BY TypeStep DEF Control, Artifacts
<1>2. head' = head => Artifacts' = Artifacts
  BY DEF Artifacts, cart
<1>3. /\ passed \in [Artifacts -> Int] /\ run \in Nat
      /\ \A a \in Artifacts : passed[a] <= run /\ Available(a) >= passed[a]
  BY DEF Keeping, Safe, TypeOK
<1>4. ASSUME head' = head, passed' = passed, run' = run,
             \A a \in Artifacts : Available(a)' >= passed[a]
      PROVE  Safe'
  BY <1>2, <1>3, <1>4 DEF Safe
<1>5. ASSUME NEW a, fs'[a].final = fs[a].final, fs'[a].old = fs[a].old
      PROVE  Available(a)' = Available(a)
  BY <1>5 DEF Available
<1>6. CASE Quietly
  <2>1. Still
    BY <1>6, StillStep
  <2>2. \A a \in Artifacts : Available(a)' = Available(a)
    BY <1>1, <1>5, <2>1 DEF Still
  <2> QED BY <1>3, <1>4, <2>1, <2>2 DEF Still
<1>7. CASE Recover
  <2>1. ASSUME NEW a \in Artifacts
        PROVE  Available(a)' = Available(a)
    <3>1. CASE a = art
      BY <1>7, <3>1, RecoverIs DEF Available
    <3>2. CASE a # art
      BY <1>1, <1>5, <1>7, <3>2, RecoverIs
    <3> QED BY <3>1, <3>2
  <2> QED BY <1>3, <1>4, <1>7, <2>1, RecoverIs
<1>8. CASE Stage
  <2>1. ASSUME NEW a \in Artifacts
        PROVE  Available(a)' = Available(a)
    <3>1. CASE a = art
      BY <1>8, <3>1, StageIs DEF Available
    <3>2. CASE a # art
      BY <1>1, <1>5, <1>8, <3>2, StageIs
    <3> QED BY <3>1, <3>2
  <2> QED BY <1>3, <1>4, <1>8, <2>1, StageIs
<1>9. ASSUME pc \in Replacing
      PROVE  Turn /\ Way /\ want # {} /\ art \in want
  BY <1>9 DEF Control, Way, Turn, Early, Cleaning, Rolling, Replacing
<1>10. CASE SwapIn
  <2>1. pc = "swap" /\ head' = head /\ passed' = passed /\ run' = run
    BY <1>10, SwapInIs
  <2>2. Turn /\ want # {} /\ art \in want /\ art \in Artifacts
    BY <1>9, <2>1 DEF Replacing, TypeOK
  <2>3. fs[art].temp \in {run, Bad}
    BY <2>1, <2>2, DoneIs DEF Keeping, Written
  <2>4. ASSUME NEW a \in Artifacts
        PROVE  Available(a)' >= passed[a]
    <3>1. CASE a = art
      <4>1. fs'[a].final = fs[art].temp
        BY <1>10, <3>1, SwapInIs
      <4>2. fs'[a].final # Bad
        BY <1>2, <2>1 DEF PublishedIsWhole
      <4>3. fs'[a].final = run
        BY <2>3, <4>1, <4>2
      <4>4. run # None
        BY <1>3 DEF None
      <4> QED BY <1>3, <4>3, <4>4 DEF Available
    <3>2. CASE a # art
      BY <1>1, <1>3, <1>5, <1>10, <3>2, SwapInIs
    <3> QED BY <3>1, <3>2
  <2> QED BY <1>4, <2>1, <2>4
<1>11. CASE DropOld
  <2>1. pc = "drop" /\ head' = head /\ passed' = passed /\ run' = run
    BY <1>11, DropOldIs
  <2>2. fs[art].final = run
    BY <1>9, <2>1 DEF Replacing, Keeping, InPlace
  <2>3. ASSUME NEW a \in Artifacts
        PROVE  Available(a)' >= passed[a]
    <3>1. CASE a = art
      <4>1. fs'[a].final = run
        BY <1>1, <1>11, <2>2, <3>1, DropOldIs
      <4>2. run # None
        BY <1>3 DEF None
      <4> QED BY <1>3, <4>1, <4>2 DEF Available
    <3>2. CASE a # art
      BY <1>1, <1>3, <1>5, <1>11, <3>2, DropOldIs
    <3> QED BY <3>1, <3>2
  <2> QED BY <1>4, <2>1, <2>3
<1>12. CASE VerifyPublishedFile \/ DropOldFails \/ RollBackFails
  BY <1>3, <1>4, <1>5, <1>12, StuckIs
<1>13. CASE Discard
  BY <1>1, <1>3, <1>4, <1>5, <1>13, DiscardIs
<1>14. ASSUME pc \in Rolling, Onward
       PROVE  Way /\ Turn /\ art \in want /\ art \in Artifacts
  BY <1>14, OnwardIs DEF Control, Rolling, TypeOK
<1>15. CASE Withdraw
  <2>1. /\ pc = "withdraw" /\ Onward
        /\ head' = head /\ passed' = passed /\ run' = run
    BY <1>15, WithdrawIs
  <2>2. ASSUME NEW a \in Artifacts
        PROVE  Available(a)' >= passed[a]
    <3>1. CASE a = art /\ art \in published
      <4>1. /\ art \in want /\ ~Withdrawn(art)
        BY <1>14, <2>1, WithdrawMeans DEF Rolling
      <4>2. fs[art].old >= passed[art]
        BY <2>1, <3>1, <4>1 DEF Keeping, Spared, Rolling
      <4>3. fs'[a].final = None /\ fs'[a].old = fs[a].old
        BY <1>1, <1>15, <3>1, WithdrawIs
      <4> QED BY <3>1, <4>2, <4>3 DEF Available
    <3>2. CASE ~(a = art /\ art \in published)
      <4>1. fs'[a].final = fs[a].final /\ fs'[a].old = fs[a].old
        BY <1>1, <1>15, <3>2, WithdrawIs
      <4> QED BY <1>3, <1>5, <4>1
    <3> QED BY <3>1, <3>2
  <2> QED BY <1>4, <2>1, <2>2
<1>16. CASE PutBack
  <2>1. ASSUME NEW a \in Artifacts
        PROVE  Available(a)' = Available(a)
    <3>1. CASE a = art
      BY <1>16, <3>1, PutBackIs DEF Available
    <3>2. CASE a # art
      BY <1>1, <1>5, <1>16, <3>2, PutBackIs
    <3> QED BY <3>1, <3>2
  <2> QED BY <1>3, <1>4, <1>16, <2>1, PutBackIs
<1>17. CASE Start
  <2>1. fs' = fs /\ head' = head /\ passed' = passed /\ run' = run + 1
    BY <1>17 DEF Start
  <2>2. \A a \in Artifacts : Available(a)' = Available(a)
    BY <1>5, <2>1
  <2>3. \A a \in Artifacts : passed[a] \in Int
    BY <1>3
  <2> QED BY <1>2, <1>3, <2>1, <2>2, <2>3 DEF Safe
<1>18. CASE Unmount
  <2>1. /\ pc = "unmount" /\ fs' = fs /\ head' = head /\ run' = run
        /\ passed' = [a \in Artifacts |-> IF ~failed /\ a \in want THEN run ELSE passed[a]]
    BY <1>18 DEF Unmount, Files
  <2>2. ASSUME NEW a \in Artifacts
        PROVE  /\ passed'[a] \in Int /\ passed'[a] <= run
               /\ Available(a)' >= passed'[a]
    <3>1. Available(a)' = Available(a)
      BY <1>5, <2>1
    <3>2. CASE ~failed /\ a \in want
      <4>1. fs[a].final = run /\ passed'[a] = run /\ run # None
        BY <1>3, <2>1, <3>2 DEF Keeping, InPlace, None
      <4> QED BY <1>3, <3>1, <4>1 DEF Available
    <3>3. CASE ~(~failed /\ a \in want)
      BY <1>3, <2>1, <3>1, <3>3
    <3> QED BY <3>2, <3>3
  <2> QED BY <1>2, <2>1, <2>2 DEF Safe
<1>19. CASE UnmountFails
  BY <1>3, <1>4, <1>5, <1>19 DEF UnmountFails, Files
<1>20. CASE PowerCut
  BY <1>3, <1>4, <1>5, <1>20 DEF PowerCut
<1> QED BY <1>6, <1>7, <1>8, <1>10, <1>11, <1>12, <1>13, <1>15, <1>16, <1>17, <1>18,
           <1>19, <1>20, NextIs

(* What the card holds at first counts as passed.                          *)
LEMMA KeepingInitial == Init => Keeping
<1> SUFFICES ASSUME Init PROVE Keeping
  OBVIOUS
<1>1. PICK older \in {None, 0} :
        /\ fs = [a \in Names |->
                  IF a \in Artifacts THEN [Found EXCEPT !.final = older] ELSE Found]
        /\ passed = [a \in Artifacts |-> older]
  BY DEF Init
<1>2. older \in Int /\ older <= 0 /\ Found \in [final : Int, temp : Int, old : Int]
      /\ None \in Int
  BY DEF None, Found
<1>3. /\ want = {} /\ run = 0
      /\ Artifacts \subseteq Names
  BY DEF Init, Artifacts
<1>4. ASSUME NEW a \in Artifacts
      PROVE  Available(a) = older
  <2>1. fs[a] = [Found EXCEPT !.final = older]
    BY <1>1, <1>3
  <2>2. fs[a].final = older /\ fs[a].old = None
    BY <1>2, <2>1 DEF Found
  <2> QED BY <1>1, <2>2 DEF Available
<1> QED BY <1>1, <1>2, <1>3, <1>4 DEF Keeping, Safe

(* Every step, and every stutter, preserves Keeping.                       *)
LEMMA KeepingStep ==
  ASSUME IInv, Keeping, PublishedIsWhole', [Next]_vars
  PROVE  Keeping'
<1>1. CASE Next
  BY <1>1, SafeStep, WrittenStep, InPlaceStep, SparedStep DEF Keeping
<1>2. CASE UNCHANGED vars
  <2>1. UNCHANGED <<pc, failed, info, route, want, art, staged, published, fs, head, run,
                    passed>>
    BY <1>2 DEF vars, task, marks, history
  <2> QED BY <2>1 DEF Keeping, Safe, Available, Written, InPlace, Spared, Withdrawn, Done,
          Artifacts, cart
<1> QED BY <1>1, <1>2

(* Once a backup has been reported as passed, it or a newer one is to be   *)
(* had at every instant of every later run, after every failure, failed    *)
(* roll back and power cut.                                                *)
THEOREM PassKept == Spec => []PassIsKept
<1>1. Init => Keeping
  BY KeepingInitial
<1>2. IInv /\ Keeping /\ PublishedIsWhole' /\ [Next]_vars => Keeping'
  BY KeepingStep
<1>3. Keeping => PassIsKept
  BY DEF Keeping, Safe, PassIsKept
<1> QED BY <1>1, <1>2, <1>3, Invariance, PublishedWhole, PTL DEF Spec
=============================================================================

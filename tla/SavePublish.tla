----------------------------- MODULE SavePublish ----------------------------
(***************************************************************************)
(* How virtual_cart.c replaces a save file on the SD card.  The directory  *)
(* holds at most three names for one game: the save itself, the .tmp it    *)
(* is written to and the .old it is set aside as.  FatFs calls are the     *)
(* steps; every one of them may return an error, and the console may lose  *)
(* power between any two.  The same routines publish the RTC sidecar.      *)
(*                                                                         *)
(* A rename or an unlink takes effect as a whole: FatFs synchronises the   *)
(* directory before it returns.  File data is durable after fsync only.    *)
(***************************************************************************)
CONSTANTS Saves,   \* the complete save images
          NoSave,  \* the name is not in the directory
          Partial  \* a file that is not a complete image

ASSUME PublishAssumption == /\ NoSave \notin Saves
                            /\ Partial \notin Saves \cup {NoSave}

VARIABLES fs,       \* the directory: what each name holds
          pc,       \* the FatFs call the writer is about to make
          then,     \* where RecoverSavePublish returns to
          job,      \* the image being published, NoSave when none is
          staged,   \* PublishSaveTemp's Staged: the old save was set aside
          base,     \* history: what was recoverable when the job started
          loaded,   \* what the last UploadSave read
          outcome   \* what the last operation returned

vars == <<fs, pc, then, job, staged, base, loaded, outcome>>

Names == {"final", "temp", "old"}
Contents == Saves \cup {NoSave, Partial}

Has(n) == fs[n] # NoSave
Unlink(n) == [fs EXCEPT ![n] = NoSave]
Rename(from, to) == [fs EXCEPT ![to] = fs[from], ![from] = NoSave]

(* The save that RecoverSavePublish would leave under the final name. *)
Recoverable == IF Has("final") THEN fs["final"] ELSE fs["old"]

Init == /\ fs \in [Names -> Contents]
        /\ fs["final"] \in Saves \cup {NoSave}
        /\ fs["temp"] = NoSave
        /\ fs["old"] = NoSave
        /\ pc = "idle"
        /\ then = "idle"
        /\ job = NoSave
        /\ staged = FALSE
        /\ base = Recoverable
        /\ loaded = NoSave
        /\ outcome = "none"

-----------------------------------------------------------------------------
(* Ends of an operation. *)

Fail == /\ pc' = "idle"
        /\ job' = NoSave
        /\ staged' = FALSE
        /\ base' = Recoverable'
        /\ outcome' = "failed"
        /\ UNCHANGED <<then, loaded>>

Finish == /\ pc' = "idle"
          /\ job' = NoSave
          /\ staged' = FALSE
          /\ base' = Recoverable'
          /\ outcome' = "ok"
          /\ UNCHANGED <<then, loaded>>

GoTo(step) == /\ pc' = step
              /\ UNCHANGED <<then, job, staged, base, loaded, outcome>>

-----------------------------------------------------------------------------
(* RecoverSavePublish: an interrupted replacement is completed if the new  *)
(* save is in place and undone if it is not.                               *)

RecoverNothing == /\ pc = "recover"
                  /\ ~Has("old")
                  /\ fs' = fs
                  /\ GoTo(then)

\* Faulty variant: the old save is preferred to the new one.
RecoverOldAnyway == /\ pc = "recover"
                    /\ Has("old") /\ Has("final")
                    /\ fs' = Rename("old", "final")
                    /\ GoTo(then)

RecoverDropOld == /\ pc = "recover"
                  /\ Has("old") /\ Has("final")
                  /\ fs' = Unlink("old")
                  /\ GoTo(then)

RecoverOld == /\ pc = "recover"
              /\ Has("old") /\ ~Has("final")
              /\ fs' = Rename("old", "final")
              /\ GoTo(then)

(* An error inside PublishSaveTemp still unlinks the temporary file. *)
RecoverFails == /\ pc = "recover"
                /\ fs' = fs
                /\ IF then = "stage" THEN GoTo("discard") ELSE Fail

-----------------------------------------------------------------------------
(* UploadSave, up to the point where it has the file open. *)

Load == /\ pc = "idle"
        /\ pc' = "recover"
        /\ then' = "open"
        /\ UNCHANGED <<fs, job, staged, base, loaded, outcome>>

OpenSave == /\ pc = "open"
            /\ loaded' = fs["final"]
            /\ outcome' = "loaded"
            /\ pc' = "idle"
            /\ UNCHANGED <<fs, then, job, staged, base>>

OpenSaveFails == /\ pc = "open"
                 /\ fs' = fs
                 /\ Fail

-----------------------------------------------------------------------------
(* PersistActiveSave, from its RecoverSavePublish on. *)

Persist(v) == /\ pc = "idle"
              /\ job' = v
              /\ pc' = "recover"
              /\ then' = "clean"
              /\ outcome' = "none"
              /\ UNCHANGED <<fs, staged, base, loaded>>

\* Faulty variant: a temporary file is taken for a save that is under way.
SkipStaleTemp == /\ pc = "clean"
                 /\ fs' = fs
                 /\ IF Has("temp")
                      THEN /\ pc' = "idle" /\ job' = NoSave
                           /\ base' = Recoverable'
                           /\ UNCHANGED <<then, staged, loaded, outcome>>
                      ELSE GoTo("open_temp")

UnlinkStaleTemp == /\ pc = "clean"
                   /\ fs' = Unlink("temp")
                   /\ GoTo("open_temp")

UnlinkStaleTempFails == /\ pc = "clean"
                        /\ Has("temp")
                        /\ fs' = fs
                        /\ Fail

OpenTemp == /\ pc = "open_temp"
            /\ fs' = [fs EXCEPT !["temp"] = Partial]
            /\ GoTo("write")

OpenTempFails == /\ pc = "open_temp"
                 /\ fs' = fs
                 /\ Fail

(* Every block was read back from the FPGA and written, the game did not   *)
(* write meanwhile, and FinishSaveFile synchronised the data.              *)
WriteAndSync == /\ pc = "write"
                /\ fs' = [fs EXCEPT !["temp"] = job]
                /\ then' = "stage"
                /\ pc' = "recover"
                /\ UNCHANGED <<job, staged, base, loaded, outcome>>

WriteFails == /\ pc = "write"
              /\ fs' = fs
              /\ GoTo("discard")

(* The unlink(Temp) of the error path, whose own error is ignored. *)
DiscardTemp == /\ pc = "discard"
               /\ fs' \in {fs, Unlink("temp")}
               /\ Fail

-----------------------------------------------------------------------------
(* PublishSaveTemp after its own RecoverSavePublish. *)

\* Faulty variant: the old save is removed before the new one is in place.
UnlinkFirst == /\ pc = "stage"
               /\ Has("final")
               /\ fs' = Unlink("final")
               /\ staged' = TRUE
               /\ pc' = "swap"
               /\ UNCHANGED <<then, job, base, loaded, outcome>>

StageOld == /\ pc = "stage"
            /\ Has("final")
            /\ fs' = Rename("final", "old")
            /\ staged' = TRUE
            /\ pc' = "swap"
            /\ UNCHANGED <<then, job, base, loaded, outcome>>

StageNothing == /\ pc = "stage"
                /\ ~Has("final")
                /\ fs' = fs
                /\ GoTo("swap")

StageFails == /\ pc = "stage"
              /\ fs' = fs
              /\ GoTo("discard")

SwapIn == /\ pc = "swap"
          /\ fs' = Rename("temp", "final")
          /\ GoTo("check")

SwapInFails == /\ pc = "swap"
               /\ fs' = fs
               /\ GoTo(IF staged THEN "unstage" ELSE "discard")

CheckSize == /\ pc = "check"
             /\ fs' = fs
             /\ IF staged THEN GoTo("drop") ELSE Finish

CheckSizeFails == /\ pc = "check"
                  /\ fs' \in {fs, Unlink("final")}
                  /\ GoTo(IF staged THEN "unstage" ELSE "discard")

(* FatFs refuses a rename onto a name that exists. *)
Unstage == /\ pc = "unstage"
           /\ \/ ~Has("final") /\ fs' = Rename("old", "final")
              \/ fs' = fs
           /\ GoTo("discard")

DropOld == /\ pc = "drop"
           /\ fs' = Unlink("old")
           /\ Finish

DropOldFails == /\ pc = "drop"
                /\ fs' = fs
                /\ GoTo("discard")

-----------------------------------------------------------------------------
(* Power is cut: the directory stays, unsynchronised data may not. *)
PowerCut == /\ pc # "idle"
            /\ \/ fs' = fs
               \/ pc = "write" /\ fs' = Unlink("temp")
            /\ pc' = "idle"
            /\ job' = NoSave
            /\ staged' = FALSE
            /\ base' = Recoverable'
            /\ outcome' = "cut"
            /\ UNCHANGED <<then, loaded>>

(* The calls that succeed, and the ones that do not. *)
Proceed == \/ RecoverNothing \/ RecoverDropOld \/ RecoverOld \/ OpenSave
           \/ UnlinkStaleTemp \/ OpenTemp \/ WriteAndSync \/ DiscardTemp
           \/ StageOld \/ StageNothing \/ SwapIn
           \/ CheckSize \/ Unstage \/ DropOld

Fault == \/ RecoverFails \/ OpenSaveFails
         \/ UnlinkStaleTempFails \/ OpenTempFails \/ WriteFails
         \/ StageFails \/ SwapInFails \/ CheckSizeFails \/ DropOldFails
         \/ PowerCut

PersistAny == \E v \in Saves : Persist(v)

Next == Load \/ PersistAny \/ Proceed \/ Fault

Spec == Init /\ [][Next]_vars

(* The task that publishes is never suspended for good between two calls. *)
FairSpec == Spec /\ WF_vars(Proceed)

-----------------------------------------------------------------------------
Steps == {"idle", "recover", "open", "clean", "open_temp", "write", "discard",
          "stage", "swap", "check", "unstage", "drop"}

TypeOK == /\ fs \in [Names -> Contents]
          /\ pc \in Steps
          /\ then \in {"idle", "open", "clean", "stage"}
          /\ job \in Saves \cup {NoSave}
          /\ staged \in BOOLEAN
          /\ base \in Saves \cup {NoSave}
          /\ loaded \in Contents
          /\ outcome \in {"none", "ok", "failed", "cut", "loaded"}

(* The save a reader would recover is a whole image at every instant, and  *)
(* it is the one the running job found or the one it publishes: no FatFs   *)
(* error and no power cut between two of the renames leaves the game       *)
(* without its save, with a torn one or with an older one.                 *)
SaveNeverLost == /\ fs["final"] # Partial
                 /\ fs["old"] # Partial
                 /\ Recoverable \in {base, job}
                 /\ job = NoSave => Recoverable = base

(* No sequence of errors and power cuts leaves a directory the writer      *)
(* cannot get out of: once they stop, a save that is asked for again and   *)
(* again is published again and again.                                     *)
SavesGetThrough == /\ <>[][~Fault]_vars
                   /\ []<><<PersistAny>>_vars
                   => []<>(outcome = "ok")

(* The directory behaves as one atomically replaced save. *)
Abstract == INSTANCE AtomicSave WITH saved <- Recoverable
ReplacesAtomically == Abstract!Spec

(* The inductive invariant: what the directory looks like at each call. *)
Settled == /\ job = NoSave
           /\ staged = FALSE
           /\ Recoverable = base

Publishing == job \in Saves /\ Recoverable \in {base, job}

AtCall ==
  /\ pc = "idle" => Settled
  /\ pc = "open" => Settled /\ fs["old"] = NoSave
  /\ pc = "recover" =>
       \/ then = "open" /\ Settled
       \/ /\ then \in {"clean", "stage"}
          /\ job \in Saves /\ staged = FALSE /\ Recoverable = base
          /\ then = "stage" => fs["temp"] = job
  /\ pc \in {"clean", "open_temp", "write"} =>
       job \in Saves /\ staged = FALSE /\ Recoverable = base /\ fs["old"] = NoSave
  /\ pc = "open_temp" => fs["temp"] = NoSave
  /\ pc = "discard" => Publishing
  /\ pc = "stage" => /\ job \in Saves /\ staged = FALSE
                     /\ fs["temp"] = job /\ fs["old"] = NoSave /\ Recoverable = base
  /\ pc = "swap" => /\ job \in Saves /\ fs["temp"] = job
                    /\ fs["final"] = NoSave /\ fs["old"] = base
                    /\ staged = (base # NoSave)
  /\ pc = "check" => /\ job \in Saves /\ fs["temp"] = NoSave
                     /\ fs["final"] = job /\ fs["old"] = base
                     /\ staged = (base # NoSave)
  /\ pc = "drop" => /\ job \in Saves /\ fs["temp"] = NoSave
                    /\ fs["final"] = job /\ fs["old"] = base /\ staged
  /\ pc = "unstage" => /\ job \in Saves /\ fs["old"] = base /\ staged
                       /\ fs["final"] \in {NoSave, job}

IInv == TypeOK /\ SaveNeverLost /\ AtCall
=============================================================================

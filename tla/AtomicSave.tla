----------------------------- MODULE AtomicSave -----------------------------
(***************************************************************************)
(* What a caller of the save writer may rely on, with no file in sight:    *)
(* one complete save can be recovered at every instant, and while a new    *)
(* one is being published it is either the save the job started from or    *)
(* the one it is writing.  A job that reports success has replaced it; a   *)
(* job that fails, or that a power cut ends, leaves one of the two.        *)
(***************************************************************************)

CONSTANTS Saves,   \* the complete save images
          NoSave   \* there is no save on the card

VARIABLES saved,    \* the save a reader would recover now
          base,     \* the save recoverable when the current job started
          job,      \* the image being published, NoSave when none is
          loaded,   \* what the last load returned
          outcome   \* how the last operation ended

vars == <<saved, base, job, loaded, outcome>>

Init == /\ saved \in Saves \cup {NoSave}
        /\ base = saved
        /\ job = NoSave
        /\ loaded = NoSave
        /\ outcome = "none"

Begin(v) == /\ job = NoSave
            /\ job' = v
            /\ outcome' = "none"
            /\ UNCHANGED <<saved, base, loaded>>

\* The one visible effect of a job, which it may still take back.
Replace == /\ job # NoSave
           /\ saved' \in {base, job}
           /\ UNCHANGED <<base, job, loaded, outcome>>

Succeed == /\ job # NoSave
           /\ saved = job
           /\ base' = saved
           /\ job' = NoSave
           /\ outcome' = "ok"
           /\ UNCHANGED <<saved, loaded>>

\* An error report, or a power cut.
Stop == /\ base' = saved
        /\ job' = NoSave
        /\ outcome' \in {"failed", "cut"}
        /\ UNCHANGED <<saved, loaded>>

Read == /\ job = NoSave
        /\ loaded' = saved
        /\ outcome' = "loaded"
        /\ UNCHANGED <<saved, base, job>>

Next == (\E v \in Saves : Begin(v)) \/ Replace \/ Succeed \/ Stop \/ Read

Spec == Init /\ [][Next]_vars
=============================================================================

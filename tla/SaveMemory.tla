----------------------------- MODULE SaveMemory -----------------------------
(***************************************************************************)
(* What the FPGA's save RAM promises, with no cache in sight: the game     *)
(* sees one memory, ram; PSRAM follows it in its own time; and dirty is    *)
(* cleared only by a flush during which the game wrote nothing and at      *)
(* whose end PSRAM holds exactly what the game sees.                       *)
(***************************************************************************)
EXTENDS SnapshotPort

VARIABLES enabled,   \* a game is mapped
          ram,       \* the save RAM as the game sees it
          dirty,     \* the save-pending bit of the status word
          flushing,  \* a flush is under way
          wrote      \* the game wrote since it started

hostVars == <<enabled, ram, dirty, flushing, wrote>>
memoryVars == <<portVars, hostVars>>

Off == /\ enabled = FALSE
       /\ dirty = FALSE
       /\ flushing = FALSE
       /\ wrote = FALSE

MemoryInit == /\ psram \in [Lines -> Values]
              /\ ram = psram
              /\ PortInit
              /\ Off

Write(l, v) == /\ enabled
               /\ ram' = [ram EXCEPT ![l] = v]
               /\ dirty' = TRUE
               /\ wrote' = (wrote \/ flushing)
               /\ UNCHANGED <<portVars, enabled, flushing>>

\* A dirty line reaches PSRAM, evicted or flushed.
Drain(l) == /\ enabled
            /\ psram' = [psram EXCEPT ![l] = ram[l]]
            /\ UNCHANGED <<request, servingVars, flush_asked, flush_done, hostVars>>

StartFlush == /\ flush_asked
              /\ ~flushing
              /\ flush_asked' = FALSE
              /\ flushing' = TRUE
              /\ wrote' = FALSE
              /\ UNCHANGED <<psram, request, servingVars, flush_done, enabled, ram, dirty>>

EndFlush == /\ flushing
            /\ wrote \/ psram = ram
            /\ flushing' = FALSE
            /\ dirty' = wrote
            /\ flush_done' = ~flush_done
            /\ UNCHANGED <<psram, request, servingVars, flush_asked, enabled, ram, wrote>>

ServeSnapshot == enabled /\ PortStep /\ UNCHANGED hostVars

AskBlock(b, q) == enabled /\ RequestBlock(b, q) /\ UNCHANGED hostVars

\* Whatever the cache had not written back is gone.
Disable == /\ enabled
           /\ enabled' = FALSE
           /\ ram' = psram
           /\ dirty' = FALSE
           /\ flushing' = FALSE
           /\ wrote' = FALSE
           /\ PortOff
           /\ UNCHANGED psram

Enable == /\ ~enabled
          /\ enabled' = TRUE
          /\ UNCHANGED <<portVars, ram, dirty, flushing, wrote>>

Upload(l, v) == /\ ~enabled
                /\ psram' = [psram EXCEPT ![l] = v]
                /\ ram' = [ram EXCEPT ![l] = v]
                /\ UNCHANGED <<request, servingVars, flush_asked, flush_done,
                               enabled, dirty, flushing, wrote>>

\* What the cache does on its own.
MemoryStep == StartFlush \/ EndFlush \/ ServeSnapshot \/ \E l \in Lines : Drain(l)

MemoryNext == \/ MemoryStep
              \/ \E l \in Lines, v \in Values : Write(l, v) \/ Upload(l, v)
              \/ \E b \in Blocks, q \in Sequences : AskBlock(b, q)
              \/ Disable \/ Enable

MemorySpec == MemoryInit /\ [][MemoryNext]_memoryVars
=============================================================================

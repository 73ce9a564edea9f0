---------------------------- MODULE SnapshotPort ----------------------------
(***************************************************************************)
(* The PSRAM side of the FPGA's save cache (the xclk process of            *)
(* virtual_cart_cache.sv): it serves one snapshot request at a time by     *)
(* copying a block of the save, line by line, from PSRAM to the buffer the *)
(* microcontroller reads.  For the first block of a save it has the cache  *)
(* flushed before it copies.                                               *)
(*                                                                         *)
(* A request may be repeated, but not before the one before it has been    *)
(* served: the firmware resends after 50 ms.                               *)
(***************************************************************************)
CONSTANTS Lines,       \* the cache lines of the save RAM
          Values,      \* what one of them may hold
          Blocks,      \* the blocks a save is transferred in
          FirstBlock,  \* block 0, whose request flushes the cache
          BlockOf,     \* the block each line belongs to
          Sequences,   \* the numbers requests carry
          None         \* no request, or nothing ready

ASSUME PortAssumption == /\ FirstBlock \in Blocks
                         /\ BlockOf \in [Lines -> Blocks]
                         /\ None \notin Sequences

VARIABLES psram,        \* the save RAM's home in PSRAM
          request,      \* the request toggled by top.v and not seen yet
          stage,        \* snapshot_pending_x and snapshot_active_x
          sequence,     \* snapshot_sequence_x
          left,         \* the lines snapshot_chunk_x has still to copy
          buffer,       \* ram_save_snapshot
          ready,        \* xsnapshot_ready with its sequence
          flush_asked,  \* flush_request_toggle_x differs from the one seen
          flush_done    \* flush_done_toggle_h differs from the one seen

servingVars == <<stage, sequence, left, buffer, ready>>
portVars == <<psram, request, servingVars, flush_asked, flush_done>>

LinesOf(b) == {l \in Lines : BlockOf[l] = b}
Requests == [block : Blocks, sequence : Sequences]

PortInit == /\ request = None
            /\ stage = "idle"
            /\ sequence = None
            /\ left = {}
            /\ buffer \in [Lines -> Values]
            /\ ready = None
            /\ flush_asked = FALSE
            /\ flush_done = FALSE

RequestBlock(b, q) == /\ request = None
                      /\ stage = "idle"
                      /\ request' = [block |-> b, sequence |-> q]
                      /\ UNCHANGED <<psram, servingVars, flush_asked, flush_done>>

(* From here on the previous block is no longer offered. *)
PickRequest == /\ request # None
               /\ stage # "copying"
               /\ request' = None
               /\ sequence' = request.sequence
               /\ ready' = None
               /\ left' = LinesOf(request.block)
               /\ IF request.block = FirstBlock
                    THEN stage' = "waiting" /\ flush_asked' = ~flush_asked
                    ELSE stage' = "copying" /\ UNCHANGED flush_asked
               /\ UNCHANGED <<psram, buffer, flush_done>>

FlushSeen == /\ stage = "waiting"
             /\ flush_done
             /\ flush_done' = FALSE
             /\ stage' = "copying"
             /\ UNCHANGED <<psram, request, sequence, left, buffer, ready, flush_asked>>

CopyLine == \E l \in left :
              /\ stage = "copying"
              /\ buffer' = [buffer EXCEPT ![l] = psram[l]]
              /\ left' = left \ {l}
              /\ IF left' = {}
                   THEN stage' = "idle" /\ ready' = sequence
                   ELSE UNCHANGED <<stage, ready>>
              /\ UNCHANGED <<psram, request, sequence, flush_asked, flush_done>>

PortStep == PickRequest \/ FlushSeen \/ CopyLine

(* The reset of this process while no game is enabled. *)
PortOff == /\ request' = None
           /\ stage' = "idle"
           /\ left' = {}
           /\ ready' = None
           /\ flush_asked' = FALSE
           /\ flush_done' = FALSE
           /\ UNCHANGED <<sequence, buffer>>

PortTypeOK == /\ psram \in [Lines -> Values]
              /\ request \in Requests \cup {None}
              /\ stage \in {"idle", "waiting", "copying"}
              /\ sequence \in Sequences \cup {None}
              /\ left \subseteq Lines
              /\ buffer \in [Lines -> Values]
              /\ ready \in Sequences \cup {None}
              /\ flush_asked \in BOOLEAN
              /\ flush_done \in BOOLEAN
=============================================================================

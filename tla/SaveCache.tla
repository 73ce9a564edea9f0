----------------------------- MODULE SaveCache ------------------------------
(***************************************************************************)
(* The FPGA's write-back cache of a game's save RAM (virtual_cart_cache.sv,*)
(* the hclk process).  The game reads and writes lines held in slots; a    *)
(* miss evicts a slot.  On request of the snapshot port it walks the slots *)
(* and writes the dirty ones back while the game keeps running, and it     *)
(* keeps one flag, dirty_seen, that tells the microcontroller whether the  *)
(* game wrote anything the last completed flush did not cover.             *)
(***************************************************************************)
EXTENDS SnapshotPort, Integers

CONSTANTS SlotCount,  \* the slots the walk visits, 64 in the source
          Ways,       \* slots per set, 2 in the source
          SetOf,      \* the set each line is cached in
          NoLine      \* an invalid slot's tag

ASSUME CacheAssumption == /\ SlotCount \in Nat \ {0}
                          /\ Ways \in Nat \ {0}
                          /\ NoLine \notin Lines

VARIABLES enabled,             \* henable
          tag,                 \* the line each slot holds
          data,                \* its contents
          dirty_bit,           \* its tag's bit 13
          dirty_seen,          \* the flag the status word shows
          dirty_during_flush,  \* a write since the flush started
          flush_state,         \* "captured": PSRAM has the line, the clear is due
          flush_index          \* the slot the walk is at

cacheVars == <<enabled, tag, data, dirty_bit, dirty_seen, dirty_during_flush,
               flush_state, flush_index>>
vars == <<portVars, cacheVars>>

Slots == 0 .. SlotCount - 1
SetOfSlot(s) == s \div Ways
SlotsFor(l) == {s \in Slots : SetOfSlot(s) = SetOf[l]}
Cached(l) == \E s \in Slots : tag[s] = l
SlotOf(l) == CHOOSE s \in Slots : tag[s] = l

(* What the game sees. *)
View == [l \in Lines |-> IF Cached(l) THEN data[SlotOf(l)] ELSE psram[l]]

Invalidated == /\ tag' = [s \in Slots |-> NoLine]
               /\ dirty_bit' = [s \in Slots |-> FALSE]

Init == /\ psram \in [Lines -> Values]
        /\ PortInit
        /\ enabled = FALSE
        /\ tag = [s \in Slots |-> NoLine]
        /\ data \in [Slots -> Values]
        /\ dirty_bit = [s \in Slots |-> FALSE]
        /\ dirty_seen = FALSE
        /\ dirty_during_flush = FALSE
        /\ flush_state = "idle"
        /\ flush_index = 0

-----------------------------------------------------------------------------
(* The game's accesses. *)

\* Faulty variant: the game is not kept off the line being written back.
NeverBlocked(l) == FALSE

(* A set that is being written back is blocked until its dirty bit is      *)
(* cleared; the other sets are not.                                        *)
BlockedByFlush(l) == /\ flush_state \in {"wait", "captured"}
                     /\ SetOf[l] = SetOfSlot(flush_index)

Write(l, v) == \E s \in Slots :
  /\ enabled
  /\ tag[s] = l
  /\ ~BlockedByFlush(l)
  /\ data' = [data EXCEPT ![s] = v]
  /\ dirty_bit' = [dirty_bit EXCEPT ![s] = TRUE]
  /\ dirty_seen' = TRUE
  /\ dirty_during_flush' = (dirty_during_flush \/ flush_state # "idle")
  /\ UNCHANGED <<portVars, enabled, tag, flush_state, flush_index>>

\* Faulty variant: a dirty victim is overwritten.
MissWithoutWriteBack(l) == \E s \in SlotsFor(l) :
  /\ enabled
  /\ ~Cached(l)
  /\ flush_state \in {"idle", "read"}
  /\ tag' = [tag EXCEPT ![s] = l]
  /\ data' = [data EXCEPT ![s] = psram[l]]
  /\ dirty_bit' = [dirty_bit EXCEPT ![s] = FALSE]
  /\ UNCHANGED <<portVars, enabled, dirty_seen, dirty_during_flush,
                 flush_state, flush_index>>

(* An access that misses: the victim is written back if it is dirty, the   *)
(* line is filled.  The game's port waits for both.                        *)
Miss(l) == \E s \in SlotsFor(l) :
  /\ enabled
  /\ ~Cached(l)
  /\ flush_state \in {"idle", "read"}
  /\ tag[s] # NoLine => \A t \in SlotsFor(l) : tag[t] # NoLine
  /\ psram' = IF dirty_bit[s] THEN [psram EXCEPT ![tag[s]] = data[s]] ELSE psram
  /\ tag' = [tag EXCEPT ![s] = l]
  /\ data' = [data EXCEPT ![s] = psram[l]]
  /\ dirty_bit' = [dirty_bit EXCEPT ![s] = FALSE]
  /\ UNCHANGED <<request, servingVars, flush_asked, flush_done, enabled,
                 dirty_seen, dirty_during_flush, flush_state, flush_index>>

-----------------------------------------------------------------------------
(* The flush walk. *)

FlushStart == /\ enabled
              /\ flush_asked
              /\ flush_state = "idle"
              /\ flush_asked' = FALSE
              /\ flush_state' = "read"
              /\ flush_index' = 0
              /\ dirty_during_flush' = FALSE
              /\ UNCHANGED <<psram, request, servingVars, flush_done, enabled,
                             tag, data, dirty_bit, dirty_seen>>

\* Faulty variant: the PSRAM process is not told that the walk ended.
AdvanceSilently == /\ IF flush_index = SlotCount - 1
                        THEN /\ flush_state' = "idle"
                             /\ dirty_seen' = dirty_during_flush
                             /\ UNCHANGED flush_index
                        ELSE /\ flush_state' = "read"
                             /\ flush_index' = flush_index + 1
                             /\ UNCHANGED dirty_seen
                   /\ UNCHANGED flush_done

(* To the next slot, or the end of the flush. *)
Advance == IF flush_index = SlotCount - 1
             THEN /\ flush_state' = "idle"
                  /\ dirty_seen' = dirty_during_flush
                  /\ flush_done' = ~flush_done
                  /\ UNCHANGED flush_index
             ELSE /\ flush_state' = "read"
                  /\ flush_index' = flush_index + 1
                  /\ UNCHANGED <<dirty_seen, flush_done>>

FlushSkip == /\ flush_state = "read"
             /\ ~dirty_bit[flush_index]
             /\ Advance
             /\ UNCHANGED <<psram, request, servingVars, flush_asked, enabled,
                            tag, data, dirty_bit, dirty_during_flush>>

FlushPick == /\ flush_state = "read"
             /\ dirty_bit[flush_index]
             /\ flush_state' = "wait"
             /\ UNCHANGED <<portVars, enabled, tag, data, dirty_bit, dirty_seen,
                            dirty_during_flush, flush_index>>

FlushCapture == /\ flush_state = "wait"
                /\ psram' = [psram EXCEPT ![tag[flush_index]] = data[flush_index]]
                /\ flush_state' = "captured"
                /\ UNCHANGED <<request, servingVars, flush_asked, flush_done,
                               enabled, tag, data, dirty_bit, dirty_seen,
                               dirty_during_flush, flush_index>>

FlushComplete == /\ flush_state = "captured"
                 /\ dirty_bit' = [dirty_bit EXCEPT ![flush_index] = FALSE]
                 /\ Advance
                 /\ UNCHANGED <<psram, request, servingVars, flush_asked, enabled,
                                tag, data, dirty_during_flush>>

FlushStep == FlushStart \/ FlushSkip \/ FlushPick \/ FlushCapture \/ FlushComplete

-----------------------------------------------------------------------------
(* The microcontroller's side: snapshots, and the game coming and going.   *)

Serve == enabled /\ PortStep /\ UNCHANGED cacheVars

Ask(b, q) == enabled /\ RequestBlock(b, q) /\ UNCHANGED cacheVars

Disable == /\ enabled
           /\ enabled' = FALSE
           /\ Invalidated
           /\ dirty_seen' = FALSE
           /\ dirty_during_flush' = FALSE
           /\ flush_state' = "idle"
           /\ flush_index' = 0
           /\ PortOff
           /\ UNCHANGED <<psram, data>>

Enable == /\ ~enabled
          /\ enabled' = TRUE
          /\ UNCHANGED <<portVars, tag, data, dirty_bit, dirty_seen,
                         dirty_during_flush, flush_state, flush_index>>

Upload(l, v) == /\ ~enabled
                /\ psram' = [psram EXCEPT ![l] = v]
                /\ UNCHANGED <<request, servingVars, flush_asked, flush_done, cacheVars>>

Next == \/ FlushStep \/ Serve \/ Disable \/ Enable
        \/ \E l \in Lines : Miss(l)
        \/ \E l \in Lines, v \in Values : Write(l, v) \/ Upload(l, v)
        \/ \E b \in Blocks, q \in Sequences : Ask(b, q)

Spec == Init /\ [][Next]_vars

(* The walk gets the port between two accesses of the game; the PSRAM      *)
(* process has nobody to wait for.                                         *)
FairSpec == Spec /\ WF_vars(FlushStep) /\ WF_vars(Serve)

-----------------------------------------------------------------------------
CacheTypeOK == /\ enabled \in BOOLEAN
               /\ tag \in [Slots -> Lines \cup {NoLine}]
               /\ data \in [Slots -> Values]
               /\ dirty_bit \in [Slots -> BOOLEAN]
               /\ dirty_seen \in BOOLEAN
               /\ dirty_during_flush \in BOOLEAN
               /\ flush_state \in {"idle", "read", "wait", "captured"}
               /\ flush_index \in Slots

TypeOK == PortTypeOK /\ CacheTypeOK

(* While the flag is down PSRAM holds every byte the game ever wrote, so a *)
(* copy of it is the save.                                                 *)
CleanMeansStored == ~dirty_seen => psram = View

(* Every block that is asked for is served, unless the game is stopped,    *)
(* however busy the game keeps the cache meanwhile.                        *)
RequestsAreServed == /\ request # None ~> (stage # "idle" \/ ~enabled)
                     /\ stage # "idle" ~> (ready # None \/ ~enabled)

(* The cache is a memory that PSRAM follows. *)
Memory == INSTANCE SaveMemory WITH
            ram <- View,
            dirty <- dirty_seen,
            flushing <- flush_state # "idle",
            wrote <- dirty_during_flush
BehavesAsMemory == Memory!MemorySpec

(* The inductive invariant: a line is in one slot, a clean slot agrees     *)
(* with PSRAM, and no write escapes both the walk and the two flags.       *)
Clean(s) == ~dirty_bit[s]

CacheInv ==
  /\ \A s, t \in Slots : tag[s] = tag[t] /\ tag[s] # NoLine => s = t
  /\ \A s \in Slots : tag[s] = NoLine => Clean(s)
  /\ \A s \in Slots : tag[s] # NoLine => tag[s] \in Lines /\ SetOfSlot(s) = SetOf[tag[s]]
  /\ \A s \in Slots : Clean(s) /\ tag[s] # NoLine => data[s] = psram[tag[s]]
  /\ ~dirty_seen => \A s \in Slots : Clean(s)
  /\ flush_state # "idle" /\ ~dirty_during_flush =>
       \A s \in Slots : s < flush_index => Clean(s)
  /\ flush_state \in {"wait", "captured"} => ~Clean(flush_index)
  /\ flush_state = "captured" => data[flush_index] = psram[tag[flush_index]]
  /\ ~enabled => /\ \A s \in Slots : tag[s] = NoLine
                 /\ flush_state = "idle" /\ ~dirty_during_flush /\ ~dirty_seen

IInv == TypeOK /\ CacheInv
=============================================================================

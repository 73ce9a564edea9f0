----------------------------- MODULE FlashProgram ---------------------------
(* Programming a block of a flash cartridge: the engine's walk through     *)
(* unlock cycles, data and polling (cart_maintenance_engine.sv, the modes  *)
(* 0x82, 0x83 and 0x85 of READ_RANGE) against a flash chip as the engine   *)
(* and the PC use it.  A byte is its bit 7, the one that is polled.        *)
EXTENDS Integers, Sequences, TLC

CONSTANTS
  BlockSize,      (* bytes of a block, 1024 in the code *)
  Page,           (* bytes of a page of mode 0x83, 32 in the code *)
  WidePage,       (* bytes of a page of mode 0x85, 256 in the code *)
  Banks,          (* banks of the chip, <<low, high>> as the mapper has them *)
  Blocks          (* blocks of the window a bank is seen in, 16 in the code *)

ASSUME FlashAssumption ==
  /\ {BlockSize, Page, WidePage, Blocks} \subseteq Nat \ {0}
  /\ BlockSize % WidePage = 0 /\ WidePage % Page = 0
  /\ Banks \subseteq Nat \X Nat

VARIABLES
  present,   (* cart_present *)
  widest,    (* external: the chip takes a byte, or a buffer of so many *)
  bank,      (* the bank the mapper shows *)
  chip,      (* the chip's command state *)
  cells,     (* its contents *)
  engine,    (* "idle", "write", "poll" *)
  walk       (* flash_phase, block_index and the command carried out *)

flashVars == <<present, widest, bank, chip, cells, engine, walk>>

Bytes == 1 .. BlockSize
Modes == {"single", "page", "wide"}        (* 0x82, 0x83, 0x85 *)
Buffered(mode) == mode # "single"
PageSize(mode) == CASE mode = "single" -> 1
                    [] mode = "page"   -> Page
                    [] mode = "wide"   -> WidePage
Ended(index, mode) == index % PageSize(mode) = 0
FirstBank == <<1, 0>>                      (* what a restored mapper shows *)

Reading == [state |-> "read", left |-> 0, taken |-> << >>, at |-> <<FirstBank, 1>>]
NoWalk == [phase |-> 0, index |-> 1, block |-> 1, mode |-> "single"]

FlashInit ==
  /\ present = TRUE
  /\ widest \in {1, Page, WidePage}
  /\ bank = FirstBank
  /\ chip = Reading
  /\ cells = [b \in Banks |-> [k \in 1 .. Blocks |-> [i \in Bytes |-> 1]]]
  /\ engine = "idle" /\ walk = NoWalk

-----------------------------------------------------------------------------
(* The chip.  What a sequence does not expect ends it, and a chip that is  *)
(* programming listens to nothing.  n is an index or a count.              *)

Become(state) == [Reading EXCEPT !.state = state]
Taking(n, v) == [chip EXCEPT !.taken = (n :> v) @@ chip.taken, !.at = <<bank, walk.block>>]

ChipNext(what, n, v) ==
  CASE chip.state = "busy"                     -> chip
    [] chip.state = "read" /\ what = "aa"      -> Become("unlock")
    [] chip.state = "unlock" /\ what = "55"    -> Become("unlocked")
    [] chip.state = "unlocked" /\ what = "a0"  -> Become("byte")
    [] chip.state = "byte" /\ what = "data"    -> [Taking(n, v) EXCEPT !.state = "busy"]
    [] chip.state = "unlocked" /\ what = "25" /\ widest > 1 -> Become("count")
    [] chip.state = "count" /\ what = "count" /\ n <= widest ->
         [Become("fill") EXCEPT !.left = n]
    [] chip.state = "fill" /\ what = "data" /\ chip.left > 0 ->
         [Taking(n, v) EXCEPT !.left = @ - 1]
    [] chip.state = "fill" /\ what = "29" /\ chip.left = 0 -> [chip EXCEPT !.state = "busy"]
    [] OTHER -> Reading

(* Programming clears bits; it takes its time, or never ends. *)
ChipFinishes ==
  /\ chip.state = "busy"
  /\ chip' = Reading
  /\ cells' = [cells EXCEPT ![chip.at[1]][chip.at[2]] =
                 [i \in Bytes |-> IF i \in DOMAIN chip.taken /\ chip.taken[i] = 0
                                  THEN 0 ELSE @[i]]]
  /\ UNCHANGED <<present, widest, bank, engine, walk>>

(* What a read of the chip gives: while it programs, not yet the data. *)
Seen(block, i, data) == IF chip.state = "busy" THEN 1 - data
                        ELSE cells[bank][block][i]

-----------------------------------------------------------------------------
(* The engine.  Phases 5, 4 unlock; 3 is the command, 2 the count, 1 the   *)
(* data and 0 the confirmation.                                            *)

BeginProgram(block, mode) ==
  /\ engine' = "write"
  /\ walk' = [phase |-> 5, index |-> 1, block |-> block, mode |-> mode]

BusCycle(data) ==
  CASE walk.phase = 5 -> ChipNext("aa", 0, 0)
    [] walk.phase = 4 -> ChipNext("55", 0, 0)
    [] walk.phase = 3 -> ChipNext(IF Buffered(walk.mode) THEN "25" ELSE "a0", 0, 0)
    [] walk.phase = 2 -> ChipNext("count", PageSize(walk.mode), 0)
    [] walk.phase = 1 -> ChipNext("data", walk.index, data[walk.index])
    [] walk.phase = 0 -> ChipNext("29", 0, 0)

LastCycle == walk.phase = IF Buffered(walk.mode) THEN 0 ELSE 1

NextCycle ==
  CASE walk.phase = 3 /\ ~Buffered(walk.mode) -> [walk EXCEPT !.phase = 1]
    [] walk.phase = 1 /\ ~Ended(walk.index, walk.mode) -> [walk EXCEPT !.index = @ + 1]
    [] OTHER -> [walk EXCEPT !.phase = @ - 1]

EngineWrites(data) ==
  /\ engine = "write"
  /\ chip' = BusCycle(data)
  /\ IF LastCycle THEN engine' = "poll" /\ walk' = walk
     ELSE engine' = "write" /\ walk' = NextCycle
  /\ UNCHANGED <<present, widest, bank, cells>>

Polled(data) == engine = "poll" /\ Seen(walk.block, walk.index, data[walk.index]) = data[walk.index]

\* Faulty variant: the next page starts without waiting for this one.
NextPageAtOnce(data) ==
  /\ engine = "poll" /\ walk.index < BlockSize
  /\ engine' = "write"
  /\ walk' = [walk EXCEPT !.phase = 5, !.index = @ + 1]
  /\ UNCHANGED <<present, widest, bank, chip, cells>>

NextPage(data) ==
  /\ Polled(data) /\ walk.index < BlockSize
  /\ engine' = "write"
  /\ walk' = [walk EXCEPT !.phase = 5, !.index = @ + 1]
  /\ UNCHANGED <<present, widest, bank, chip, cells>>

Programmed(data) == Polled(data) /\ walk.index = BlockSize
GivesUp(data) == engine = "poll" /\ ~Polled(data)     (* FLASH_POLL_CYCLES *)
=============================================================================

--------------------------- MODULE CartImportProofs -------------------------
(* An import changes nothing of a save before all of the file has arrived  *)
(* intact; setting the clock does not cost the save; an import that        *)
(* reports success left the save and the clock that were sent, for every   *)
(* set of cartridges, clocks, states and errors; and the clock arithmetic  *)
(* of cart_rtc.c counts seconds.                                           *)
(*                                                                         *)
(* SaveInv says where the save and its copy are at each call of the task;  *)
(* ClockInv follows the plan that sets the clock: halted from its fifth    *)
(* operation on, the clock changes by nothing else until the last of its   *)
(* fifteen lets it go.  FairInv says how far an import is in which nothing *)
(* has failed: what the registers read so far showed, that the clock found *)
(* is not all zeros, and that what is read back was latched at most one    *)
(* second after it was set; so such an import does not fail.               *)
EXTENDS CartImport, SequenceTheorems, TLAPS

(* Bus operations that write, if at all, to the mapper's registers.        *)
Harmless == [op : {"w"}, address : {a \in Int : a < \h8000}, value : Int]
            \cup [op : {"r"}, address : Int, value : Int]

(* The clock is looked for; the second pass has begun.                     *)
Probing == {"probe", "probeAgain", "clockProbe"}
Second == {"write", "verify", "snapshot", "clockProbe", "clock", "check", "recover",
           "recheck", "settle"}

(* The save is only written, and the clock only set, in the second pass,   *)
(* which begins when the first one has found the file whole; and what is   *)
(* left of a probe, that to come while the save is copied too, writes      *)
(* nothing where RAM may be.                                               *)
SecondPassIsChecked == /\ pass \in {"validate", "write"}
                       /\ pass = "write" => validated
                       /\ pc \in Second => pass = "write"
SumIsChecked == pc = "state" => good
ProbeIsHarmless == pc \in Probing \cup {"snapshot"} => todo \in Seq(Harmless)

(* The first inductive invariant: nothing is written before the check.     *)
IInv == /\ UntouchedUntilChecked
        /\ SecondPassIsChecked
        /\ SumIsChecked
        /\ ProbeIsHarmless

-----------------------------------------------------------------------------
(* What is written while the clock is looked for. *)

(* Every operation of a look at the registers.                             *)
LEMMA ReadsHarmless == ASSUME NEW a \in Int PROVE Reads(a) \in Seq(Harmless)
<1> DEFINE f(i) == IF i % 2 = 1 THEN Op("w", \h4000, 8 + i \div 2)
                   ELSE Op("r", a, 7 + i \div 2)
<1>1. \A i \in 1 .. 10 : f(i) \in Harmless
  BY DEF Harmless, Op
<1> QED
  BY <1>1 DEF Reads

(* The operations around it.                                               *)
LEMMA FinishHarmless == Finish \in Seq(Harmless) /\ Latch \in Seq(Harmless)
BY DEF Harmless, Op, Latch, Finish

(* So is a whole probe.                                                    *)
LEMMA ProbeHarmless == Probe \in Seq(Harmless)
<1>1. Reads(\hA880) \in Seq(Harmless)
  BY ReadsHarmless
<1>2. Latch \o Reads(\hA880) \in Seq(Harmless)
  BY <1>1, FinishHarmless
<1> QED
  BY <1>2, FinishHarmless DEF Probe

(* A harmless operation leaves RAM as it is. *)
LEMMA HarmlessAddress == \A x \in Harmless : x.op = "w" => x.address < \h8000
BY DEF Harmless

(* And so does a write among them.                                         *)
LEMMA HarmlessWrite ==
  ASSUME NEW x \in Harmless, x.op = "w", BusWrites(x)
  PROVE  mem' = mem
BY HarmlessAddress DEF BusWrites

-----------------------------------------------------------------------------
(* An action that leaves RAM and the passes alone keeps the first part.    *)
LEMMA Kept ==
  ASSUME UntouchedUntilChecked, mem' = mem, head' = head, validated' = validated
  PROVE  UntouchedUntilChecked'
BY DEF UntouchedUntilChecked, Banks, cart

(* The start.                                                              *)
LEMMA InitInv == ASSUME Init PROVE IInv
BY DEF Init, IInv, UntouchedUntilChecked, SecondPassIsChecked, SumIsChecked,
       ProbeIsHarmless, Probing, Second

(* The operations on the bus.                                              *)
LEMMA BusInv == ASSUME IInv, Bus \/ BusFails PROVE IInv'
<1> USE DEF IInv
<1>1. AtBus /\ todo # <<>> /\ UNCHANGED <<pc, pass, good, head, validated>>
  BY DEF Bus, BusFails, AtBus, Steady, Error, fixed, marks
<1>2. ProbeIsHarmless'
  <2> SUFFICES ASSUME pc \in Probing \cup {"snapshot"} PROVE todo' \in Seq(Harmless)
    BY <1>1 DEF ProbeIsHarmless, Probing
  <2>1. todo \in Seq(Harmless)
    BY DEF ProbeIsHarmless
  <2>2. todo' = Finish \/ todo' = Tail(todo)
    BY DEF Bus, BusFails
  <2>3. Tail(todo) \in Seq(Harmless)
    BY <1>1, <2>1
  <2> QED
    BY <2>2, <2>3, FinishHarmless
<1>3. UntouchedUntilChecked'
  <2>1. CASE pc \in Probing
    <3>1. Head(todo) \in Harmless
      BY <1>1, <2>1 DEF ProbeIsHarmless
    <3>2. mem' = mem
      BY <3>1, HarmlessWrite DEF Bus, BusFails
    <3> QED
      BY <1>1, <3>2, Kept
  <2>2. CASE pc = "clock"
    BY <1>1, <2>2 DEF SecondPassIsChecked, Second, UntouchedUntilChecked
  <2> QED
    BY <1>1, <2>1, <2>2 DEF AtBus, Probing
<1> QED
  BY <1>1, <1>2, <1>3 DEF SecondPassIsChecked, SumIsChecked

(* The steps to the second pass, and those that leave it. *)
LEMMA PassInv ==
  ASSUME IInv, OnReady \/ EnableRam \/ Receive \/ ReceiveOther \/ CheckSum \/ ReceiveState
  PROVE  IInv'
<1> USE DEF IInv, Go, Fails, Steady, Error, fixed, marks, time, task
<1>1. mem' = mem /\ head' = head
  BY DEF OnReady, EnableRam, Receive, ReceiveOther, CheckSum, ReceiveState
<1>2. validated' = validated \/ validated'
  BY DEF OnReady, EnableRam, Receive, ReceiveOther, CheckSum, ReceiveState, PassDone,
         SumIsChecked
<1>3. UntouchedUntilChecked'
  BY <1>1, <1>2, Kept DEF UntouchedUntilChecked
<1>4. SecondPassIsChecked'
  <2> USE DEF SecondPassIsChecked, Second
  <2>1. CASE OnReady \/ EnableRam
    BY <2>1 DEF OnReady, EnableRam
  <2>2. CASE Receive \/ ReceiveOther
    BY <2>2 DEF Receive, ReceiveOther, NextBank
  <2>3. CASE CheckSum
    BY <2>3 DEF CheckSum, PassDone
  <2>4. CASE ReceiveState
    BY <2>4 DEF ReceiveState, PassDone, SumIsChecked
  <2> QED
    BY <2>1, <2>2, <2>3, <2>4
<1>5. SumIsChecked'
  BY DEF OnReady, EnableRam, Receive, ReceiveOther, CheckSum, ReceiveState, PassDone,
         NextBank, SumIsChecked
<1>6. ProbeIsHarmless'
  BY ProbeHarmless DEF OnReady, EnableRam, Receive, ReceiveOther, CheckSum, ReceiveState,
         PassDone, NextBank, ProbeIsHarmless, Probing
<1> QED
  BY <1>3, <1>4, <1>5, <1>6

(* Before the first pass. *)
LEMMA LookInv ==
  ASSUME IInv, ReadCartInfo \/ ProbeAgain \/ Probed \/ OnInfo
  PROVE  IInv'
<1> USE DEF IInv, Go, Fails, Steady, fixed, marks, time, task, ReadCartInfo, ProbeAgain,
            Probed, OnInfo
<1>1. mem' = mem /\ UNCHANGED <<head, pass, validated, good>>
  OBVIOUS
<1>2. UntouchedUntilChecked'
  BY <1>1, Kept
<1>3. SecondPassIsChecked' /\ SumIsChecked'
  BY <1>1 DEF SecondPassIsChecked, Second, SumIsChecked
<1>4. ProbeIsHarmless'
  BY ProbeHarmless DEF ProbeIsHarmless, Probing
<1> QED
  BY <1>2, <1>3, <1>4

(* The second pass, whose writes are all behind the check. *)
LEMMA WriteInv ==
  ASSUME IInv,
         \/ WriteBlock \/ WriteIsLost \/ VerifyBlock
         \/ Snapshot \/ ClockProbed \/ ClockDone \/ Check \/ Recover \/ RtcDone
  PROVE  IInv'
<1> USE DEF IInv, Go, Fails, Steady, Error, fixed, marks, time, task, NextBank, CheckSave,
            WriteBlock, WriteIsLost, VerifyBlock, Snapshot, ClockProbed, ClockDone, Check,
            Recover, RtcDone
<1>1. pass = "write" /\ validated
  BY DEF SecondPassIsChecked, Second
<1>2. UNCHANGED <<pass, validated>>
  OBVIOUS
<1>3. UntouchedUntilChecked' /\ SecondPassIsChecked'
  BY <1>1, <1>2 DEF UntouchedUntilChecked, SecondPassIsChecked
<1>4. SumIsChecked'
  BY DEF SumIsChecked
<1>5. ProbeIsHarmless'
  <2>1. \/ pc' \notin Probing \cup {"snapshot"}
        \/ pc = "snapshot" /\ todo' = todo
    BY DEF Probing
  <2> QED
    BY <2>1 DEF ProbeIsHarmless
<1> QED
  BY <1>3, <1>4, <1>5

(* The steps that end an import, and the crystal.                          *)
LEMMA EndInv == ASSUME IInv, CallFails \/ Cleanup \/ Tick PROVE IInv'
<1> USE DEF IInv, Steady, Error, fixed, marks, time, task, CallFails, Cleanup, Tick
<1>1. UNCHANGED <<head, pass, validated, good, todo>>
  OBVIOUS
<1>2. \/ pc' = pc
      \/ pc' \in {"idle", "cleanup"}
  OBVIOUS
<1>3. mem' = mem \/ pc \in {"write", "recover"}
  OBVIOUS
<1>4. UntouchedUntilChecked'
  <2>1. CASE mem' = mem
    BY <1>1, <2>1, Kept
  <2>2. CASE pc \in {"write", "recover"}
    BY <1>1, <2>2 DEF SecondPassIsChecked, Second, UntouchedUntilChecked
  <2> QED
    BY <1>3, <2>1, <2>2
<1>5. SecondPassIsChecked'
  BY <1>1, <1>2 DEF SecondPassIsChecked, Second
<1>6. SumIsChecked'
  BY <1>1, <1>2 DEF SumIsChecked
<1>7. ProbeIsHarmless'
  BY <1>1, <1>2 DEF ProbeIsHarmless, Probing
<1> QED
  BY <1>4, <1>5, <1>6, <1>7

(* Every behaviour keeps the first invariant.                              *)
LEMMA Invariance == Spec => []IInv
<1>1. Init => IInv
  BY InitInv
<1>2. IInv /\ [Next]_vars => IInv'
  <2> SUFFICES ASSUME IInv, [Next]_vars PROVE IInv'
    OBVIOUS
  <2>1. CASE UNCHANGED vars
    BY <2>1 DEF IInv, UntouchedUntilChecked, SecondPassIsChecked, SumIsChecked,
                ProbeIsHarmless, Banks, cart, vars, fixed, marks, task
  <2> QED
    BY <2>1, BusInv, PassInv, LookInv, WriteInv, EndInv DEF Next
<1> QED
  BY <1>1, <1>2, PTL DEF Spec

(* Whatever the cartridge, the file, the errors and their order: as long   *)
(* as the first pass has not found the file whole, every bank of RAM holds *)
(* what it held.                                                           *)
THEOREM UntouchedSafe == Spec => []UntouchedUntilChecked
<1>1. IInv => UntouchedUntilChecked
  BY DEF IInv
<1> QED
  BY <1>1, Invariance, PTL

-----------------------------------------------------------------------------
(* The clock. *)

(* What a valid clock may show.                                            *)
Shows == [s : 0 .. 59, m : 0 .. 59, h : 0 .. 23, d : 0 .. 511,
          halt : BOOLEAN, carry : BOOLEAN]

(* A second carries into the fields that are full. *)
Carried(s, m, h, d, total) ==
  /\ total % 60 = IF s = 59 THEN 0 ELSE s + 1
  /\ (total \div 60) % 60 = IF s = 59 THEN IF m = 59 THEN 0 ELSE m + 1 ELSE m
  /\ (total \div 3600) % 24 = IF s = 59 /\ m = 59 THEN IF h = 23 THEN 0 ELSE h + 1 ELSE h
  /\ (total \div Day) % 512 = IF s = 59 /\ m = 59 /\ h = 23
                              THEN IF d = 511 THEN 0 ELSE d + 1 ELSE d
  /\ total >= 512 * Day <=> s = 59 /\ m = 59 /\ h = 23 /\ d = 511

(* One second more than s, m, h and d.                                     *)
LEMMA Carries ==
  ASSUME NEW s \in 0 .. 59, NEW m \in 0 .. 59, NEW h \in 0 .. 23, NEW d \in 0 .. 511,
         NEW total, total = ((d * 24 + h) * 60 + m) * 60 + s + 1
  PROVE  Carried(s, m, h, d, total)
<1> USE DEF Day
<1>1. total % 60 = IF s = 59 THEN 0 ELSE s + 1
  OBVIOUS
<1>2. (total \div 60) % 60 = IF s = 59 THEN IF m = 59 THEN 0 ELSE m + 1 ELSE m
  <2>1. total \div 60 = (d * 24 + h) * 60 + m + (IF s = 59 THEN 1 ELSE 0)
    OBVIOUS
  <2>2. CASE s = 59
    <3>1. CASE m = 59
      <4>1. total \div 60 = (d * 24 + h + 1) * 60
        BY <2>1, <2>2, <3>1
      <4> QED
        BY SMTT(30), <2>2, <3>1, <4>1
    <3>2. CASE m # 59
      <4>1. total \div 60 = (d * 24 + h) * 60 + (m + 1) /\ m + 1 \in 0 .. 59
        BY <2>1, <2>2, <3>2
      <4> QED
        BY <2>2, <3>2, <4>1
    <3> QED
      BY <3>1, <3>2
  <2>3. CASE s # 59
    BY <2>1, <2>3
  <2> QED
    BY <2>2, <2>3
<1>3. (total \div 3600) % 24 = IF s = 59 /\ m = 59 THEN IF h = 23 THEN 0 ELSE h + 1 ELSE h
  <2>1. total \div 3600 = d * 24 + h + (IF s = 59 /\ m = 59 THEN 1 ELSE 0)
    OBVIOUS
  <2> QED
    BY <2>1
<1>4. (total \div Day) % 512 = IF s = 59 /\ m = 59 /\ h = 23
                               THEN IF d = 511 THEN 0 ELSE d + 1 ELSE d
  <2>1. total \div Day = d + (IF s = 59 /\ m = 59 /\ h = 23 THEN 1 ELSE 0)
    OBVIOUS
  <2> QED
    BY <2>1
<1>5. total >= 512 * Day <=> s = 59 /\ m = 59 /\ h = 23 /\ d = 511
  OBVIOUS
<1> QED
  BY <1>1, <1>2, <1>3, <1>4, <1>5 DEF Carried

(* Carrying from field to field is counting seconds, from every state a    *)
(* clock may be in: across minutes, hours, midnight and the end of day 511.*)
THEOREM AdvanceCounts ==
  ASSUME NEW t \in Shows PROVE AdvanceOneSecond(t) = Later(t, 1)
<1>1. /\ t.s \in 0 .. 59 /\ t.m \in 0 .. 59 /\ t.h \in 0 .. 23 /\ t.d \in 0 .. 511
      /\ t.halt \in BOOLEAN /\ t.carry \in BOOLEAN
  BY DEF Shows
<1>2. CASE t.halt
  BY <1>2 DEF AdvanceOneSecond, Later
<1>3. CASE ~t.halt
  <2> DEFINE total == ((t.d * 24 + t.h) * 60 + t.m) * 60 + t.s + 1
             minute == t.s + 1 = 60
             hour == minute /\ t.m + 1 = 60
             day == hour /\ t.h + 1 = 24
             round == day /\ t.d + 1 = 512
             Set(s, m, h, d, c) ==
               [t EXCEPT !.s = s, !.m = m, !.h = h, !.d = d, !.carry = c]
  <2>1. PICK k : k = total
    OBVIOUS
  <2>2. Carried(t.s, t.m, t.h, t.d, k)
    BY ZenonT(60), <1>1, <2>1, Carries
  <2>3. Later(t, 1) = Set(k % 60, (k \div 60) % 60, (k \div 3600) % 24, (k \div Day) % 512,
                          t.carry \/ k >= 512 * Day)
    BY <1>3, <2>1 DEF Later
  <2>4. AdvanceOneSecond(t) =
          Set(IF minute THEN 0 ELSE t.s + 1,
              IF hour THEN 0 ELSE IF minute THEN t.m + 1 ELSE t.m,
              IF day THEN 0 ELSE IF hour THEN t.h + 1 ELSE t.h,
              IF round THEN 0 ELSE IF day THEN t.d + 1 ELSE t.d,
              t.carry \/ round)
    BY <1>3 DEF AdvanceOneSecond
  <2>5. /\ (IF minute THEN 0 ELSE t.s + 1) = k % 60
        /\ (IF hour THEN 0 ELSE IF minute THEN t.m + 1 ELSE t.m) = (k \div 60) % 60
        /\ (IF day THEN 0 ELSE IF hour THEN t.h + 1 ELSE t.h) = (k \div 3600) % 24
        /\ (IF round THEN 0 ELSE IF day THEN t.d + 1 ELSE t.d) = (k \div Day) % 512
        /\ round <=> k >= 512 * Day
    BY <1>1, <2>2 DEF Carried
  <2>6. (t.carry \/ round) = (t.carry \/ k >= 512 * Day)
    BY <2>5
  <2> HIDE DEF Set, minute, hour, day, round, total
  <2> QED
    BY <2>3, <2>4, <2>5, <2>6
<1> QED
  BY <1>1, <1>2, <1>3

-----------------------------------------------------------------------------
(* The mapper.  What the plans of CartMapper do to a chip is what          *)
(* BackupProofs needs of them too; Backup and CartImport share the names   *)
(* of their variables, so each proof has its own copy.                     *)

(* What a sequence of writes does to the chip: one step per write, from    *)
(* h[0] to h[n].  No plan has more than five.                              *)
Trace(i, r, w, len, h) ==
  /\ h[0] = r /\ ChipWrites(i, r, w) = h[len]
  /\ \A k \in 1 .. len : h[k] = ChipWrite(i, h[k - 1], w[k])

(* What a few writes do is the last of a trace of them.                    *)
LEMMA WritesAre ==
  ASSUME NEW i, NEW r, NEW w, NEW len \in 0 .. 5, Len(w) = len
  PROVE  \E h : Trace(i, r, w, len, h)
<1>0. \A k \in 1 .. len : k \in {1, 2, 3, 4, 5}
  OBVIOUS
<1> DEFINE Is(f) == f = [k \in 0 .. Len(w) |-> IF k = 0 THEN r
                                               ELSE ChipWrite(i, f[k - 1], w[k])]
           S(x, k) == ChipWrite(i, x, w[k])
           s1 == S(r, 1)
           s2 == S(s1, 2)
           s3 == S(s2, 3)
           s4 == S(s3, 4)
           s5 == S(s4, 5)
           g == [k \in 0 .. len |-> IF k = 0 THEN r ELSE IF k = 1 THEN s1
                                  ELSE IF k = 2 THEN s2 ELSE IF k = 3 THEN s3
                                  ELSE IF k = 4 THEN s4 ELSE s5]
           h == CHOOSE f : Is(f)
<1>1. Is(g)
  <2>1. ASSUME NEW k \in 1 .. len
        PROVE  g[k] = S(g[k - 1], k)
    BY <1>0
  <2> QED BY <2>1
<1>2. Is(h)
  BY <1>1
<1>3. ChipWrites(i, r, w) = h[len]
  BY DEF ChipWrites
<1> HIDE DEF h
<1>4. h[0] = r /\ \A k \in 1 .. len : h[k] = ChipWrite(i, h[k - 1], w[k])
  BY <1>2
<1> QED BY <1>3, <1>4 DEF Trace

(* No write changes nothing.                                               *)
LEMMA NoWrites ==
  ASSUME NEW i, NEW r
  PROVE  ChipWrites(i, r, << >>) = r
<1>1. PICK h : Trace(i, r, << >>, 0, h)
  BY SMTT(30), WritesAre
<1> QED BY <1>1 DEF Trace

(* One, two, three and four writes, one after the other.                   *)
LEMMA OneWrite ==
  ASSUME NEW i, NEW r, NEW a
  PROVE  ChipWrites(i, r, <<a>>) = ChipWrite(i, r, a)
<1>1. PICK h : Trace(i, r, <<a>>, 1, h)
  BY SMTT(30), WritesAre
<1> QED BY <1>1 DEF Trace

(* Two writes.                                                             *)
LEMMA TwoWrites ==
  ASSUME NEW i, NEW r, NEW a, NEW b
  PROVE  ChipWrites(i, r, <<a, b>>) = ChipWrite(i, ChipWrite(i, r, a), b)
<1>1. PICK h : Trace(i, r, <<a, b>>, 2, h)
  BY WritesAre
<1>2. h[1] = ChipWrite(i, r, a) /\ h[2] = ChipWrite(i, h[1], b)
  BY <1>1 DEF Trace
<1> QED BY <1>1, <1>2 DEF Trace

(* Three writes.                                                           *)
LEMMA ThreeWrites ==
  ASSUME NEW i, NEW r, NEW a, NEW b, NEW c
  PROVE  ChipWrites(i, r, <<a, b, c>>)
           = ChipWrite(i, ChipWrite(i, ChipWrite(i, r, a), b), c)
<1>0. Len(<<a, b, c>>) = 3 /\ 3 \in 0 .. 5
  OBVIOUS
<1>1. PICK h : Trace(i, r, <<a, b, c>>, 3, h)
  BY Zenon, <1>0, WritesAre
<1>2. h[1] = ChipWrite(i, r, a) /\ h[2] = ChipWrite(i, h[1], b)
      /\ h[3] = ChipWrite(i, h[2], c)
  BY <1>1 DEF Trace
<1> QED BY <1>1, <1>2 DEF Trace

(* The sizes a supported cartridge has. *)
Sized(i) ==
  /\ i.kind \in {"rom_only", "mbc1", "mbc2", "mbc3", "mbc5", "huc1"}
  /\ i.banks \in Nat /\ i.banks > 1 /\ i.ramBanks \in Nat
  /\ i.kind = "rom_only" => i.banks = 2 /\ i.ramBanks <= 1
  /\ i.kind = "mbc1" => i.banks <= 128 /\ i.ramBanks <= 4
  /\ i.kind = "mbc2" => i.banks <= 16 /\ i.ramBanks <= 1
  /\ i.kind = "mbc3" => i.banks <= (IF i.mbc30 THEN 256 ELSE 128) /\ i.ramBanks <= 8
  /\ i.kind = "mbc5" => i.banks <= 512 /\ i.ramBanks <= 16
  /\ i.kind = "huc1" => i.banks <= 64 /\ i.ramBanks <= 4

(* The geometry of every header the program supports keeps to them.        *)
LEMMA SupportedIsSized ==
  ASSUME NEW h, Supported(h)
  PROVE  Sized(Info(h))
<1> DEFINE k == Kind(h.type)
<1>1. k \in {"rom_only", "mbc1", "mbc2", "mbc3", "mbc5", "huc1"}
  BY DEF Supported, Kind
<1>2. RamSize(h.ramCode) \in Int
  BY DEF RamSize
<1>3. /\ Info(h).kind = k /\ Info(h).mbc30 = IsMbc30(h) /\ Info(h).banks = RomBanks(h.romCode)
      /\ Info(h).ramBanks = IF ~HasRam(h.type) THEN 0 ELSE IF k = "mbc2" THEN 1
                            ELSE (RamSize(h.ramCode) + 7) \div 8
  BY DEF Info
<1> HIDE DEF k
<1>4. RomBanks(h.romCode) \in 2 .. MaxRomBanks(h)
  BY DEF Supported
<1>5. /\ k = "rom_only" => MaxRomBanks(h) = 2 /\ MaxRamSize(h) = 8
      /\ k = "mbc1" => MaxRomBanks(h) = 128 /\ MaxRamSize(h) = 32
      /\ k = "mbc2" => MaxRomBanks(h) = 16
      /\ k = "mbc3" => /\ MaxRomBanks(h) = (IF IsMbc30(h) THEN 256 ELSE 128)
                       /\ MaxRamSize(h) <= 64
      /\ k = "mbc5" => MaxRomBanks(h) = 512 /\ MaxRamSize(h) <= 128
      /\ k = "huc1" => MaxRomBanks(h) = 64 /\ MaxRamSize(h) = 32
      /\ MaxRamSize(h) \in Int /\ MaxRomBanks(h) \in Int
  BY <1>1 DEF MaxRomBanks, MaxRamSize, k
<1>6. HasRam(h.type) /\ k # "mbc2" => RamSize(h.ramCode) \in 1 .. MaxRamSize(h)
  BY DEF Supported, k
<1>7. /\ Info(h).banks \in Nat /\ Info(h).banks > 1
      /\ k = "rom_only" => Info(h).banks = 2
      /\ k = "mbc1" => Info(h).banks <= 128
      /\ k = "mbc2" => Info(h).banks <= 16
      /\ k = "mbc3" => Info(h).banks <= (IF IsMbc30(h) THEN 256 ELSE 128)
      /\ k = "mbc5" => Info(h).banks <= 512
      /\ k = "huc1" => Info(h).banks <= 64
  BY <1>3, <1>4, <1>5
<1>8. ASSUME NEW x \in Nat, NEW y \in Nat, x <= 8 * y
      PROVE  (x + 7) \div 8 \in Nat /\ (x + 7) \div 8 <= y
  BY <1>8
<1>9. /\ Info(h).ramBanks \in Nat
      /\ k = "rom_only" => Info(h).ramBanks <= 1
      /\ k = "mbc1" => Info(h).ramBanks <= 4
      /\ k = "mbc2" => Info(h).ramBanks <= 1
      /\ k = "mbc3" => Info(h).ramBanks <= 8
      /\ k = "mbc5" => Info(h).ramBanks <= 16
      /\ k = "huc1" => Info(h).ramBanks <= 4
  <2>1. CASE ~HasRam(h.type) \/ k = "mbc2"
    BY <1>3, <2>1
  <2>2. CASE HasRam(h.type) /\ k # "mbc2"
    <3>1. /\ RamSize(h.ramCode) \in Nat /\ RamSize(h.ramCode) <= MaxRamSize(h)
          /\ Info(h).ramBanks = (RamSize(h.ramCode) + 7) \div 8
      BY <1>2, <1>3, <1>6, <2>2
    <3> DEFINE m == IF k = "rom_only" THEN 1 ELSE IF k = "mbc1" \/ k = "huc1" THEN 4
                    ELSE IF k = "mbc3" THEN 8 ELSE 16
    <3>2. m \in Nat /\ RamSize(h.ramCode) <= 8 * m
      BY <1>1, <1>5, <2>2, <3>1
    <3>3. Info(h).ramBanks \in Nat /\ Info(h).ramBanks <= m
      <4> HIDE DEF m
      <4> QED BY <1>8, <3>1, <3>2
    <3> QED BY <2>2, <3>3
  <2> QED BY <2>1, <2>2
<1> QED BY <1>1, <1>3, <1>7, <1>9 DEF Sized

(* The registers of a chip, and the writes.                                *)
Registers == [on : BOOLEAN, lo : Nat, hi : Nat, mode : Nat, rb : Nat]
MapperWrites == [address : Nat, value : Nat]

(* A register set to a number leaves a chip with registers.                *)
LEMMA RegisterIs ==
  ASSUME NEW r \in Registers
  PROVE  /\ \A b \in BOOLEAN : [r EXCEPT !.on = b] \in Registers
         /\ \A v \in Nat : /\ [r EXCEPT !.lo = v] \in Registers
                           /\ [r EXCEPT !.hi = v] \in Registers
                           /\ [r EXCEPT !.mode = v] \in Registers
                           /\ [r EXCEPT !.rb = v] \in Registers
BY DEF Registers

(* So does every write.                                                    *)
LEMMA WriteIs ==
  ASSUME NEW i, NEW r \in Registers, NEW w, w.value \in Nat
  PROVE  ChipWrite(i, r, w) \in Registers
<1>1. ASSUME NEW k \in Nat \ {0}
      PROVE  w.value % k \in Nat
  OBVIOUS
<1>2. \A v \in Nat : NonZero(v) \in Nat
  BY DEF NonZero
<1>3. Low(w.value) \in BOOLEAN /\ (w.value # \h0E) \in BOOLEAN
  BY DEF Low
<1>4. /\ w.value \in Nat /\ w.value % 2 \in Nat /\ w.value % 4 \in Nat /\ w.value % 16 \in Nat
      /\ NonZero(w.value % 16) \in Nat
      /\ NonZero(w.value % 32) \in Nat
      /\ NonZero(w.value % 64) \in Nat
      /\ NonZero(w.value % 128) \in Nat
      /\ NonZero(w.value % 256) \in Nat
  BY <1>1, <1>2
<1>5. /\ [r EXCEPT !.on = Low(w.value)] \in Registers
      /\ [r EXCEPT !.on = w.value # \h0E] \in Registers
      /\ [r EXCEPT !.lo = w.value] \in Registers
      /\ [r EXCEPT !.lo = NonZero(w.value % 16)] \in Registers
      /\ [r EXCEPT !.lo = NonZero(w.value % 32)] \in Registers
      /\ [r EXCEPT !.lo = NonZero(w.value % 64)] \in Registers
      /\ [r EXCEPT !.lo = NonZero(w.value % 128)] \in Registers
      /\ [r EXCEPT !.lo = NonZero(w.value % 256)] \in Registers
      /\ [r EXCEPT !.hi = w.value % 2] \in Registers
      /\ [r EXCEPT !.hi = w.value % 4] \in Registers
      /\ [r EXCEPT !.mode = w.value % 2] \in Registers
      /\ [r EXCEPT !.rb = w.value % 16] \in Registers
  BY ZenonT(60), <1>3, <1>4, RegisterIs
<1> QED BY <1>5 DEF ChipWrite

(* What a write to each area does to the chip.                             *)
LEMMA AreaIs ==
  ASSUME NEW i, NEW r, NEW w, NEW area \in 0 .. 5, w.address \div \h2000 = area
  PROVE  /\ i.kind \in {"mbc1", "mbc3", "mbc5"} /\ area = 0 =>
              ChipWrite(i, r, w) = [r EXCEPT !.on = Low(w.value)]
         /\ i.kind = "huc1" /\ area = 0 =>
              ChipWrite(i, r, w) = [r EXCEPT !.on = w.value # \h0E]
         /\ i.kind = "mbc2" /\ area < 2 =>
              ChipWrite(i, r, w) = IF (w.address \div 256) % 2 = 1
                                   THEN [r EXCEPT !.lo = NonZero(w.value % 16)]
                                   ELSE [r EXCEPT !.on = Low(w.value)]
         /\ i.kind = "mbc1" /\ area = 1 =>
              ChipWrite(i, r, w) = [r EXCEPT !.lo = NonZero(w.value % 32)]
         /\ i.kind = "mbc1" /\ area = 2 => ChipWrite(i, r, w) = [r EXCEPT !.hi = w.value % 4]
         /\ i.kind = "mbc1" /\ area = 3 => ChipWrite(i, r, w) = [r EXCEPT !.mode = w.value % 2]
         /\ i.kind = "mbc3" /\ area = 1 =>
              ChipWrite(i, r, w) =
                [r EXCEPT !.lo = NonZero(w.value % (IF i.mbc30 THEN 256 ELSE 128))]
         /\ i.kind = "huc1" /\ area = 1 =>
              ChipWrite(i, r, w) = [r EXCEPT !.lo = NonZero(w.value % 64)]
         /\ i.kind = "mbc5" /\ area = 1 =>
              ChipWrite(i, r, w) = IF w.address < \h3000 THEN [r EXCEPT !.lo = w.value]
                                   ELSE [r EXCEPT !.hi = w.value % 2]
         /\ i.kind \in {"mbc3", "mbc5", "huc1"} /\ area = 2 =>
              ChipWrite(i, r, w) = [r EXCEPT !.rb = w.value % 16]
         /\ area > 3 => ChipWrite(i, r, w) = r
<1>1. CASE area = 0
  BY <1>1 DEF ChipWrite
<1>2. CASE area = 1
  BY <1>2 DEF ChipWrite
<1>3. CASE area = 2
  BY <1>3 DEF ChipWrite
<1>4. CASE area = 3
  BY <1>4 DEF ChipWrite
<1>5. CASE area > 3
  <2>1. CASE area = 4
    BY <2>1 DEF ChipWrite
  <2>2. CASE area = 5
    BY <2>2 DEF ChipWrite
  <2> QED BY <1>5, <2>1, <2>2
<1> QED BY <1>1, <1>2, <1>3, <1>4, <1>5

(* What each write of a plan does to the chip it is for. *)
LEMMA WIs ==
  ASSUME NEW v
  PROVE  /\ \A a : W(a, v).address = a /\ W(a, v).value = v % 256
         /\ \h0000 \div \h2000 = 0 /\ \h4000 \div \h2000 = 2 /\ \h6000 \div \h2000 = 3
         /\ \hA000 \div \h2000 = 5 /\ (\h0000 \div 256) % 2 = 0
         /\ \h2000 \div \h2000 = 1 /\ \h3000 \div \h2000 = 1 /\ \h2100 \div \h2000 = 1
         /\ (\h2100 \div 256) % 2 = 1
BY DEF W

(* What the writes that switch RAM on and off, and those that choose its   *)
(* bank, do.                                                               *)
LEMMA RamWriteIs ==
  ASSUME NEW i, NEW r, NEW v
  PROVE  /\ i.kind \in {"mbc1", "mbc2", "mbc3", "mbc5"} =>
              ChipWrite(i, r, W(\h0000, v)) = [r EXCEPT !.on = Low(v % 256)]
         /\ i.kind = "huc1" =>
              ChipWrite(i, r, W(\h0000, v)) = [r EXCEPT !.on = (v % 256) # \h0E]
         /\ i.kind = "mbc1" =>
              /\ ChipWrite(i, r, W(\h4000, v)) = [r EXCEPT !.hi = (v % 256) % 4]
              /\ ChipWrite(i, r, W(\h6000, v)) = [r EXCEPT !.mode = (v % 256) % 2]
         /\ i.kind \in {"mbc3", "mbc5", "huc1"} =>
              ChipWrite(i, r, W(\h4000, v)) = [r EXCEPT !.rb = (v % 256) % 16]
         /\ i.kind = "huc1" => ChipWrite(i, r, W(\hA000, v)) = r
<1>1. W(\h0000, v).address \div \h2000 = 0 /\ W(\h0000, v).value = v % 256
      /\ (W(\h0000, v).address \div 256) % 2 = 0
  BY WIs
<1>2. W(\h4000, v).address \div \h2000 = 2 /\ W(\h4000, v).value = v % 256
  BY WIs
<1>3. W(\h6000, v).address \div \h2000 = 3 /\ W(\h6000, v).value = v % 256
  BY WIs
<1>4. W(\hA000, v).address \div \h2000 = 5
  BY WIs
<1>5. /\ i.kind \in {"mbc1", "mbc2", "mbc3", "mbc5"} =>
            ChipWrite(i, r, W(\h0000, v)) = [r EXCEPT !.on = Low(v % 256)]
      /\ i.kind = "huc1" =>
            ChipWrite(i, r, W(\h0000, v)) = [r EXCEPT !.on = (v % 256) # \h0E]
  BY <1>1, AreaIs
<1>6. /\ i.kind = "mbc1" => ChipWrite(i, r, W(\h4000, v)) = [r EXCEPT !.hi = (v % 256) % 4]
      /\ i.kind \in {"mbc3", "mbc5", "huc1"} =>
           ChipWrite(i, r, W(\h4000, v)) = [r EXCEPT !.rb = (v % 256) % 16]
  BY <1>2, AreaIs
<1>7. i.kind = "mbc1" => ChipWrite(i, r, W(\h6000, v)) = [r EXCEPT !.mode = (v % 256) % 2]
  BY <1>3, AreaIs
<1>8. ChipWrite(i, r, W(\hA000, v)) = r
  BY <1>4, AreaIs
<1> QED BY <1>5, <1>6, <1>7, <1>8

(* Switching RAM on, bringing a bank of it into view, and switching it off *)
(* again.                                                                  *)
LEMMA RamIsOn ==
  ASSUME NEW i, Sized(i), NEW r \in Registers
  PROVE  /\ ChipWrites(i, r, PlanRamEnable(i)) \in Registers
         /\ i.kind # "rom_only" => ChipWrites(i, r, PlanRamEnable(i)).on
<1>1. CASE i.kind = "rom_only"
  BY <1>1, NoWrites DEF PlanRamEnable
<1>2. CASE i.kind # "rom_only"
  <2>1. ChipWrites(i, r, PlanRamEnable(i)) = ChipWrite(i, r, W(\h0000, \h0A))
    BY <1>2, OneWrite DEF PlanRamEnable
  <2> DEFINE w == W(\h0000, \h0A)
  <2>2. w.value = 10 /\ w.address \div \h2000 = 0 /\ (w.address \div 256) % 2 = 0
    BY DEF W
  <2>3. Low(w.value) /\ w.value # \h0E
    BY <2>2 DEF Low
  <2> HIDE DEF w
  <2>4. \/ ChipWrite(i, r, w) = [r EXCEPT !.on = Low(w.value)]
        \/ ChipWrite(i, r, w) = [r EXCEPT !.on = w.value # \h0E]
    BY <1>2, <2>2, AreaIs DEF Sized
  <2>5. ChipWrite(i, r, w) = [r EXCEPT !.on = TRUE]
    <3>1. [r EXCEPT !.on = Low(w.value)] = [r EXCEPT !.on = TRUE]
      BY <2>3
    <3>2. [r EXCEPT !.on = w.value # \h0E] = [r EXCEPT !.on = TRUE]
      BY <2>3
    <3> QED BY <2>4, <3>1, <3>2
  <2>6. ChipWrite(i, r, w) \in Registers /\ ChipWrite(i, r, w).on
    BY <2>5 DEF Registers
  <2> QED BY <2>1, <2>6 DEF w
<1> QED BY <1>1, <1>2

(* A number that is small enough is its own remainder.                     *)
LEMMA ModIs ==
  ASSUME NEW b \in Nat, NEW m \in Nat, b < m
  PROVE  b % m = b
OBVIOUS

(* After the plan of a RAM bank that bank is the one in view, and RAM is   *)
(* as enabled as it was.                                                   *)
LEMMA RamIsInView ==
  ASSUME NEW i, Sized(i), NEW r \in Registers, i.kind # "rom_only" => r.on,
         NEW b \in Nat, b < i.ramBanks
  PROVE  LET after == ChipWrites(i, r, PlanRamBank(i, b))
         IN  after \in Registers /\ after.on = r.on /\ RamSeen(i, after) = b
<1> DEFINE after == ChipWrites(i, r, PlanRamBank(i, b))
<1>0. b % i.ramBanks = b
  BY ModIs DEF Sized
<1>1. CASE i.kind \in {"rom_only", "mbc2"}
  <2>1. after = r /\ b = 0
    BY <1>1, NoWrites DEF PlanRamBank, Sized
  <2> QED BY <1>1, <2>1 DEF RamSeen
<1>2. CASE i.kind = "mbc1"
  <2>1. after = ChipWrite(i, ChipWrite(i, r, W(\h6000, 1)), W(\h4000, b))
    BY <1>2, TwoWrites DEF PlanRamBank
  <2>2. (1 % 256) % 2 = 1 /\ (b % 256) % 4 = b /\ 1 * b = b
    BY <1>2 DEF Sized
  <2>3. ChipWrite(i, r, W(\h6000, 1)) = [r EXCEPT !.mode = 1]
    BY <1>2, <2>2, RamWriteIs
  <2> DEFINE x == [r EXCEPT !.mode = 1]
  <2> HIDE DEF x
  <2>4. after = [x EXCEPT !.hi = (b % 256) % 4]
    <3>1. ChipWrite(i, x, W(\h4000, b)) = [x EXCEPT !.hi = (b % 256) % 4]
      BY <1>2, RamWriteIs
    <3> QED BY <2>1, <2>3, <3>1 DEF x
  <2>5. /\ after \in Registers /\ after.on = r.on /\ after.mode = 1 /\ after.hi = b
    <3>1. after = [x EXCEPT !.hi = b]
      BY <2>2, <2>4
    <3>2. x \in Registers /\ x.on = r.on /\ x.mode = 1
      BY DEF x, Registers
    <3> HIDE DEF after
    <3> QED BY <3>1, <3>2 DEF Registers
  <2> HIDE DEF after
  <2>6. RamSeen(i, after) = (after.mode * after.hi) % i.ramBanks
    BY <1>2, <2>5 DEF RamSeen
  <2>7. after.mode * after.hi = b
    BY <2>2, <2>5
  <2> QED BY <1>0, <2>5, <2>6, <2>7 DEF after
<1>3. CASE i.kind \in {"mbc3", "huc1", "mbc5"}
  <2>1. \E v \in {b, b % 16} : after = ChipWrite(i, r, W(\h4000, v))
    BY <1>3, OneWrite DEF PlanRamBank
  <2>2. (b % 256) % 16 = b /\ ((b % 16) % 256) % 16 = b
    BY <1>3 DEF Sized
  <2>3. after = [r EXCEPT !.rb = b]
    BY <1>3, <2>1, <2>2, RamWriteIs
  <2>4. after \in Registers /\ after.on = r.on /\ after.rb = b
    BY <2>3 DEF Registers
  <2> HIDE DEF after
  <2>5. RamSeen(i, after) = after.rb % i.ramBanks
    BY <1>3, <2>4 DEF RamSeen
  <2> QED BY <1>0, <2>4, <2>5 DEF after
<1> QED BY <1>1, <1>2, <1>3 DEF Sized

(* A few writes leave registers.                                           *)
LEMMA WritesTyped ==
  ASSUME NEW i, NEW r \in Registers, NEW w \in Seq(MapperWrites), NEW len \in 0 .. 5,
         Len(w) = len
  PROVE  ChipWrites(i, r, w) \in Registers
<1>1. PICK h : Trace(i, r, w, len, h)
  BY WritesAre
<1>2. \A k \in 1 .. len : w[k] \in MapperWrites
  OBVIOUS
<1>3. ASSUME NEW k \in 1 .. len, h[k - 1] \in Registers
      PROVE  h[k] \in Registers
  <2>1. h[k] = ChipWrite(i, h[k - 1], w[k])
    BY <1>1 DEF Trace
  <2> QED BY <1>2, <1>3, <2>1, WriteIs DEF MapperWrites
<1>4. h[0] \in Registers
  BY <1>1 DEF Trace
<1>5. 1 \in 1 .. len => h[1] \in Registers
  BY <1>3, <1>4
<1>6. 2 \in 1 .. len => h[2] \in Registers
  BY <1>3, <1>5
<1>7. 3 \in 1 .. len => h[3] \in Registers
  BY <1>3, <1>6
<1>8. 4 \in 1 .. len => h[4] \in Registers
  BY <1>3, <1>7
<1>9. 5 \in 1 .. len => h[5] \in Registers
  BY <1>3, <1>8
<1> QED BY <1>1, <1>4, <1>5, <1>6, <1>7, <1>8, <1>9 DEF Trace

(* So does the beginning of them, where a call fails. *)
Short(w) == w \in Seq(MapperWrites) /\ Len(w) \in 0 .. 5

(* A few writes leave a chip with registers, and so does the beginning of  *)
(* them.                                                                   *)
LEMMA ShortWrites ==
  ASSUME NEW i, NEW r \in Registers, NEW w, Short(w)
  PROVE  /\ ChipWrites(i, r, w) \in Registers
         /\ \A k \in 0 .. Len(w) : ChipWrites(i, r, SubSeq(w, 1, k)) \in Registers
<1>1. Len(w) \in 0 .. 5 /\ w \in Seq(MapperWrites)
  BY DEF Short
<1>2. ASSUME NEW k \in 0 .. Len(w)
      PROVE  SubSeq(w, 1, k) \in Seq(MapperWrites) /\ Len(SubSeq(w, 1, k)) = k /\ k \in 0 .. 5
  <2>0. ASSUME NEW x \in 0 .. 5, NEW y \in 0 .. x
        PROVE  y \in Nat /\ y <= x /\ y \in 0 .. 5
    OBVIOUS
  <2>1. k \in Nat /\ k <= Len(w) /\ k \in 0 .. 5
    BY <1>1, <2>0
  <2>2. \A j \in 1 .. Len(w) : w[j] \in MapperWrites
    BY <1>1
  <2>5. 1 \in Nat /\ w \in Seq(MapperWrites)
    BY <1>1
  <2>3. SubSeq(w, 1, k) = [j \in 1 .. k |-> w[j]]
    BY <1>1, <2>1
  <2>4. \A j \in 1 .. k : w[j] \in MapperWrites
    BY <1>1, <2>1, <2>2
  <2> QED BY <2>1, <2>3, <2>4
<1>3. ASSUME NEW k \in 0 .. Len(w)
      PROVE  ChipWrites(i, r, SubSeq(w, 1, k)) \in Registers
  BY <1>2, WritesTyped
<1> QED BY <1>1, <1>3, WritesTyped

(* Every list of writes the task sends is a short one.                     *)
LEMMA PlansAreShort ==
  ASSUME NEW i
  PROVE  /\ Short(Normalize) /\ Short(PlanRamEnable(i))
         /\ i.kind \in {"rom_only", "unknown", "mbc1", "mbc2", "mbc3", "mbc5", "huc1"} =>
              Short(PlanRestore(i))
         /\ \A b \in Nat : Sized(i) => Short(PlanRamBank(i, b))
<1>1. \A a \in Nat, v \in Int : W(a, v) \in MapperWrites
  BY DEF W, MapperWrites
<1>2. Short(<< >>)
  BY DEF Short
<1>3. ASSUME NEW a \in MapperWrites
      PROVE  Short(<<a>>)
  BY DEF Short
<1>4. ASSUME NEW a \in MapperWrites, NEW b \in MapperWrites
      PROVE  Short(<<a, b>>)
  BY DEF Short
<1>5. ASSUME NEW a \in MapperWrites, NEW b \in MapperWrites, NEW c \in MapperWrites
      PROVE  Short(<<a, b, c>>)
  BY DEF Short
<1>6. ASSUME NEW a \in MapperWrites, NEW b \in MapperWrites, NEW c \in MapperWrites,
             NEW d \in MapperWrites
      PROVE  Short(<<a, b, c, d>>)
  BY DEF Short
<1>7. ASSUME NEW a \in MapperWrites, NEW b \in MapperWrites, NEW c \in MapperWrites,
             NEW d \in MapperWrites, NEW e \in MapperWrites
      PROVE  Short(<<a, b, c, d, e>>)
  BY DEF Short
<1>8. Short(Normalize)
  <2>1. /\ W(\h0000, 0) \in MapperWrites /\ W(\h6000, 0) \in MapperWrites
        /\ W(\h4000, 0) \in MapperWrites /\ W(\h3000, 0) \in MapperWrites
        /\ W(\h2100, 1) \in MapperWrites
    BY <1>1
  <2> QED BY <1>7, <2>1 DEF Normalize
<1>9. Short(PlanRamEnable(i))
  BY <1>1, <1>2, <1>3 DEF PlanRamEnable
<1>10. i.kind \in {"rom_only", "unknown"} => Short(PlanRestore(i))
  BY <1>2 DEF PlanRestore
<1>a. /\ W(\h0000, 0) \in MapperWrites /\ W(\h0000, \h0E) \in MapperWrites
      /\ W(\h2000, 1) \in MapperWrites /\ W(\h2100, 1) \in MapperWrites
      /\ W(\h3000, 0) \in MapperWrites /\ W(\h4000, 0) \in MapperWrites
      /\ W(\h6000, 0) \in MapperWrites /\ W(\h6000, 1) \in MapperWrites
      /\ W(\hA000, 0) \in MapperWrites
  BY <1>1
<1>11. i.kind = "mbc2" => Short(PlanRestore(i))
  BY <1>a, <1>4 DEF PlanRestore
<1>12. i.kind = "mbc3" => Short(PlanRestore(i))
  BY <1>1, <1>5 DEF PlanRestore
<1>13. i.kind \in {"mbc1", "mbc5", "huc1"} => Short(PlanRestore(i))
  <2>1. CASE i.kind = "mbc1"
    BY <1>a, <1>6, <2>1 DEF PlanRestore
  <2>2. CASE i.kind = "mbc5"
    BY <1>a, <1>6, <2>2 DEF PlanRestore
  <2>3. CASE i.kind = "huc1"
    BY <1>a, <1>6, <2>3 DEF PlanRestore
  <2> QED BY <2>1, <2>2, <2>3
<1>14. ASSUME NEW b \in Nat, Sized(i)
       PROVE  Short(PlanRamBank(i, b))
  <2>1. CASE i.kind \in {"rom_only", "mbc2"}
    BY <1>2, <2>1 DEF PlanRamBank
  <2>2. CASE i.kind = "mbc1"
    <3>1. W(\h4000, b) \in MapperWrites
      BY <1>1
    <3> QED BY <1>a, <1>4, <2>2, <3>1 DEF PlanRamBank
  <2>3. CASE i.kind \in {"mbc3", "huc1", "mbc5"}
    <3>1. \E v \in Int : PlanRamBank(i, b) = << W(\h4000, v) >>
      BY <2>3 DEF PlanRamBank
    <3> QED BY <1>1, <1>3, <3>1
  <2> QED BY <1>14, <2>1, <2>2, <2>3 DEF Sized
<1> QED BY <1>8, <1>9, <1>10, <1>11, <1>12, <1>13, <1>14

-----------------------------------------------------------------------------
(* The calls that are at a bank of the save. *)
Passing == {"receive", "write", "verify"}
Sweeping == {"snapshot", "check", "recover", "recheck"}
(* The clock is being set, behind the sum of the save. *)
Late == Sweeping \cup {"clockProbe", "clock", "settle"}

(* The operations that go to the bus.                                      *)
BusOps == [op : {"w", "r"}, address : Nat, value : Nat]

(* The cartridge and what the task carries. *)
Kinds ==
  /\ head \in Carts /\ file \in Requests
  /\ regs \in Registers /\ mem \in [Banks -> Int] /\ snap \in [Banks -> Int]
  /\ n \in Nat /\ block \in Int /\ good \in BOOLEAN
  /\ todo \in Seq(BusOps)

(* The save, and its copy, are the file.                                   *)
Saved == \A b \in Banks : mem[b] = b
Copied == \A b \in Banks : snap[b] = b
(* The banks before the one the task is at. *)
UpTo(save) == \A b \in Banks : b < n => save[b] = b

(* The bank the task is at; it is in view while it is written and read.    *)
AtBank ==
  /\ pc \in Passing \cup Sweeping => n < cart.ramBanks
  /\ pc \in {"enable", "clockProbe", "clock"} => n = 0
  /\ pc = "enable" => cart.ramBanks > 0
  /\ pass = "write" /\ pc \in Passing /\ cart.kind # "rom_only" => regs.on
  /\ pc = "verify" => RamSeen(cart, regs) = n

(* What is known of the save, its copy and the block, as long as what the  *)
(* PC has sent is the file.                                                *)
Course ==
  /\ pass = "write" /\ good => /\ pc \in Passing => UpTo(mem)
                               /\ pc \in {"write", "verify"} => block = n
                               /\ pc \in {"crc", "state"} => Saved
  /\ pc \in {"snapshot", "clockProbe", "recheck", "settle"} => Saved
  /\ pc = "snapshot" => UpTo(snap)
  /\ pc \in {"clockProbe", "clock", "check", "recover", "recheck"} => Copied
  /\ pc = "check" => mismatch \/ UpTo(mem)
  /\ pc = "recover" => UpTo(mem)

(* When the import ends. *)
Ended ==
  /\ begun => pc \in Late \cup {"cleanup", "idle"}
  /\ pc \in {"cleanup", "idle"} /\ begun /\ ~spoiled => Saved
  /\ outcome = "ok" => pc \in {"cleanup", "idle"} /\ Saved

(* What every step keeps of the save.                                      *)
SaveInv == Kinds /\ AtBank /\ Course /\ Ended

-----------------------------------------------------------------------------
(* One write put before one or two others. *)
LEMMA Joined ==
  ASSUME NEW a, NEW b, NEW c
  PROVE  <<a>> \o <<b>> = <<a, b>> /\ <<a>> \o <<b, c>> = <<a, b, c>>
<1>0. PICK X : a \in X /\ b \in X /\ c \in X
  <2> WITNESS {a, b, c}
  <2> QED OBVIOUS
<1>1. <<a>> \o <<b>> = <<a, b>>
  <2>1. <<a>> \o <<b>> \in Seq(X) /\ <<a, b>> \in Seq(X)
    BY <1>0
  <2>2. Len(<<a>> \o <<b>>) = 2 /\ Len(<<a, b>>) = 2
    BY <1>0
  <2>3. (<<a>> \o <<b>>)[1] = a /\ (<<a>> \o <<b>>)[2] = b
    BY <1>0
  <2>4. \A k \in 1 .. 2 : (<<a>> \o <<b>>)[k] = <<a, b>>[k]
    BY <2>3
  <2> QED BY <2>1, <2>2, <2>4, SeqEqual
<1>2. <<a>> \o <<b, c>> = <<a, b, c>>
  <2>1. <<a>> \o <<b, c>> \in Seq(X) /\ <<a, b, c>> \in Seq(X)
    BY <1>0
  <2>2. Len(<<a>> \o <<b, c>>) = 3 /\ Len(<<a, b, c>>) = 3
    BY <1>0
  <2>3. /\ (<<a>> \o <<b, c>>)[1] = a /\ (<<a>> \o <<b, c>>)[2] = b
        /\ (<<a>> \o <<b, c>>)[3] = c
    BY <1>0
  <2>4. \A k \in 1 .. 3 : (<<a>> \o <<b, c>>)[k] = <<a, b, c>>[k]
    BY <2>3
  <2> QED BY <2>1, <2>2, <2>4, SeqEqual
<1> QED BY <1>1, <1>2

(* What it does goes before what they do. *)
LEMMA BeforeOne ==
  ASSUME NEW i, NEW r, NEW a, NEW b
  PROVE  ChipWrites(i, r, <<a>> \o <<b>>) = ChipWrites(i, ChipWrites(i, r, <<a>>), <<b>>)
<1>1. <<a>> \o <<b>> = <<a, b>>
  BY Joined
<1>2. ChipWrites(i, r, <<a, b>>) = ChipWrite(i, ChipWrite(i, r, a), b)
  BY TwoWrites
<1> QED BY Zenon, <1>1, <1>2, OneWrite

(* The first of three writes on its own.                                   *)
LEMMA BeforeTwo ==
  ASSUME NEW i, NEW r, NEW a, NEW b, NEW c
  PROVE  ChipWrites(i, r, <<a>> \o <<b, c>>)
           = ChipWrites(i, ChipWrites(i, r, <<a>>), <<b, c>>)
<1> DEFINE x == ChipWrites(i, r, <<a>>)
<1>1. x = ChipWrite(i, r, a)
  BY OneWrite
<1>2. <<a>> \o <<b, c>> = <<a, b, c>>
  BY Joined
<1>3. ChipWrites(i, r, <<a, b, c>>) = ChipWrite(i, ChipWrite(i, ChipWrite(i, r, a), b), c)
  BY ThreeWrites
<1>4. ChipWrites(i, x, <<b, c>>) = ChipWrite(i, ChipWrite(i, x, b), c)
  BY TwoWrites
<1> HIDE DEF x
<1> QED BY Zenon, <1>1, <1>2, <1>3, <1>4 DEF x

(* RAM is switched on before a bank is chosen. *)
LEMMA ReadingIs ==
  ASSUME NEW i, Sized(i), NEW r, NEW b
  PROVE  ChipWrites(i, r, PlanRamEnable(i) \o PlanRamBank(i, b))
           = ChipWrites(i, ChipWrites(i, r, PlanRamEnable(i)), PlanRamBank(i, b))
<1> DEFINE s == PlanRamEnable(i)
           t == PlanRamBank(i, b)
           x == ChipWrites(i, r, s)
<1>1. CASE i.kind \in {"rom_only", "mbc2"}
  <2>1. t = << >> /\ \E a : s \in {<< >>, <<a>>}
    BY <1>1 DEF PlanRamEnable, PlanRamBank
  <2> HIDE DEF s, t
  <2>2. s \o t = s
    BY <2>1
  <2>3. ChipWrites(i, x, t) = x
    BY <2>1, NoWrites
  <2> HIDE DEF x
  <2> QED BY Zenon, <2>2, <2>3 DEF x, s, t
<1>2. CASE i.kind \in {"mbc1", "mbc3", "huc1", "mbc5"}
  <2>1. \E a : s = <<a>>
    BY <1>2 DEF PlanRamEnable
  <2>2. \E c, d : t = <<c>> \/ t = <<c, d>>
    <3>1. CASE i.kind = "mbc1"
      BY <3>1 DEF PlanRamBank
    <3>2. CASE i.kind \in {"mbc3", "huc1"}
      BY <3>2 DEF PlanRamBank
    <3>3. CASE i.kind = "mbc5"
      BY <3>3 DEF PlanRamBank
    <3> QED BY <1>2, <3>1, <3>2, <3>3
  <2> HIDE DEF s, t
  <2>3. PICK a : s = <<a>>
    BY <2>1
  <2>4. PICK c, d : t = <<c>> \/ t = <<c, d>>
    BY <2>2
  <2>5. ASSUME NEW p, NEW q, s = p, t = q,
               ChipWrites(i, r, p \o q) = ChipWrites(i, ChipWrites(i, r, p), q)
        PROVE  ChipWrites(i, r, s \o t) = ChipWrites(i, ChipWrites(i, r, s), t)
    BY Zenon, <2>5
  <2>6. CASE t = <<c>>
    <3>1. ChipWrites(i, r, <<a>> \o <<c>>) = ChipWrites(i, ChipWrites(i, r, <<a>>), <<c>>)
      BY BeforeOne
    <3> QED BY Zenon, <2>3, <2>5, <2>6, <3>1 DEF s, t
  <2>7. CASE t = <<c, d>>
    <3>1. ChipWrites(i, r, <<a>> \o <<c, d>>)
            = ChipWrites(i, ChipWrites(i, r, <<a>>), <<c, d>>)
      BY BeforeTwo
    <3> QED BY Zenon, <2>3, <2>5, <2>7, <3>1 DEF s, t
  <2> QED BY <2>4, <2>6, <2>7
<1> QED BY <1>1, <1>2 DEF Sized

(* A bank that is enabled and chosen is in view, whatever was before.      *)
LEMMA ReadingShows ==
  ASSUME NEW i, Sized(i), NEW r \in Registers, NEW b \in Nat, b < i.ramBanks
  PROVE  LET after == ChipWrites(i, r, PlanRamEnable(i) \o PlanRamBank(i, b))
         IN  after \in Registers /\ RamSeen(i, after) = b
<1> DEFINE x == ChipWrites(i, r, PlanRamEnable(i))
<1>1. x \in Registers /\ (i.kind # "rom_only" => x.on)
  BY RamIsOn
<1> HIDE DEF x
<1>2. /\ ChipWrites(i, x, PlanRamBank(i, b)) \in Registers
      /\ RamSeen(i, ChipWrites(i, x, PlanRamBank(i, b))) = b
  BY <1>1, RamIsInView
<1> QED BY <1>2, ReadingIs DEF x

(* The writes of it are few. *)
LEMMA ReadingIsShort ==
  ASSUME NEW i, Sized(i), NEW b \in Nat
  PROVE  Short(PlanRamEnable(i) \o PlanRamBank(i, b))
<1>1. /\ PlanRamEnable(i) \in Seq(MapperWrites) /\ PlanRamBank(i, b) \in Seq(MapperWrites)
  BY PlansAreShort DEF Short
<1>2. Len(PlanRamEnable(i)) <= 1 /\ Len(PlanRamBank(i, b)) <= 2
      /\ Len(PlanRamEnable(i)) \in Nat /\ Len(PlanRamBank(i, b)) \in Nat
  BY <1>1 DEF PlanRamEnable, PlanRamBank, Sized
<1> DEFINE s == PlanRamEnable(i)
           t == PlanRamBank(i, b)
<1> HIDE DEF s, t
<1>3. s \o t \in Seq(MapperWrites) /\ Len(s \o t) = Len(s) + Len(t)
  BY <1>1 DEF s, t
<1>4. ASSUME NEW p \in Nat, NEW q \in Nat, p <= 1, q <= 2
      PROVE  p + q \in 0 .. 5
  BY <1>4
<1>5. Len(s) + Len(t) \in 0 .. 5
  BY <1>2, <1>4 DEF s, t
<1> QED BY <1>3, <1>5 DEF Short, s, t

-----------------------------------------------------------------------------
(* The cartridge in the slot has a size. *)
LEMMA CartIs ==
  ASSUME head \in Carts
  PROVE  Sized(cart) /\ cart.ramBanks \in Nat
BY SupportedIsSized, ImportAssumption DEF cart, Sized

(* What is stored and shown where a bank is in view. *)
LEMMA InViewIs ==
  ASSUME NEW r, NEW b \in Banks, RamSeen(cart, r) = b
  PROVE  /\ Shown(r) = mem[b]
         /\ \A content : Stored(r, content) = [mem EXCEPT ![b] = content]
BY DEF Shown, Stored

(* Whatever is stored, wherever, is in a bank. *)
LEMMA StoredIs ==
  ASSUME mem \in [Banks -> Int], NEW r, NEW content \in Int
  PROVE  Stored(r, content) \in [Banks -> Int]
BY DEF Stored

(* The bus operations of a probe, and of setting a clock.                  *)
LEMMA OpIs ==
  ASSUME NEW k \in {"w", "r"}, NEW a \in Nat, NEW v \in Nat
  PROVE  Op(k, a, v) \in BusOps
BY DEF Op, BusOps

(* The lists of operations are lists of operations.                        *)
LEMMA LatchOps == Latch \in Seq(BusOps) /\ Finish \in Seq(BusOps)
<1>1. /\ Op("w", \h0000, \h0A) \in BusOps /\ Op("w", \h6000, 0) \in BusOps
      /\ Op("w", \h6000, 1) \in BusOps /\ Op("w", \h4000, 0) \in BusOps
      /\ Op("w", \h0000, 0) \in BusOps
  BY OpIs
<1> QED BY <1>1 DEF Latch, Finish

(* Those that read the registers.                                          *)
LEMMA ReadsOps == ASSUME NEW a \in Nat PROVE Reads(a) \in Seq(BusOps)
<1> DEFINE f(i) == IF i % 2 = 1 THEN Op("w", \h4000, 8 + i \div 2)
                   ELSE Op("r", a, 7 + i \div 2)
<1>1. ASSUME NEW i \in 1 .. 10
      PROVE  f(i) \in BusOps
  <2>1. 8 + i \div 2 \in Nat /\ 7 + i \div 2 \in Nat
    OBVIOUS
  <2> QED BY <2>1, OpIs
<1> HIDE DEF f
<1>2. [i \in 1 .. 10 |-> f(i)] \in Seq(BusOps)
  BY <1>1
<1> QED BY <1>2 DEF Reads, f

(* The probe.                                                              *)
LEMMA ProbeOps == Probe \in Seq(BusOps)
<1>1. Reads(\hA880) \in Seq(BusOps)
  BY ReadsOps
<1>2. Latch \o Reads(\hA880) \in Seq(BusOps)
  BY <1>1, LatchOps
<1> QED BY <1>2, LatchOps DEF Probe

(* The fields a state of 32 bits is unpacked into.                         *)
States == [s : Nat, m : Nat, h : Nat, d : Nat, halt : BOOLEAN, carry : BOOLEAN]

(* What a PC may send is a state. *)
LEMMA FileIs ==
  ASSUME file \in Requests
  PROVE  file.state \in States
BY ImportAssumption DEF Requests, States

(* Its registers are numbers.                                              *)
LEMMA RegistersAre ==
  ASSUME NEW t \in States
  PROVE  /\ ToRegisters(t) \in [1 .. 5 -> Nat]
         /\ ToRegisters(t)[1] \in Nat /\ ToRegisters(t)[2] \in Nat /\ ToRegisters(t)[3] \in Nat
         /\ ToRegisters(t)[4] \in Nat /\ ToRegisters(t)[5] \in Nat
<1>1. t.s \in Nat /\ t.m \in Nat /\ t.h \in Nat /\ t.d % 256 \in Nat /\ t.d \div 256 \in Nat
  BY DEF States
<1>2. Bit(t.halt, 64) \in Nat /\ Bit(t.carry, 128) \in Nat
  BY DEF Bit
<1>3. t.d \div 256 + Bit(t.halt, 64) + Bit(t.carry, 128) \in Nat
  BY <1>1, <1>2
<1> QED BY <1>1, <1>3 DEF ToRegisters

(* Those that set the clock and read it back.                              *)
LEMMA SetOps ==
  ASSUME NEW t \in States
  PROVE  WriteAndVerify(t) \in Seq(BusOps)
<1>1. ASSUME NEW r \in Nat, NEW v \in Nat
      PROVE  Put(r, v) \in Seq(BusOps)
  <2>1. Op("w", \h4000, r) \in BusOps /\ Op("w", \hA000, v) \in BusOps
    BY OpIs
  <2> QED BY <2>1 DEF Put
<1> DEFINE r == ToRegisters(t)
           first == IF t.halt THEN r[5] ELSE r[5] + 64
<1>2. /\ r[1] \in Nat /\ r[2] \in Nat /\ r[3] \in Nat /\ r[4] \in Nat /\ r[5] \in Nat
      /\ first \in Nat
  BY RegistersAre
<1> HIDE DEF r, first
<1>3. /\ Put(12, first) \in Seq(BusOps) /\ Put(8, r[1]) \in Seq(BusOps)
      /\ Put(9, r[2]) \in Seq(BusOps) /\ Put(10, r[3]) \in Seq(BusOps)
      /\ Put(11, r[4]) \in Seq(BusOps) /\ Put(12, r[5]) \in Seq(BusOps)
  BY <1>1, <1>2
<1>4. \A x, y \in Seq(BusOps) : x \o y \in Seq(BusOps)
  OBVIOUS
<1>5. SetClock(t) = Put(12, first) \o Put(8, r[1]) \o Put(9, r[2]) \o Put(10, r[3])
                      \o Put(11, r[4]) \o Put(12, r[5])
  BY DEF SetClock, r, first
<1>6. SetClock(t) \in Seq(BusOps)
  BY <1>3, <1>4, <1>5
<1>7. Reads(\hA000) \in Seq(BusOps)
  BY ReadsOps
<1> QED BY <1>4, <1>6, <1>7, LatchOps DEF WriteAndVerify

-----------------------------------------------------------------------------
(* The cartridge and the file stay the same. *)
LEMMA FixedStays == ASSUME Next PROVE head' = head /\ file' = file
<1> USE DEF Steady, Error, fixed, marks, time, task
<1>1. CASE Bus \/ BusFails \/ CallFails \/ Cleanup \/ Tick
  BY <1>1 DEF Bus, BusFails, CallFails, Cleanup, Tick
<1>2. CASE ReadCartInfo \/ ProbeAgain \/ Probed \/ OnInfo
  BY <1>2 DEF ReadCartInfo, ProbeAgain, Probed, OnInfo
<1>3. CASE OnReady \/ EnableRam \/ Receive \/ ReceiveOther \/ CheckSum \/ ReceiveState
  BY <1>3 DEF OnReady, EnableRam, Receive, ReceiveOther, CheckSum, ReceiveState
<1>4. CASE \/ WriteBlock \/ WriteIsLost \/ VerifyBlock \/ Snapshot \/ ClockProbed
           \/ ClockDone \/ Check \/ Recover \/ RtcDone
  BY <1>4 DEF WriteBlock, WriteIsLost, VerifyBlock, Snapshot, ClockProbed, ClockDone, Check,
              Recover, RtcDone
<1> QED BY <1>1, <1>2, <1>3, <1>4 DEF Next

(* Every list of writes the task sends is a short one, and what they leave *)
(* are registers.                                                          *)
LEMMA WritesShort ==
  ASSUME Kinds
  PROVE  /\ Short(Writes)
         /\ ChipWrites(cart, regs, Writes) \in Registers
         /\ \A k \in 0 .. Len(Writes) :
              ChipWrites(cart, regs, SubSeq(Writes, 1, k)) \in Registers
<1>0. Sized(cart) /\ cart.ramBanks \in Nat /\ n \in Nat
  BY CartIs DEF Kinds
<1>1. Short(Normalize) /\ Short(PlanRamEnable(cart)) /\ Short(PlanRamBank(cart, n))
  BY <1>0, PlansAreShort
<1>2. Short(PlanRestore(cart))
  BY <1>0, PlansAreShort DEF Sized
<1>3. Short(PlanRamEnable(cart) \o PlanRamBank(cart, n))
  BY <1>0, ReadingIsShort
<1>4. Short(<<>>)
  BY DEF Short
<1>5. Short(Writes)
  BY <1>1, <1>2, <1>3, <1>4 DEF Writes
<1> QED BY <1>5, ShortWrites DEF Kinds

(* What a write on the bus leaves. *)
LEMMA BusTyped ==
  ASSUME Kinds, NEW op \in BusOps, BusWrites(op)
  PROVE  regs' \in Registers /\ mem' \in [Banks -> Int]
<1>1. op.value \in Nat
  BY DEF BusOps
<1>2. ChipWrite(cart, regs, op) \in Registers
  BY <1>1, WriteIs DEF Kinds
<1>3. regs' \in Registers
  BY <1>2 DEF BusWrites, Kinds
<1>4. \/ mem' = mem
      \/ \E b \in Banks, content \in Int : mem' = [mem EXCEPT ![b] = content]
  <2>1. \A b \in Banks : b \in Int /\ Bad \in Int
    BY CartIs DEF Banks, Bad, Kinds
  <2> QED BY <2>1 DEF BusWrites
<1> QED BY <1>3, <1>4 DEF Kinds

(* No step changes what kind of thing the task carries.                    *)
LEMMA KindsStep == ASSUME Kinds, AtBank, Next PROVE Kinds'
<1> USE DEF Go, Fails, Steady, Error, fixed, marks, time, task
<1>0. head' = head /\ cart' = cart /\ Banks' = Banks /\ Registers' = Registers
      /\ head \in Carts /\ file' = file /\ file \in Requests /\ Requests' = Requests
  BY FixedStays DEF cart, Banks, Kinds, Requests
<1>k. /\ regs \in Registers /\ mem \in [Banks -> Int] /\ snap \in [Banks -> Int]
      /\ n \in Nat /\ block \in Int /\ good \in BOOLEAN /\ todo \in Seq(BusOps)
  BY DEF Kinds
<1>s. Sized(cart) /\ cart.ramBanks \in Nat
  BY CartIs DEF Kinds
<1>o. Probe \in Seq(BusOps) /\ Finish \in Seq(BusOps) /\ <<>> \in Seq(BusOps)
  BY ProbeOps, LatchOps
<1> DEFINE Goal == /\ regs' \in Registers /\ mem' \in [Banks -> Int]
                   /\ snap' \in [Banks -> Int] /\ n' \in Nat /\ block' \in Int
                   /\ good' \in BOOLEAN /\ todo' \in Seq(BusOps)
<1> SUFFICES Goal
  BY <1>0 DEF Kinds
<1>1. CASE ReadCartInfo
  <2>1. ChipWrites(cart, regs, Normalize) \in Registers
    BY <1>k, PlansAreShort, ShortWrites
  <2> QED BY <1>1, <1>k, <1>o, <2>1 DEF ReadCartInfo
<1>2. CASE Bus \/ BusFails
  <2>1. /\ UNCHANGED <<snap, n, block, good>> /\ todo # <<>>
        /\ todo' \in {Finish, Tail(todo)}
        /\ \/ BusWrites(Head(todo))
           \/ regs' = regs /\ mem' = mem
    BY <1>2 DEF Bus, BusFails, AtBus
  <2>2. Head(todo) \in BusOps /\ Tail(todo) \in Seq(BusOps)
    BY <1>k, <2>1
  <2>3. regs' \in Registers /\ mem' \in [Banks -> Int]
    BY <1>k, <2>1, <2>2, BusTyped
  <2> QED BY <1>k, <1>o, <2>1, <2>2, <2>3
<1>3. CASE ProbeAgain \/ Probed \/ OnInfo
  BY <1>3, <1>k, <1>o DEF ProbeAgain, Probed, OnInfo
<1>4. CASE OnReady
  BY <1>4, <1>k DEF OnReady
<1>5. CASE EnableRam
  <2>1. ChipWrites(cart, regs, PlanRamEnable(cart)) \in Registers
    BY <1>k, <1>s, RamIsOn
  <2> QED BY <1>5, <1>k, <2>1 DEF EnableRam
<1>6. CASE Receive \/ ReceiveOther
  <2>1. /\ UNCHANGED <<regs, mem, snap, todo>> /\ block' \in {n, Other}
        /\ good' \in {good, FALSE} /\ n' \in {n, n + 1}
    BY <1>6 DEF Receive, ReceiveOther, NextBank
  <2>2. n + 1 \in Nat /\ Other \in Int /\ n \in Int /\ FALSE \in BOOLEAN
    BY <1>k DEF Other
  <2>3. good' \in BOOLEAN
    BY Zenon, <1>k, <2>1, <2>2
  <2> QED BY <1>k, <2>1, <2>2, <2>3
<1>7. CASE WriteBlock \/ WriteIsLost
  <2>1. regs' = Select(n) /\ UNCHANGED <<snap, n, block, good, todo>>
        /\ mem' \in {mem, Stored(regs', block), Stored(regs', Bad)}
    BY <1>7 DEF WriteBlock, WriteIsLost
  <2>2. Select(n) \in Registers
    <3>1. Short(PlanRamBank(cart, n))
      BY <1>k, <1>s, PlansAreShort
    <3> QED BY <1>k, <3>1, ShortWrites DEF Select
  <2>3. mem' \in [Banks -> Int]
    <3>1. Bad \in Int
      BY DEF Bad
    <3> QED BY <1>k, <2>1, <3>1, StoredIs
  <2> QED BY <1>k, <2>1, <2>2, <2>3
<1>8. CASE VerifyBlock
  BY <1>8, <1>k DEF VerifyBlock, NextBank
<1>9. CASE CheckSum
  BY <1>9, <1>k DEF CheckSum
<1>10. CASE ReceiveState
  BY <1>10, <1>k, <1>o DEF ReceiveState
<1>11. CASE Snapshot \/ Check \/ Recover
  <2>0. \A x \in Nat : cart.ramBanks > 0 => x % cart.ramBanks \in Nat
    BY <1>s
  <2>1. Reading(n) \in Registers
    <3>1. Short(PlanRamEnable(cart) \o PlanRamBank(cart, n))
      BY <1>k, <1>s, ReadingIsShort
    <3> QED BY <1>k, <3>1, ShortWrites DEF Reading
  <2>2. regs' = Reading(n) /\ UNCHANGED <<block, good, todo>>
        /\ n' = (n + 1) % cart.ramBanks /\ n < cart.ramBanks
    BY <1>11 DEF Snapshot, Check, Recover, AtBank, Sweeping
  <2>3. n' \in Nat /\ n \in Banks
    BY <1>k, <1>s, <2>2 DEF Banks
  <2>4. Shown(regs') \in Int /\ snap[n] \in Int
    BY <1>k, <2>3 DEF Shown, Bad
  <2>5. snap' \in {snap, [snap EXCEPT ![n] = Shown(regs')]}
        /\ mem' \in {mem, Stored(regs', snap[n])}
    BY <1>11 DEF Snapshot, Check, Recover
  <2>6. snap' \in [Banks -> Int] /\ mem' \in [Banks -> Int]
    BY <1>k, <2>3, <2>4, <2>5, StoredIs
  <2> QED BY <1>k, <2>1, <2>2, <2>3, <2>6
<1>12. CASE ClockProbed
  <2>1. file.state \in States /\ WriteAndVerify(file.state) \in Seq(BusOps)
    BY FileIs, SetOps DEF Kinds
  <2> QED BY <1>12, <1>k, <2>1 DEF ClockProbed
<1>13. CASE ClockDone \/ RtcDone
  BY <1>13, <1>k DEF ClockDone, RtcDone
<1>14. CASE CallFails
  <2>1. UNCHANGED <<snap, n, block, good, todo>> /\ Partly
        /\ \/ mem' = mem
           \/ pc = "write" /\ mem' = Stored(regs', block)
           \/ pc = "recover" /\ mem' = Stored(regs', snap[n])
           \/ mem' = Stored(regs', Bad)
    BY <1>14 DEF CallFails
  <2>2. regs' \in Registers
    BY <2>1, WritesShort DEF Partly
  <2>3. pc = "recover" => snap[n] \in Int
    BY <1>k, <1>s DEF AtBank, Sweeping, Banks
  <2>4. mem' \in [Banks -> Int]
    BY <1>k, <2>1, <2>3, StoredIs DEF Bad
  <2> QED BY <1>k, <2>1, <2>2, <2>4
<1>15. CASE Cleanup
  <2>1. UNCHANGED <<mem, snap, n, block, good, todo>>
        /\ (regs' = ChipWrites(cart, regs, Writes) \/ Partly)
    BY <1>15 DEF Cleanup
  <2>2. regs' \in Registers
    BY <2>1, WritesShort DEF Partly
  <2> QED BY <1>k, <2>1, <2>2
<1>16. CASE Tick
  BY <1>16, <1>k DEF Tick
<1> QED BY <1>1, <1>2, <1>3, <1>4, <1>5, <1>6, <1>7, <1>8, <1>9, <1>10, <1>11, <1>12, <1>13,
           <1>14, <1>15, <1>16 DEF Next

-----------------------------------------------------------------------------
(* The bank after the last one is the first. *)
LEMMA NextIs ==
  ASSUME NEW k \in Nat, NEW m \in Nat, k < m
  PROVE  /\ k + 1 < m => (k + 1) % m = k + 1
         /\ ~(k + 1 < m) => k + 1 = m /\ (k + 1) % m = 0
OBVIOUS

(* Before the second pass has written anything, and when it ends in        *)
(* failure.                                                                *)
LEMMA EarlyStep ==
  ASSUME pc' \in {"probe", "probeAgain", "info", "ready", "cleanup", "idle"},
         ~begun', outcome' # "ok"
  PROVE  AtBank' /\ Course' /\ Ended'
BY DEF AtBank, Course, Ended, Passing, Sweeping

(* What a sweep over the banks does. *)
LEMMA SweepIs ==
  ASSUME Kinds, AtBank, pc \in Sweeping, regs' = Reading(n)
  PROVE  /\ n \in Banks /\ Shown(regs') = mem[n]
         /\ \A content : Stored(regs', content) = [mem EXCEPT ![n] = content]
         /\ n + 1 < cart.ramBanks => (n + 1) % cart.ramBanks = n + 1
         /\ ~(n + 1 < cart.ramBanks) => n + 1 = cart.ramBanks /\ (n + 1) % cart.ramBanks = 0
<1>1. Sized(cart) /\ cart.ramBanks \in Nat /\ n \in Nat /\ n < cart.ramBanks
      /\ regs \in Registers
  BY CartIs DEF Kinds, AtBank
<1>2. RamSeen(cart, regs') = n
  BY <1>1, ReadingShows DEF Reading
<1>3. n \in Banks
  BY <1>1 DEF Banks
<1>4. /\ n + 1 < cart.ramBanks => (n + 1) % cart.ramBanks = n + 1
      /\ ~(n + 1 < cart.ramBanks) => n + 1 = cart.ramBanks /\ (n + 1) % cart.ramBanks = 0
  BY <1>1, NextIs
<1> QED BY <1>2, <1>3, <1>4, InViewIs

(* Every step keeps what is known of the save.                             *)
LEMMA SaveStep ==
  ASSUME IInv, SaveInv, Next, cart' = cart, Banks' = Banks
  PROVE  AtBank' /\ Course' /\ Ended'
<1> USE DEF Go, Fails, Steady, Error, fixed, marks, time, task
<1>k. /\ regs \in Registers /\ mem \in [Banks -> Int] /\ snap \in [Banks -> Int]
      /\ n \in Nat /\ Sized(cart) /\ cart.ramBanks \in Nat
      /\ \A b \in Banks : b \in Nat /\ b < cart.ramBanks
      /\ \A b \in Nat : b < cart.ramBanks => b \in Banks
  BY CartIs DEF SaveInv, Kinds, Banks
<1>a. Kinds /\ AtBank /\ Course /\ Ended
  BY DEF SaveInv
<1>b. /\ pc \notin Late \cup {"cleanup", "idle"} => ~begun
      /\ pc \notin {"cleanup", "idle"} => outcome # "ok"
  BY <1>a DEF Ended
<1>c. /\ pass \in {"validate", "write"}
      /\ pc \in Second => pass = "write"
      /\ pc = "state" => good
  BY DEF IInv, SecondPassIsChecked, SumIsChecked
<1>1. CASE ReadCartInfo
  BY <1>1, <1>b, EarlyStep DEF ReadCartInfo, Late, Sweeping
<1>2. CASE ProbeAgain
  BY <1>2, <1>b, EarlyStep DEF ProbeAgain, Late, Sweeping
<1>3. CASE Probed
  BY <1>3, <1>b, EarlyStep DEF Probed, Late, Sweeping
<1>4. CASE OnInfo
  BY <1>4, <1>b, EarlyStep DEF OnInfo, Late, Sweeping
<1>5. CASE Bus \/ BusFails
  <2>1. /\ AtBus /\ todo # <<>>
        /\ UNCHANGED <<pc, outcome, pass, n, good, block, snap, mismatch, begun, spoiled>>
    BY <1>5 DEF Bus, BusFails, AtBus
  <2>2. CASE pc \in {"probe", "probeAgain"}
    BY <1>b, <2>1, <2>2, EarlyStep DEF Late, Sweeping
  <2>3. CASE pc = "clockProbe"
    <3>1. Head(todo) \in Harmless
      BY <2>1, <2>3 DEF IInv, ProbeIsHarmless, Probing
    <3>2. mem' = mem
      BY <1>5, <3>1, HarmlessWrite DEF Bus, BusFails
    <3> QED BY <1>a, <2>1, <2>3, <3>2 DEF AtBank, Course, Ended, Saved, Copied, Passing,
                Sweeping, Late
  <2>4. CASE pc = "clock"
    BY <1>a, <2>1, <2>4 DEF AtBank, Course, Ended, Copied, Passing, Sweeping, Late
  <2> QED BY <2>1, <2>2, <2>3, <2>4 DEF AtBus
<1>6. CASE OnReady
  <2>1. /\ pc = "ready" /\ n' = 0 /\ UNCHANGED <<outcome, begun, pass>>
        /\ pc' = IF cart.ramBanks = 0 THEN "crc"
                 ELSE IF pass = "write" THEN "enable" ELSE "receive"
    BY <1>6 DEF OnReady
  <2>2. CASE cart.ramBanks = 0
    BY <1>k, <1>b, <2>1, <2>2 DEF AtBank, Course, Ended, Saved, Passing, Sweeping, Late
  <2>3. CASE cart.ramBanks # 0
    <3>1. cart.ramBanks > 0
      BY <1>k, <2>3
    <3> QED BY <1>k, <1>b, <2>1, <2>3, <3>1 DEF AtBank, Course, Ended, Passing, Sweeping, Late
  <2> QED BY <2>2, <2>3
<1>7. CASE EnableRam
  <2>1. /\ pc = "enable" /\ pc' = "receive" /\ n' = n
        /\ regs' = ChipWrites(cart, regs, PlanRamEnable(cart))
        /\ UNCHANGED <<outcome, begun>>
    BY <1>7 DEF EnableRam
  <2>2. n = 0 /\ n < cart.ramBanks
    BY <1>a, <1>k, <2>1 DEF AtBank
  <2>3. cart.kind # "rom_only" => regs'.on
    BY <1>k, <2>1, RamIsOn
  <2>4. UpTo(mem)'
    BY <1>k, <2>1, <2>2 DEF UpTo
  <2> QED BY <1>b, <2>1, <2>2, <2>3, <2>4 DEF AtBank, Course, Ended, Passing, Sweeping, Late
<1>8. CASE Receive \/ ReceiveOther
  <2>0. /\ pc = "receive" /\ UNCHANGED <<outcome, begun, pass, regs, mem>>
        /\ IF pass = "write" THEN pc' = "write" /\ n' = n ELSE NextBank
    BY <1>8 DEF Receive, ReceiveOther, NextBank
  <2>9. good' => good /\ block' = n
    <3>1. Receive => good' = good /\ block' = n
      BY DEF Receive
    <3>2. ReceiveOther => good' = FALSE
      BY DEF ReceiveOther
    <3> QED BY <1>8, <3>1, <3>2
  <2>1. /\ pc = "receive" /\ UNCHANGED <<outcome, begun, pass, regs, mem>>
        /\ IF pass = "write" THEN pc' = "write" /\ n' = n ELSE NextBank
        /\ n < cart.ramBanks
        /\ good' => good /\ block' = n
    BY <2>0, <2>9, <1>a DEF AtBank, Passing
  <2>2. CASE pass = "write"
    BY <1>a, <1>b, <2>1, <2>2 DEF AtBank, Course, Ended, Passing, Sweeping, Late, UpTo
  <2>3. CASE pass # "write"
    <3>1. n + 1 # cart.ramBanks => n + 1 < cart.ramBanks
      BY <1>k, <2>1
    <3> QED BY <1>b, <2>1, <2>3, <3>1
            DEF NextBank, AtBank, Course, Ended, Passing, Sweeping, Late
  <2> QED BY <2>2, <2>3
<1>9. CASE WriteBlock \/ WriteIsLost
  <2>1. /\ pc = "write" /\ pc' = "verify" /\ regs' = Select(n)
        /\ UNCHANGED <<outcome, begun, pass, n, block, good>>
        /\ mem' \in {mem, Stored(regs', block), Stored(regs', Bad)}
    BY <1>9 DEF WriteBlock, WriteIsLost
  <2>2. pass = "write" /\ n < cart.ramBanks /\ (cart.kind # "rom_only" => regs.on)
    BY <1>a, <1>c, <2>1 DEF AtBank, Passing, Second
  <2>3. RamSeen(cart, regs') = n /\ (cart.kind # "rom_only" => regs'.on)
    BY <1>k, <2>1, <2>2, RamIsInView DEF Select
  <2>4. n \in Banks
    BY <1>k, <2>2
  <2>5. \E content : mem' = mem \/ mem' = [mem EXCEPT ![n] = content]
    BY <2>1, <2>3, <2>4, InViewIs
  <2>6. good => UpTo(mem)'
    <3>1. good => UpTo(mem)
      BY <1>a, <2>1, <2>2 DEF Course, Passing
    <3>2. ASSUME NEW b \in Banks, b < n
          PROVE  mem'[b] = mem[b]
      BY <1>k, <2>5, <3>2
    <3> QED BY <2>1, <3>1, <3>2 DEF UpTo
  <2>7. good => block = n
    BY <1>a, <2>1, <2>2 DEF Course
  <2> QED BY <1>b, <2>1, <2>2, <2>3, <2>6, <2>7
          DEF AtBank, Course, Ended, Passing, Sweeping, Late
<1>10. CASE VerifyBlock
  <2>1. /\ pc = "verify" /\ UNCHANGED <<begun, pass, block, good, regs, mem>>
        /\ IF Shown(regs) = block THEN NextBank
           ELSE pc' = "cleanup" /\ outcome' = "failed" /\ n' = n
    BY <1>10 DEF VerifyBlock
  <2>2. CASE Shown(regs) # block
    BY <1>b, <2>1, <2>2, EarlyStep DEF Late, Sweeping
  <2>3. CASE Shown(regs) = block
    <3>1. n < cart.ramBanks /\ n \in Banks /\ RamSeen(cart, regs) = n
      BY <1>a, <1>k, <2>1 DEF AtBank, Passing
    <3>2. mem[n] = block
      BY <2>3, <3>1, InViewIs
    <3>3. pass = "write" /\ (good => UpTo(mem) /\ block = n)
      BY <1>a, <1>c, <2>1 DEF Course, Passing, Second
    <3>4. ASSUME good, NEW b \in Banks, b < n + 1
          PROVE  mem[b] = b
      <4>1. b = n \/ b < n
        BY <1>k, <3>4
      <4> QED BY <3>2, <3>3, <3>4, <4>1 DEF UpTo
    <3>5. n' = n + 1 /\ outcome' = outcome
          /\ pc' = IF n + 1 = cart.ramBanks THEN "crc" ELSE "receive"
      BY <2>1, <2>3 DEF NextBank
    <3>6. CASE n + 1 = cart.ramBanks
      <4>1. good => Saved
        BY <1>k, <3>4, <3>6 DEF Saved
      <4> QED BY <1>b, <2>1, <3>5, <3>6, <4>1 DEF AtBank, Course, Ended, Passing, Sweeping,
                  Late, Saved
    <3>7. CASE n + 1 # cart.ramBanks
      <4>1. n + 1 < cart.ramBanks
        BY <1>k, <3>1, <3>7
      <4>2. good => UpTo(mem)'
        BY <2>1, <3>4, <3>5 DEF UpTo
      <4>3. cart.kind # "rom_only" => regs.on
        BY <1>a, <2>1, <3>3 DEF AtBank, Passing
      <4> QED BY <1>b, <2>1, <3>5, <3>7, <4>1, <4>2, <4>3 DEF AtBank, Course, Ended, Passing,
                  Sweeping, Late
    <3> QED BY <3>6, <3>7
  <2> QED BY <2>2, <2>3
<1>11. CASE CheckSum
  <2>1. pc = "crc" /\ begun' = begun /\ good' = good /\ mem' = mem /\ ~begun /\ outcome # "ok"
    BY <1>11, <1>b DEF CheckSum, Late, Sweeping
  <2>2. \/ pc' = "cleanup" /\ outcome' = "failed"
        \/ pc' = "ready" /\ outcome' = outcome
        \/ pc' = "state" /\ outcome' = outcome /\ pass' = pass /\ good
        \/ pc' = "cleanup" /\ outcome' = "ok" /\ pass = "write" /\ good
    BY <1>11, <1>c DEF CheckSum, PassDone
  <2>3. pass = "write" /\ good => Saved
    BY <1>a, <2>1 DEF Course
  <2> QED BY <2>1, <2>2, <2>3, EarlyStep
          DEF AtBank, Course, Ended, Passing, Sweeping, Late, Saved
<1>12. CASE ReceiveState
  <2>1. pc = "state" /\ n' = 0 /\ mem' = mem /\ good' = good /\ ~begun /\ outcome # "ok"
        /\ spoiled' = spoiled
    BY <1>12, <1>b DEF ReceiveState, Late, Sweeping
  <2>2. \/ pc' = "cleanup" /\ outcome' = "failed" /\ ~begun'
        \/ pc' = "ready" /\ outcome' = outcome /\ ~begun'
        \/ /\ pc' = IF cart.ramBanks = 0 THEN "clockProbe" ELSE "snapshot"
           /\ pass = "write" /\ outcome' = outcome
    BY <1>12, <1>c DEF ReceiveState, PassDone
  <2>3. pass = "write" => Saved
    BY <1>a, <1>c, <2>1 DEF Course
  <2>4. CASE pc' = (IF cart.ramBanks = 0 THEN "clockProbe" ELSE "snapshot")
             /\ pass = "write" /\ outcome' = outcome
    <3>1. Saved'
      BY <2>1, <2>3, <2>4 DEF Saved
    <3>2. UpTo(snap)'
      BY <1>k, <2>1 DEF UpTo
    <3>3. CASE cart.ramBanks = 0
      <4>1. Copied'
        BY <1>k, <3>3 DEF Copied
      <4> QED BY <2>1, <2>4, <3>1, <3>3, <4>1
              DEF AtBank, Course, Ended, Passing, Sweeping, Late
    <3>4. CASE cart.ramBanks # 0
      <4>1. 0 < cart.ramBanks
        BY <1>k, <3>4
      <4> QED BY <2>1, <2>4, <3>1, <3>2, <3>4, <4>1 DEF AtBank, Course, Ended, Passing,
                  Sweeping, Late
    <3> QED BY <3>3, <3>4
  <2> QED BY <2>1, <2>2, <2>4, EarlyStep
<1>13. CASE Snapshot
  <2>1. /\ pc = "snapshot" /\ regs' = Reading(n) /\ mem' = mem
        /\ snap' = [snap EXCEPT ![n] = Shown(regs')] /\ n' = (n + 1) % cart.ramBanks
        /\ UNCHANGED <<begun, spoiled, pass>>
        /\ \/ pc' = pc /\ n + 1 < cart.ramBanks /\ outcome' = outcome
           \/ /\ ~(n + 1 < cart.ramBanks) /\ pc' = "clockProbe" /\ outcome' = outcome
              /\ \A b \in Banks : snap'[b] = b
           \/ pc' = "cleanup" /\ outcome' = "failed"
    BY <1>13 DEF Snapshot
  <2>2. Saved /\ Saved' /\ UpTo(snap)
    BY <1>a, <2>1 DEF Course, Saved
  <2>3. /\ n \in Banks /\ Shown(regs') = n
        /\ n + 1 < cart.ramBanks => n' = n + 1
        /\ ~(n + 1 < cart.ramBanks) => n' = 0
    BY <1>a, <2>1, <2>2, SweepIs DEF Saved, Sweeping
  <2>4. CASE pc' = pc /\ n + 1 < cart.ramBanks /\ outcome' = outcome
    <3>1. ASSUME NEW b \in Banks, b < n + 1
          PROVE  snap'[b] = b
      <4>1. b = n \/ (b < n /\ b # n)
        BY <1>k, <3>1
      <4> QED BY <1>k, <2>1, <2>2, <2>3, <4>1 DEF UpTo
    <3>2. UpTo(snap)'
      BY <2>3, <2>4, <3>1 DEF UpTo
    <3> QED BY <1>b, <2>1, <2>2, <2>3, <2>4, <3>2
            DEF AtBank, Course, Ended, Passing, Sweeping, Late
  <2>5. CASE /\ ~(n + 1 < cart.ramBanks) /\ pc' = "clockProbe" /\ outcome' = outcome
             /\ \A b \in Banks : snap'[b] = b
    BY <1>b, <2>1, <2>2, <2>3, <2>5 DEF AtBank, Course, Ended, Passing, Sweeping, Late, Copied
  <2>6. CASE pc' = "cleanup" /\ outcome' = "failed"
    BY <2>1, <2>2, <2>6 DEF AtBank, Course, Ended, Passing, Sweeping, Late
  <2> QED BY <2>1, <2>4, <2>5, <2>6
<1>14. CASE ClockProbed \/ ClockDone
  <2>1. /\ pc \in {"clockProbe", "clock"} /\ outcome' = outcome
        /\ UNCHANGED <<n, mem, snap, begun, spoiled, pass>>
        /\ pc' = CheckSave \/ (pc' = "clock" /\ pc = "clockProbe")
    BY <1>14 DEF ClockProbed, ClockDone
  <2>2. n = 0 /\ Copied /\ Copied'
    BY <1>a, <2>1 DEF AtBank, Course, Copied
  <2>3. CASE cart.ramBanks = 0
    <3>1. Saved'
      BY <1>k, <2>3 DEF Saved
    <3> QED BY <1>b, <2>1, <2>2, <2>3, <3>1 DEF CheckSave, AtBank, Course, Ended, Passing,
                Sweeping, Late
  <2>4. CASE cart.ramBanks # 0
    <3>1. 0 < cart.ramBanks /\ cart.ramBanks > 0
      BY <1>k, <2>4
    <3>2. UpTo(mem)'
      BY <1>k, <2>1, <2>2 DEF UpTo
    <3> QED BY <1>b, <2>1, <2>2, <3>1, <3>2 DEF CheckSave, AtBank, Course, Ended, Passing,
                Sweeping, Late
  <2> QED BY <2>3, <2>4
<1>15. CASE Check
  <2>1. /\ pc \in {"check", "recheck"} /\ regs' = Reading(n)
        /\ mismatch' = (mismatch \/ Shown(regs') # snap[n])
        /\ UNCHANGED <<mem, snap, begun, spoiled, outcome, pass>>
        /\ n' = (n + 1) % cart.ramBanks
        /\ pc' = IF n + 1 < cart.ramBanks THEN pc
                 ELSE IF pc = "check" /\ mismatch' THEN "recover" ELSE "settle"
    BY <1>15 DEF Check
  <2>2. /\ n \in Banks /\ Shown(regs') = mem[n]
        /\ n + 1 < cart.ramBanks => n' = n + 1
        /\ ~(n + 1 < cart.ramBanks) => n' = 0 /\ n + 1 = cart.ramBanks
    BY <1>a, <2>1, SweepIs DEF Sweeping
  <2>3. Copied /\ Copied' /\ snap[n] = n
    BY <1>a, <2>1, <2>2 DEF Course, Copied
  <2>4. ASSUME pc = "check", ~mismatch', NEW b \in Banks, b < n + 1
        PROVE  mem[b] = b
    <3>1. ~mismatch /\ mem[n] = n /\ UpTo(mem)
      BY <1>a, <2>1, <2>2, <2>3, <2>4 DEF Course
    <3>2. b = n \/ b < n
      BY <1>k, <2>4
    <3> QED BY <3>1, <3>2 DEF UpTo
  <2>5. pc = "recheck" => Saved /\ Saved'
    BY <1>a, <2>1 DEF Course, Saved
  <2>6. CASE n + 1 < cart.ramBanks
    <3>1. pc = "check" => mismatch' \/ UpTo(mem)'
      BY <2>1, <2>2, <2>4, <2>6 DEF UpTo
    <3> QED BY <1>b, <2>1, <2>2, <2>3, <2>5, <2>6, <3>1 DEF AtBank, Course, Ended, Passing,
                Sweeping, Late
  <2>7. CASE ~(n + 1 < cart.ramBanks)
    <3>1. pc' = "settle" => Saved'
      BY <1>k, <2>1, <2>2, <2>4, <2>5, <2>7 DEF Saved
    <3>2. UpTo(mem)' /\ n' < cart.ramBanks
      BY <1>k, <2>2, <2>7 DEF UpTo
    <3> QED BY <1>b, <2>1, <2>2, <2>3, <2>7, <3>1, <3>2 DEF AtBank, Course, Ended, Passing,
                Sweeping, Late
  <2> QED BY <2>6, <2>7
<1>16. CASE Recover
  <2>1. /\ pc = "recover" /\ regs' = Reading(n) /\ mem' = Stored(regs', snap[n])
        /\ UNCHANGED <<snap, begun, spoiled, outcome, pass>> /\ n' = (n + 1) % cart.ramBanks
        /\ pc' = IF n + 1 < cart.ramBanks THEN pc ELSE "recheck"
    BY <1>16 DEF Recover
  <2>2. /\ n \in Banks /\ mem' = [mem EXCEPT ![n] = snap[n]]
        /\ n + 1 < cart.ramBanks => n' = n + 1
        /\ ~(n + 1 < cart.ramBanks) => n' = 0 /\ n + 1 = cart.ramBanks
    BY <1>a, <2>1, SweepIs DEF Sweeping
  <2>3. Copied /\ Copied' /\ snap[n] = n /\ UpTo(mem)
    BY <1>a, <2>1, <2>2 DEF Course, Copied
  <2>4. ASSUME NEW b \in Banks, b < n + 1
        PROVE  mem'[b] = b
    <3>1. b = n \/ (b < n /\ b # n)
      BY <1>k, <2>4
    <3> QED BY <1>k, <2>2, <2>3, <3>1 DEF UpTo
  <2>5. CASE n + 1 < cart.ramBanks
    <3>1. UpTo(mem)'
      BY <2>2, <2>4, <2>5 DEF UpTo
    <3> QED BY <1>b, <2>1, <2>2, <2>3, <2>5, <3>1 DEF AtBank, Course, Ended, Passing,
                Sweeping, Late
  <2>6. CASE ~(n + 1 < cart.ramBanks)
    <3>1. Saved' /\ n' < cart.ramBanks
      BY <1>k, <2>2, <2>4, <2>6 DEF Saved
    <3> QED BY <1>b, <2>1, <2>3, <2>6, <3>1 DEF AtBank, Course, Ended, Passing, Sweeping, Late
  <2> QED BY <2>5, <2>6
<1>17. CASE RtcDone
  BY <1>17, <1>a DEF RtcDone, AtBank, Course, Ended, Passing, Sweeping, Late, Saved
<1>18. CASE CallFails
  <2>1. /\ pc' \in {"idle", "cleanup"} /\ outcome' = "failed" /\ begun' = begun
        /\ \/ pc \in Guarded /\ spoiled'
           \/ pc \notin Late \cup {"cleanup", "idle"}
    BY <1>18 DEF CallFails, Late, Sweeping, Guarded
  <2>2. CASE pc \in Guarded /\ spoiled'
    BY <2>1, <2>2 DEF AtBank, Course, Ended, Passing, Sweeping
  <2>3. CASE pc \notin Late \cup {"cleanup", "idle"}
    BY <1>b, <2>1, <2>3, EarlyStep
  <2> QED BY <2>1, <2>2, <2>3
<1>19. CASE Cleanup
  BY <1>19, <1>a DEF Cleanup, AtBank, Course, Ended, Passing, Sweeping, Saved
<1>20. CASE Tick
  BY <1>20, <1>a DEF Tick, AtBank, Course, Ended, Saved, Copied, UpTo
<1> QED BY <1>1, <1>2, <1>3, <1>4, <1>5, <1>6, <1>7, <1>8, <1>9, <1>10, <1>11, <1>12, <1>13,
           <1>14, <1>15, <1>16, <1>17, <1>18, <1>19, <1>20 DEF Next

-----------------------------------------------------------------------------
(* The start.                                                              *)
LEMMA SaveInit == ASSUME Init PROVE SaveInv
<1>1. Kinds
  <2>1. regs \in Registers
    <3>1. PowerUp \in Registers
      BY DEF PowerUp, Registers
    <3>2. [on |-> TRUE, lo |-> 17, hi |-> 1, mode |-> 1, rb |-> 2] \in Registers
      BY DEF Registers
    <3> QED BY <3>1, <3>2 DEF Init
  <2>2. mem \in [Banks -> Int] /\ snap \in [Banks -> Int]
    BY DEF Init, Old, Bad
  <2> QED BY <2>1, <2>2 DEF Init, Kinds, Bad
<1> QED BY <1>1 DEF Init, SaveInv, AtBank, Course, Ended, Passing, Sweeping, Late

(* No step changes the cartridge or the file. *)
LEMMA SaveNext == ASSUME IInv, SaveInv, [Next]_vars PROVE SaveInv'
<1>1. CASE Next
  <2>1. cart' = cart /\ Banks' = Banks
    BY <1>1, FixedStays DEF cart, Banks
  <2>2. Kinds'
    BY <1>1, KindsStep DEF SaveInv
  <2>3. AtBank' /\ Course' /\ Ended'
    BY <1>1, <2>1, SaveStep
  <2> QED BY <2>2, <2>3 DEF SaveInv
<1>2. CASE UNCHANGED vars
  BY <1>2 DEF vars, fixed, task, time, marks, SaveInv, Kinds, AtBank, Course, Ended, Requests,
          Saved, Copied, UpTo, cart, Banks
<1> QED BY <1>1, <1>2

(* Every behaviour keeps what is known of the save.                        *)
LEMMA SaveInvariance == Spec => []SaveInv
<1>1. Init => SaveInv
  BY SaveInit
<1>2. IInv /\ SaveInv /\ [Next]_vars => SaveInv'
  BY SaveNext
<1> QED BY <1>1, <1>2, Invariance, PTL DEF Spec

(* Once the save is in the cartridge, setting the clock leaves it there    *)
(* when the import ends, whatever the cartridge took for a clock and       *)
(* whatever failed: unless a call failed again while the save was copied,  *)
(* compared or put back.                                                   *)
THEOREM ClockNeverCosts == Spec => []ClockNeverCostsSave
<1>1. SaveInv => ClockNeverCostsSave
  BY DEF SaveInv, Ended, Saved, ClockNeverCostsSave
<1> QED BY <1>1, SaveInvariance, PTL

-----------------------------------------------------------------------------
(* A count of seconds, taken apart. *)
Apart(total, q, d, h, m, s) ==
  /\ q \in Nat /\ d \in 0 .. 511 /\ h \in 0 .. 23 /\ m \in 0 .. 59 /\ s \in 0 .. 59
  /\ total = (((q * 512 + d) * 24 + h) * 60 + m) * 60 + s

(* What the remainders the clock is made of then are.                      *)
Told(total, q, d, h, m, s) ==
  /\ total % 60 = s /\ (total \div 60) % 60 = m /\ (total \div 3600) % 24 = h
  /\ (total \div Day) % 512 = d
  /\ total >= 512 * Day <=> q >= 1

(* A number taken apart into days, hours, minutes and seconds has them as  *)
(* the remainders.                                                         *)
LEMMA Digits ==
  ASSUME NEW q, NEW d, NEW h, NEW m, NEW s, NEW total, Apart(total, q, d, h, m, s)
  PROVE  Told(total, q, d, h, m, s)
<1> USE DEF Apart, Day
<1>1. total \in Nat
  OBVIOUS
<1>2. total % 60 = s
  OBVIOUS
<1>3. (total \div 60) % 60 = m
  <2>1. total \div 60 = ((q * 512 + d) * 24 + h) * 60 + m
    OBVIOUS
  <2> QED BY <2>1
<1>4. (total \div 3600) % 24 = h
  <2>1. total \div 3600 = (q * 512 + d) * 24 + h
    OBVIOUS
  <2> QED BY <2>1
<1>5. (total \div Day) % 512 = d
  <2>1. total \div Day = q * 512 + d
    OBVIOUS
  <2> QED BY <2>1
<1>6. total >= 512 * Day <=> q >= 1
  OBVIOUS
<1> QED BY <1>1, <1>2, <1>3, <1>4, <1>5, <1>6 DEF Told

(* Every number can be.                                                    *)
LEMMA IsApart ==
  ASSUME NEW total \in Nat
  PROVE  \E q, d, h, m, s : Apart(total, q, d, h, m, s)
<1>1. ASSUME NEW x \in Nat
      PROVE  \E y \in Nat, r \in 0 .. 59 : x = y * 60 + r
  <2>1. x \div 60 \in Nat /\ x % 60 \in 0 .. 59 /\ x = (x \div 60) * 60 + (x % 60)
    OBVIOUS
  <2> QED BY Zenon, <2>1
<1>2. PICK a \in Nat, s \in 0 .. 59 : total = a * 60 + s
  BY Zenon, <1>1
<1>3. PICK b \in Nat, m \in 0 .. 59 : a = b * 60 + m
  BY Zenon, <1>1
<1>4. PICK c \in Nat, h \in 0 .. 23 : b = c * 24 + h
  <2>1. b \div 24 \in Nat /\ b % 24 \in 0 .. 23 /\ b = (b \div 24) * 24 + (b % 24)
    OBVIOUS
  <2> QED BY Zenon, <2>1
<1>5. PICK q \in Nat, d \in 0 .. 511 : c = q * 512 + d
  <2>1. c \div 512 \in Nat /\ c % 512 \in 0 .. 511 /\ c = (c \div 512) * 512 + (c % 512)
    OBVIOUS
  <2>2. PICK q \in Nat, d \in 0 .. 511 : q = c \div 512 /\ d = c % 512
    BY <2>1
  <2>3. c = q * 512 + d
    BY <2>1, <2>2
  <2> QED BY <2>3
<1>6. Apart(total, q, d, h, m, s)
  BY <1>2, <1>3, <1>4, <1>5 DEF Apart
<1> QED BY <1>6

(* The next second. *)
LEMMA NextApart ==
  ASSUME NEW q, NEW d, NEW h, NEW m, NEW s, NEW total, Apart(total, q, d, h, m, s)
  PROVE  LET S == s = 59
             M == S /\ m = 59
             H == M /\ h = 23
             D == H /\ d = 511
         IN Apart(total + 1, IF D THEN q + 1 ELSE q,
                  IF D THEN 0 ELSE IF H THEN d + 1 ELSE d,
                  IF H THEN 0 ELSE IF M THEN h + 1 ELSE h,
                  IF M THEN 0 ELSE IF S THEN m + 1 ELSE m,
                  IF S THEN 0 ELSE s + 1)
BY DEF Apart

(* The seconds a clock shows, and a state with fields of its own.          *)
Count(t) == ((t.d * 24 + t.h) * 60 + t.m) * 60 + t.s
Showing(s, m, h, d, halt, c) ==
  [s |-> s, m |-> m, h |-> h, d |-> d, halt |-> halt, carry |-> c]

Set(t, s, m, h, d, c) == [t EXCEPT !.s = s, !.m = m, !.h = h, !.d = d, !.carry = c]

(* A state whose fields are all set.                                       *)
LEMMA ShowingIs ==
  ASSUME NEW t \in Shows, NEW s, NEW m, NEW h, NEW d, NEW c
  PROVE  Set(t, s, m, h, d, c) = Showing(s, m, h, d, t.halt, c)
<1>1. t = [s |-> t.s, m |-> t.m, h |-> t.h, d |-> t.d, halt |-> t.halt, carry |-> t.carry]
  BY DEF Shows
<1>2. PICK a, b, e, f, g, i : t = [s |-> a, m |-> b, h |-> e, d |-> f, halt |-> g, carry |-> i]
  BY <1>1
<1>3. t.halt = g
  BY <1>2
<1>4. PICK u : u = [t EXCEPT !.s = s, !.m = m, !.h = h, !.d = d, !.carry = c]
  OBVIOUS
<1>5. u \in [{"s", "m", "h", "d", "halt", "carry"} -> {s, m, h, d, c, a, b, e, f, g, i}]
  <2>1. PICK X : {s, m, h, d, c, a, b, e, f, g, i} = X
    OBVIOUS
  <2>2. t \in [{"s", "m", "h", "d", "halt", "carry"} -> X]
    BY <1>2, <2>1
  <2>3. s \in X /\ m \in X /\ h \in X /\ d \in X /\ c \in X
    BY <2>1
  <2>4. u \in [{"s", "m", "h", "d", "halt", "carry"} -> X]
    BY <1>4, <2>2, <2>3
  <2> QED BY <2>1, <2>4
<1>6. u.s = s /\ u.m = m /\ u.h = h /\ u.d = d /\ u.halt = g /\ u.carry = c
  BY <1>2, <1>4
<1>7. PICK v : v = [s |-> s, m |-> m, h |-> h, d |-> d, halt |-> g, carry |-> c]
  OBVIOUS
<1>8. v \in [{"s", "m", "h", "d", "halt", "carry"} -> {s, m, h, d, c, g}]
  BY <1>7
<1>9. \A x \in {"s", "m", "h", "d", "halt", "carry"} : u[x] = v[x]
  BY <1>6, <1>7
<1>10. u = v
  BY <1>5, <1>8, <1>9
<1> QED BY <1>3, <1>4, <1>7, <1>10 DEF Showing, Set

(* The fields of a valid state take its seconds apart.                     *)
LEMMA CountIs ==
  ASSUME NEW t \in Shows
  PROVE  /\ Count(t) \in Nat /\ Apart(Count(t), 0, t.d, t.h, t.m, t.s)
         /\ t.s \in 0 .. 59 /\ t.m \in 0 .. 59 /\ t.h \in 0 .. 23 /\ t.d \in 0 .. 511
         /\ t.halt \in BOOLEAN /\ t.carry \in BOOLEAN
<1>1. /\ t.s \in 0 .. 59 /\ t.m \in 0 .. 59 /\ t.h \in 0 .. 23 /\ t.d \in 0 .. 511
      /\ t.halt \in BOOLEAN /\ t.carry \in BOOLEAN
  BY DEF Shows
<1>2. PICK d, h, m, s : d = t.d /\ h = t.h /\ m = t.m /\ s = t.s
  BY Zenon
<1>9. d \in Nat /\ h \in Nat /\ m \in Nat /\ s \in Nat
  BY <1>1, <1>2
<1>3. Count(t) = ((d * 24 + h) * 60 + m) * 60 + s
  BY <1>2 DEF Count
<1>4. Count(t) \in Nat /\ Apart(Count(t), 0, d, h, m, s)
  <2>1. d \in 0 .. 511 /\ h \in 0 .. 23 /\ m \in 0 .. 59 /\ s \in 0 .. 59
    BY <1>1, <1>2
  <2>2. PICK total : total = Count(t)
    OBVIOUS
  <2>3. total = ((d * 24 + h) * 60 + m) * 60 + s
    BY <1>3, <2>2
  <2>4. total \in Nat /\ Apart(total, 0, d, h, m, s)
    BY <2>1, <2>3 DEF Apart
  <2> QED BY <2>2, <2>4
<1> QED BY <1>1, <1>2, <1>4

(* Seconds after a state, and whether day 511 has ended since.             *)
After(t, k, total) == total = Count(t) + k
Over(t, q, c) == c = (t.carry \/ q >= 1)

(* What the clock shows later, from the seconds taken apart.               *)
LEMMA LaterIs ==
  ASSUME NEW t \in Shows, NEW k \in Nat, ~t.halt, NEW q, NEW d, NEW h, NEW m, NEW s, NEW total,
         After(t, k, total), Apart(total, q, d, h, m, s),
         NEW c \in BOOLEAN, Over(t, q, c)
  PROVE  Later(t, k) = Showing(s, m, h, d, t.halt, c)
<1>1. PICK a, b, e, f, big : /\ a = total % 60 /\ b = (total \div 60) % 60
                             /\ e = (total \div 3600) % 24 /\ f = (total \div Day) % 512
                             /\ big <=> total >= 512 * Day
  OBVIOUS
<1>2. Told(total, q, d, h, m, s)
  BY Digits
<1>3. a = s /\ b = m /\ e = h /\ f = d
  BY <1>1, <1>2 DEF Told
<1>4. t.carry \/ total >= 512 * Day <=> c
  BY <1>2 DEF Told, Over
<1>5. t.carry \in BOOLEAN
  BY CountIs
<1>6. Later(t, k) = Set(t, a, b, e, f, c)
  <2>1. [t EXCEPT !.s = a, !.m = b, !.h = e, !.d = f, !.carry = c]
          = [t EXCEPT !.s = a, !.m = b, !.h = e, !.d = f,
                !.carry = t.carry \/ total >= 512 * Day]
    BY Zenon, <1>4, <1>5
  <2> QED BY <1>1, <2>1 DEF Later, Count, Set, After
<1>7. Later(t, k) = Showing(a, b, e, f, t.halt, c)
  BY <1>6, ShowingIs
<1> QED BY <1>3, <1>7

(* Some time later, and then a second. *)
LEMMA LaterNext ==
  ASSUME NEW t \in Shows, NEW k \in Nat
  PROVE  Later(t, k) \in Shows /\ Later(Later(t, k), 1) = Later(t, k + 1)
<1>1. Count(t) \in Nat /\ t.carry \in BOOLEAN /\ t.halt \in BOOLEAN
  BY CountIs
<1>2. CASE t.halt
  BY <1>2 DEF Later
<1>3. CASE ~t.halt
  <2>1. PICK total \in Nat : total = Count(t) + k /\ total + 1 = Count(t) + (k + 1)
    BY <1>1
  <2>2. PICK q, d, h, m, s : Apart(total, q, d, h, m, s)
    BY IsApart
  <2>22. q \in Nat /\ d \in 0 .. 511 /\ h \in 0 .. 23 /\ m \in 0 .. 59 /\ s \in 0 .. 59
    BY <2>2 DEF Apart
  <2>3. PICK c \in BOOLEAN : Over(t, q, c)
    BY Zenon DEF Over
  <2>4. PICK u : u = Later(t, k)
    OBVIOUS
  <2>5. u = Showing(s, m, h, d, t.halt, c)
    <3>1. After(t, k, total)
      BY <2>1 DEF After
    <3> QED BY <1>3, <2>2, <2>3, <2>4, <3>1, LaterIs
  <2>6. u \in Shows /\ u.s = s /\ u.m = m /\ u.h = h /\ u.d = d
        /\ u.halt = t.halt /\ u.carry = c
    BY <1>1, <2>5, <2>22 DEF Showing, Shows
  <2> DEFINE S == s = 59
             M == S /\ m = 59
             H == M /\ h = 23
             D == H /\ d = 511
             d2 == IF D THEN 0 ELSE IF H THEN d + 1 ELSE d
             h2 == IF H THEN 0 ELSE IF M THEN h + 1 ELSE h
             m2 == IF M THEN 0 ELSE IF S THEN m + 1 ELSE m
             s2 == IF S THEN 0 ELSE s + 1
  <2>8. PICK one : one = Count(u) + 1
    OBVIOUS
  <2>9. /\ Apart(total + 1, IF D THEN q + 1 ELSE q, d2, h2, m2, s2)
        /\ Apart(one, IF D THEN 0 + 1 ELSE 0, d2, h2, m2, s2)
    <3>1. Apart(Count(u), 0, d, h, m, s)
      BY <2>6, CountIs
    <3> QED BY <2>2, <2>8, <3>1, NextApart
  <2> HIDE DEF d2, h2, m2, s2, D
  <2>10. ASSUME NEW more \in Nat, NEW over \in Nat, more >= 1 <=> q >= 1 \/ over >= 1,
                Apart(total + 1, more, d2, h2, m2, s2), Apart(one, over, d2, h2, m2, s2)
         PROVE  Later(u, 1) = Later(t, k + 1)
    <3>1. PICK c2 \in BOOLEAN : Over(u, over, c2)
      BY Zenon DEF Over
    <3>2. Over(t, more, c2)
      <4>1. c2 = (c \/ over >= 1) /\ c = (t.carry \/ q >= 1)
        BY <2>3, <2>6, <3>1 DEF Over
      <4> QED BY <2>10, <4>1 DEF Over
    <3>5. After(u, 1, one) /\ After(t, k + 1, total + 1)
      BY <2>1, <2>8 DEF After
    <3>3. Later(u, 1) = Showing(s2, m2, h2, d2, u.halt, c2)
      BY <1>3, <2>6, <2>10, <3>1, <3>5, LaterIs
    <3>4. Later(t, k + 1) = Showing(s2, m2, h2, d2, t.halt, c2)
      BY <1>3, <2>10, <3>2, <3>5, LaterIs
    <3> QED BY <2>6, <3>3, <3>4
  <2>11. PICK more, over : /\ more = (IF D THEN q + 1 ELSE q)
                           /\ over = (IF D THEN 0 + 1 ELSE 0)
    OBVIOUS
  <2>12. more \in Nat /\ over \in Nat /\ (more >= 1 <=> q >= 1 \/ over >= 1)
    BY <2>11, <2>22
  <2>13. Apart(total + 1, more, d2, h2, m2, s2) /\ Apart(one, over, d2, h2, m2, s2)
    BY <2>9, <2>11
  <2>14. Later(u, 1) = Later(t, k + 1)
    BY <2>10, <2>12, <2>13
  <2> QED BY <2>4, <2>6, <2>14
<1> QED BY <1>1, <1>2, <1>3

(* The registers tell the state. *)
LEMMA RoundTrip ==
  ASSUME NEW t \in Shows PROVE FromRegisters(ToRegisters(t)) = t
<1>1. /\ t.s \in 0 .. 59 /\ t.m \in 0 .. 59 /\ t.h \in 0 .. 23 /\ t.d \in 0 .. 511
      /\ t.halt \in BOOLEAN /\ t.carry \in BOOLEAN
  BY DEF Shows
<1> DEFINE r == ToRegisters(t)
<1>2. /\ r[1] = t.s /\ r[2] = t.m /\ r[3] = t.h /\ r[4] = t.d % 256
      /\ r[5] = t.d \div 256 + Bit(t.halt, 64) + Bit(t.carry, 128)
  BY DEF ToRegisters
<1>3. t.d \div 256 \in {0, 1} /\ t.d = (t.d % 256) + 256 * (t.d \div 256)
  BY <1>1
<1>4. /\ r[5] % 2 = t.d \div 256
      /\ (r[5] \div 64) % 2 = 1 <=> t.halt
      /\ (r[5] \div 128) % 2 = 1 <=> t.carry
  BY <1>1, <1>2, <1>3 DEF Bit
<1>5. t.s % 64 = t.s /\ t.m % 64 = t.m /\ t.h % 32 = t.h
  BY <1>1
<1>6. ((r[5] \div 64) % 2 = 1) = t.halt /\ ((r[5] \div 128) % 2 = 1) = t.carry
  BY <1>1, <1>4
<1>7. t = [s |-> t.s, m |-> t.m, h |-> t.h, d |-> t.d, halt |-> t.halt, carry |-> t.carry]
  BY DEF Shows
<1> HIDE DEF r
<1>8. FromRegisters(r) = [s |-> t.s, m |-> t.m, h |-> t.h, d |-> t.d, halt |-> t.halt,
                          carry |-> t.carry]
  BY <1>2, <1>3, <1>4, <1>5, <1>6 DEF FromRegisters
<1> QED BY <1>7, <1>8 DEF r

(* So a second on the registers of a clock is a second on what was sent.   *)
LEMMA Ticks ==
  ASSUME NEW t \in Shows, NEW k \in Nat
  PROVE  /\ ToRegisters(Later(FromRegisters(ToRegisters(Later(t, k))), 1))
              = ToRegisters(Later(t, k + 1))
         /\ Later(t, 0) = t /\ FromRegisters(ToRegisters(Later(t, k))) = Later(t, k)
<1>1. FromRegisters(ToRegisters(Later(t, k))) = Later(t, k)
  BY LaterNext, RoundTrip
<1>2. Later(t, 0) = t
  <2>2. CASE t.halt
    BY <2>2 DEF Later
  <2>3. CASE ~t.halt
    <3>1. Count(t) = Count(t) + 0 /\ Apart(Count(t), 0, t.d, t.h, t.m, t.s)
      BY CountIs
    <3>4. After(t, 0, Count(t)) /\ Over(t, 0, t.carry)
      BY <3>1, CountIs DEF After, Over
    <3>2. Later(t, 0) = Showing(t.s, t.m, t.h, t.d, t.halt, t.carry)
      BY <2>3, <3>1, <3>4, CountIs, LaterIs
    <3>3. t = Showing(t.s, t.m, t.h, t.d, t.halt, t.carry)
      BY DEF Showing, Shows
    <3> QED BY <3>2, <3>3
  <2> QED BY <2>2, <2>3, CountIs
<1> QED BY <1>1, <1>2, LaterNext

-----------------------------------------------------------------------------
(* What setting a clock does on the bus, in order: the clock's registers   *)
(* are chosen and written two operations each, 4 to 15.                    *)
(* The registers the plan sets, what it sets them to, and the plan.        *)
Chosen == << 12, 8, 9, 10, 11, 12 >>
Values(t) == LET r == ToRegisters(t)
             IN << IF t.halt THEN r[5] ELSE r[5] + 64, r[1], r[2], r[3], r[4], r[5] >>
Plan == WriteAndVerify(file.state)

(* A list with two more at its end.                                        *)
LEMMA Added ==
  ASSUME NEW S, NEW x \in Seq(S), NEW a \in S, NEW b \in S, NEW len \in Nat, Len(x) = len
  PROVE  /\ x \o <<a, b>> \in Seq(S) /\ Len(x \o <<a, b>>) = len + 2
         /\ (x \o <<a, b>>)[len + 1] = a /\ (x \o <<a, b>>)[len + 2] = b
         /\ \A i \in 1 .. len : (x \o <<a, b>>)[i] = x[i]
<1>1. <<a, b>> \in Seq(S) /\ Len(<<a, b>>) = 2 /\ <<a, b>>[1] = a /\ <<a, b>>[2] = b
  OBVIOUS
<1>2. PICK y : y = <<a, b>>
  OBVIOUS
<1>3. /\ x \o y \in Seq(S) /\ Len(x \o y) = len + 2
      /\ \A i \in 1 .. len + 2 : (x \o y)[i] = IF i <= len THEN x[i] ELSE y[i - len]
  BY <1>1, <1>2, ConcatProperties
<1>4. (x \o y)[len + 1] = y[1] /\ (x \o y)[len + 2] = y[2]
  BY <1>3
<1> QED BY <1>1, <1>2, <1>3, <1>4

(* Operations, and what a list with two parts holds.                       *)
Ops(x, k) == x \in Seq(BusOps) /\ Len(x) = k
Follows(z, x, k, y, l) == /\ Ops(z, k + l)
                          /\ \A i \in 1 .. k : z[i] = x[i]
                          /\ \A i \in k + 1 .. k + l : z[i] = y[i - k]

(* The second part comes after the first.                                  *)
LEMMA Appended ==
  ASSUME NEW x, NEW y, NEW k \in Nat, NEW l \in Nat, Ops(x, k), Ops(y, l)
  PROVE  Follows(x \o y, x, k, y, l)
<1>0. x \in Seq(BusOps) /\ y \in Seq(BusOps) /\ Len(x) = k /\ Len(y) = l
  BY DEF Ops
<1>1. PICK z : z = x \o y
  OBVIOUS
<1>2. /\ z \in Seq(BusOps) /\ Len(z) = k + l
      /\ \A i \in 1 .. k + l : z[i] = IF i <= k THEN x[i] ELSE y[i - k]
  BY <1>0, <1>1, ConcatProperties
<1>3. ASSUME NEW i \in 1 .. k
      PROVE  z[i] = x[i]
  BY <1>2
<1>4. ASSUME NEW i \in k + 1 .. k + l
      PROVE  z[i] = y[i - k]
  <2>1. i \in 1 .. k + l /\ ~(i <= k)
    OBVIOUS
  <2> QED BY <1>2, <2>1
<1> QED BY <1>1, <1>2, <1>3, <1>4 DEF Follows, Ops

(* The second and the following writes to the clock, and their choices.    *)
SetsInOrder(x, v, k) ==
  /\ x \in Seq(BusOps) /\ Len(x) = 2 * k
  /\ \A j \in 1 .. k : /\ x[2 * j - 1] = Op("w", \h4000, Chosen[j])
                       /\ x[2 * j] = Op("w", \hA000, v[j])

(* A register more is two operations more.                                 *)
LEMMA OneMore ==
  ASSUME NEW x, NEW v, NEW k \in 0 .. 5, SetsInOrder(x, v, k), v[k + 1] \in Nat,
         NEW r, r = Chosen[k + 1], r \in Nat, NEW value, value = v[k + 1]
  PROVE  SetsInOrder(x \o Put(r, value), v, k + 1)
<1>1. Op("w", \h4000, r) \in BusOps /\ Op("w", \hA000, value) \in BusOps
  BY OpIs
<1>2. PICK a, b : a = Op("w", \h4000, r) /\ b = Op("w", \hA000, value)
  OBVIOUS
<1>3. Put(r, value) = <<a, b>> /\ a \in BusOps /\ b \in BusOps
  BY <1>1, <1>2 DEF Put
<1>4. PICK y : y = x \o <<a, b>>
  OBVIOUS
<1>5. x \in Seq(BusOps) /\ Len(x) = 2 * k /\ 2 * k \in Nat
  BY DEF SetsInOrder
<1>6. PICK len \in Nat : len = 2 * k
  BY <1>5
<1>7. /\ y \in Seq(BusOps) /\ Len(y) = len + 2 /\ y[len + 1] = a /\ y[len + 2] = b
      /\ \A i \in 1 .. len : y[i] = x[i]
  BY SMTT(30), <1>3, <1>4, <1>5, <1>6, Added
<1>8. ASSUME NEW j \in 1 .. k + 1
      PROVE  y[2 * j - 1] = Op("w", \h4000, Chosen[j]) /\ y[2 * j] = Op("w", \hA000, v[j])
  <2>1. CASE j = k + 1
    <3>1. 2 * j - 1 = len + 1 /\ 2 * j = len + 2
      BY <1>6, <2>1
    <3> QED BY <1>2, <1>7, <2>1, <3>1
  <2>2. CASE j # k + 1
    <3>1. j \in 1 .. k /\ 2 * j - 1 \in 1 .. len /\ 2 * j \in 1 .. len
      BY <1>6, <2>2
    <3> QED BY <1>7, <3>1 DEF SetsInOrder
  <2> QED BY <2>1, <2>2
<1>9. len + 2 = 2 * (k + 1)
  BY <1>6
<1>10. SetsInOrder(y, v, k + 1)
  BY <1>7, <1>8, <1>9 DEF SetsInOrder
<1> QED BY <1>3, <1>4, <1>10

(* SetClock sets six registers in order.                                   *)
LEMMA SetClockIs ==
  ASSUME NEW t \in States
  PROVE  SetsInOrder(SetClock(t), Values(t), 6)
<1>1. PICK v : v = Values(t)
  OBVIOUS
<1>2. PICK r : r = ToRegisters(t)
  OBVIOUS
<1>3. r[1] \in Nat /\ r[2] \in Nat /\ r[3] \in Nat /\ r[4] \in Nat /\ r[5] \in Nat
  BY <1>2, RegistersAre
<1>4. /\ v[1] = (IF t.halt THEN r[5] ELSE r[5] + 64)
      /\ v[2] = r[1] /\ v[3] = r[2] /\ v[4] = r[3]
      /\ v[5] = r[4] /\ v[6] = r[5]
  BY <1>1, <1>2 DEF Values
<1>5. v[1] \in Nat /\ v[2] \in Nat /\ v[3] \in Nat
      /\ v[4] \in Nat /\ v[5] \in Nat /\ v[6] \in Nat
  BY <1>3, <1>4
<1>6. /\ Chosen[1] = 12 /\ Chosen[2] = 8 /\ Chosen[3] = 9 /\ Chosen[4] = 10 /\ Chosen[5] = 11
      /\ Chosen[6] = 12
  BY DEF Chosen
<1>7. SetsInOrder(Put(12, v[1]), v, 1)
  <2>1. Op("w", \h4000, 12) \in BusOps /\ Op("w", \hA000, v[1]) \in BusOps
    BY <1>5, OpIs
  <2>2. PICK a, b : a = Op("w", \h4000, 12) /\ b = Op("w", \hA000, v[1])
    OBVIOUS
  <2>3. PICK x : x = <<a, b>>
    OBVIOUS
  <2>4. x \in Seq(BusOps) /\ Len(x) = 2 /\ x[1] = a /\ x[2] = b
    BY <2>1, <2>2, <2>3
  <2>5. \A j \in 1 .. 1 : j = 1 /\ 2 * j - 1 = 1 /\ 2 * j = 2
    OBVIOUS
  <2>6. SetsInOrder(x, v, 1)
    BY <1>6, <2>2, <2>4, <2>5 DEF SetsInOrder
  <2> QED BY <2>2, <2>3, <2>6 DEF Put
<1> DEFINE x1 == Put(12, v[1])
           x2 == x1 \o Put(8, v[2])
           x3 == x2 \o Put(9, v[3])
           x4 == x3 \o Put(10, v[4])
           x5 == x4 \o Put(11, v[5])
           x6 == x5 \o Put(12, v[6])
<1>8. /\ 0 + 1 = 1 /\ 1 + 1 = 2 /\ 2 + 1 = 3 /\ 3 + 1 = 4 /\ 4 + 1 = 5 /\ 5 + 1 = 6
      /\ 1 \in 0 .. 5 /\ 2 \in 0 .. 5 /\ 3 \in 0 .. 5 /\ 4 \in 0 .. 5 /\ 5 \in 0 .. 5
      /\ 8 \in Nat /\ 9 \in Nat /\ 10 \in Nat /\ 11 \in Nat /\ 12 \in Nat
  OBVIOUS
<1>9. SetClock(t) = x6
  BY <1>2, <1>4 DEF SetClock
<1>10. SetsInOrder(x1, v, 1)
  BY <1>7
<1> HIDE DEF x1
<1>11. SetsInOrder(x2, v, 2)
  BY <1>5, <1>6, <1>8, <1>10, OneMore
<1> HIDE DEF x2
<1>12. SetsInOrder(x3, v, 3)
  BY <1>5, <1>6, <1>8, <1>11, OneMore
<1> HIDE DEF x3
<1>13. SetsInOrder(x4, v, 4)
  BY <1>5, <1>6, <1>8, <1>12, OneMore
<1> HIDE DEF x4
<1>14. SetsInOrder(x5, v, 5)
  BY <1>5, <1>6, <1>8, <1>13, OneMore
<1> HIDE DEF x5
<1>15. SetsInOrder(x6, v, 6)
  BY <1>5, <1>6, <1>8, <1>14, OneMore
<1> QED BY <1>1, <1>9, <1>15

(* The whole of it: the registers are latched, set, latched again and read.*)
Ends(p) == \A i \in 16 .. 30 : p[i] \in Harmless
(* The shape of the plan: RAM is switched on, each register is chosen and  *)
(* set.                                                                    *)
PlanIs(p, v) ==
  /\ p \in Seq(BusOps) /\ Len(p) = 30
  /\ p[1] = Op("w", \h0000, \h0A) /\ p[2] = Op("w", \h6000, 0) /\ p[3] = Op("w", \h6000, 1)
  /\ \A j \in 1 .. 6 : /\ p[2 * j + 2] = Op("w", \h4000, Chosen[j])
                       /\ p[2 * j + 3] = Op("w", \hA000, v[j])
  /\ Ends(p)

(* It has that shape for every state that may be sent.                     *)
LEMMA WholePlan ==
  ASSUME NEW t \in States
  PROVE  PlanIs(WriteAndVerify(t), Values(t))
<1>1. PICK set : set = SetClock(t)
  OBVIOUS
<1>2. SetsInOrder(set, Values(t), 6)
  BY <1>1, SetClockIs
<1>3. PICK reads : reads = Reads(\hA000)
  OBVIOUS
<1>4. PICK latch1 : latch1 = Latch
  OBVIOUS
<1>5. PICK finish : finish = Finish
  OBVIOUS
<1>6. Ops(latch1, 3) /\ Ops(set, 12) /\ Ops(reads, 10) /\ Ops(finish, 2)
  <2>1. Len(latch1) = 3 /\ Len(finish) = 2 /\ Len(reads) = 10 /\ \hA000 \in Nat
    BY <1>3, <1>4, <1>5 DEF Latch, Finish, Reads
  <2>2. Ops(set, 12)
    BY <1>2 DEF SetsInOrder, Ops
  <2> QED BY <1>3, <1>4, <1>5, <2>1, <2>2, ReadsOps, LatchOps DEF Ops
<1>7. /\ 3 \in Nat /\ 12 \in Nat /\ 15 \in Nat
      /\ 18 \in Nat /\ 10 \in Nat /\ 28 \in Nat /\ 2 \in Nat
  OBVIOUS
<1>8. PICK a : a = latch1 \o set
  OBVIOUS
<1>9. /\ Ops(a, 15)
      /\ \A i \in 1 .. 3 : a[i] = latch1[i]
      /\ \A i \in 4 .. 15 : a[i] = set[i - 3]
  <2>1. Follows(latch1 \o set, latch1, 3, set, 12)
    BY Appended, <1>6, <1>7
  <2>2. Follows(a, latch1, 3, set, 12)
    BY Zenon, <1>8, <2>1
  <2>3. 3 + 12 = 15 /\ 3 + 1 = 4
    OBVIOUS
  <2> QED BY <2>2, <2>3 DEF Follows
<1>10. PICK b : b = a \o latch1
  OBVIOUS
<1>11. /\ Ops(b, 18)
       /\ \A i \in 1 .. 15 : b[i] = a[i]
       /\ \A i \in 16 .. 18 : b[i] = latch1[i - 15]
  <2>1. Follows(a \o latch1, a, 15, latch1, 3)
    BY Appended, <1>6, <1>7, <1>9
  <2>2. Follows(b, a, 15, latch1, 3)
    BY Zenon, <1>10, <2>1
  <2>3. 15 + 3 = 18 /\ 15 + 1 = 16
    OBVIOUS
  <2> QED BY <2>2, <2>3 DEF Follows
<1>12. PICK c : c = b \o reads
  OBVIOUS
<1>13. /\ Ops(c, 28)
       /\ \A i \in 1 .. 18 : c[i] = b[i]
       /\ \A i \in 19 .. 28 : c[i] = reads[i - 18]
  <2>1. Follows(b \o reads, b, 18, reads, 10)
    BY Appended, <1>6, <1>7, <1>11
  <2>2. Follows(c, b, 18, reads, 10)
    BY Zenon, <1>12, <2>1
  <2>3. 18 + 10 = 28 /\ 18 + 1 = 19
    OBVIOUS
  <2> QED BY <2>2, <2>3 DEF Follows
<1>14. PICK p : p = c \o finish
  OBVIOUS
<1>15. /\ Ops(p, 30)
       /\ \A i \in 1 .. 28 : p[i] = c[i]
       /\ \A i \in 29 .. 30 : p[i] = finish[i - 28]
  <2>1. Follows(c \o finish, c, 28, finish, 2)
    BY Appended, <1>6, <1>7, <1>13
  <2>2. Follows(p, c, 28, finish, 2)
    BY Zenon, <1>14, <2>1
  <2>3. 28 + 2 = 30 /\ 28 + 1 = 29
    OBVIOUS
  <2> QED BY <2>2, <2>3 DEF Follows
<1>17. WriteAndVerify(t) = p
  BY <1>1, <1>3, <1>4, <1>5, <1>8, <1>10, <1>12, <1>14 DEF WriteAndVerify
<1>19. \A i \in 1 .. 15 : p[i] = a[i]
  <2>1. \A i \in 1 .. 15 : b[i] = a[i] /\ c[i] = b[i] /\ p[i] = c[i]
    BY <1>11, <1>13, <1>15
  <2> QED BY <2>1
<1>20. ASSUME NEW i \in 16 .. 30
       PROVE  p[i] \in Harmless
  <2>0. /\ \A j \in 1 .. 3 : latch1[j] \in Harmless
        /\ \A j \in 1 .. 10 : reads[j] \in Harmless
        /\ \A j \in 1 .. 2 : finish[j] \in Harmless
    <3>1. reads \in Seq(Harmless) /\ latch1 \in Seq(Harmless) /\ finish \in Seq(Harmless)
      <4>1. \hA000 \in Int
        OBVIOUS
      <4> QED BY <1>3, <1>4, <1>5, <4>1, ReadsHarmless, FinishHarmless
    <3>2. Len(latch1) = 3 /\ Len(finish) = 2 /\ Len(reads) = 10
      BY <1>6 DEF Ops
    <3>3. ASSUME NEW x \in Seq(Harmless), NEW k \in Nat, Len(x) = k
          PROVE  \A j \in 1 .. k : x[j] \in Harmless
      BY <3>3
    <3> QED BY <3>1, <3>2, <3>3
  <2>1. CASE i \in 16 .. 18
    <3>1. p[i] = c[i] /\ c[i] = b[i] /\ b[i] = latch1[i - 15] /\ i - 15 \in 1 .. 3
      BY <1>11, <1>13, <1>15, <2>1
    <3> QED BY <2>0, <3>1
  <2>2. CASE i \in 19 .. 28
    <3>1. p[i] = c[i] /\ c[i] = reads[i - 18] /\ i - 18 \in 1 .. 10
      BY <1>13, <1>15, <2>2
    <3> QED BY <2>0, <3>1
  <2>3. CASE i \in 29 .. 30
    <3>1. p[i] = finish[i - 28] /\ i - 28 \in 1 .. 2
      BY <1>15, <2>3
    <3> QED BY <2>0, <3>1
  <2> QED BY <2>1, <2>2, <2>3
<1>21. /\ p[1] = Op("w", \h0000, \h0A) /\ p[2] = Op("w", \h6000, 0)
       /\ p[3] = Op("w", \h6000, 1)
  <2>1. /\ latch1[1] = Op("w", \h0000, \h0A) /\ latch1[2] = Op("w", \h6000, 0)
        /\ latch1[3] = Op("w", \h6000, 1)
    BY <1>4 DEF Latch
  <2>2. p[1] = latch1[1] /\ p[2] = latch1[2] /\ p[3] = latch1[3]
    BY <1>9, <1>19
  <2> QED BY <2>1, <2>2
<1>22. ASSUME NEW j \in 1 .. 6
       PROVE  /\ p[2 * j + 2] = Op("w", \h4000, Chosen[j])
              /\ p[2 * j + 3] = Op("w", \hA000, Values(t)[j])
  <2>1. /\ (2 * j + 2) - 3 = 2 * j - 1 /\ (2 * j + 3) - 3 = 2 * j
        /\ 2 * j + 2 \in 4 .. 15 /\ 2 * j + 3 \in 4 .. 15
        /\ 2 * j - 1 \in 1 .. 12 /\ 2 * j \in 1 .. 12
        /\ 2 * j + 2 \in 1 .. 15 /\ 2 * j + 3 \in 1 .. 15
    OBVIOUS
  <2>2. p[2 * j + 2] = set[2 * j - 1] /\ p[2 * j + 3] = set[2 * j]
    BY <1>9, <1>19, <2>1
  <2> QED BY SMTT(30), <1>2, <2>2 DEF SetsInOrder
<1> QED BY <1>15, <1>17, <1>20, <1>21, <1>22 DEF PlanIs, Ops, Ends

-----------------------------------------------------------------------------
(* The registers of the clock show what was sent and the seconds since.    *)
Right == clock = ToRegisters(Later(file.state, since))

(* The first k operations of the plan are done.                            *)
Left(k) == Len(todo) = 30 - k /\ \A i \in 1 .. 30 - k : todo[i] = Plan[k + i]
(* Where the clock is after k operations of the plan.                      *)
Setting(k) ==
  /\ Left(k)
  /\ k >= 1 => regs.on
  /\ \A j \in 1 .. 6 : k \in {2 * j + 2, 2 * j + 3} => regs.rb = Chosen[j]
  /\ \A j \in 1 .. 5 : k >= 2 * j + 3 => clock[Chosen[j] - 7] = Values(file.state)[j]

(* While the clock is set it is halted from the fifth operation on, and    *)
(* so nothing but the plan changes it; after the fifteenth nothing but     *)
(* the crystal does.                                                       *)
Exact ==
  head.chip = "clock" /\ verdict = "ok" =>
    /\ pc = "clock" => \/ \E k \in 0 .. 14 : Setting(k)
                       \/ todo \in Seq(Harmless) /\ Right
    /\ pc \in {"check", "recheck", "settle"} => Right
(* What has begun, and what a success says of the clock.                   *)
Begun == /\ pc \in Late => begun
         /\ begun => IsStateValid(file.state)
Reported == outcome = "ok" /\ file.rtc => begun /\ (head.chip = "clock" => Right)
ClockTyped == clock \in [1 .. 5 -> Nat] /\ since \in Nat

(* What every step keeps of the clock.                                     *)
ClockInv == ClockTyped /\ Begun /\ Exact /\ Reported

-----------------------------------------------------------------------------
(* The clock keeps numbers in its registers. *)
LEMMA LaterTyped ==
  ASSUME NEW t \in States, NEW k \in Nat
  PROVE  Later(t, k) \in States
<1>1. ASSUME NEW d \in Nat, NEW h \in Nat, NEW m \in Nat, NEW s \in Nat
      PROVE  ((d * 24 + h) * 60 + m) * 60 + s + k \in Nat
  OBVIOUS
<1>2. ASSUME NEW x \in Nat
      PROVE  /\ x % 60 \in Nat /\ (x \div 60) % 60 \in Nat /\ (x \div 3600) % 24 \in Nat
             /\ (x \div Day) % 512 \in Nat
  BY DEF Day
<1>3. PICK total : total = ((t.d * 24 + t.h) * 60 + t.m) * 60 + t.s + k
  OBVIOUS
<1>4. total \in Nat
  BY <1>1, <1>3 DEF States
<1>5. Later(t, k) = IF t.halt THEN t
        ELSE [t EXCEPT !.s = total % 60, !.m = (total \div 60) % 60,
                       !.h = (total \div 3600) % 24, !.d = (total \div Day) % 512,
                       !.carry = @ \/ total >= 512 * Day]
  BY <1>3 DEF Later
<1>6. PICK a, b, e, f, g : /\ a = total % 60 /\ b = (total \div 60) % 60
                           /\ e = (total \div 3600) % 24 /\ f = (total \div Day) % 512
                           /\ g = (t.carry \/ total >= 512 * Day)
  OBVIOUS
<1>7. a \in Nat /\ b \in Nat /\ e \in Nat /\ f \in Nat /\ g \in BOOLEAN
  BY <1>2, <1>4, <1>6
<1>8. Later(t, k) = IF t.halt THEN t
        ELSE [t EXCEPT !.s = a, !.m = b, !.h = e, !.d = f, !.carry = g]
  BY <1>5, <1>6
<1> QED BY <1>7, <1>8 DEF States

(* A clock that ticks keeps numbers in its registers.                      *)
LEMMA ClockIs ==
  ASSUME NEW r \in [1 .. 5 -> Nat]
  PROVE  /\ FromRegisters(r) \in States
         /\ ToRegisters(Later(FromRegisters(r), 1)) \in [1 .. 5 -> Nat]
<1>1. FromRegisters(r) \in States
  <2>1. r[1] \in Nat /\ r[2] \in Nat /\ r[3] \in Nat /\ r[4] \in Nat /\ r[5] \in Nat
    OBVIOUS
  <2>2. /\ r[1] % 64 \in Nat /\ r[2] % 64 \in Nat /\ r[3] % 32 \in Nat
        /\ r[4] + 256 * (r[5] % 2) \in Nat
    BY <2>1
  <2> QED BY <2>2 DEF FromRegisters, States
<1>2. 1 \in Nat
  OBVIOUS
<1> QED BY <1>1, <1>2, LaterTyped, RegistersAre

(* Every step keeps the clock's registers numbers.                         *)
LEMMA TimeTyped == ASSUME Kinds, ClockTyped, Next PROVE ClockTyped'
<1> USE DEF Go, Fails, Steady, Error, fixed, marks, time, task
<1>1. CASE Bus \/ BusFails
  <2>1. \/ UNCHANGED <<clock, since>>
        \/ BusWrites(Head(todo)) /\ todo # <<>>
    BY <1>1 DEF Bus, BusFails, AtBus
  <2>2. CASE BusWrites(Head(todo)) /\ todo # <<>>
    <3>1. Head(todo).value \in Nat
      <4>1. todo \in Seq(BusOps)
        BY DEF Kinds
      <4>2. Head(todo) \in BusOps
        BY <2>2, <4>1, HeadTailProperties
      <4> QED BY <4>2 DEF BusOps
    <3>2. PICK v, i : v = Head(todo).value /\ i = regs.rb - 7
      OBVIOUS
    <3>3. \/ UNCHANGED <<clock, since>>
          \/ clock' = [clock EXCEPT ![i] = v] /\ since' = 0
      BY <2>2, <3>2 DEF BusWrites
    <3>4. v \in Nat
      BY <3>1, <3>2
    <3> QED BY <3>3, <3>4 DEF ClockTyped
  <2> QED BY <2>1, <2>2 DEF ClockTyped
<1>2. CASE ProbeAgain \/ Tick
  <2>1. /\ clock' \in {clock, ToRegisters(Later(FromRegisters(clock), 1))}
        /\ since' \in {since, since + 1}
    BY <1>2 DEF ProbeAgain, Tick
  <2> QED BY <2>1, ClockIs DEF ClockTyped
<1>3. CASE ClockProbed
  BY <1>3 DEF ClockProbed, ClockTyped
<1>4. CASE ReadCartInfo \/ Probed \/ OnInfo \/ OnReady \/ EnableRam
  BY <1>4 DEF ReadCartInfo, Probed, OnInfo, OnReady, EnableRam, ClockTyped
<1>5. CASE Receive \/ ReceiveOther \/ WriteBlock \/ WriteIsLost \/ VerifyBlock \/ CheckSum
  BY <1>5 DEF Receive, ReceiveOther, WriteBlock, WriteIsLost, VerifyBlock, CheckSum, ClockTyped
<1>6. CASE ReceiveState \/ Snapshot \/ ClockDone \/ Check \/ Recover \/ RtcDone
  BY <1>6 DEF ReceiveState, Snapshot, ClockDone, Check, Recover, RtcDone, ClockTyped
<1>7. CASE CallFails \/ Cleanup
  BY <1>7 DEF CallFails, Cleanup, ClockTyped
<1> QED BY <1>1, <1>2, <1>3, <1>4, <1>5, <1>6, <1>7 DEF Next

(* What the operations on a clock do. *)
LEMMA ClockChip ==
  ASSUME Kinds, head.chip = "clock"
  PROVE  /\ cart.kind = "mbc3"
         /\ ChipWrite(cart, regs, Op("w", \h0000, \h0A)) = [regs EXCEPT !.on = TRUE]
         /\ \A v : ChipWrite(cart, regs, Op("w", \h6000, v)) = regs
         /\ \A v \in 0 .. 12 :
              ChipWrite(cart, regs, Op("w", \h4000, v)) = [regs EXCEPT !.rb = v]
<1>1. cart.kind = "mbc3"
  <2>1. HasRtc(head.type)
    BY ImportAssumption DEF Kinds
  <2> QED BY <2>1 DEF HasRtc, cart, Info, Kind
<1>2. /\ \h0000 \div \h2000 = 0 /\ \h4000 \div \h2000 = 2 /\ \h6000 \div \h2000 = 3
  OBVIOUS
<1>3. Low(\h0A)
  BY DEF Low
<1>4. ASSUME NEW v PROVE Op("w", \h6000, v).address \div \h2000 = 3
  BY <1>2 DEF Op
<1>5. ASSUME NEW w, w.address \div \h2000 = 3
      PROVE  ChipWrite(cart, regs, w) = regs
  BY <1>1, <1>5 DEF ChipWrite
<1>6. \A v : ChipWrite(cart, regs, Op("w", \h6000, v)) = regs
  BY <1>4, <1>5
<1>7. ASSUME NEW v \in 0 .. 12
      PROVE  ChipWrite(cart, regs, Op("w", \h4000, v)) = [regs EXCEPT !.rb = v]
  <2>1. PICK w : w = Op("w", \h4000, v)
    OBVIOUS
  <2>2. w.address \div \h2000 = 2 /\ w.value = v /\ v % 16 = v
    BY <1>2, <2>1 DEF Op
  <2>3. 2 \in 0 .. 5
    OBVIOUS
  <2>4. ChipWrite(cart, regs, w) = [regs EXCEPT !.rb = w.value % 16]
    BY <1>1, <2>2, <2>3, AreaIs
  <2> QED BY <2>1, <2>2, <2>4
<1>8. ChipWrite(cart, regs, Op("w", \h0000, \h0A)) = [regs EXCEPT !.on = TRUE]
  <2>1. PICK w : w = Op("w", \h0000, \h0A)
    OBVIOUS
  <2>2. w.address \div \h2000 = 0 /\ w.value = \h0A
    BY <1>2, <2>1 DEF Op
  <2>3. 0 \in 0 .. 5
    OBVIOUS
  <2>4. ChipWrite(cart, regs, w) = [regs EXCEPT !.on = Low(w.value)]
    BY <1>1, <2>2, <2>3, AreaIs
  <2>5. Low(w.value) = TRUE
    BY <1>3, <2>2 DEF Low
  <2> QED BY <2>1, <2>4, <2>5
<1> QED BY <1>1, <1>6, <1>7, <1>8

(* What a write on the bus does to the clock and the mapper.               *)
LEMMA ClockBus ==
  ASSUME Kinds, head.chip = "clock"
  PROVE  /\ BusWrites(Op("w", \h0000, \h0A)) =>
              /\ regs' = [regs EXCEPT !.on = TRUE] /\ UNCHANGED <<clock, since>>
         /\ \A v : BusWrites(Op("w", \h6000, v)) => UNCHANGED <<regs, clock, since>>
         /\ \A v \in 0 .. 12 : BusWrites(Op("w", \h4000, v)) =>
              /\ regs' = [regs EXCEPT !.rb = v] /\ UNCHANGED <<clock, since>>
         /\ \A v : BusWrites(Op("w", \hA000, v)) /\ regs.on /\ regs.rb \in 8 .. 12 =>
              /\ UNCHANGED regs
              /\ clock' = [clock EXCEPT ![regs.rb - 7] = v] /\ since' = 0
<1>1. ASSUME NEW w, w.address < \h8000, BusWrites(w)
      PROVE  regs' = ChipWrite(cart, regs, w) /\ UNCHANGED <<clock, since>>
  BY <1>1 DEF BusWrites
<1>2. ASSUME NEW w, ~(w.address < \h8000), BusWrites(w), regs.on, regs.rb \in 8 .. 12
      PROVE  /\ UNCHANGED regs
             /\ clock' = [clock EXCEPT ![regs.rb - 7] = w.value] /\ since' = 0
  BY <1>2 DEF BusWrites
<1>3. \A v : /\ Op("w", \h0000, v).address < \h8000 /\ Op("w", \h4000, v).address < \h8000
             /\ Op("w", \h6000, v).address < \h8000 /\ ~(Op("w", \hA000, v).address < \h8000)
             /\ Op("w", \hA000, v).value = v
  BY DEF Op
<1> QED BY SMTT(60), <1>1, <1>2, <1>3, ClockChip

-----------------------------------------------------------------------------
(* A valid state is one a clock may show, and while the clock is set it is *)
(* halted.                                                                 *)
LEMMA Halts ==
  ASSUME NEW t \in States, IsStateValid(t)
  PROVE  t \in Shows /\ (Values(t)[1] \div 64) % 2 = 1
<1>1. /\ t.s \in 0 .. 59 /\ t.m \in 0 .. 59 /\ t.h \in 0 .. 23 /\ t.d \in 0 .. 511
      /\ t.halt \in BOOLEAN /\ t.carry \in BOOLEAN
  BY DEF States, IsStateValid
<1>2. t \in Shows
  BY <1>1 DEF States, Shows
<1>3. t.d \div 256 \in {0, 1}
  BY <1>1
<1>4. PICK h, c : h = t.d \div 256 /\ c = Bit(t.carry, 128)
  OBVIOUS
<1>5. h \in {0, 1} /\ c \in {0, 128}
  BY <1>3, <1>4 DEF Bit
<1>6. Values(t)[1] = h + 64 + c
  <2>1. ToRegisters(t)[5] = h + Bit(t.halt, 64) + c
    BY <1>4 DEF ToRegisters
  <2>2. Values(t)[1] = IF t.halt THEN h + Bit(t.halt, 64) + c ELSE h + Bit(t.halt, 64) + c + 64
    BY <2>1 DEF Values
  <2>3. CASE t.halt
    BY <2>2, <2>3, <1>5 DEF Bit
  <2>4. CASE ~t.halt
    BY <2>2, <2>4, <1>5 DEF Bit
  <2> QED BY <2>3, <2>4
<1>7. (Values(t)[1] \div 64) % 2 = 1
  BY <1>5, <1>6
<1> QED BY <1>2, <1>7

(* One operation of the plan. *)
LEMMA PlanStep ==
  ASSUME Kinds, NEW k \in 0 .. 14, Left(k), file' = file
  PROVE  /\ todo # <<>> /\ Head(todo) = Plan[k + 1]
         /\ todo' = Tail(todo) => /\ Left(k + 1)'
                                  /\ k = 14 => todo' \in Seq(Harmless)
<1>1. todo \in Seq(BusOps) /\ Len(todo) = 30 - k
      /\ \A i \in 1 .. 30 - k : todo[i] = Plan[k + i]
  BY DEF Kinds, Left
<1>2. 1 \in 1 .. 30 - k /\ 30 - k > 0
  OBVIOUS
<1>3. todo # <<>> /\ Head(todo) = todo[1]
  BY <1>1, <1>2
<1>4. todo[1] = Plan[k + 1]
  BY <1>1, <1>2
<1>5. ASSUME todo' = Tail(todo)
      PROVE  Left(k + 1)' /\ (k = 14 => todo' \in Seq(Harmless))
  <2>1. PICK new : new = Tail(todo)
    OBVIOUS
  <2>2. /\ new \in Seq(BusOps) /\ Len(new) = Len(todo) - 1
        /\ \A i \in 1 .. Len(new) : new[i] = todo[i + 1]
    BY <1>1, <1>3, <2>1, HeadTailProperties
  <2>3. Len(new) = 30 - (k + 1)
    BY <1>1, <2>2
  <2>4. ASSUME NEW i \in 1 .. 30 - (k + 1)
        PROVE  new[i] = Plan[(k + 1) + i]
    <3>1. i \in 1 .. Len(new) /\ i + 1 \in 1 .. 30 - k /\ k + (i + 1) = (k + 1) + i
      BY <2>3
    <3>2. new[i] = todo[i + 1] /\ todo[i + 1] = Plan[k + (i + 1)]
      BY <1>1, <2>2, <3>1
    <3> QED BY <3>1, <3>2
  <2>5. todo' = new /\ Plan' = Plan
    BY <1>5, <2>1 DEF Plan
  <2>6. Left(k + 1)'
    BY <2>3, <2>4, <2>5 DEF Left
  <2>7. ASSUME k = 14
        PROVE  new \in Seq(Harmless)
    <3>0. PlanIs(Plan, Values(file.state))
      BY WholePlan, FileIs DEF Kinds, Plan
    <3>1. \A i \in 16 .. 30 : Plan[i] \in Harmless
      <4>1. Ends(Plan)
        BY <3>0 DEF PlanIs
      <4> QED BY <4>1 DEF Ends
    <3>2. 30 - (k + 1) = 15 /\ k + 1 = 15
      BY <2>7
    <3>3. ASSUME NEW i \in 1 .. 15
          PROVE  new[i] \in Harmless
      <4>1. new[i] = Plan[15 + i]
        BY <2>4, <3>2
      <4>2. 15 + i \in 16 .. 30
        OBVIOUS
      <4> QED BY <3>1, <4>1, <4>2
    <3>4. Len(new) = 15
      BY <2>3, <3>2
    <3>5. new \in [1 .. 15 -> Harmless]
      <4>1. new = [i \in 1 .. 15 |-> new[i]]
        BY <2>2, <3>4
      <4> QED BY <3>3, <4>1
    <3>6. 15 \in Nat /\ DOMAIN new = 1 .. 15
      BY <2>2, <3>4
    <3>7. \A i \in 1 .. Len(new) : new[i] \in Harmless
      BY <3>3, <3>4
    <3> QED BY <2>2, <3>7
  <2> QED BY <2>5, <2>6, <2>7
<1> QED BY <1>3, <1>4, <1>5

(* The kinds of positions. *)
LEMMA Positions ==
  ASSUME NEW k \in 0 .. 14
  PROVE  \/ k = 0
         \/ k \in {1, 2}
         \/ \E j \in 1 .. 6 : k = 2 * j + 1
         \/ \E j \in 1 .. 6 : k = 2 * j + 2
<1>1. k \in {0, 1, 2, 3, 4, 5, 6, 7, 8, 9, 10, 11, 12, 13, 14}
  OBVIOUS
<1>2. ASSUME NEW j \in 1 .. 6, k = 2 * j + 1 \/ k = 2 * j + 2
      PROVE  (\E i \in 1 .. 6 : k = 2 * i + 1) \/ (\E i \in 1 .. 6 : k = 2 * i + 2)
  BY <1>2
<1>3. /\ 1 \in 1 .. 6 /\ 2 \in 1 .. 6 /\ 3 \in 1 .. 6
      /\ 4 \in 1 .. 6 /\ 5 \in 1 .. 6 /\ 6 \in 1 .. 6
      /\ 3 = 2 * 1 + 1 /\ 5 = 2 * 2 + 1 /\ 7 = 2 * 3 + 1 /\ 9 = 2 * 4 + 1 /\ 11 = 2 * 5 + 1
      /\ 13 = 2 * 6 + 1 /\ 4 = 2 * 1 + 2 /\ 6 = 2 * 2 + 2 /\ 8 = 2 * 3 + 2 /\ 10 = 2 * 4 + 2
      /\ 12 = 2 * 5 + 2 /\ 14 = 2 * 6 + 2
  OBVIOUS
<1>4. \/ k \in {0, 1, 2}
      \/ k = 2 * 1 + 1 \/ k = 2 * 2 + 1 \/ k = 2 * 3 + 1 \/ k = 2 * 4 + 1 \/ k = 2 * 5 + 1
      \/ k = 2 * 6 + 1 \/ k = 2 * 1 + 2 \/ k = 2 * 2 + 2 \/ k = 2 * 3 + 2 \/ k = 2 * 4 + 2
      \/ k = 2 * 5 + 2 \/ k = 2 * 6 + 2
  BY <1>1
<1> QED BY <1>2, <1>3, <1>4

(* An operation of the plan takes the clock to the next position, or,      *)
(* after the last that sets it, to what was sent.                          *)
LEMMA SettingStep ==
  ASSUME Kinds, ClockTyped, head.chip = "clock", IsStateValid(file.state), file' = file,
         NEW k \in 0 .. 14, Setting(k),
         BusWrites(Head(todo)), todo' = Tail(todo)
  PROVE  \/ \E i \in 0 .. 14 : Setting(i)'
         \/ k = 14 /\ since' = 0 /\ todo' \in Seq(Harmless) /\ Right'
<1> DEFINE t == file.state
<1>1. t \in States
  BY FileIs DEF Kinds
<1>2. PICK op : op = Head(todo)
  OBVIOUS
<1>3. PICK next : next = k + 1
  OBVIOUS
<1>4. op = Plan[next] /\ Left(next)' /\ (k = 14 => todo' \in Seq(Harmless))
  BY <1>2, <1>3, PlanStep DEF Setting
<1>5. PICK v : v = Values(t)
  OBVIOUS
<1>6. PlanIs(Plan, v)
  BY <1>1, <1>5, WholePlan DEF Plan
<1>7. /\ Plan[1] = Op("w", \h0000, \h0A) /\ Plan[2] = Op("w", \h6000, 0)
      /\ Plan[3] = Op("w", \h6000, 1)
      /\ \A j \in 1 .. 6 : /\ Plan[2 * j + 2] = Op("w", \h4000, Chosen[j])
                           /\ Plan[2 * j + 3] = Op("w", \hA000, v[j])
  BY <1>6 DEF PlanIs
<1>8. /\ k >= 1 => regs.on
      /\ \A j \in 1 .. 6 : k \in {2 * j + 2, 2 * j + 3} => regs.rb = Chosen[j]
      /\ \A j \in 1 .. 5 : k >= 2 * j + 3 => clock[Chosen[j] - 7] = v[j]
  BY <1>5 DEF Setting
<1>9. /\ Chosen[1] = 12 /\ Chosen[2] = 8 /\ Chosen[3] = 9 /\ Chosen[4] = 10 /\ Chosen[5] = 11
      /\ Chosen[6] = 12
  BY DEF Chosen
<1>10. \A j \in 1 .. 6 : Chosen[j] \in 8 .. 12
  BY <1>9
<1>11. BusWrites(op) /\ regs \in Registers
  BY <1>2 DEF Kinds
<1>12. ASSUME next \in 0 .. 14,
              next >= 1 => regs'.on,
              \A j \in 1 .. 6 : next \in {2 * j + 2, 2 * j + 3} => regs'.rb = Chosen[j],
              \A j \in 1 .. 5 : next >= 2 * j + 3 => clock'[Chosen[j] - 7] = v[j]
       PROVE  \E i \in 0 .. 14 : Setting(i)'
  <2>1. Values(file.state)' = v
    BY <1>5
  <2>2. Setting(next)'
    BY <1>4, <1>12, <2>1 DEF Setting
  <2> QED BY <1>12, <2>2
<1>13. CASE k = 0
  <2>1. next = 1 /\ regs' = [regs EXCEPT !.on = TRUE] /\ clock' = clock
    BY <1>3, <1>4, <1>7, <1>11, <1>13, ClockBus
  <2>2. regs'.on
    BY <1>11, <2>1 DEF Registers
  <2> QED BY <1>12, <2>1, <2>2
<1>14. CASE k \in {1, 2}
  <2>1. next \in {2, 3} /\ regs' = regs
    BY <1>3, <1>4, <1>7, <1>11, <1>14, ClockBus
  <2> QED BY <1>8, <1>12, <1>14, <2>1
<1>15. ASSUME NEW j \in 1 .. 6, k = 2 * j + 1
       PROVE  \E i \in 0 .. 14 : Setting(i)'
  <2>1. next = 2 * j + 2
    BY <1>3, <1>15
  <2>2. op = Op("w", \h4000, Chosen[j]) /\ Chosen[j] \in 0 .. 12
    BY SMTT(30), <1>4, <1>7, <1>10, <2>1
  <2>3. regs' = [regs EXCEPT !.rb = Chosen[j]] /\ clock' = clock
    BY <1>11, <2>2, ClockBus
  <2>4. regs'.on /\ regs'.rb = Chosen[j]
    <3>1. regs.on
      BY <1>8, <1>15
    <3>2. regs'.on = regs.on /\ regs'.rb = Chosen[j]
      BY <1>11, <2>3 DEF Registers
    <3> QED BY <3>1, <3>2
  <2>5. \A i \in 1 .. 6 : next \in {2 * i + 2, 2 * i + 3} => i = j
    BY <2>1
  <2>6. \A i \in 1 .. 5 : next >= 2 * i + 3 => k >= 2 * i + 3
    BY <1>15, <2>1
  <2> QED BY <1>8, <1>12, <2>1, <2>3, <2>4, <2>5, <2>6
<1>16. ASSUME NEW j \in 1 .. 6, k = 2 * j + 2
       PROVE  \/ \E i \in 0 .. 14 : Setting(i)'
              \/ k = 14 /\ since' = 0 /\ todo' \in Seq(Harmless) /\ Right'
  <2>1. next = 2 * j + 3 /\ regs.on /\ regs.rb = Chosen[j]
    BY <1>3, <1>8, <1>16
  <2>2. op = Op("w", \hA000, v[j]) /\ regs.rb \in 8 .. 12
    BY SMTT(30), <1>4, <1>7, <1>10, <2>1
  <2>3. regs' = regs /\ clock' = [clock EXCEPT ![Chosen[j] - 7] = v[j]] /\ since' = 0
    BY <1>11, <2>1, <2>2, ClockBus
  <2>4. Chosen[j] - 7 \in 1 .. 5 /\ clock \in [1 .. 5 -> Nat]
    <3>1. PICK c : c = Chosen[j]
      OBVIOUS
    <3>2. c \in 8 .. 12
      BY <1>10, <3>1
    <3>3. c - 7 \in 1 .. 5
      BY <3>2
    <3> QED BY <3>1, <3>3 DEF ClockTyped
  <2>5. \A i \in 1 .. 5 : i < j => clock[Chosen[i] - 7] = v[i]
    BY <1>8, <1>16
  <2>6. CASE j # 6
    <3>1. ASSUME NEW i \in 1 .. 5, i <= j
          PROVE  clock'[Chosen[i] - 7] = v[i]
      <4>1. CASE i = j
        BY <2>3, <2>4, <4>1
      <4>2. CASE i # j
        <5>1. Chosen[i] # Chosen[j] /\ Chosen[i] - 7 \in 1 .. 5 /\ i < j
          BY <1>9, <2>6, <3>1, <4>2
        <5>2. Chosen[i] - 7 # Chosen[j] - 7
          <6>1. ASSUME NEW a \in 8 .. 12, NEW b \in 8 .. 12, a # b
                PROVE  a - 7 # b - 7
            BY <6>1
          <6>2. Chosen[i] \in 8 .. 12 /\ Chosen[j] \in 8 .. 12
            <7>1. i \in 1 .. 6
              OBVIOUS
            <7> QED BY <1>10, <7>1
          <6> QED BY <5>1, <6>1, <6>2
        <5> QED BY <2>3, <2>4, <2>5, <5>1, <5>2
      <4> QED BY <4>1, <4>2
    <3>2. next \in 0 .. 14 /\ \A i \in 1 .. 6 : next \in {2 * i + 2, 2 * i + 3} => i = j
      BY <2>1, <2>6
    <3>3. \A i \in 1 .. 5 : next >= 2 * i + 3 => i <= j
      BY <2>1
    <3> QED BY <1>12, <2>1, <2>3, <3>1, <3>2, <3>3
  <2>7. CASE j = 6
    <3>1. todo' \in Seq(Harmless)
      BY <1>4, <1>16, <2>7
    <3>2. PICK r : r = ToRegisters(t)
      OBVIOUS
    <3>3. v[2] = r[1] /\ v[3] = r[2] /\ v[4] = r[3] /\ v[5] = r[4] /\ v[6] = r[5]
      BY <1>5, <3>2 DEF Values
    <3>4. r \in [1 .. 5 -> Nat]
      BY <1>1, <3>2, RegistersAre
    <3>5. clock' = [clock EXCEPT ![5] = r[5]]
      <4>1. Chosen[j] - 7 = 5 /\ v[j] = r[5]
        BY <1>9, <2>7, <3>3
      <4> QED BY <2>3, <4>1
    <3>6. clock[1] = r[1] /\ clock[2] = r[2] /\ clock[3] = r[3] /\ clock[4] = r[4]
      BY <1>9, <2>5, <2>7, <3>3
    <3>7. clock' = r
      <4>1. clock' \in [1 .. 5 -> Nat]
        BY <2>4, <3>4, <3>5
      <4>2. \A i \in 1 .. 5 : clock'[i] = r[i]
        BY <2>4, <3>5, <3>6
      <4> QED BY <3>4, <4>1, <4>2
    <3>8. Later(t, 0) = t
      <4>1. t \in Shows
        BY <1>1, Halts
      <4>2. 0 \in Nat
        OBVIOUS
      <4> QED BY <4>1, <4>2, Ticks
    <3>9. Right'
      BY <2>3, <3>2, <3>7, <3>8 DEF Right
    <3>10. k = 14
      BY <1>16, <2>7
    <3> QED BY <2>3, <3>1, <3>9, <3>10
  <2> QED BY <2>6, <2>7
<1> HIDE DEF t
<1> QED BY <1>13, <1>14, <1>15, <1>16, Positions

(* All that the plan does until the clock is set are writes. *)
LEMMA PlanWrites ==
  ASSUME NEW p, NEW v, PlanIs(p, v), NEW k \in 0 .. 14
  PROVE  p[k + 1].op = "w"
<1>1. /\ p[1] = Op("w", \h0000, \h0A) /\ p[2] = Op("w", \h6000, 0)
      /\ p[3] = Op("w", \h6000, 1)
      /\ \A j \in 1 .. 6 : /\ p[2 * j + 2] = Op("w", \h4000, Chosen[j])
                           /\ p[2 * j + 3] = Op("w", \hA000, v[j])
  BY DEF PlanIs
<1>2. \A a, b : Op("w", a, b).op = "w"
  BY DEF Op
<1>3. CASE k \in {0, 1, 2}
  BY <1>1, <1>2, <1>3
<1>4. ASSUME NEW j \in 1 .. 6, k = 2 * j + 1
      PROVE  p[k + 1].op = "w"
  <2>1. k + 1 = 2 * j + 2
    BY <1>4
  <2> QED BY <1>1, <1>2, <2>1
<1>5. ASSUME NEW j \in 1 .. 6, k = 2 * j + 2
      PROVE  p[k + 1].op = "w"
  <2>1. k + 1 = 2 * j + 3
    BY <1>5
  <2> QED BY <1>1, <1>2, <2>1
<1> QED BY <1>3, <1>4, <1>5, Positions

-----------------------------------------------------------------------------
(* A second goes by: on what was sent, and never while the clock is halted. *)
LEMMA TickShows ==
  ASSUME Kinds, ClockTyped, Tick, IsStateValid(file.state), Right
  PROVE  Right'
<1>1. /\ file' = file /\ since' = since + 1
      /\ clock' = ToRegisters(Later(FromRegisters(clock), 1))
  BY DEF Tick, Steady, fixed
<1>2. file.state \in Shows /\ since \in Nat
  BY FileIs, Halts DEF Kinds, ClockTyped
<1>3. clock = ToRegisters(Later(file.state, since))
  BY DEF Right
<1>4. ToRegisters(Later(FromRegisters(clock), 1)) = ToRegisters(Later(file.state, since + 1))
  BY <1>2, <1>3, Ticks
<1> QED BY <1>1, <1>4 DEF Right

(* A second goes by in the middle of the plan only before it is halted.    *)
LEMMA TickHalted ==
  ASSUME Kinds, Tick, IsStateValid(file.state), NEW k \in 0 .. 14, Setting(k)
  PROVE  Setting(k)'
<1>1. UNCHANGED <<todo, regs, file>> /\ ~FromRegisters(clock).halt
  BY DEF Tick, Steady, fixed, task
<1>2. ~(k >= 5)
  <2>1. SUFFICES ASSUME k >= 5 PROVE FALSE
    OBVIOUS
  <2>2. clock[5] = Values(file.state)[1]
    <3>1. 1 \in 1 .. 5 /\ k >= 2 * 1 + 3 /\ Chosen[1] - 7 = 5
      BY <2>1 DEF Chosen
    <3>2. clock[Chosen[1] - 7] = Values(file.state)[1]
      BY <3>1 DEF Setting
    <3> QED BY <3>1, <3>2
  <2>3. (clock[5] \div 64) % 2 = 1
    BY <2>2, FileIs, Halts DEF Kinds
  <2>4. FromRegisters(clock).halt
    BY <2>3 DEF FromRegisters
  <2> QED BY <1>1, <2>4
<1>3. \A j \in 1 .. 5 : ~(k >= 2 * j + 3)
  BY <1>2
<1>4. Left(k)'
  <2>1. Plan' = Plan
    BY <1>1 DEF Plan
  <2> QED BY <1>1, <2>1 DEF Setting, Left
<1> QED BY <1>1, <1>3, <1>4 DEF Setting

(* Every step keeps what is known of the clock.                            *)
LEMMA ClockStep ==
  ASSUME IInv, SaveInv, ClockInv, Next
  PROVE  Begun' /\ Exact' /\ Reported'
<1> USE DEF Go, Fails, Steady, Error, fixed, marks, time, task
<1>a. Kinds /\ Ended /\ ClockTyped /\ Begun /\ Exact /\ Reported
  BY DEF SaveInv, ClockInv
<1>b. file' = file /\ head' = head
  BY FixedStays
<1>c. /\ pc \notin Late \cup {"cleanup", "idle"} => ~begun
      /\ pc \notin {"cleanup", "idle"} => outcome # "ok"
      /\ pc \in Late => begun /\ IsStateValid(file.state)
      /\ begun => IsStateValid(file.state)
  BY <1>a DEF Ended, Begun
<1>d. ASSUME UNCHANGED <<clock, since>>
      PROVE  Right' = Right
  BY <1>b, <1>d DEF Right
<1>e. ASSUME pc' \notin Late, begun' = begun, UNCHANGED <<clock, since>>,
             (outcome' = outcome \/ outcome' # "ok")
      PROVE  Begun' /\ Exact' /\ Reported'
  <2>1. Begun'
    BY <1>a, <1>b, <1>e DEF Begun
  <2>2. Exact'
    BY <1>e DEF Exact, Late, Sweeping
  <2>3. Reported'
    BY <1>a, <1>b, <1>d, <1>e DEF Reported
  <2> QED BY <2>1, <2>2, <2>3
<1>1. CASE ReadCartInfo \/ Probed \/ OnInfo \/ OnReady \/ EnableRam
  <2>1. /\ pc' \in {"probe", "info", "cleanup", "ready", "crc", "enable", "receive"}
        /\ begun' = begun /\ UNCHANGED <<clock, since>>
        /\ (outcome' = outcome \/ outcome' = "failed")
    BY <1>1 DEF ReadCartInfo, Probed, OnInfo, OnReady, EnableRam
  <2> QED BY <1>e, <2>1 DEF Late, Sweeping
<1>2. CASE ProbeAgain
  <2>1. pc = "probe" /\ pc' = "probeAgain" /\ begun' = begun /\ outcome' = outcome
    BY <1>2 DEF ProbeAgain
  <2> QED BY <1>c, <2>1 DEF Begun, Exact, Reported, Late, Sweeping
<1>3. CASE BusFails
  <2>1. /\ AtBus /\ UNCHANGED <<pc, begun, outcome>> /\ verdict' = "error"
    BY <1>3 DEF BusFails
  <2>2. outcome # "ok"
    BY <1>c, <2>1 DEF AtBus
  <2> QED BY <1>a, <1>b, <2>1, <2>2 DEF Begun, Exact, Reported
<1>4. CASE Bus
  <2>1. /\ AtBus /\ todo # <<>> /\ UNCHANGED <<pc, begun, outcome, verdict>>
    BY <1>4 DEF Bus, AtBus
  <2>2. outcome # "ok"
    BY <1>c, <2>1 DEF AtBus
  <2>3. Begun' /\ Reported'
    BY <1>a, <1>b, <2>1, <2>2 DEF Begun, Reported
  <2>4. ASSUME head.chip = "clock", verdict = "ok", pc = "clock"
        PROVE  (\E k \in 0 .. 14 : Setting(k)') \/ (todo' \in Seq(Harmless) /\ Right')
    <3>1. (\E k \in 0 .. 14 : Setting(k)) \/ (todo \in Seq(Harmless) /\ Right)
      BY <1>a, <2>4 DEF Exact
    <3>2. CASE todo \in Seq(Harmless) /\ Right
      <4>1. Head(todo) \in Harmless /\ Tail(todo) \in Seq(Harmless)
        BY <2>1, <3>2, HeadTailProperties
      <4>2. todo' \in {Tail(todo), Finish}
        BY <1>4 DEF Bus
      <4>3. UNCHANGED <<clock, since>>
        <5>1. CASE Head(todo).op = "w"
          <6>1. Head(todo).address < \h8000 /\ BusWrites(Head(todo))
            BY <1>4, <4>1, <5>1, HarmlessAddress DEF Bus
          <6> QED BY <6>1 DEF BusWrites
        <5>2. CASE Head(todo).op # "w"
          BY <1>4, <5>2 DEF Bus
        <5> QED BY <5>1, <5>2
      <4>4. todo' \in Seq(Harmless)
        BY <4>1, <4>2, FinishHarmless
      <4> QED BY <1>d, <3>2, <4>3, <4>4
    <3>3. ASSUME NEW k \in 0 .. 14, Setting(k)
          PROVE  (\E i \in 0 .. 14 : Setting(i)') \/ (todo' \in Seq(Harmless) /\ Right')
      <4>1. Head(todo) = Plan[k + 1]
        BY <1>a, <1>b, <3>3, PlanStep DEF Setting
      <4>2. Plan[k + 1].op = "w"
        <5>1. PlanIs(Plan, Values(file.state))
          BY <1>a, WholePlan, FileIs DEF Kinds, Plan
        <5> QED BY <5>1, PlanWrites
      <4>3. BusWrites(Head(todo)) /\ todo' = Tail(todo)
        BY <1>4, <4>1, <4>2 DEF Bus
      <4>4. IsStateValid(file.state)
        BY <1>c, <2>4 DEF Late
      <4> QED BY <1>a, <1>b, <2>4, <3>3, <4>3, <4>4, SettingStep
    <3> QED BY <3>1, <3>2, <3>3
  <2>5. Exact'
    <3>1. pc' \notin {"check", "recheck", "settle"} /\ pc' = pc /\ verdict' = verdict
      BY <2>1 DEF AtBus
    <3> QED BY <1>b, <2>4, <3>1 DEF Exact
  <2> QED BY <2>3, <2>5
<1>5. CASE Receive \/ ReceiveOther \/ WriteBlock \/ WriteIsLost \/ VerifyBlock
  <2>1. /\ pc' \in {"write", "receive", "crc", "verify", "cleanup"}
        /\ begun' = begun /\ UNCHANGED <<clock, since>>
        /\ (outcome' = outcome \/ outcome' = "failed")
    BY <1>5 DEF Receive, ReceiveOther, WriteBlock, WriteIsLost, VerifyBlock, NextBank
  <2> QED BY <1>e, <2>1 DEF Late, Sweeping
<1>6. CASE CheckSum
  <2>1. /\ pc = "crc" /\ pc' \in {"cleanup", "ready", "state"}
        /\ begun' = begun /\ UNCHANGED <<clock, since>>
        /\ (outcome' = outcome \/ outcome' = "failed" \/ ~file.rtc)
    BY <1>6 DEF CheckSum, PassDone
  <2>2. ~begun
    BY <1>c, <2>1 DEF Late, Sweeping
  <2>3. CASE (outcome' = outcome \/ outcome' = "failed")
    BY <1>e, <2>1, <2>3 DEF Late, Sweeping
  <2>4. CASE ~file.rtc
    <3>1. Begun'
      BY <2>1, <2>2 DEF Begun, Late, Sweeping
    <3>2. Exact'
      BY <2>1 DEF Exact
    <3>3. Reported'
      BY <1>b, <2>4 DEF Reported
    <3> QED BY <3>1, <3>2, <3>3
  <2> QED BY <2>1, <2>3, <2>4
<1>7. CASE ReceiveState
  <2>1. /\ pc = "state" /\ outcome # "ok" /\ (outcome' = outcome \/ outcome' = "failed")
        /\ pc' \notin {"clock", "check", "recheck", "settle"}
        /\ pc' \in Late => begun'
        /\ begun' => IsStateValid(file.state)
    <3>1. pc = "state" /\ outcome # "ok" /\ pass \in {"validate", "write"}
      BY <1>7, <1>c DEF ReceiveState, IInv, SecondPassIsChecked
    <3> QED BY <1>7, <3>1 DEF ReceiveState, PassDone, Late, Sweeping
  <2> QED BY <1>b, <2>1 DEF Begun, Exact, Reported
<1>8. CASE Snapshot
  <2>1. /\ pc = "snapshot" /\ pc' \in {"snapshot", "clockProbe", "cleanup"}
        /\ begun' = begun /\ (outcome' = outcome \/ outcome' = "failed")
    BY <1>8 DEF Snapshot
  <2>2. outcome # "ok" /\ begun
    BY <1>c, <2>1 DEF Late, Sweeping
  <2>3. Begun'
    BY <1>b, <1>c, <2>1, <2>2 DEF Begun, Late
  <2>4. Exact' /\ Reported'
    BY <2>1, <2>2 DEF Exact, Reported
  <2> QED BY <2>3, <2>4
<1>9. CASE ClockProbed
  <2>1. /\ pc = "clockProbe" /\ begun' = begun /\ outcome' = outcome /\ since' = 0
        /\ \/ pc' = "clock" /\ todo' = Plan
           \/ pc' \in {"check", "settle"} /\ verdict' = "error"
    BY <1>9 DEF ClockProbed, CheckSave, Plan
  <2>2. outcome # "ok" /\ begun /\ IsStateValid(file.state)
    BY <1>c, <2>1 DEF Late, Sweeping
  <2>3. Begun' /\ Reported'
    BY <1>b, <2>1, <2>2 DEF Begun, Reported
  <2>4. CASE pc' = "clock" /\ todo' = Plan
    <3>1. Len(Plan) = 30
      BY <1>a, WholePlan, FileIs DEF Kinds, Plan, PlanIs
    <3>2. Plan' = Plan
      BY <1>b DEF Plan
    <3>3. Left(0)'
      BY <2>4, <3>1, <3>2 DEF Left
    <3>4. Setting(0)'
      BY <3>3 DEF Setting
    <3>5. 0 \in 0 .. 14
      OBVIOUS
    <3> QED BY <2>3, <2>4, <3>4, <3>5 DEF Exact
  <2>5. CASE pc' \in {"check", "settle"} /\ verdict' = "error"
    BY <2>3, <2>5 DEF Exact
  <2> QED BY <2>1, <2>4, <2>5
<1>10. CASE ClockDone
  <2>1. /\ pc = "clock" /\ todo = <<>> /\ begun' = begun /\ outcome' = outcome
        /\ UNCHANGED <<clock, since>>
        /\ pc' \in {"check", "settle"} /\ (verdict' = "ok" => verdict = "ok")
    BY <1>10 DEF ClockDone, CheckSave
  <2>2. outcome # "ok" /\ begun /\ IsStateValid(file.state)
    BY <1>c, <2>1 DEF Late, Sweeping
  <2>3. Begun' /\ Reported'
    BY <1>b, <2>1, <2>2 DEF Begun, Reported
  <2>4. ASSUME head.chip = "clock", verdict = "ok"
        PROVE  Right'
    <3>1. ~\E k \in 0 .. 14 : Setting(k)
      BY <1>a, <1>b, <2>1, PlanStep DEF Setting
    <3> QED BY <1>a, <1>d, <2>1, <2>4, <3>1 DEF Exact
  <2>5. Exact'
    BY <1>b, <2>1, <2>4 DEF Exact
  <2> QED BY <2>3, <2>5
<1>11. CASE Check
  <2>1. /\ pc \in {"check", "recheck"} /\ begun' = begun /\ outcome' = outcome
        /\ UNCHANGED <<clock, since, verdict>>
        /\ pc' \in {"check", "recheck", "recover", "settle"}
    BY <1>11 DEF Check
  <2>2. outcome # "ok" /\ begun
    BY <1>c, <2>1 DEF Late, Sweeping
  <2>3. Begun' /\ Reported'
    BY <1>b, <1>c, <2>1, <2>2 DEF Begun, Reported
  <2>4. Exact'
    BY <1>a, <1>b, <1>d, <2>1 DEF Exact
  <2> QED BY <2>3, <2>4
<1>12. CASE Recover
  <2>1. /\ pc = "recover" /\ begun' = begun /\ outcome' = outcome /\ verdict' = "error"
    BY <1>12 DEF Recover
  <2>2. outcome # "ok" /\ begun
    BY <1>c, <2>1 DEF Late, Sweeping
  <2> QED BY <1>b, <1>c, <2>1, <2>2 DEF Begun, Reported, Exact
<1>13. CASE RtcDone
  <2>1. /\ pc = "settle" /\ pc' = "cleanup" /\ begun' = begun
        /\ UNCHANGED <<clock, since, verdict>> /\ (outcome' = "ok" => verdict = "ok")
    BY <1>13 DEF RtcDone
  <2>2. begun /\ IsStateValid(file.state)
    BY <1>c, <2>1 DEF Late
  <2>3. Begun' /\ Exact'
    BY <1>b, <2>1, <2>2 DEF Begun, Exact
  <2>4. Reported'
    BY <1>a, <1>b, <1>d, <2>1, <2>2 DEF Exact, Reported
  <2> QED BY <2>3, <2>4
<1>14. CASE CallFails \/ Cleanup
  <2>1. /\ pc' \in {"idle", "cleanup"} /\ begun' = begun /\ UNCHANGED <<clock, since>>
        /\ (outcome' = outcome \/ outcome' = "failed")
    BY <1>14 DEF CallFails, Cleanup
  <2> QED BY <1>e, <2>1 DEF Late, Sweeping
<1>15. CASE Tick
  <2>1. /\ UNCHANGED <<pc, outcome, begun, verdict, todo, regs>>
        /\ ~FromRegisters(clock).halt /\ since' = since + 1
        /\ clock' = ToRegisters(Later(FromRegisters(clock), 1))
    BY <1>15 DEF Tick
  <2>2. Begun'
    BY <1>a, <1>b, <2>1 DEF Begun
  <2>4. ASSUME IsStateValid(file.state), Right
        PROVE  Right'
    BY <1>15, <1>a, <2>4, TickShows
  <2>5. Reported'
    BY <1>a, <1>b, <1>c, <2>1, <2>4 DEF Reported
  <2>6. ASSUME pc = "clock", NEW k \in 0 .. 14, Setting(k)
        PROVE  Setting(k)'
    BY <1>15, <1>a, <1>c, <2>6, TickHalted DEF Late
  <2>7. Exact'
    <3>1. ASSUME pc = "clock", head.chip = "clock", verdict = "ok"
          PROVE  (\E k \in 0 .. 14 : Setting(k)') \/ (todo' \in Seq(Harmless) /\ Right')
      <4>1. (\E k \in 0 .. 14 : Setting(k)) \/ (todo \in Seq(Harmless) /\ Right)
        BY <1>a, <3>1 DEF Exact
      <4>2. IsStateValid(file.state)
        BY <1>c, <3>1 DEF Late
      <4> QED BY <2>1, <2>4, <2>6, <3>1, <4>1, <4>2
    <3>2. ASSUME pc \in {"check", "recheck", "settle"}, head.chip = "clock", verdict = "ok"
          PROVE  Right'
      BY <1>a, <1>c, <2>4, <3>2 DEF Exact, Late, Sweeping
    <3> QED BY <1>b, <2>1, <3>1, <3>2 DEF Exact
  <2> QED BY <2>2, <2>5, <2>7
<1> QED BY <1>1, <1>2, <1>3, <1>4, <1>5, <1>6, <1>7, <1>8, <1>9, <1>10, <1>11, <1>12, <1>13,
           <1>14, <1>15 DEF Next

-----------------------------------------------------------------------------
(* The start.                                                              *)
LEMMA ClockInit == ASSUME Init PROVE ClockInv
<1>1. ClockTyped
  <2>1. PICK t \in Clocks : clock = ToRegisters(t)
    BY DEF Init
  <2>2. t \in States
    BY ImportAssumption DEF States
  <2> QED BY <2>1, <2>2, RegistersAre DEF Init, ClockTyped
<1>2. Begun /\ Exact /\ Reported
  BY DEF Init, Begun, Exact, Reported, Late, Sweeping
<1> QED BY <1>1, <1>2 DEF ClockInv

(* With the first two invariants, every step keeps the third.              *)
LEMMA ClockNext == ASSUME IInv, SaveInv, ClockInv, [Next]_vars PROVE ClockInv'
<1>1. CASE Next
  <2>1. ClockTyped'
    BY <1>1, TimeTyped DEF SaveInv, ClockInv
  <2>2. Begun' /\ Exact' /\ Reported'
    BY <1>1, ClockStep
  <2> QED BY <2>1, <2>2 DEF ClockInv
<1>2. CASE UNCHANGED vars
  <2>1. UNCHANGED <<head, file, pc, outcome, begun, verdict, todo, regs, clock, since>>
    BY <1>2 DEF vars, fixed, task, time, marks
  <2>2. Right' = Right /\ ClockTyped' = ClockTyped /\ Begun' = Begun
    BY <2>1 DEF Right, ClockTyped, Begun
  <2>3. Reported' = Reported
    BY <2>1, <2>2 DEF Reported
  <2>4. ASSUME NEW k \in 0 .. 14 PROVE Setting(k)' = Setting(k)
    BY <2>1 DEF Setting, Left, Plan
  <2>5. (\E k \in 0 .. 14 : Setting(k)) <=> (\E k \in 0 .. 14 : Setting(k)')
    BY <2>4
  <2>6. Exact => Exact'
    BY <2>1, <2>2, <2>5 DEF Exact
  <2> QED BY <2>2, <2>3, <2>6 DEF ClockInv
<1> QED BY <1>1, <1>2

(* Every behaviour keeps it.                                               *)
LEMMA ClockInvariance == Spec => []ClockInv
<1>1. Init => ClockInv
  BY ClockInit
<1>2. IInv /\ SaveInv /\ ClockInv /\ [Next]_vars => ClockInv'
  BY ClockNext
<1> QED BY <1>1, <1>2, Invariance, SaveInvariance, PTL DEF Spec

(* An import that reports success left the save and the clock that were    *)
(* sent, whatever failed on the way and however many seconds passed.       *)
THEOREM ImportExact == Spec => []ImportIsExact
<1>1. ASSUME SaveInv, ClockInv, outcome = "ok"
      PROVE  /\ Saved
             /\ file.rtc /\ head.chip = "clock" =>
                  FromRegisters(clock) = Later(file.state, since)
  <2>1. Saved
    BY <1>1 DEF SaveInv, Ended
  <2>2. ASSUME file.rtc, head.chip = "clock"
        PROVE  FromRegisters(clock) = Later(file.state, since)
    <3>1. Right /\ IsStateValid(file.state) /\ since \in Nat
      BY <1>1, <2>2 DEF ClockInv, Reported, Begun, ClockTyped
    <3>2. file.state \in Shows
      BY <1>1, <3>1, FileIs, Halts DEF SaveInv, Kinds
    <3> QED BY <3>1, <3>2, Ticks DEF Right
  <2> QED BY <2>1, <2>2
<1>2. SaveInv /\ ClockInv => ImportIsExact
  BY <1>1 DEF Saved, ImportIsExact
<1> QED BY <1>2, SaveInvariance, ClockInvariance, PTL

-----------------------------------------------------------------------------
(* Without an error.  The latched registers are read by the probes and at  *)
(* the end of the plan; k operations of that are done.                     *)
Look(a) == Latch \o Reads(a) \o Finish
Rest(a, k) == Len(todo) = 15 - k /\ \A i \in 1 .. 15 - k : todo[i] = Look(a)[k + i]
Ahead(a) == Len(todo) = 15 /\ \A i \in 1 .. 15 : todo[i] = Look(a)[i]
Got(k) == IF k < 5 THEN 0 ELSE IF k > 13 THEN 5 ELSE (k - 3) \div 2
Read(k) == /\ seen \in Seq(Nat) /\ Len(seen) = Got(k)
           /\ \A i \in 1 .. Got(k) : seen[i] = latched[i]
Looking(a, k) ==
  /\ Rest(a, k) /\ Read(k)
  /\ k = 2 => latch = 0
  /\ \A j \in 1 .. 5 : k = 2 * j + 2 => regs.rb = 7 + j

(* Registers that show something. *)
Apparent(c) == \E i \in 1 .. 5 : c[i] # 0

(* Nothing fails, the file fits, and the cartridge is what it claims.      *)
Fair == faults = 0 /\ Fits /\ head.chip # "ram"

(* Then nothing goes wrong with the save. *)
Sound ==
  /\ outcome # "failed" /\ verdict = "ok" /\ good /\ ~mismatch
  /\ pc \notin {"recover", "recheck"}
  /\ hasRtc <=> head.chip = "clock"
  /\ pc \in {"probe", "probeAgain"} => head.chip = "clock"
  /\ pc = "state" \/ pc \in Late => file.rtc
  /\ pc = "verify" => mem[n] = block
  /\ pc \in {"clock", "check"} => Saved

(* Nor with the clock: it is found, shows more than zeros once it was, and *)
(* when it is read back shows what was sent, or a second more.             *)
Awake(k) == k >= 3 => /\ Apparent(latched) => Apparent(clock)
                      /\ pc # "probe" => Apparent(latched)
Known == {"probeAgain", "info", "ready", "enable", "receive", "write", "verify", "crc",
          "state", "snapshot", "clockProbe"}
Fresh(k) == k >= 3 => \E j \in {0, 1} : latched = ToRegisters(Later(file.state, j))
Seeking == \E k \in 0 .. 15 : Looking(\hA880, k) /\ Awake(k)
Checking == Right /\ since <= 1 /\ \E k \in 0 .. 15 : Looking(\hA000, k) /\ Fresh(k)
Clear ==
  /\ pc = "header" => seen = <<>>
  /\ pc = "snapshot" => todo = Probe /\ seen = <<>>
  /\ pc \in Probing => Seeking
  /\ pc \in Known => Apparent(clock)
  /\ pc = "clock" => Checking \/ (seen = <<>> /\ \E k \in 0 .. 14 : Setting(k))

FairInv == /\ faults \in Nat /\ latched \in [1 .. 5 -> Nat]
           /\ Fair => Sound
           /\ Fair /\ head.chip = "clock" => Clear

-----------------------------------------------------------------------------
(* Each of the five registers is chosen and then read; a look as a list.  *)
Chooses(j) == Op("w", \h4000, 7 + j)
Picks(l) == \A j \in 1 .. 5 : l[2 * j + 2] = Chooses(j) /\ l[2 * j + 3].op = "r"
LookIs(l) ==
  /\ l \in Seq(BusOps) /\ Len(l) = 15
  /\ l[1] = Op("w", \h0000, \h0A) /\ l[2] = Op("w", \h6000, 0) /\ l[3] = Op("w", \h6000, 1)
  /\ Picks(l)
  /\ l[14] = Op("w", \h4000, 0) /\ l[15] = Op("w", \h0000, 0)

(* The parts of a look at the registers. *)
LEMMA LookParts ==
  ASSUME NEW a \in Nat, NEW l, l = Look(a)
  PROVE  /\ Ops(l, 15)
         /\ \A i \in 1 .. 3 : l[i] = Latch[i]
         /\ \A i \in 4 .. 13 : l[i] = Reads(a)[i - 3]
         /\ \A i \in 14 .. 15 : l[i] = Finish[i - 13]
<1>1. PICK x, y, z : x = Latch /\ y = Reads(a) /\ z = Finish
  OBVIOUS
<1>2. Ops(x, 3) /\ Ops(y, 10) /\ Ops(z, 2)
  <2>1. Len(x) = 3 /\ Len(z) = 2 /\ Len(y) = 10
    BY <1>1 DEF Latch, Finish, Reads
  <2> QED BY <1>1, <2>1, ReadsOps, LatchOps DEF Ops
<1>3. PICK b : b = x \o y
  OBVIOUS
<1>4. l = b \o z
  BY <1>1, <1>3 DEF Look
<1>5. 3 \in Nat /\ 10 \in Nat /\ 13 \in Nat /\ 2 \in Nat
  OBVIOUS
<1>6. Ops(b, 13) /\ (\A i \in 1 .. 3 : b[i] = x[i]) /\ (\A i \in 4 .. 13 : b[i] = y[i - 3])
  <2>1. Follows(b, x, 3, y, 10)
    BY <1>2, <1>3, <1>5, Appended
  <2>2. 3 + 10 = 13 /\ 3 + 1 = 4
    OBVIOUS
  <2> QED BY <2>1, <2>2 DEF Follows
<1>7. Ops(l, 15) /\ (\A i \in 1 .. 13 : l[i] = b[i]) /\ (\A i \in 14 .. 15 : l[i] = z[i - 13])
  <2>1. Follows(l, b, 13, z, 2)
    BY <1>2, <1>4, <1>5, <1>6, Appended
  <2>2. 13 + 2 = 15 /\ 13 + 1 = 14
    OBVIOUS
  <2> QED BY <2>1, <2>2 DEF Follows
<1>8. (\A i \in 1 .. 3 : l[i] = x[i]) /\ (\A i \in 4 .. 13 : l[i] = y[i - 3])
  <2>1. \A i \in 1 .. 3 : l[i] = b[i]
    BY <1>7
  <2>2. \A i \in 4 .. 13 : l[i] = b[i]
    BY <1>7
  <2> QED BY <1>6, <2>1, <2>2
<1> QED BY <1>1, <1>7, <1>8

(* A look selects the registers one by one and reads each. *)
LEMMA LookShape ==
  ASSUME NEW a \in Nat
  PROVE  LookIs(Look(a))
<1>1. PICK l : l = Look(a)
  OBVIOUS
<1>2. /\ Ops(l, 15)
      /\ \A i \in 1 .. 3 : l[i] = Latch[i]
      /\ \A i \in 4 .. 13 : l[i] = Reads(a)[i - 3]
      /\ \A i \in 14 .. 15 : l[i] = Finish[i - 13]
  BY <1>1, LookParts
<1>3. l[1] = Latch[1] /\ l[2] = Latch[2] /\ l[3] = Latch[3]
  BY <1>2
<1>4. l[14] = Finish[1] /\ l[15] = Finish[2]
  <2>1. l[14] = Finish[14 - 13] /\ l[15] = Finish[15 - 13]
    BY <1>2
  <2>2. 14 - 13 = 1 /\ 15 - 13 = 2
    OBVIOUS
  <2> QED BY <2>1, <2>2
<1>5. ASSUME NEW j \in 1 .. 5
      PROVE  l[2 * j + 2] = Chooses(j) /\ l[2 * j + 3].op = "r"
  <2>1. /\ 2 * j + 2 \in 4 .. 13 /\ 2 * j + 3 \in 4 .. 13
        /\ (2 * j + 2) - 3 = 2 * j - 1 /\ (2 * j + 3) - 3 = 2 * j
    OBVIOUS
  <2>2. l[2 * j + 2] = Reads(a)[2 * j - 1] /\ l[2 * j + 3] = Reads(a)[2 * j]
    BY <1>2, <2>1
  <2>3. /\ 2 * j - 1 \in 1 .. 10 /\ (2 * j - 1) % 2 = 1 /\ 8 + ((2 * j - 1) \div 2) = 7 + j
        /\ 2 * j \in 1 .. 10 /\ (2 * j) % 2 # 1
    OBVIOUS
  <2>4. Reads(a)[2 * j - 1] = Op("w", \h4000, 8 + ((2 * j - 1) \div 2))
    BY <2>3 DEF Reads
  <2>5. Reads(a)[2 * j].op = "r"
    BY <2>3 DEF Reads, Op
  <2> QED BY <2>2, <2>3, <2>4, <2>5 DEF Chooses
<1>6. /\ Latch[1] = Op("w", \h0000, \h0A) /\ Latch[2] = Op("w", \h6000, 0)
      /\ Latch[3] = Op("w", \h6000, 1)
      /\ Finish[1] = Op("w", \h4000, 0) /\ Finish[2] = Op("w", \h0000, 0)
  BY DEF Latch, Finish
<1>7. Picks(l)
  BY Zenon, <1>5 DEF Picks
<1> QED BY <1>1, <1>2, <1>3, <1>4, <1>6, <1>7 DEF LookIs, Ops

(* The plan that sets the clock ends with one. *)
LEMMA PlanCloses ==
  ASSUME NEW t \in States, NEW p, p = WriteAndVerify(t)
  PROVE  \A i \in 1 .. 15 : p[15 + i] = Look(\hA000)[i]
<1>1. PICK x, y, z, set : x = Latch /\ y = Reads(\hA000) /\ z = Finish /\ set = SetClock(t)
  OBVIOUS
<1>2. Ops(x, 3) /\ Ops(y, 10) /\ Ops(z, 2) /\ Ops(set, 12)
  <2>1. Len(x) = 3 /\ Len(z) = 2 /\ Len(y) = 10 /\ \hA000 \in Nat
    BY <1>1 DEF Latch, Finish, Reads
  <2>2. Ops(set, 12)
    BY <1>1, SetClockIs DEF SetsInOrder, Ops
  <2> QED BY <1>1, <2>1, <2>2, ReadsOps, LatchOps DEF Ops
<1>3. PICK a : a = x \o set
  OBVIOUS
<1>4. PICK b : b = a \o x
  OBVIOUS
<1>5. PICK c : c = b \o y
  OBVIOUS
<1>6. p = c \o z
  BY <1>1, <1>3, <1>4, <1>5 DEF WriteAndVerify
<1>7. /\ 3 \in Nat /\ 12 \in Nat /\ 15 \in Nat /\ 18 \in Nat /\ 10 \in Nat /\ 28 \in Nat
      /\ 2 \in Nat
  OBVIOUS
<1>8. Ops(a, 15)
  <2>1. Follows(a, x, 3, set, 12)
    BY <1>2, <1>3, <1>7, Appended
  <2> QED BY <2>1 DEF Follows
<1>9. Ops(b, 18) /\ \A i \in 16 .. 18 : b[i] = x[i - 15]
  <2>1. Follows(b, a, 15, x, 3)
    BY <1>2, <1>4, <1>7, <1>8, Appended
  <2>2. 15 + 3 = 18 /\ 15 + 1 = 16
    OBVIOUS
  <2> QED BY <2>1, <2>2 DEF Follows
<1>10. /\ Ops(c, 28) /\ \A i \in 1 .. 18 : c[i] = b[i]
       /\ \A i \in 19 .. 28 : c[i] = y[i - 18]
  <2>1. Follows(c, b, 18, y, 10)
    BY <1>2, <1>5, <1>7, <1>9, Appended
  <2>2. 18 + 10 = 28 /\ 18 + 1 = 19
    OBVIOUS
  <2> QED BY <2>1, <2>2 DEF Follows
<1>11. (\A i \in 1 .. 28 : p[i] = c[i]) /\ (\A i \in 29 .. 30 : p[i] = z[i - 28])
  <2>1. Follows(p, c, 28, z, 2)
    BY SMTT(30), <1>2, <1>6, <1>7, <1>10, Appended
  <2>2. 28 + 2 = 30 /\ 28 + 1 = 29
    OBVIOUS
  <2> QED BY <2>1, <2>2 DEF Follows
<1>12. PICK l : l = Look(\hA000)
  OBVIOUS
<1>13. /\ \A i \in 1 .. 3 : l[i] = x[i]
       /\ \A i \in 4 .. 13 : l[i] = y[i - 3]
       /\ \A i \in 14 .. 15 : l[i] = z[i - 13]
  <2>1. \hA000 \in Nat
    OBVIOUS
  <2> QED BY <1>1, <1>12, <2>1, LookParts
<1>14. ASSUME NEW i \in 1 .. 15
       PROVE  p[15 + i] = l[i]
  <2>1. CASE i \in 1 .. 3
    <3>1. 15 + i \in 1 .. 28 /\ 15 + i \in 1 .. 18 /\ 15 + i \in 16 .. 18 /\ (15 + i) - 15 = i
      BY <2>1
    <3>2. p[15 + i] = c[15 + i] /\ c[15 + i] = b[15 + i] /\ b[15 + i] = x[i]
      BY <1>9, <1>10, <1>11, <3>1
    <3> QED BY <1>13, <2>1, <3>2
  <2>2. CASE i \in 4 .. 13
    <3>1. 15 + i \in 1 .. 28 /\ 15 + i \in 19 .. 28 /\ (15 + i) - 18 = i - 3
      BY <2>2
    <3>2. p[15 + i] = c[15 + i] /\ c[15 + i] = y[i - 3]
      BY <1>10, <1>11, <3>1
    <3> QED BY <1>13, <2>2, <3>2
  <2>3. CASE i \in 14 .. 15
    <3>1. 15 + i \in 29 .. 30 /\ (15 + i) - 28 = i - 13
      BY <2>3
    <3>2. p[15 + i] = z[i - 13]
      BY <1>11, <3>1
    <3> QED BY <1>13, <2>3, <3>2
  <2> QED BY <2>1, <2>2, <2>3
<1> QED BY <1>12, <1>14

-----------------------------------------------------------------------------
(* An operation of a look. *)
LEMMA RestStep ==
  ASSUME Kinds, NEW a, NEW k \in 0 .. 14, Rest(a, k)
  PROVE  /\ todo # <<>> /\ Head(todo) = Look(a)[k + 1]
         /\ todo' = Tail(todo) => Rest(a, k + 1)'
<1>1. PICK l : l = Look(a)
  OBVIOUS
<1>2. todo \in Seq(BusOps) /\ Len(todo) = 15 - k /\ \A i \in 1 .. 15 - k : todo[i] = l[k + i]
  BY <1>1 DEF Kinds, Rest
<1>3. 1 \in 1 .. 15 - k /\ 15 - k > 0
  OBVIOUS
<1>4. todo # <<>> /\ Head(todo) = todo[1] /\ todo[1] = l[k + 1]
  BY <1>2, <1>3
<1>5. ASSUME todo' = Tail(todo)
      PROVE  Rest(a, k + 1)'
  <2>1. PICK new : new = Tail(todo)
    OBVIOUS
  <2>2. /\ new \in Seq(BusOps) /\ Len(new) = Len(todo) - 1
        /\ \A i \in 1 .. Len(new) : new[i] = todo[i + 1]
    BY <1>2, <1>4, <2>1, HeadTailProperties
  <2>3. Len(new) = 15 - (k + 1)
    BY <1>2, <2>2
  <2>4. ASSUME NEW i \in 1 .. 15 - (k + 1)
        PROVE  new[i] = l[(k + 1) + i]
    <3>1. i \in 1 .. Len(new) /\ i + 1 \in 1 .. 15 - k /\ k + (i + 1) = (k + 1) + i
      BY <2>3
    <3>2. new[i] = todo[i + 1] /\ todo[i + 1] = l[k + (i + 1)]
      BY <1>2, <2>2, <3>1
    <3> QED BY <3>1, <3>2
  <2> QED BY <1>1, <1>5, <2>1, <2>3, <2>4 DEF Rest
<1> QED BY <1>1, <1>4, <1>5

(* The kinds of positions in one. *)
LEMMA Places ==
  ASSUME NEW k \in 0 .. 14
  PROVE  \/ k \in {0, 1, 2, 13, 14}
         \/ \E j \in 1 .. 5 : k = 2 * j + 1
         \/ \E j \in 1 .. 5 : k = 2 * j + 2
<1>1. k \in {0, 1, 2, 3, 4, 5, 6, 7, 8, 9, 10, 11, 12, 13, 14}
  OBVIOUS
<1>2. /\ 1 \in 1 .. 5 /\ 2 \in 1 .. 5 /\ 3 \in 1 .. 5 /\ 4 \in 1 .. 5 /\ 5 \in 1 .. 5
      /\ 3 = 2 * 1 + 1 /\ 5 = 2 * 2 + 1 /\ 7 = 2 * 3 + 1 /\ 9 = 2 * 4 + 1 /\ 11 = 2 * 5 + 1
      /\ 4 = 2 * 1 + 2 /\ 6 = 2 * 2 + 2 /\ 8 = 2 * 3 + 2 /\ 10 = 2 * 4 + 2 /\ 12 = 2 * 5 + 2
  OBVIOUS
<1>3. \/ k \in {0, 1, 2, 13, 14}
      \/ k = 3 \/ k = 5 \/ k = 7 \/ k = 9 \/ k = 11
      \/ k = 4 \/ k = 6 \/ k = 8 \/ k = 10 \/ k = 12
  BY <1>1
<1> QED BY <1>2, <1>3

(* How many registers each position has read. *)
LEMMA GotIs ==
  /\ \A k \in 0 .. 4 : Got(k) = 0
  /\ Got(13) = 5 /\ Got(14) = 5 /\ Got(15) = 5
  /\ \A j \in 1 .. 5 : /\ Got(2 * j + 1) = j - 1 /\ Got(2 * j + 2) = j - 1
                       /\ Got(2 * j + 3) = j
<1>1. \A k \in 0 .. 4 : Got(k) = 0
  BY DEF Got
<1>2. Got(13) = 5 /\ Got(14) = 5 /\ Got(15) = 5
  BY DEF Got
<1>3. Got(5) = 1 /\ Got(6) = 1 /\ Got(7) = 2 /\ Got(8) = 2 /\ Got(9) = 3 /\ Got(10) = 3
      /\ Got(11) = 4 /\ Got(12) = 4 /\ Got(3) = 0 /\ Got(4) = 0
  BY DEF Got
<1>4. ASSUME NEW j \in 1 .. 5
      PROVE  /\ Got(2 * j + 1) = j - 1 /\ Got(2 * j + 2) = j - 1
             /\ Got(2 * j + 3) = j
  <2>1. j \in {1, 2, 3, 4, 5}
    OBVIOUS
  <2> QED BY <1>2, <1>3, <2>1
<1> QED BY <1>1, <1>2, <1>4

(* Writes to the mapper's registers leave all else; one to the latch takes *)
(* the clock's registers when it follows a zero.                           *)
LEMMA LatchBus ==
  ASSUME Kinds, head.chip = "clock", NEW w, w.address < \h8000, BusWrites(w)
  PROVE  /\ UNCHANGED <<mem, clock, since>> /\ regs' = ChipWrite(cart, regs, w)
         /\ w.address # \h6000 => UNCHANGED <<latch, latched>>
         /\ w.address = \h6000 =>
              /\ latch' = w.value
              /\ latched' = IF w.value = 1 /\ latch = 0 THEN clock ELSE latched
BY DEF BusWrites

(* What is read is what was latched. *)
LEMMA ReadStep ==
  ASSUME latched \in [1 .. 5 -> Nat], latched' = latched, NEW j \in 1 .. 5,
         Read(2 * j + 2), seen' = Append(seen, latched[j])
  PROVE  Read(2 * j + 3)'
<1>1. PICK s, v, len : s = seen /\ v = latched[j] /\ len = j - 1
  OBVIOUS
<1>2. s \in Seq(Nat) /\ Len(s) = len /\ \A i \in 1 .. len : s[i] = latched[i]
  BY <1>1, GotIs DEF Read
<1>3. v \in Nat /\ len \in Nat /\ len + 1 = j
  BY <1>1
<1>4. PICK new : new = Append(s, v)
  OBVIOUS
<1>5. /\ new \in Seq(Nat) /\ Len(new) = len + 1 /\ new[len + 1] = v
      /\ \A i \in 1 .. len : new[i] = s[i]
  BY SMTT(30), <1>2, <1>3, <1>4, AppendProperties
<1>6. \A i \in 1 .. j : new[i] = latched[i]
  <2>1. \A i \in 1 .. j : i \in 1 .. len \/ i = len + 1
    BY <1>3
  <2> QED BY <1>1, <1>2, <1>3, <1>5, <2>1
<1>7. seen' = new
  BY <1>1, <1>4
<1> QED BY <1>3, <1>5, <1>6, <1>7, GotIs DEF Read

-----------------------------------------------------------------------------
(* What does not read leaves what was read. *)
LEMMA ReadKept ==
  ASSUME NEW k \in 0 .. 14, Read(k), seen' = seen, Got(k + 1) = Got(k),
         latched' = latched \/ Got(k) = 0
  PROVE  Read(k + 1)'
<1>1. PICK g : g = Got(k)
  OBVIOUS
<1>2. seen \in Seq(Nat) /\ Len(seen) = g /\ \A i \in 1 .. g : seen[i] = latched[i]
  BY <1>1 DEF Read
<1>3. \A i \in 1 .. g : seen[i] = latched'[i]
  BY <1>1, <1>2
<1> QED BY <1>1, <1>2, <1>3 DEF Read

(* One operation takes a look to the next. *)
LEMMA LookStep ==
  ASSUME Kinds, head.chip = "clock", latched \in [1 .. 5 -> Nat], Bus,
         NEW a \in Nat, NEW k \in 0 .. 14, Looking(a, k)
  PROVE  /\ Looking(a, k + 1)' /\ UNCHANGED <<mem, clock, since>>
         /\ latched' = IF k = 2 THEN clock ELSE latched
<1>1. PICK l : l = Look(a)
  OBVIOUS
<1>2. LookIs(l)
  BY <1>1, LookShape
<1>3. PICK op : op = Head(todo)
  OBVIOUS
<1>4. PICK next : next = k + 1
  OBVIOUS
<1>5. op = l[next] /\ todo # <<>> /\ (todo' = Tail(todo) => Rest(a, next)')
  BY <1>1, <1>3, <1>4, RestStep DEF Looking
<1>6. Read(k) /\ (k = 2 => latch = 0) /\ \A j \in 1 .. 5 : k = 2 * j + 2 => regs.rb = 7 + j
  BY DEF Looking
<1>7. op.op = "w" => BusWrites(op) /\ todo' = Tail(todo) /\ seen' = seen
  BY <1>3 DEF Bus
<1>8. \A x, v : /\ Op("w", x, v).op = "w" /\ Op("w", x, v).address = x
                /\ Op("w", x, v).value = v
  BY DEF Op
<1>9. regs \in Registers
  BY DEF Kinds
<1>10. ASSUME Rest(a, next)', Read(next)', next = 2 => latch' = 0,
              \A j \in 1 .. 5 : next = 2 * j + 2 => regs'.rb = 7 + j
       PROVE  Looking(a, k + 1)'
  BY <1>4, <1>10 DEF Looking
<1>11. CASE k = 0
  <2>1. op = Op("w", \h0000, \h0A) /\ next = 1
    BY <1>2, <1>4, <1>5, <1>11 DEF LookIs
  <2>2. UNCHANGED <<mem, clock, since, latch, latched>> /\ todo' = Tail(todo) /\ seen' = seen
    BY <1>7, <1>8, <2>1, LatchBus
  <2>3. Read(next)'
    BY <1>4, <1>6, <1>11, <2>2, ReadKept, GotIs
  <2> QED BY <1>5, <1>10, <1>11, <2>1, <2>2, <2>3
<1>12. CASE k = 1
  <2>1. op = Op("w", \h6000, 0) /\ next = 2
    BY <1>2, <1>4, <1>5, <1>12 DEF LookIs
  <2>2. UNCHANGED <<mem, clock, since, latched>> /\ latch' = 0 /\ todo' = Tail(todo)
        /\ seen' = seen
    BY <1>7, <1>8, <2>1, LatchBus
  <2>3. Read(next)'
    BY <1>4, <1>6, <1>12, <2>2, ReadKept, GotIs
  <2> QED BY <1>5, <1>10, <1>12, <2>1, <2>2, <2>3
<1>13. CASE k = 2
  <2>1. op = Op("w", \h6000, 1) /\ next = 3
    BY <1>2, <1>4, <1>5, <1>13 DEF LookIs
  <2>2. UNCHANGED <<mem, clock, since>> /\ latched' = clock /\ todo' = Tail(todo)
        /\ seen' = seen
    BY <1>6, <1>7, <1>8, <1>13, <2>1, LatchBus
  <2>3. Read(next)'
    BY <1>4, <1>6, <1>13, <2>2, ReadKept, GotIs
  <2> QED BY <1>5, <1>10, <1>13, <2>1, <2>2, <2>3
<1>14. ASSUME NEW j \in 1 .. 5, k = 2 * j + 1
       PROVE  Looking(a, k + 1)' /\ UNCHANGED <<mem, clock, since, latched>>
  <2>1. next = 2 * j + 2
    BY <1>4, <1>14
  <2>2. op = Op("w", \h4000, 7 + j) /\ 7 + j \in 0 .. 12
    <3>1. l[2 * j + 2] = Op("w", \h4000, 7 + j)
      <4>1. Picks(l)
        BY <1>2 DEF LookIs
      <4>2. l[2 * j + 2] = Chooses(j)
        BY Zenon, <4>1 DEF Picks
      <4> QED BY <4>2 DEF Chooses
    <3>2. op = l[2 * j + 2]
      BY <1>5, <2>1
    <3> QED BY <3>1, <3>2
  <2>3. BusWrites(op) /\ todo' = Tail(todo) /\ seen' = seen
    BY <1>7, <1>8, <2>2
  <2>4. UNCHANGED <<mem, clock, since, latched>> /\ regs'.rb = 7 + j
    <3>1. PICK r \in 0 .. 12 : r = 7 + j
      BY <2>2
    <3>2. BusWrites(Op("w", \h4000, r))
      BY <2>2, <2>3, <3>1
    <3>3. UNCHANGED <<mem, clock, since, latched>>
      BY <1>8, <3>2, LatchBus
    <3>4. regs' = [regs EXCEPT !.rb = r]
      BY <3>2, ClockBus
    <3> QED BY <1>9, <3>1, <3>3, <3>4 DEF Registers
  <2>5. Read(next)'
    <3>1. Got(k + 1) = Got(k)
      BY <1>4, <1>14, <2>1, GotIs
    <3> QED BY <1>4, <1>6, <2>3, <2>4, <3>1, ReadKept
  <2>6. \A i \in 1 .. 5 : next = 2 * i + 2 => i = j
    BY <2>1
  <2>7. next # 2
    BY <2>1
  <2> QED BY <1>5, <1>10, <2>3, <2>4, <2>5, <2>6, <2>7
<1>15. ASSUME NEW j \in 1 .. 5, k = 2 * j + 2
       PROVE  Looking(a, k + 1)' /\ UNCHANGED <<mem, clock, since, latched>>
  <2>1. next = 2 * j + 3 /\ regs.rb = 7 + j /\ regs.rb \in 8 .. 12 /\ regs.rb - 7 = j
    BY <1>4, <1>6, <1>15
  <2>2. op.op = "r"
    <3>1. Picks(l)
      BY <1>2 DEF LookIs
    <3>2. l[2 * j + 3].op = "r"
      BY Zenon, <3>1 DEF Picks
    <3>3. op = l[2 * j + 3]
      BY <1>5, <2>1
    <3> QED BY <3>2, <3>3
  <2>3. PICK v : v = latched[j]
    OBVIOUS
  <2>4. \A x : Looks(x) = {v}
    BY <2>1, <2>3 DEF Looks
  <2>5. v \in Nat /\ v # -1
    BY <2>3
  <2>6. /\ seen' = Append(seen, v) /\ todo' = Tail(todo)
        /\ UNCHANGED <<mem, clock, since, latched>>
    <3>1. "r" # "w"
      OBVIOUS
    <3>2. \E value \in Looks(op.address) :
             /\ seen' = Append(seen, value)
             /\ todo' = IF value = -1 THEN Finish ELSE Tail(todo)
             /\ UNCHANGED <<regs, mem, clock, latched, latch, since>>
      BY <1>3, <2>2, <3>1 DEF Bus
    <3> QED BY <2>4, <2>5, <3>2
  <2>7. Read(next)'
    BY <1>6, <1>15, <2>1, <2>3, <2>6, ReadStep
  <2>8. next # 2 /\ \A i \in 1 .. 5 : next # 2 * i + 2
    BY <2>1
  <2> QED BY <1>5, <1>10, <2>6, <2>7, <2>8
<1>16. CASE k \in {13, 14}
  <2>1. next \in {14, 15} /\ \E x \in {\h4000, \h0000} : op = Op("w", x, 0)
    <3>1. l[14] = Op("w", \h4000, 0) /\ l[15] = Op("w", \h0000, 0)
      BY <1>2 DEF LookIs
    <3>2. next \in {14, 15}
      BY <1>4, <1>16
    <3> QED BY <1>5, <3>1, <3>2
  <2>2. UNCHANGED <<mem, clock, since, latched>> /\ todo' = Tail(todo) /\ seen' = seen
    BY <1>7, <1>8, <2>1, LatchBus
  <2>3. Read(next)'
    <3>1. Got(k + 1) = Got(k)
      <4>1. k + 1 \in {14, 15}
        BY <1>16
      <4> QED BY <1>16, <4>1, GotIs
    <3> QED BY <1>4, <1>6, <2>2, <3>1, ReadKept
  <2>4. next # 2 /\ \A i \in 1 .. 5 : next # 2 * i + 2
    BY <2>1
  <2> QED BY <1>5, <1>10, <1>16, <2>2, <2>3, <2>4
<1>17. \A j \in 1 .. 5 : 2 * j + 1 # 2 /\ 2 * j + 2 # 2
  OBVIOUS
<1> QED BY <1>11, <1>12, <1>13, <1>14, <1>15, <1>16, <1>17, Places

(* At the end of a look every register was read. *)
LEMMA LookDone ==
  ASSUME latched \in [1 .. 5 -> Nat], todo = <<>>, NEW a, NEW k \in 0 .. 15, Looking(a, k)
  PROVE  /\ k = 15 /\ ~Missing /\ (Unconfirmed <=> ~Apparent(latched))
         /\ FromRegisters(seen) = FromRegisters(latched)
<1>1. Len(todo) = 15 - k /\ Len(todo) = 0
  BY DEF Looking, Rest
<1>2. k = 15
  BY <1>1
<1>3. seen \in Seq(Nat) /\ Len(seen) = 5 /\ \A i \in 1 .. 5 : seen[i] = latched[i]
  BY <1>2, GotIs DEF Looking, Read
<1>4. DOMAIN seen = 1 .. 5
  BY <1>3
<1>5. ~Missing
  <2>1. \A i \in 1 .. 5 : seen[i] \in Nat
    BY <1>3
  <2> QED BY SMTT(30), <1>4, <2>1 DEF Missing
<1>6. Unconfirmed <=> ~Apparent(latched)
  BY <1>3, <1>4 DEF Unconfirmed, Apparent
<1>7. FromRegisters(seen) = FromRegisters(latched)
  <2>1. /\ seen[1] = latched[1] /\ seen[2] = latched[2] /\ seen[3] = latched[3]
        /\ seen[4] = latched[4] /\ seen[5] = latched[5]
    BY <1>3
  <2> QED BY Zenon, <2>1 DEF FromRegisters
<1> QED BY <1>2, <1>5, <1>6, <1>7

(* A look begins. *)
LEMMA LookBegins ==
  ASSUME NEW a \in Nat, Ahead(a)', seen' = <<>>
  PROVE  Looking(a, 0)'
<1>1. \A i \in 1 .. 15 - 0 : i \in 1 .. 15 /\ 0 + i = i
  OBVIOUS
<1>2. Rest(a, 0)'
  BY <1>1 DEF Rest, Ahead
<1>3. Read(0)'
  BY DEF Read, Got
<1> QED BY <1>2, <1>3 DEF Looking

(* A probe is one. *)
LEMMA ProbeBegins ==
  ASSUME todo' = Probe, seen' = <<>>
  PROVE  Seeking'
<1>1. PICK a \in Nat : a = \hA880
  OBVIOUS
<1>2. todo' = Look(a)
  BY <1>1 DEF Probe, Look
<1>3. Len(todo') = 15
  BY <1>2, LookParts DEF Ops
<1>4. Ahead(a)'
  BY <1>2, <1>3 DEF Ahead
<1>5. Looking(a, 0)'
  BY <1>4, LookBegins
<1>6. Awake(0)'
  BY DEF Awake
<1>7. 0 \in 0 .. 15
  OBVIOUS
<1> QED BY <1>1, <1>5, <1>6, <1>7 DEF Seeking

(* A clock that has run for a second does not show zeros: it sets its carry *)
(* when it comes to that.                                                  *)
LEMMA NotZero ==
  ASSUME NEW r \in [1 .. 5 -> Nat]
  PROVE  Apparent(ToRegisters(Later(FromRegisters(r), 1)))
<1>1. PICK t : t = FromRegisters(r)
  OBVIOUS
<1>2. t \in States
  BY <1>1, ClockIs
<1>3. CASE t.halt
  <2>1. Later(t, 1) = t
    BY <1>3 DEF Later
  <2>2. ToRegisters(t)[5] = t.d \div 256 + Bit(t.halt, 64) + Bit(t.carry, 128)
    BY DEF ToRegisters
  <2>3. t.d \div 256 \in Nat /\ Bit(t.halt, 64) = 64 /\ Bit(t.carry, 128) \in Nat
    BY <1>2, <1>3 DEF States, Bit
  <2>4. ToRegisters(t)[5] # 0
    BY <2>2, <2>3
  <2>5. 5 \in 1 .. 5
    OBVIOUS
  <2> QED BY <1>1, <2>1, <2>4, <2>5 DEF Apparent
<1>4. CASE ~t.halt
  <2>1. PICK total : total = ((t.d * 24 + t.h) * 60 + t.m) * 60 + t.s + 1
    OBVIOUS
  <2>2. total \in Nat /\ total >= 1
    BY <1>2, <2>1 DEF States
  <2>3. PICK q, d, h, m, s : Apart(total, q, d, h, m, s)
    BY <2>2, IsApart
  <2>4. Told(total, q, d, h, m, s)
    BY <2>3, Digits
  <2>5. PICK u : u = Later(t, 1)
    OBVIOUS
  <2>6. u.s = s /\ u.m = m /\ u.h = h /\ u.d = d /\ u.halt = t.halt
        /\ u.carry = (t.carry \/ total >= 512 * Day)
    <3>1. u = [t EXCEPT !.s = total % 60, !.m = (total \div 60) % 60,
                        !.h = (total \div 3600) % 24, !.d = (total \div Day) % 512,
                        !.carry = @ \/ total >= 512 * Day]
      BY <1>4, <2>1, <2>5 DEF Later
    <3> QED BY <1>2, <2>4, <3>1 DEF Told, States
  <2>7. /\ ToRegisters(u)[1] = s /\ ToRegisters(u)[2] = m /\ ToRegisters(u)[3] = h
        /\ ToRegisters(u)[4] = d % 256
        /\ ToRegisters(u)[5] = d \div 256 + Bit(u.halt, 64) + Bit(u.carry, 128)
    BY <2>6 DEF ToRegisters
  <2>8. SUFFICES ASSUME ~Apparent(ToRegisters(u)) PROVE FALSE
    BY <1>1, <2>5
  <2>9. \A i \in 1 .. 5 : ToRegisters(u)[i] = 0
    BY <2>8 DEF Apparent
  <2>10. s = 0 /\ m = 0 /\ h = 0 /\ d % 256 = 0
         /\ d \div 256 + Bit(u.halt, 64) + Bit(u.carry, 128) = 0
    BY <2>7, <2>9
  <2>11. d \in 0 .. 511 /\ q \in Nat
    BY <2>3 DEF Apart
  <2>12. ~u.carry /\ d \div 256 = 0
    BY <2>10, <2>11 DEF Bit
  <2>13. d = 0
    BY <2>10, <2>11, <2>12
  <2>14. ~(q >= 1)
    <3>1. ~(total >= 512 * Day)
      BY Zenon, <2>6, <2>12
    <3> QED BY <2>4, <3>1 DEF Told
  <2>15. q = 0
    BY <2>11, <2>14
  <2>16. total = 0
    BY <2>3, <2>10, <2>13, <2>15 DEF Apart
  <2> QED BY <2>2, <2>16
<1> QED BY <1>3, <1>4

-----------------------------------------------------------------------------
(* The steps in which something fails. *)
Failing == BusFails \/ ReceiveOther \/ WriteIsLost \/ CallFails

(* As long as there is no error, there was none. *)
LEMMA FaultsStep ==
  ASSUME Next, faults \in Nat
  PROVE  /\ faults' \in Nat
         /\ Fair' => Fair /\ ~Failing
<1> USE DEF Steady, Error, fixed, marks
<1>1. head' = head /\ file' = file /\ Fits' = Fits
  BY FixedStays DEF Fits, cart
<1>2. CASE Failing
  <2>1. faults' = faults + 1
    BY <1>2 DEF Failing, BusFails, ReceiveOther, WriteIsLost, CallFails
  <2> QED BY <2>1 DEF Fair
<1>3. CASE ~Failing
  <2>1. CASE ReadCartInfo \/ Bus \/ ProbeAgain \/ Probed \/ OnInfo \/ OnReady \/ EnableRam
    BY <1>1, <1>3, <2>1 DEF Fair, ReadCartInfo, Bus, ProbeAgain, Probed, OnInfo, OnReady,
          EnableRam
  <2>2. CASE Receive \/ WriteBlock \/ VerifyBlock \/ CheckSum \/ ReceiveState \/ Snapshot
    BY <1>1, <1>3, <2>2 DEF Fair, Receive, WriteBlock, VerifyBlock, CheckSum, ReceiveState,
          Snapshot
  <2>3. CASE ClockProbed \/ ClockDone \/ Check \/ Recover \/ RtcDone \/ Cleanup \/ Tick
    BY <1>1, <1>3, <2>3 DEF Fair, ClockProbed, ClockDone, Check, Recover, RtcDone, Cleanup,
          Tick
  <2> QED BY <1>3, <2>1, <2>2, <2>3 DEF Next, Failing
<1> QED BY <1>2, <1>3

(* The latch takes what the clock shows. *)
LEMMA LatchedTyped ==
  ASSUME Kinds, ClockTyped, latched \in [1 .. 5 -> Nat], Next
  PROVE  latched' \in [1 .. 5 -> Nat]
<1> USE DEF Steady, Error, fixed, marks, time, task
<1>1. clock \in [1 .. 5 -> Nat]
  BY DEF ClockTyped
<1>2. CASE Bus \/ BusFails
  <2>1. BusWrites(Head(todo)) \/ latched' = latched
    BY <1>2 DEF Bus, BusFails
  <2>2. latched' = latched \/ latched' = clock
    BY <2>1 DEF BusWrites
  <2> QED BY <1>1, <2>2
<1>3. CASE ReadCartInfo \/ ProbeAgain \/ Probed \/ OnInfo \/ OnReady \/ EnableRam
  BY <1>3 DEF ReadCartInfo, ProbeAgain, Probed, OnInfo, OnReady, EnableRam
<1>4. CASE Receive \/ ReceiveOther \/ WriteBlock \/ WriteIsLost \/ VerifyBlock \/ CheckSum
  BY <1>4 DEF Receive, ReceiveOther, WriteBlock, WriteIsLost, VerifyBlock, CheckSum
<1>5. CASE ReceiveState \/ Snapshot \/ ClockProbed \/ ClockDone \/ Check \/ Recover \/ RtcDone
  BY <1>5 DEF ReceiveState, Snapshot, ClockProbed, ClockDone, Check, Recover, RtcDone
<1>6. CASE CallFails \/ Cleanup \/ Tick
  BY <1>6 DEF CallFails, Cleanup, Tick
<1> QED BY <1>2, <1>3, <1>4, <1>5, <1>6 DEF Next

(* An operation of the plan that sets the clock leaves the save, and what  *)
(* follows the last of them is a look.                                     *)
LEMMA SettingBus ==
  ASSUME Kinds, ClockTyped, head.chip = "clock", IsStateValid(file.state), file' = file,
         Bus, NEW k \in 0 .. 14, Setting(k)
  PROVE  /\ mem' = mem /\ seen' = seen
         /\ \/ \E i \in 0 .. 14 : Setting(i)'
            \/ since' = 0 /\ Right' /\ Ahead(\hA000)'
<1>1. PICK op, next : op = Head(todo) /\ next = k + 1
  OBVIOUS
<1>2. PICK v, p : v = Values(file.state) /\ p = Plan
  OBVIOUS
<1>3. PlanIs(p, v) /\ file.state \in States
  BY <1>2, WholePlan, FileIs DEF Kinds, Plan
<1>4. op = p[next] /\ op.op = "w"
  <2>1. op = p[next]
    BY <1>1, <1>2, PlanStep DEF Setting
  <2>2. p[next].op = "w"
    BY <1>1, <1>3, PlanWrites
  <2> QED BY <2>1, <2>2
<1>5. BusWrites(op) /\ todo' = Tail(todo) /\ seen' = seen
  BY <1>1, <1>4 DEF Bus
<1>6. mem' = mem
  <2>1. /\ p[1] = Op("w", \h0000, \h0A) /\ p[2] = Op("w", \h6000, 0)
        /\ p[3] = Op("w", \h6000, 1)
        /\ \A j \in 1 .. 6 : /\ p[2 * j + 2] = Op("w", \h4000, Chosen[j])
                             /\ p[2 * j + 3] = Op("w", \hA000, v[j])
    BY <1>3 DEF PlanIs
  <2>2. \A x : Op("w", \h0000, x).address < \h8000 /\ Op("w", \h6000, x).address < \h8000
               /\ Op("w", \h4000, x).address < \h8000
               /\ ~(Op("w", \hA000, x).address < \h8000)
    BY DEF Op
  <2>3. op.address < \h8000 => mem' = mem
    BY <1>5 DEF BusWrites
  <2>4. CASE k \in {0, 1, 2}
    BY <1>1, <1>4, <2>1, <2>2, <2>3, <2>4
  <2>5. ASSUME NEW j \in 1 .. 6, k = 2 * j + 1
        PROVE  mem' = mem
    <3>1. op = p[2 * j + 2]
      BY <1>1, <1>4, <2>5
    <3> QED BY <2>1, <2>2, <2>3, <3>1
  <2>6. ASSUME NEW j \in 1 .. 6, k = 2 * j + 2
        PROVE  mem' = mem
    <3>1. next = 2 * j + 3
      BY <1>1, <2>6
    <3>2. ~(op.address < \h8000)
      BY <1>4, <2>1, <2>2, <3>1
    <3>3. regs.on /\ regs.rb = Chosen[j]
      BY <2>6 DEF Setting
    <3>4. Chosen[j] \in 8 .. 12
      <4>1. /\ Chosen[1] = 12 /\ Chosen[2] = 8 /\ Chosen[3] = 9 /\ Chosen[4] = 10
            /\ Chosen[5] = 11 /\ Chosen[6] = 12
        BY DEF Chosen
      <4> QED BY <4>1
    <3> QED BY <1>5, <3>2, <3>3, <3>4 DEF BusWrites
  <2> QED BY <2>4, <2>5, <2>6, Positions
<1>7. \/ \E i \in 0 .. 14 : Setting(i)'
      \/ k = 14 /\ since' = 0 /\ todo' \in Seq(Harmless) /\ Right'
  BY <1>1, <1>5, SettingStep
<1>8. ASSUME k = 14
      PROVE  Ahead(\hA000)'
  <2>1. Left(k + 1)'
    BY <1>5, PlanStep DEF Setting
  <2>2. Plan' = p /\ k + 1 = 15 /\ 30 - (k + 1) = 15
    BY <1>2, <1>8 DEF Plan
  <2>3. Len(todo') = 15 /\ \A i \in 1 .. 15 : todo'[i] = p[15 + i]
    BY <2>1, <2>2 DEF Left
  <2>4. \A i \in 1 .. 15 : p[15 + i] = Look(\hA000)[i]
    BY <1>2, <1>3, PlanCloses DEF Plan
  <2> QED BY <2>3, <2>4 DEF Ahead
<1>9. CASE \E i \in 0 .. 14 : Setting(i)'
  BY <1>5, <1>6, <1>9
<1>10. CASE k = 14 /\ since' = 0 /\ Right'
  <2>1. Ahead(\hA000)'
    BY <1>8, <1>10
  <2> QED BY <1>5, <1>6, <1>10, <2>1
<1> QED BY <1>7, <1>9, <1>10

-----------------------------------------------------------------------------
(* Without an error the save comes to no harm. *)
LEMMA SoundStep ==
  ASSUME IInv, SaveInv, ClockInv, SaveInv', Fair, Sound, head.chip = "clock" => Clear,
         latched \in [1 .. 5 -> Nat], Next, ~Failing, Fair'
  PROVE  Sound'
<1> USE DEF Go, Fails, Steady, fixed, marks, time, task
<1>a. Kinds /\ AtBank /\ Course /\ ClockTyped /\ AtBank'
  BY DEF SaveInv, ClockInv
<1>b. head' = head /\ file' = file /\ cart' = cart /\ Banks' = Banks
  BY FixedStays DEF cart, Banks
<1>c. /\ outcome # "failed" /\ verdict = "ok" /\ good /\ ~mismatch
      /\ pc \notin {"recover", "recheck"}
      /\ hasRtc <=> head.chip = "clock"
      /\ pc \in {"probe", "probeAgain"} => head.chip = "clock"
      /\ pc = "state" \/ pc \in Late => file.rtc
      /\ pc = "verify" => mem[n] = block
      /\ pc \in {"clock", "check"} => Saved
  BY DEF Sound
<1>d. /\ file.banks = cart.ramBanks
      /\ file.rtc => head.chip = "clock" /\ IsStateValid(file.state)
      /\ file.banks > 0 \/ file.rtc
  BY DEF Fair, Fits
<1>e. Saved' = Saved \/ mem' # mem
  BY <1>b DEF Saved
<1>f. ASSUME UNCHANGED <<verdict, mismatch, hasRtc>>, outcome' # "failed", good',
             pc' \notin {"recover", "recheck", "verify", "clock", "check"},
             pc' \in {"probe", "probeAgain"} => head.chip = "clock",
             pc' = "state" \/ pc' \in Late => file.rtc
      PROVE  Sound'
  BY <1>b, <1>c, <1>f DEF Sound
<1>1. CASE ReadCartInfo
  <2>1. /\ UNCHANGED <<verdict, mismatch, hasRtc, outcome, good>>
        /\ pc' = "info" \/ (pc' = "probe" /\ hasRtc)
    BY <1>1 DEF ReadCartInfo
  <2> QED BY <1>c, <1>f, <2>1 DEF Late, Sweeping
<1>2. CASE ProbeAgain
  <2>1. /\ UNCHANGED <<verdict, mismatch, hasRtc, outcome, good>>
        /\ pc = "probe" /\ pc' = "probeAgain"
    BY <1>2 DEF ProbeAgain
  <2> QED BY <1>c, <1>f, <2>1 DEF Late, Sweeping
<1>3. CASE Probed
  <2>1. /\ pc \in {"probe", "probeAgain"} /\ todo = <<>>
        /\ pc = "probe" => ~Unconfirmed
        /\ pc' = "info" /\ UNCHANGED <<verdict, mismatch, outcome, good>>
        /\ hasRtc' = (hasRtc /\ ~Missing /\ ~Unconfirmed)
    BY <1>3, <1>c DEF Probed
  <2>2. head.chip = "clock" /\ Seeking
    BY <1>c, <2>1 DEF Clear, Probing
  <2>3. PICK k \in 0 .. 15 : Looking(\hA880, k) /\ Awake(k)
    BY <2>2 DEF Seeking
  <2>4. k = 15 /\ ~Missing /\ (Unconfirmed <=> ~Apparent(latched))
    BY <2>1, <2>3, LookDone
  <2>5. ~Unconfirmed
    BY <2>1, <2>3, <2>4 DEF Awake
  <2>6. hasRtc' /\ hasRtc
    BY <1>c, <2>1, <2>2, <2>4, <2>5
  <2> QED BY <1>b, <1>c, <2>1, <2>2, <2>6 DEF Sound, Late, Sweeping
<1>4. CASE OnInfo
  <2>1. ~Wrong
    <3>1. cart.ramBanks \in Nat
      BY <1>a, CartIs DEF Kinds
    <3> QED BY <1>c, <1>d, <3>1 DEF Wrong
  <2>2. pc' = "ready" /\ UNCHANGED <<verdict, mismatch, hasRtc, outcome, good>>
    BY <1>4, <2>1 DEF OnInfo
  <2> QED BY <1>c, <1>f, <2>2 DEF Late, Sweeping
<1>5. CASE OnReady \/ EnableRam \/ Receive
  <2>1. /\ pc' \in {"crc", "enable", "receive", "write"}
        /\ UNCHANGED <<verdict, mismatch, hasRtc, outcome>> /\ (good' = good \/ good')
    BY <1>5 DEF OnReady, EnableRam, Receive, NextBank
  <2> QED BY <1>c, <1>f, <2>1 DEF Late, Sweeping
<1>6. CASE WriteBlock
  <2>1. /\ pc = "write" /\ pc' = "verify" /\ mem' = Stored(regs', block)
        /\ UNCHANGED <<verdict, mismatch, hasRtc, outcome, good, n, block>>
    BY <1>6 DEF WriteBlock
  <2>2. n \in Banks /\ RamSeen(cart, regs') = n
    <3>1. n \in Nat /\ n < cart.ramBanks /\ cart.ramBanks \in Nat
      BY <1>a, <2>1, CartIs DEF Kinds, AtBank, Passing
    <3>2. RamSeen(cart, regs)' = n
      BY <1>a, <2>1 DEF AtBank
    <3> QED BY <1>b, <3>1, <3>2 DEF Banks
  <2>3. mem' = [mem EXCEPT ![n] = block]
    BY <2>1, <2>2, InViewIs
  <2>4. mem'[n] = block
    BY <1>a, <2>2, <2>3 DEF Kinds
  <2> QED BY <1>b, <1>c, <2>1, <2>4 DEF Sound, Late, Sweeping
<1>7. CASE VerifyBlock
  <2>1. pc = "verify" /\ n \in Banks /\ RamSeen(cart, regs) = n
    <3>1. pc = "verify"
      BY <1>7 DEF VerifyBlock
    <3>2. n \in Nat /\ n < cart.ramBanks /\ cart.ramBanks \in Nat /\ RamSeen(cart, regs) = n
      BY <1>a, <3>1, CartIs DEF Kinds, AtBank, Passing
    <3> QED BY <3>1, <3>2 DEF Banks
  <2>2. Shown(regs) = block
    BY <1>c, <2>1, InViewIs
  <2>3. pc' \in {"crc", "receive"} /\ UNCHANGED <<verdict, mismatch, hasRtc, outcome, good>>
    BY <1>7, <2>2 DEF VerifyBlock, NextBank
  <2> QED BY <1>c, <1>f, <2>3 DEF Late, Sweeping
<1>8. CASE CheckSum
  <2>1. /\ UNCHANGED <<verdict, mismatch, hasRtc, good>> /\ outcome' \in {outcome, "ok"}
        /\ pc' \in {"state", "ready", "cleanup"} /\ (pc' = "state" => file.rtc)
    BY <1>8, <1>c DEF CheckSum, PassDone
  <2> QED BY <1>c, <1>f, <2>1 DEF Late, Sweeping
<1>9. CASE ReceiveState
  <2>1. pc = "state" /\ file.rtc /\ IsStateValid(file.state)
    BY <1>9, <1>c, <1>d DEF ReceiveState
  <2>2. /\ UNCHANGED <<verdict, mismatch, hasRtc, good>> /\ outcome' \in {outcome, "ok"}
        /\ pc' \in {"ready", "cleanup", "snapshot", "clockProbe"}
    BY <1>9, <2>1 DEF ReceiveState, PassDone
  <2> QED BY <1>c, <1>f, <2>1, <2>2
<1>10. CASE Snapshot
  <2>1. /\ pc = "snapshot" /\ regs' = Reading(n)
        /\ snap' = [snap EXCEPT ![n] = Shown(regs')]
        /\ UNCHANGED <<verdict, mismatch, hasRtc, good>>
        /\ \/ pc' \in {"snapshot", "clockProbe"} /\ outcome' = outcome
           \/ /\ ~(n + 1 < cart.ramBanks) /\ outcome' = "failed"
              /\ ~\A b \in Banks : snap'[b] = b
    BY <1>10 DEF Snapshot
  <2>2. Saved /\ UpTo(snap) /\ file.rtc
    BY <1>a, <1>c, <2>1 DEF Course, Late, Sweeping
  <2>3. n \in Banks /\ Shown(regs') = n
        /\ (~(n + 1 < cart.ramBanks) => n + 1 = cart.ramBanks)
    BY <1>a, <2>1, <2>2, SweepIs DEF Saved, Sweeping
  <2>4. ASSUME ~(n + 1 < cart.ramBanks), NEW b \in Banks
        PROVE  snap'[b] = b
    <3>1. b = n \/ (b < n /\ b # n)
      <4>1. b \in Nat /\ b < cart.ramBanks /\ n \in Nat /\ n + 1 = cart.ramBanks
        BY <1>a, <2>3, <2>4, CartIs DEF Kinds, Banks
      <4> QED BY <4>1
    <3>2. snap \in [Banks -> Int]
      BY <1>a DEF Kinds
    <3> QED BY <2>1, <2>2, <2>3, <3>1, <3>2 DEF UpTo
  <2>5. pc' \in {"snapshot", "clockProbe"} /\ outcome' = outcome
    BY <2>1, <2>4
  <2> QED BY <1>c, <1>f, <2>1, <2>2, <2>5
<1>11. CASE ClockProbed
  <2>1. pc = "clockProbe" /\ todo = <<>>
    BY <1>11 DEF ClockProbed
  <2>2. Saved /\ file.rtc /\ head.chip = "clock" /\ Seeking
    BY <1>a, <1>c, <1>d, <2>1 DEF Course, Late, Clear, Probing
  <2>3. PICK k \in 0 .. 15 : Looking(\hA880, k) /\ Awake(k)
    BY <2>2 DEF Seeking
  <2>4. k = 15 /\ ~Missing /\ (Unconfirmed <=> ~Apparent(latched))
    BY <2>1, <2>3, LookDone
  <2>5. ~Missing /\ ~Unconfirmed
    BY <2>1, <2>3, <2>4 DEF Awake
  <2>6. /\ pc' = "clock" /\ UNCHANGED <<verdict, mismatch, hasRtc, outcome, good, mem>>
    BY <1>11, <1>c, <2>5 DEF ClockProbed
  <2>7. Saved'
    BY <1>b, <2>2, <2>6 DEF Saved
  <2> QED BY <1>b, <1>c, <2>2, <2>6, <2>7 DEF Sound
<1>12. CASE ClockDone
  <2>1. pc = "clock" /\ todo = <<>>
    BY <1>12 DEF ClockDone
  <2>2. Saved /\ file.rtc /\ head.chip = "clock" /\ IsStateValid(file.state) /\ Clear
    BY <1>c, <1>d, <2>1 DEF Late
  <2>3. Checking
    <3>1. ASSUME NEW k \in 0 .. 14, Setting(k) PROVE FALSE
      BY <1>a, <1>b, <2>1, <3>1, PlanStep DEF Setting
    <3> QED BY <2>1, <2>2, <3>1 DEF Clear
  <2>4. PICK k \in 0 .. 15 : Looking(\hA000, k) /\ Fresh(k)
    BY <2>3 DEF Checking
  <2>5. k = 15 /\ ~Missing /\ FromRegisters(seen) = FromRegisters(latched)
    BY <2>1, <2>4, LookDone
  <2>6. PICK j \in {0, 1} : latched = ToRegisters(Later(file.state, j))
    BY <2>4, <2>5 DEF Fresh
  <2>7. file.state \in Shows
    BY <1>a, <2>2, FileIs, Halts DEF Kinds
  <2>8. PICK t : t = Later(file.state, j)
    OBVIOUS
  <2>9. FromRegisters(seen) = t /\ t \in Shows
    <3>1. j \in Nat
      OBVIOUS
    <3>2. FromRegisters(latched) = t /\ t \in Shows
      BY <2>6, <2>7, <2>8, <3>1, Ticks, LaterNext
    <3> QED BY <2>5, <3>2
  <2>10. IsStateValid(t)
    BY <2>9 DEF Shows, IsStateValid
  <2>11. Verified(t)
    <3>1. j = 0 => t = file.state
      BY <2>7, <2>8, Ticks
    <3>2. j = 1 => t = AdvanceOneSecond(file.state)
      BY <2>7, <2>8, AdvanceCounts
    <3> QED BY <2>6, <3>1, <3>2 DEF Verified
  <2>12. /\ verdict' = "ok" /\ pc' = CheckSave
         /\ UNCHANGED <<mismatch, hasRtc, outcome, good, mem>>
    BY <1>12, <1>c, <2>5, <2>9, <2>10, <2>11 DEF ClockDone
  <2>13. Saved' /\ pc' \in {"check", "settle"}
    BY <1>b, <2>2, <2>12 DEF Saved, CheckSave
  <2> QED BY <1>b, <1>c, <2>2, <2>12, <2>13 DEF Sound
<1>13. CASE Check
  <2>1. /\ pc = "check" /\ regs' = Reading(n) /\ mem' = mem
        /\ mismatch' = (mismatch \/ Shown(regs') # snap[n])
        /\ UNCHANGED <<verdict, hasRtc, outcome, good>>
        /\ pc' = IF n + 1 < cart.ramBanks THEN "check"
                 ELSE IF mismatch' THEN "recover" ELSE "settle"
    BY <1>13, <1>c DEF Check
  <2>2. Saved /\ Copied /\ file.rtc
    BY <1>a, <1>c, <2>1 DEF Course, Late, Sweeping
  <2>3. n \in Banks /\ Shown(regs') = mem[n]
    BY <1>a, <2>1, SweepIs DEF Sweeping
  <2>4. mem[n] = n /\ snap[n] = n
    BY <2>2, <2>3 DEF Saved, Copied
  <2>5. ~mismatch'
    BY <1>c, <2>1, <2>3, <2>4
  <2>6. Saved' /\ pc' \in {"check", "settle"}
    BY <1>b, <2>1, <2>2, <2>5 DEF Saved
  <2> QED BY <1>b, <1>c, <2>1, <2>2, <2>5, <2>6 DEF Sound
<1>14. CASE RtcDone \/ Cleanup
  <2>1. /\ UNCHANGED <<verdict, mismatch, hasRtc, good>> /\ outcome' \in {outcome, "ok"}
        /\ pc' \in {"cleanup", "idle"}
    BY <1>14, <1>c DEF RtcDone, Cleanup
  <2> QED BY <1>c, <1>f, <2>1 DEF Late, Sweeping
<1>15. CASE Tick
  <2>1. UNCHANGED <<pc, verdict, mismatch, hasRtc, outcome, good, n, block, mem>>
    BY <1>15 DEF Tick
  <2> QED BY <1>b, <1>c, <2>1 DEF Sound, Saved
<1>16. CASE Bus
  <2>1. /\ pc \in {"probe", "probeAgain", "clockProbe", "clock"} /\ todo # <<>>
        /\ UNCHANGED <<pc, verdict, mismatch, hasRtc, outcome, good>>
    BY <1>16 DEF Bus, AtBus
  <2>2. ASSUME pc = "clock"
        PROVE  Saved'
    <3>1. Saved /\ head.chip = "clock" /\ IsStateValid(file.state) /\ Clear
      BY <1>c, <1>d, <2>2 DEF Late
    <3>2. mem' = mem
      <4>1. ASSUME NEW k \in 0 .. 14, Setting(k) PROVE mem' = mem
        BY <1>16, <1>a, <1>b, <3>1, <4>1, SettingBus
      <4>2. ASSUME NEW k \in 0 .. 15, Looking(\hA000, k) PROVE mem' = mem
        <5>1. k # 15
          <6>1. ASSUME k = 15 PROVE todo = <<>>
            <7>1. Len(todo) = 0 /\ todo \in Seq(BusOps)
              BY <1>a, <4>2, <6>1 DEF Looking, Rest, Kinds
            <7> QED BY <7>1
          <6> QED BY <2>1, <6>1
        <5>2. k \in 0 .. 14 /\ \hA000 \in Nat
          BY <5>1
        <5> QED BY <1>16, <1>a, <3>1, <4>2, <5>2, LookStep
      <4> QED BY <2>2, <3>1, <4>1, <4>2 DEF Clear, Checking
    <3> QED BY <1>b, <3>1, <3>2 DEF Saved
  <2> QED BY <1>b, <1>c, <2>1, <2>2 DEF Sound
<1>17. CASE Recover
  BY <1>17, <1>c DEF Recover
<1> QED BY <1>1, <1>2, <1>3, <1>4, <1>5, <1>6, <1>7, <1>8, <1>9, <1>10, <1>11, <1>12, <1>13,
           <1>14, <1>15, <1>16, <1>17 DEF Next, Failing

-----------------------------------------------------------------------------
(* Without an error the clock is found, set and confirmed. *)
LEMMA ClearStep ==
  ASSUME IInv, SaveInv, ClockInv, Fair, Sound, Clear, head.chip = "clock",
         latched \in [1 .. 5 -> Nat], Next, ~Failing, Fair'
  PROVE  Clear'
<1> USE DEF Go, Fails, Steady, fixed, marks, time, task
<1>a. Kinds /\ ClockTyped /\ Begun
  BY DEF SaveInv, ClockInv
<1>b. head' = head /\ file' = file
  BY FixedStays
<1>c. /\ verdict = "ok" /\ hasRtc /\ pc # "recover"
      /\ pc = "state" \/ pc \in Late => file.rtc
      /\ file.rtc => IsStateValid(file.state)
  BY DEF Sound, Fair, Fits
<1>d. /\ pc = "header" => seen = <<>>
      /\ pc = "snapshot" => todo = Probe /\ seen = <<>>
      /\ pc \in Probing => Seeking
      /\ pc \in Known => Apparent(clock)
      /\ pc = "clock" => Checking \/ (seen = <<>> /\ \E k \in 0 .. 14 : Setting(k))
  BY DEF Clear
<1>e. ASSUME pc' \notin Probing \cup {"header", "snapshot", "clock"},
             pc' \in Known => pc \in Known /\ clock' = clock
      PROVE  Clear'
  BY <1>d, <1>e DEF Clear, Apparent
<1>f. Apparent(ToRegisters(Later(FromRegisters(clock), 1)))
  BY <1>a, NotZero DEF ClockTyped
<1>1. CASE ReadCartInfo
  <2>1. pc = "header" /\ pc' = "probe" /\ todo' = Probe /\ seen' = <<>>
    BY <1>1, <1>c, <1>d DEF ReadCartInfo
  <2> QED BY <2>1, ProbeBegins DEF Clear, Known
<1>2. CASE ProbeAgain
  <2>1. /\ pc' = "probeAgain" /\ todo' = Probe /\ seen' = <<>>
        /\ clock' = ToRegisters(Later(FromRegisters(clock), 1))
    BY <1>2 DEF ProbeAgain
  <2>2. Apparent(clock)'
    BY <1>f, <2>1 DEF Apparent
  <2> QED BY <2>1, <2>2, ProbeBegins DEF Clear
<1>3. CASE Probed
  <2>1. /\ pc \in {"probe", "probeAgain"} /\ todo = <<>>
        /\ pc = "probe" => ~Unconfirmed
        /\ pc' = "info" /\ clock' = clock
    BY <1>3, <1>c DEF Probed
  <2>2. PICK k \in 0 .. 15 : Looking(\hA880, k) /\ Awake(k)
    BY <1>d, <2>1 DEF Probing, Seeking
  <2>3. k = 15 /\ (Unconfirmed <=> ~Apparent(latched))
    BY <2>1, <2>2, LookDone
  <2>4. Apparent(clock)
    BY <2>1, <2>2, <2>3 DEF Awake
  <2>5. Apparent(clock)'
    BY <2>1, <2>4 DEF Apparent
  <2> QED BY <2>1, <2>5 DEF Clear, Probing
<1>4. CASE OnInfo \/ OnReady \/ EnableRam \/ Receive \/ WriteBlock \/ VerifyBlock \/ CheckSum
  <2>1. /\ pc \in {"info", "ready", "enable", "receive", "write", "verify", "crc"}
        /\ pc' \in {"ready", "cleanup", "crc", "enable", "receive", "write", "verify", "state"}
        /\ clock' = clock
    BY <1>4 DEF OnInfo, OnReady, EnableRam, Receive, WriteBlock, VerifyBlock, CheckSum,
          NextBank, PassDone
  <2> QED BY <1>e, <2>1 DEF Probing, Known
<1>5. CASE ReceiveState
  <2>1. /\ pc = "state" /\ clock' = clock /\ todo' = Probe /\ seen' = <<>>
        /\ pc' \in {"cleanup", "ready", "clockProbe", "snapshot"}
    BY <1>5 DEF ReceiveState, PassDone
  <2>2. Apparent(clock)'
    BY <1>d, <2>1 DEF Known, Apparent
  <2> QED BY <2>1, <2>2, ProbeBegins DEF Clear
<1>6. CASE Snapshot
  <2>1. /\ pc = "snapshot" /\ clock' = clock /\ todo' = Probe /\ seen' = <<>>
        /\ pc' \in {"cleanup", "clockProbe", "snapshot"}
    BY <1>6, <1>d DEF Snapshot
  <2>2. Apparent(clock)'
    BY <1>d, <2>1 DEF Known, Apparent
  <2> QED BY <2>1, <2>2, ProbeBegins DEF Clear
<1>7. CASE ClockProbed
  <2>1. /\ seen' = <<>>
        /\ (pc' = "clock" /\ todo' = Plan) \/ pc' \in {"check", "settle"}
    BY <1>7 DEF ClockProbed, CheckSave, Plan
  <2>2. CASE pc' = "clock" /\ todo' = Plan
    <3>1. Len(Plan) = 30
      BY <1>a, WholePlan, FileIs DEF Kinds, Plan, PlanIs
    <3>2. Plan' = Plan
      BY <1>b DEF Plan
    <3>3. Left(0)'
      BY <2>2, <3>1, <3>2 DEF Left
    <3>4. Setting(0)'
      BY <3>3 DEF Setting
    <3>5. 0 \in 0 .. 14
      OBVIOUS
    <3> QED BY <2>1, <2>2, <3>4, <3>5 DEF Clear, Probing, Known
  <2>3. CASE pc' \in {"check", "settle"}
    BY <1>e, <2>3 DEF Probing, Known
  <2> QED BY <2>1, <2>2, <2>3
<1>8. CASE ClockDone \/ Check \/ Recover \/ RtcDone \/ Cleanup
  <2>1. pc' \in {"check", "recheck", "recover", "settle", "cleanup", "idle"}
    BY <1>8, <1>c DEF ClockDone, CheckSave, Check, Recover, RtcDone, Cleanup
  <2> QED BY <1>e, <2>1 DEF Probing, Known
<1>9. CASE Tick
  <2>1. /\ UNCHANGED <<pc, todo, seen, latched, latch, regs, faults>> /\ since' = since + 1
        /\ clock' = ToRegisters(Later(FromRegisters(clock), 1))
        /\ pc = "clock" => since = 0 \/ ~(since > 0)
    BY <1>9 DEF Tick, Fair
  <2>2. Apparent(clock)'
    BY <1>f, <2>1 DEF Apparent
  <2>3. ASSUME NEW a, NEW k \in 0 .. 15, Looking(a, k)
        PROVE  Looking(a, k)'
    <3>1. Rest(a, k)' /\ Read(k)'
      BY <2>1, <2>3 DEF Looking, Rest, Read
    <3> QED BY <2>1, <2>3, <3>1 DEF Looking
  <2>4. ASSUME NEW k \in 0 .. 15, Awake(k)
        PROVE  Awake(k)'
    BY <2>1, <2>2, <2>4 DEF Awake, Apparent
  <2>5. Seeking => Seeking'
    BY <2>3, <2>4 DEF Seeking
  <2>6. ASSUME pc = "clock", Checking
        PROVE  Checking'
    <3>1. IsStateValid(file.state)
      BY <1>c, <2>6 DEF Late
    <3>2. Right'
      BY <1>9, <1>a, <2>6, <3>1, TickShows DEF Checking
    <3>3. since' <= 1
      BY <1>a, <2>1, <2>6 DEF ClockTyped
    <3>4. ASSUME NEW k \in 0 .. 15, Fresh(k)
          PROVE  Fresh(k)'
      BY <1>b, <2>1, <3>4 DEF Fresh
    <3> QED BY <2>3, <2>6, <3>2, <3>3, <3>4 DEF Checking
  <2>7. ASSUME pc = "clock", NEW k \in 0 .. 14, Setting(k)
        PROVE  Setting(k)'
    <3>1. IsStateValid(file.state)
      BY <1>c, <2>7 DEF Late
    <3> QED BY <1>9, <1>a, <2>7, <3>1, TickHalted
  <2>8. pc = "clock" => Checking' \/ (seen' = <<>> /\ \E k \in 0 .. 14 : Setting(k)')
    BY <1>d, <2>1, <2>6, <2>7
  <2> QED BY <1>d, <2>1, <2>2, <2>5, <2>8 DEF Clear
<1>10. CASE Bus
  <2>1. pc \in Probing \cup {"clock"} /\ todo # <<>> /\ pc' = pc
    BY <1>10 DEF Bus, AtBus, Probing
  <2>2. ASSUME NEW a \in Nat, NEW k \in 0 .. 15, Looking(a, k)
        PROVE  /\ k \in 0 .. 14 /\ Looking(a, k + 1)' /\ UNCHANGED <<clock, since>>
               /\ latched' = IF k = 2 THEN clock ELSE latched
    <3>1. k # 15
      <4>1. ASSUME k = 15 PROVE todo = <<>>
        <5>1. Len(todo) = 0 /\ todo \in Seq(BusOps)
          BY <1>a, <2>2, <4>1 DEF Looking, Rest, Kinds
        <5> QED BY <5>1
      <4> QED BY <2>1, <4>1
    <3>2. k \in 0 .. 14
      BY <3>1
    <3> QED BY <1>10, <1>a, <2>2, <3>2, LookStep
  <2>3. \hA880 \in Nat /\ \hA000 \in Nat
    OBVIOUS
  <2>4. CASE pc \in Probing
    <3>1. PICK k \in 0 .. 15 : Looking(\hA880, k) /\ Awake(k)
      BY <1>d, <2>4 DEF Seeking
    <3>2. /\ k \in 0 .. 14 /\ Looking(\hA880, k + 1)' /\ clock' = clock
          /\ latched' = IF k = 2 THEN clock ELSE latched
      BY <2>2, <2>3, <3>1
    <3>3. pc # "probe" => Apparent(clock)
      BY <1>d, <2>4 DEF Probing, Known
    <3>4. Awake(k + 1)'
      <4>1. CASE k < 2
        BY <4>1 DEF Awake
      <4>2. CASE k = 2
        BY <2>1, <3>2, <3>3, <4>2 DEF Awake, Apparent
      <4>3. CASE k > 2
        BY <2>1, <3>1, <3>2, <4>3 DEF Awake, Apparent
      <4> QED BY <4>1, <4>2, <4>3
    <3>5. Seeking'
      <4>1. k + 1 \in 0 .. 15
        BY <3>2
      <4> QED BY <3>2, <3>4, <4>1 DEF Seeking
    <3>6. pc' \in Known => Apparent(clock)'
      BY <1>d, <2>1, <3>2 DEF Apparent
    <3> QED BY <2>1, <2>4, <3>5, <3>6 DEF Clear, Probing
  <2>5. ASSUME pc = "clock", Checking
        PROVE  Checking'
    <3>1. PICK k \in 0 .. 15 : Looking(\hA000, k) /\ Fresh(k)
      BY <2>5 DEF Checking
    <3>2. /\ k \in 0 .. 14 /\ Looking(\hA000, k + 1)' /\ UNCHANGED <<clock, since>>
          /\ latched' = IF k = 2 THEN clock ELSE latched
      BY <2>2, <2>3, <3>1
    <3>3. Right /\ since <= 1 /\ since \in Nat
      BY <1>a, <2>5 DEF Checking, ClockTyped
    <3>4. Right' /\ since' <= 1
      BY <1>b, <3>2, <3>3 DEF Right
    <3>5. Fresh(k + 1)'
      <4>1. CASE k < 2
        BY <4>1 DEF Fresh
      <4>2. CASE k = 2
        <5>1. since \in {0, 1} /\ latched' = ToRegisters(Later(file.state, since))
          BY <3>2, <3>3, <4>2 DEF Right
        <5> QED BY <1>b, <5>1 DEF Fresh
      <4>3. CASE k > 2
        <5>1. latched' = latched /\ k >= 3
          BY <3>2, <4>3
        <5> QED BY <1>b, <3>1, <5>1 DEF Fresh
      <4> QED BY <4>1, <4>2, <4>3
    <3>6. k + 1 \in 0 .. 15
      BY <3>2
    <3> QED BY <3>2, <3>4, <3>5, <3>6 DEF Checking
  <2>6. ASSUME pc = "clock", seen = <<>>, NEW k \in 0 .. 14, Setting(k)
        PROVE  Checking' \/ (seen' = <<>> /\ \E i \in 0 .. 14 : Setting(i)')
    <3>1. IsStateValid(file.state)
      BY <1>c, <2>6 DEF Late
    <3>2. /\ seen' = <<>>
          /\ \/ \E i \in 0 .. 14 : Setting(i)'
             \/ since' = 0 /\ Right' /\ Ahead(\hA000)'
      BY SMTT(30), <1>10, <1>a, <1>b, <2>6, <3>1, SettingBus
    <3>3. CASE since' = 0 /\ Right' /\ Ahead(\hA000)'
      <4>1. Looking(\hA000, 0)'
        BY <2>3, <3>2, <3>3, LookBegins
      <4>2. Fresh(0)'
        BY DEF Fresh
      <4>3. 0 \in 0 .. 15 /\ since' <= 1
        BY <3>3
      <4> QED BY <3>3, <4>1, <4>2, <4>3 DEF Checking
    <3> QED BY <3>2, <3>3
  <2>7. CASE pc = "clock"
    <3>1. Checking' \/ (seen' = <<>> /\ \E i \in 0 .. 14 : Setting(i)')
      BY <1>d, <2>5, <2>6, <2>7
    <3> QED BY <2>1, <2>7, <3>1 DEF Clear, Probing, Known
  <2> QED BY <2>1, <2>4, <2>7
<1> QED BY <1>1, <1>2, <1>3, <1>4, <1>5, <1>6, <1>7, <1>8, <1>9, <1>10 DEF Next, Failing

-----------------------------------------------------------------------------
(* The start. *)
LEMMA FairInit == ASSUME Init PROVE FairInv
<1>1. \E t \in Clocks : latched = ToRegisters(t)
  BY DEF Init
<1>2. latched \in [1 .. 5 -> Nat]
  <2>1. PICK t \in Clocks : latched = ToRegisters(t)
    BY <1>1
  <2>2. t \in States
    BY ImportAssumption DEF States
  <2> QED BY <2>1, <2>2, RegistersAre
<1>3. hasRtc <=> head.chip = "clock" \/ head.chip = "ram"
  BY ImportAssumption DEF Init
<1>4. Fair => Sound
  BY <1>3 DEF Init, Fair, Sound, Late, Sweeping
<1>5. Clear
  BY DEF Init, Clear, Probing, Known
<1> QED BY <1>2, <1>4, <1>5 DEF Init, FairInv

(* With the three invariants before, every step keeps this one. *)
LEMMA FairNext == ASSUME IInv, SaveInv, ClockInv, FairInv, [Next]_vars PROVE FairInv'
<1>a. /\ faults \in Nat /\ latched \in [1 .. 5 -> Nat]
      /\ Fair => Sound
      /\ Fair /\ head.chip = "clock" => Clear
  BY DEF FairInv
<1>1. CASE Next
  <2>1. faults' \in Nat /\ (Fair' => Fair /\ ~Failing) /\ head' = head
    BY <1>1, <1>a, FaultsStep, FixedStays
  <2>2. latched' \in [1 .. 5 -> Nat]
    BY <1>1, <1>a, LatchedTyped DEF SaveInv, ClockInv
  <2>3. SaveInv'
    BY SaveNext
  <2>4. ASSUME Fair'
        PROVE  Sound'
    BY <1>1, <1>a, <2>1, <2>3, <2>4, SoundStep
  <2>5. ASSUME Fair', head'.chip = "clock"
        PROVE  Clear'
    BY <1>1, <1>a, <2>1, <2>5, ClearStep
  <2> QED BY <2>1, <2>2, <2>4, <2>5 DEF FairInv
<1>2. CASE UNCHANGED vars
  <2>1. /\ UNCHANGED <<head, file, pc, outcome, verdict, good, mismatch, hasRtc>>
        /\ UNCHANGED <<mem, n, block>>
        /\ UNCHANGED <<todo, seen, latched, latch, regs, clock, since, faults>>
    BY <1>2 DEF vars, fixed, task, time, marks
  <2>2. Fair' = Fair /\ Sound' = Sound
    BY <2>1 DEF Fair, Fits, cart, Sound, Saved, Banks
  <2>3. ASSUME NEW a, NEW k
        PROVE  Looking(a, k)' = Looking(a, k)
    BY <2>1 DEF Looking, Rest, Read
  <2>4. ASSUME NEW k
        PROVE  /\ Awake(k)' = Awake(k) /\ Fresh(k)' = Fresh(k)
               /\ Setting(k)' = Setting(k)
    BY <2>1 DEF Awake, Apparent, Fresh, Setting, Left, Plan
  <2>5. Seeking' = Seeking /\ Right' = Right
    BY <2>1, <2>3, <2>4 DEF Seeking, Right
  <2>6. Checking' = Checking
    BY <2>1, <2>3, <2>4, <2>5 DEF Checking
  <2>7. Clear => Clear'
    BY <2>1, <2>4, <2>5, <2>6 DEF Clear, Apparent
  <2> QED BY <1>a, <2>1, <2>2, <2>7 DEF FairInv
<1> QED BY <1>1, <1>2

(* Every behaviour keeps it. *)
LEMMA FairInvariance == Spec => []FairInv
<1>1. Init => FairInv
  BY FairInit
<1>2. IInv /\ SaveInv /\ ClockInv /\ FairInv /\ [Next]_vars => FairInv'
  BY FairNext
<1> QED BY <1>1, <1>2, Invariance, SaveInvariance, ClockInvariance, PTL DEF Spec

(* An import fails only for an error, a file that does not fit or a        *)
(* cartridge whose header claims a clock it does not have: not because a   *)
(* second passes while the clock is set, nor because a clock shows zeros.  *)
THEOREM FailsWithReason == Spec => []FailsForAReason
<1>1. ASSUME FairInv, outcome = "failed", Fits, head.chip # "ram"
      PROVE  faults > 0
  <2>1. faults \in Nat /\ faults # 0
    BY <1>1 DEF FairInv, Fair, Sound
  <2> QED BY <2>1
<1>2. FairInv => FailsForAReason
  BY <1>1 DEF FailsForAReason
<1> QED BY <1>2, FairInvariance, PTL
=============================================================================

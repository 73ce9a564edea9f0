----------------------------- MODULE CartImport -----------------------------
(* Writing a save, and perhaps the state of its clock, from a PC into the  *)
(* cartridge: CartBackup_ImportSaveFromPC of cart_backup.c with cart_rtc.c.*)
(* The PC sends everything twice: once to be checked, once to be written   *)
(* and read back.  Then the clock is set; a cartridge whose header claims  *)
(* a clock it does not have would take that for writes to its RAM, so the  *)
(* whole save is copied before, compared after, and put back if it         *)
(* changed.  A bank of the save is one block; bank b of the file is the    *)
(* number b, whatever else a bank may hold is Old, Bad or Other.           *)
EXTENDS CartMapper

CONSTANTS
  Carts,      (* [type, romCode, ramCode, chip]; chip "clock", "ram" or "none" *)
  Clocks,     (* what a clock shows at the start *)
  Sent,       (* the states a PC sends *)
  MaxFaults, MaxTicks

ASSUME ImportAssumption ==
  /\ {MaxFaults, MaxTicks} \subseteq Nat
  /\ \A c \in Carts : /\ Supported(c) /\ c.chip \in {"clock", "ram", "none"}
                      /\ c.chip # "none" <=> HasRtc(c.type)
                      /\ c.chip = "ram" => Info(c).ramBanks > 0
  /\ Clocks \cup Sent \subseteq
       [s : Nat, m : Nat, h : Nat, d : Nat, halt : BOOLEAN, carry : BOOLEAN]

VARIABLES
  head, file, (* the cartridge; the file: [banks, rtc, state] *)
  (* the task *)
  pc, pass,   (* where it is; "validate" or "write" *)
  n, todo,    (* the bank it is at; the bus operations to come *)
  hasRtc,     (* Info.Mapper.HasRtc *)
  block, good,             (* CartIoBuffer; SaveCrc is that of the file so far *)
  seen, verdict,           (* the registers read; result of the bus operations *)
  snap, mismatch,          (* the copy of the save; Check.Mismatch *)
  outcome,
  (* the cartridge *)
  regs, mem,  (* registers of the mapper; what each bank of RAM holds *)
  clock, latched, latch,   (* registers, their latched copy, last latch write *)
  (* history *)
  faults, ticks, since,    (* errors; seconds; seconds since the clock was set *)
  validated, begun, spoiled (* passes; the clock; errors while the save is guarded *)

task == <<pass, n, todo, hasRtc, block, good, seen, verdict, snap, mismatch>>
time == <<clock, latched, latch, ticks, since>>
fixed == <<head, file>>
marks == <<validated, begun, spoiled>>
vars == <<fixed, pc, task, outcome, regs, mem, time, faults, marks>>

Old == -1
Bad == -2
Other == -3       \* sent by the PC, but not the file
cart == Info(head)
Banks == 0 .. cart.ramBanks - 1

-----------------------------------------------------------------------------
(* The clock's state, packed into 32 bits in the code, and its registers.  *)

IsStateValid(t) == t.s <= 59 /\ t.m <= 59 /\ t.h <= 23 /\ t.d <= 511

FromRegisters(r) ==
  [s |-> r[1] % 64, m |-> r[2] % 64, h |-> r[3] % 32, d |-> r[4] + 256 * (r[5] % 2),
   halt |-> (r[5] \div 64) % 2 = 1, carry |-> (r[5] \div 128) % 2 = 1]

Bit(b, v) == IF b THEN v ELSE 0
ToRegisters(t) ==
  << t.s, t.m, t.h, t.d % 256, t.d \div 256 + Bit(t.halt, 64) + Bit(t.carry, 128) >>

(* CartRtc_AdvanceOneSecond, carried from field to field. *)
AdvanceOneSecond(t) ==
  LET minute == t.s + 1 = 60
      hour   == minute /\ t.m + 1 = 60
      day    == hour /\ t.h + 1 = 24
      round  == day /\ t.d + 1 = 512
      Next60(v, carries) == IF carries THEN 0 ELSE v
  IN IF t.halt THEN t
     ELSE [t EXCEPT !.s = Next60(@ + 1, minute),
                    !.m = Next60(IF minute THEN @ + 1 ELSE @, hour),
                    !.h = Next60(IF hour THEN @ + 1 ELSE @, day),
                    !.d = Next60(IF day THEN @ + 1 ELSE @, round),
                    !.carry = @ \/ round]

(* The crystal counts seconds: what a clock shows k seconds after t.       *)
Day == 86400
Later(t, k) ==
  LET total == ((t.d * 24 + t.h) * 60 + t.m) * 60 + t.s + k
  IN IF t.halt THEN t
     ELSE [t EXCEPT !.s = total % 60, !.m = (total \div 60) % 60,
                    !.h = (total \div 3600) % 24, !.d = (total \div Day) % 512,
                    !.carry = @ \/ total >= 512 * Day]

-----------------------------------------------------------------------------
(* The bus operations of cart_rtc.c; "r" reads 256 bytes, "w" writes one.  *)

Op(kind, address, value) == [op |-> kind, address |-> address, value |-> value]
Latch == << Op("w", \h0000, \h0A), Op("w", \h6000, 0), Op("w", \h6000, 1) >>
Finish == << Op("w", \h4000, 0), Op("w", \h0000, 0) >>
Reads(address) ==     \* registers 8 to 12
  [i \in 1 .. 10 |-> IF i % 2 = 1 THEN Op("w", \h4000, 8 + i \div 2)
                     ELSE Op("r", address, 7 + i \div 2)]
Put(r, value) == << Op("w", \h4000, r), Op("w", \hA000, value) >>

\* Faulty variant: the clock runs while it is written.
SetRunning(t) ==
  LET r == ToRegisters(t)
  IN Put(12, r[5]) \o Put(8, r[1]) \o Put(9, r[2]) \o Put(10, r[3]) \o Put(11, r[4])

(* The clock is halted first and let go last. *)
SetClock(t) ==
  LET r == ToRegisters(t)
  IN Put(12, IF t.halt THEN r[5] ELSE r[5] + 64)
     \o Put(8, r[1]) \o Put(9, r[2]) \o Put(10, r[3]) \o Put(11, r[4]) \o Put(12, r[5])

Probe == Latch \o Reads(\hA880) \o Finish
WriteAndVerify(t) == Latch \o SetClock(t) \o Latch \o Reads(\hA000) \o Finish

-----------------------------------------------------------------------------
(* What ImportCommand may ask for: the save's size, with or without a clock. *)
Requests ==
  {f \in [banks : {cart.ramBanks, cart.ramBanks + 1}, rtc : BOOLEAN, state : Sent] :
     f.rtc \/ f.state = CHOOSE t \in Sent : TRUE}

Init ==
  /\ head \in Carts
  /\ file \in Requests
  /\ pc = "header" /\ pass = "validate" /\ n = 0 /\ todo = <<>> /\ hasRtc = HasRtc(head.type)
  /\ block = Bad /\ good = TRUE /\ seen = <<>> /\ verdict = "ok"
  /\ snap = [b \in Banks |-> Bad] /\ mismatch = FALSE /\ outcome = "running"
  /\ regs \in {PowerUp, [on |-> TRUE, lo |-> 17, hi |-> 1, mode |-> 1, rb |-> 2]}
  /\ mem = [b \in Banks |-> Old]
  /\ \E t \in Clocks : clock = ToRegisters(t) /\ latched = clock
  /\ head.chip = "clock" \/ clock = ToRegisters(CHOOSE t \in Clocks : TRUE)
  /\ latch = 1
  /\ faults = 0 /\ ticks = 0 /\ since = 0
  /\ validated = FALSE /\ begun = FALSE /\ spoiled = FALSE

Go(p) == pc' = p /\ UNCHANGED outcome
Fails == pc' = "cleanup" /\ outcome' = "failed"

Error == /\ faults < MaxFaults /\ faults' = faults + 1
Steady == UNCHANGED <<fixed, faults, marks>>

Shown(r) == IF RamSeen(cart, r) \in Banks THEN mem[RamSeen(cart, r)] ELSE Bad
Stored(r, content) ==
  IF RamSeen(cart, r) \in Banks THEN [mem EXCEPT ![RamSeen(cart, r)] = content] ELSE mem

-----------------------------------------------------------------------------
(* The cartridge is looked at and the PC told. *)

ReadCartInfo ==
  /\ pc = "header"
  /\ regs' = ChipWrites(cart, regs, Normalize)
  /\ IF hasRtc THEN Go("probe") /\ todo' = Probe ELSE Go("info") /\ UNCHANGED todo
  /\ UNCHANGED <<pass, n, hasRtc, block, good, seen, verdict, snap, mismatch, mem, time>>
  /\ Steady

(* What 256 bytes look like that should repeat one register: a number if   *)
(* they are all equal (0 for FF too), else -1.                             *)
Looks(address) ==
  IF head.chip = "clock" /\ regs.rb \in 8 .. 12 THEN {latched[regs.rb - 7]}
  ELSE {-1, 0, 1}

BusWrites(op) ==
  LET set == head.chip = "clock" /\ regs.on /\ regs.rb \in 8 .. 12
      bank == RamSeen(cart, regs)
  IN IF op.address < \h8000
       THEN /\ regs' = ChipWrite(cart, regs, op)
            /\ IF head.chip = "clock" /\ op.address = \h6000
                 THEN /\ latch' = op.value
                      /\ latched' = IF op.value = 1 /\ latch = 0 THEN clock ELSE latched
                 ELSE UNCHANGED <<latch, latched>>
            /\ UNCHANGED <<mem, clock, since>>
     ELSE IF set
       THEN /\ clock' = [clock EXCEPT ![regs.rb - 7] = op.value]
            /\ since' = 0
            /\ UNCHANGED <<regs, mem, latched, latch>>
     ELSE /\ IF bank \in Banks           \* the byte may be there already
             THEN \E content \in {bank, Bad} : mem' = [mem EXCEPT ![bank] = content]
             ELSE UNCHANGED mem
          /\ UNCHANGED <<regs, clock, since, latched, latch>>

AtBus == pc \in {"probe", "probeAgain", "clockProbe", "clock"} /\ todo # <<>>

Bus ==
  /\ AtBus
  /\ LET op == Head(todo)
     IN IF op.op = "w"
          THEN BusWrites(op) /\ todo' = Tail(todo) /\ UNCHANGED seen
          ELSE \E value \in Looks(op.address) :
                 /\ seen' = Append(seen, value)
                 /\ todo' = IF value = -1 THEN Finish ELSE Tail(todo)
                 /\ UNCHANGED <<regs, mem, clock, latched, latch, since>>
  /\ UNCHANGED <<pc, outcome, pass, n, hasRtc, block, good, verdict, snap, mismatch, ticks>>
  /\ Steady

(* Finish is tried after any error, both of its writes. *)
BusFails ==
  /\ AtBus /\ Error
  /\ \/ Head(todo).op = "w" /\ BusWrites(Head(todo))
     \/ UNCHANGED <<regs, mem, clock, latched, latch, since>>
  /\ verdict' = "error"
  /\ todo' = IF Len(todo) > Len(Finish) THEN Finish ELSE Tail(todo)
  /\ UNCHANGED <<pc, outcome, pass, n, hasRtc, block, good, seen, snap, mismatch, ticks,
                 fixed, marks>>

Missing == \E i \in DOMAIN seen : seen[i] = -1
Unconfirmed == \A i \in DOMAIN seen : seen[i] = 0

(* ProbePhysicalRtc looks again after 1.1 s: a clock may show zero.        *)
ProbeAgain ==
  /\ pc = "probe" /\ todo = <<>>
  /\ verdict = "ok" /\ Unconfirmed
  /\ pc' = "probeAgain" /\ todo' = Probe /\ seen' = <<>>
  /\ clock' = IF head.chip = "clock"
              THEN ToRegisters(Later(FromRegisters(clock), 1)) ELSE clock
  /\ UNCHANGED <<outcome, pass, n, hasRtc, block, good, verdict, snap, mismatch, regs, mem,
                 latched, latch, ticks, since>>
  /\ Steady

Probed ==
  /\ pc \in {"probe", "probeAgain"} /\ todo = <<>>
  /\ pc = "probe" => verdict # "ok" \/ ~Unconfirmed
  /\ IF verdict # "ok" THEN Fails ELSE Go("info")
  /\ hasRtc' = (hasRtc /\ ~Missing /\ ~Unconfirmed)
  /\ seen' = <<>>
  /\ UNCHANGED <<pass, n, todo, block, good, verdict, snap, mismatch, regs, mem, time>>
  /\ Steady

Wrong == \/ file.banks # cart.ramBanks
         \/ file.rtc /\ ~hasRtc
         \/ file.banks = 0 /\ ~file.rtc

OnInfo ==
  /\ pc = "info"
  /\ IF Wrong THEN Fails ELSE Go("ready")
  /\ UNCHANGED <<task, regs, mem, time>> /\ Steady

-----------------------------------------------------------------------------
(* ReceiveImportPass, first to validate and then to write. *)

(* OnReady tells the PC which pass comes. *)
OnReady ==
  /\ pc = "ready"
  /\ n' = 0 /\ good' = TRUE
  /\ Go(IF cart.ramBanks = 0 THEN "crc" ELSE IF pass = "write" THEN "enable" ELSE "receive")
  /\ UNCHANGED <<pass, todo, hasRtc, block, seen, verdict, snap, mismatch, regs, mem, time>>
  /\ Steady

EnableRam ==
  /\ pc = "enable"
  /\ regs' = ChipWrites(cart, regs, PlanRamEnable(cart))
  /\ Go("receive")
  /\ UNCHANGED <<task, mem, time>> /\ Steady

NextBank == /\ n' = n + 1
         /\ Go(IF n + 1 = cart.ramBanks THEN "crc" ELSE "receive")

Receive ==
  /\ pc = "receive"
  /\ block' = n
  /\ IF pass = "write" THEN Go("write") /\ UNCHANGED n ELSE NextBank
  /\ UNCHANGED <<pass, todo, hasRtc, good, seen, verdict, snap, mismatch, regs, mem, time>>
  /\ Steady

(* The PC sends something else; only the sum at the end tells. *)
ReceiveOther ==
  /\ pc = "receive" /\ Error
  /\ block' = Other /\ good' = FALSE
  /\ IF pass = "write" THEN Go("write") /\ UNCHANGED n ELSE NextBank
  /\ UNCHANGED <<pass, todo, hasRtc, seen, verdict, snap, mismatch, regs, mem, time, fixed,
                 marks>>

Select(b) == ChipWrites(cart, regs, PlanRamBank(cart, b))

WriteBlock ==
  /\ pc = "write"
  /\ regs' = Select(n)
  /\ mem' = Stored(regs', block)
  /\ Go("verify")
  /\ UNCHANGED <<task, time>> /\ Steady

(* The RAM keeps something else. *)
WriteIsLost ==
  /\ pc = "write" /\ Error
  /\ regs' = Select(n)
  /\ mem' \in {mem, Stored(regs', Bad)}
  /\ Go("verify")
  /\ UNCHANGED <<task, time, fixed, marks>>

\* Faulty variant: what was written is not compared.
VerifyBlindly ==
  /\ pc = "verify"
  /\ NextBank
  /\ UNCHANGED <<pass, todo, hasRtc, block, good, seen, verdict, snap, mismatch, regs, mem,
                 time>>
  /\ Steady

VerifyBlock ==
  /\ pc = "verify"
  /\ IF Shown(regs) = block THEN NextBank ELSE Fails /\ UNCHANGED n
  /\ UNCHANGED <<pass, todo, hasRtc, block, good, seen, verdict, snap, mismatch, regs, mem,
                 time>>
  /\ Steady

(* What a pass goes on with; the second one sets the clock last. *)
PassDone == IF pass = "validate"
              THEN /\ pass' = "write" /\ validated' = good /\ Go("ready")
            ELSE /\ pc' = "cleanup" /\ outcome' = "ok" /\ UNCHANGED <<pass, validated>>

\* Faulty variant: the sum of what was only received is not compared.
CheckSumAtEnd ==
  /\ pc = "crc"
  /\ IF pass = "write" /\ ~good THEN Fails /\ UNCHANGED <<pass, validated>>
     ELSE IF file.rtc THEN Go("state") /\ UNCHANGED <<pass, validated>>
     ELSE PassDone
  /\ UNCHANGED <<n, todo, hasRtc, block, good, seen, verdict, snap, mismatch, regs, mem, time,
                 fixed, faults, begun, spoiled>>

CheckSum ==
  /\ pc = "crc"
  /\ IF ~good THEN Fails /\ UNCHANGED <<pass, validated>>
     ELSE IF file.rtc THEN Go("state") /\ UNCHANGED <<pass, validated>>
     ELSE PassDone
  /\ UNCHANGED <<n, todo, hasRtc, block, good, seen, verdict, snap, mismatch, regs, mem, time,
                 fixed, faults, begun, spoiled>>

(* The state has a sum of its own. *)
ReceiveState ==
  /\ pc = "state"
  /\ n' = 0
  /\ IF ~IsStateValid(file.state) THEN Fails /\ UNCHANGED <<pass, validated>>
     ELSE IF pass = "validate" THEN PassDone
     ELSE /\ Go(IF cart.ramBanks = 0 THEN "clockProbe" ELSE "snapshot")
          /\ UNCHANGED <<pass, validated>>
  /\ todo' = Probe /\ seen' = <<>>
  /\ begun' = (pass = "write" /\ IsStateValid(file.state))
  /\ UNCHANGED <<hasRtc, block, good, verdict, snap, mismatch, regs, mem, time,
                 fixed, faults, spoiled>>

-----------------------------------------------------------------------------
(* WritePhysicalRtc. *)

Reading(b) == ChipWrites(cart, regs, PlanRamEnable(cart) \o PlanRamBank(cart, b))

(* ReadRtcSaveSnapshot; the copy is used only if it has the file's sum.    *)
Snapshot ==
  /\ pc = "snapshot"
  /\ regs' = Reading(n)
  /\ snap' = [snap EXCEPT ![n] = Shown(regs')]
  /\ n' = (n + 1) % cart.ramBanks
  /\ IF n + 1 < cart.ramBanks THEN Go(pc)
     ELSE IF \A b \in Banks : snap'[b] = b THEN Go("clockProbe") ELSE Fails
  /\ UNCHANGED <<pass, todo, hasRtc, block, good, seen, verdict, mismatch, mem, time>>
  /\ Steady

CheckSave == IF cart.ramBanks > 0 THEN "check" ELSE "settle"

(* CartRtc_WriteAndVerify, after its probe and at its end. *)
ClockProbed ==
  /\ pc = "clockProbe" /\ todo = <<>>
  /\ IF verdict = "ok" /\ ~Missing /\ ~Unconfirmed
       THEN Go("clock") /\ todo' = WriteAndVerify(file.state) /\ UNCHANGED verdict
     ELSE Go(CheckSave) /\ verdict' = "error" /\ UNCHANGED todo
  /\ seen' = <<>> /\ since' = 0
  /\ UNCHANGED <<pass, n, hasRtc, block, good, snap, mismatch, regs, mem, clock, latched,
                 latch, ticks>>
  /\ Steady

Verified(t) == t \in {file.state, AdvanceOneSecond(file.state)}

\* Faulty variant: the error is returned without a look at the save.
ClockDoneOrGivenUp ==
  /\ pc = "clock" /\ todo = <<>>
  /\ LET ok == /\ verdict = "ok" /\ ~Missing
               /\ IsStateValid(FromRegisters(seen)) /\ Verified(FromRegisters(seen))
     IN /\ verdict' = IF ok THEN "ok" ELSE "error"
        /\ IF ok THEN Go(CheckSave) ELSE Fails
  /\ UNCHANGED <<pass, n, todo, hasRtc, block, good, seen, snap, mismatch, regs, mem, time>>
  /\ Steady

ClockDone ==
  /\ pc = "clock" /\ todo = <<>>
  /\ LET ok == /\ verdict = "ok" /\ ~Missing
               /\ IsStateValid(FromRegisters(seen)) /\ Verified(FromRegisters(seen))
     IN verdict' = IF ok THEN "ok" ELSE "error"
  /\ seen' = <<>>
  /\ Go(CheckSave)
  /\ UNCHANGED <<pass, n, todo, hasRtc, block, good, snap, mismatch, regs, mem, time>>
  /\ Steady

(* The complete save against its copy, after the clock and after recovery. *)
Check ==
  /\ pc \in {"check", "recheck"}
  /\ regs' = Reading(n)
  /\ mismatch' = (mismatch \/ Shown(regs') # snap[n])
  /\ n' = (n + 1) % cart.ramBanks
  /\ Go(IF n + 1 < cart.ramBanks THEN pc
        ELSE IF pc = "check" /\ mismatch' THEN "recover" ELSE "settle")
  /\ UNCHANGED <<pass, todo, hasRtc, block, good, seen, verdict, snap, mem, time>> /\ Steady

(* RestoreRtcSaveSnapshot. *)
Recover ==
  /\ pc = "recover"
  /\ regs' = Reading(n)
  /\ mem' = Stored(regs', snap[n])
  /\ n' = (n + 1) % cart.ramBanks
  /\ Go(IF n + 1 < cart.ramBanks THEN pc ELSE "recheck")
  /\ verdict' = "error"                  \* ESP_ERR_INVALID_RESPONSE, or worse
  /\ UNCHANGED <<pass, todo, hasRtc, block, good, seen, snap, mismatch, time>> /\ Steady

RtcDone ==
  /\ pc = "settle"
  /\ pc' = "cleanup" /\ outcome' = IF verdict = "ok" THEN "ok" ELSE "failed"
  /\ UNCHANGED <<task, regs, mem, time>> /\ Steady

-----------------------------------------------------------------------------
(* Any call of the link or the PC may fail; the write it made may be half  *)
(* done.  With the save's copy at hand that costs its recovery.            *)
Guarded == {"snapshot", "check", "recover", "recheck"}

Writes == CASE pc = "header"                -> Normalize
            [] pc = "enable"                -> PlanRamEnable(cart)
            [] pc = "write"                 -> PlanRamBank(cart, n)
            [] pc \in Guarded               -> PlanRamEnable(cart) \o PlanRamBank(cart, n)
            [] pc = "cleanup"               -> PlanRestore(cart)
            [] OTHER                        -> <<>>
Partly == \E k \in 0 .. Len(Writes) : regs' = ChipWrites(cart, regs, SubSeq(Writes, 1, k))

CallFails ==
  /\ pc \in {"header", "info", "ready", "enable", "receive", "write", "verify", "state"}
           \cup Guarded
  /\ Error /\ Partly
  /\ pc' = IF pc = "header" THEN "idle" ELSE "cleanup"
  /\ outcome' = "failed"
  /\ spoiled' = (spoiled \/ pc \in Guarded)
  /\ mem' \in IF pc \in {"write", "recover"} /\ regs' = ChipWrites(cart, regs, Writes)
              THEN {mem, Stored(regs', IF pc = "write" THEN block ELSE snap[n]),
                    Stored(regs', Bad)}
              ELSE {mem}
  /\ UNCHANGED <<task, time, fixed, validated, begun>>

(* The range is aborted, the mapper restored as far as the link lets it.   *)
Cleanup ==
  /\ pc = "cleanup"
  /\ pc' = "idle" /\ UNCHANGED outcome
  /\ \/ regs' = ChipWrites(cart, regs, Writes) /\ UNCHANGED faults
     \/ Partly /\ Error
  /\ UNCHANGED <<task, mem, time, fixed, marks>>

(* A second is longer than setting and reading the clock takes, unless     *)
(* calls had to be repeated.                                               *)
Tick ==
  /\ head.chip = "clock" /\ pc # "idle" /\ ~FromRegisters(clock).halt
  /\ ticks < MaxTicks /\ ticks' = ticks + 1
  /\ (pc = "clock" /\ since > 0) => faults > 0
  /\ since' = since + 1
  /\ clock' = ToRegisters(Later(FromRegisters(clock), 1))
  /\ UNCHANGED <<pc, outcome, task, regs, mem, latched, latch>> /\ Steady

Next ==
  \/ ReadCartInfo \/ Bus \/ BusFails \/ ProbeAgain \/ Probed \/ OnInfo \/ OnReady \/ EnableRam
  \/ Receive \/ ReceiveOther \/ WriteBlock \/ WriteIsLost \/ VerifyBlock \/ CheckSum
  \/ ReceiveState \/ Snapshot \/ ClockProbed \/ ClockDone \/ Check \/ Recover \/ RtcDone
  \/ CallFails \/ Cleanup \/ Tick

Spec == Init /\ [][Next]_vars

-----------------------------------------------------------------------------
(* An import that reports success left on the cartridge exactly the save   *)
(* that was sent, every bank in its place, and a clock that shows what was *)
(* sent and the seconds since: across midnight and the end of day 511,     *)
(* halted or not.                                                          *)
ImportIsExact ==
  outcome = "ok" =>
    /\ \A b \in Banks : mem[b] = b
    /\ file.rtc /\ head.chip = "clock" => FromRegisters(clock) = Later(file.state, since)

(* Not a byte of the save changes before the whole file arrived intact.    *)
UntouchedUntilChecked == validated \/ \A b \in Banks : mem[b] = Old

(* Once the save is written, setting the clock does not cost it, whatever  *)
(* the cartridge takes for a clock and whatever fails while it is set:     *)
(* only a link that fails again while the save is read or put back may.    *)
ClockNeverCostsSave ==
  pc = "idle" /\ begun /\ ~spoiled => \A b \in Banks : mem[b] = b

(* Without an error of link, PC or RAM, a valid file that fits is imported *)
(* into every supported cartridge, also if a second passes while the clock *)
(* is set or if the clock shows zero.                                      *)
Fits == /\ file.banks = cart.ramBanks
        /\ file.rtc => head.chip = "clock" /\ IsStateValid(file.state)
        /\ file.banks > 0 \/ file.rtc
FailsForAReason ==
  outcome = "failed" => faults > 0 \/ ~Fits \/ head.chip = "ram"
=============================================================================

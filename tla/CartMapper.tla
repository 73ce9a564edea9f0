----------------------------- MODULE CartMapper -----------------------------
(* How cart_mapper.c reads a cartridge's header and plans the writes that  *)
(* bring a bank into view, beside the mapper chips themselves as their     *)
(* data sheets describe them.  Addresses and values are the real ones.     *)
EXTENDS Integers, Sequences, SequencesExt

-----------------------------------------------------------------------------
(* DecodeHeader, CartMapper_Decode and CartMapper_ResolveGeometry.  A      *)
(* header is its type, ROM size and RAM size bytes.                        *)

Kind(type) == CASE type \in {0, 8, 9}                -> "rom_only"
                [] type \in 1 .. 3                   -> "mbc1"
                [] type \in 5 .. 6                   -> "mbc2"
                [] type \in \h0F .. \h13             -> "mbc3"
                [] type \in \h19 .. \h1E             -> "mbc5"
                [] type = \hFF                       -> "huc1"
                [] OTHER                             -> "unknown"

HasRam(type) == type \in {2, 3, 5, 6, 8, 9, \h10, \h12, \h13, \h1A, \h1B, \h1D,
                          \h1E, \hFF}
HasRtc(type) == type \in {\h0F, \h10}
HasRumble(type) == type \in \h1C .. \h1E

(* In banks of 16 KiB. *)
RomBanks(code) == CASE code \in 0 .. 8         -> 2 * 2 ^ code
                    [] code \in \h52 .. \h54   -> <<72, 80, 96>>[code - \h51]
                    [] OTHER                   -> 0
(* In KiB. *)
RamSize(code) == IF code \in 0 .. 5 THEN <<0, 2, 8, 32, 128, 64>>[code + 1] ELSE -1

IsMbc30(h) == /\ Kind(h.type) = "mbc3"
              /\ RomBanks(h.romCode) = 256 \/ RamSize(h.ramCode) = 64

MaxRomBanks(h) ==
  [rom_only |-> 2, mbc1 |-> 128, mbc2 |-> 16, mbc5 |-> 512, huc1 |-> 64,
   mbc3 |-> IF IsMbc30(h) THEN 256 ELSE 128][Kind(h.type)]
MaxRamSize(h) ==
  [rom_only |-> 8, mbc1 |-> 32, mbc2 |-> 1, huc1 |-> 32,
   mbc5 |-> IF HasRumble(h.type) THEN 64 ELSE 128,
   mbc3 |-> IF IsMbc30(h) THEN 64 ELSE 32][Kind(h.type)]

Supported(h) ==
  /\ Kind(h.type) # "unknown"
  /\ RamSize(h.ramCode) >= 0
  /\ RomBanks(h.romCode) \in 2 .. MaxRomBanks(h)
  /\ HasRam(h.type) /\ Kind(h.type) # "mbc2" => RamSize(h.ramCode) \in 1 .. MaxRamSize(h)

(* CartInfo_t; the 512 half-bytes of an MBC2 are one bank. *)
Info(h) == [kind  |-> Kind(h.type), mbc30 |-> IsMbc30(h), rumble |-> HasRumble(h.type),
            banks |-> RomBanks(h.romCode),
            ramBanks |-> IF ~HasRam(h.type) THEN 0
                         ELSE IF Kind(h.type) = "mbc2" THEN 1
                         ELSE (RamSize(h.ramCode) + 7) \div 8]

-----------------------------------------------------------------------------
(* CartMapper_Plan*: where to look and what to write first.                *)

W(address, value) == [address |-> address, value |-> value % 256]

Mbc1Aligned(info, b) == info.kind = "mbc1" /\ b % 32 = 0

Window(info, b) == IF b = 0 \/ Mbc1Aligned(info, b) THEN \h0000 ELSE \h4000

PlanRomBank(info, b) ==
  CASE info.kind = "mbc1" /\ b = 0 -> << W(\h6000, 0), W(\h4000, 0), W(\h2000, 1) >>
    [] info.kind = "mbc1" /\ b # 0 /\ b % 32 = 0 ->
         << W(\h6000, 1), W(\h4000, (b \div 32) % 4) >>
    [] info.kind = "mbc1" /\ b % 32 # 0 ->
         << W(\h6000, 0), W(\h4000, (b \div 32) % 4), W(\h2000, b % 32) >>
    [] info.kind = "rom_only" \/ (info.kind # "mbc1" /\ b = 0) -> << >>
    [] info.kind = "mbc2" /\ b # 0 -> << W(\h2100, b % 16) >>
    [] info.kind \in {"mbc3", "huc1"} /\ b # 0 -> << W(\h2000, b) >>
    [] info.kind = "mbc5" /\ b # 0 -> << W(\h2000, b), W(\h3000, (b \div 256) % 2) >>

PlanRamEnable(info) == IF info.kind = "rom_only" THEN << >> ELSE << W(\h0000, \h0A) >>

PlanRamBank(info, b) ==
  CASE info.kind \in {"rom_only", "mbc2"} -> << >>
    [] info.kind = "mbc1" -> << W(\h6000, 1), W(\h4000, b) >>
    [] info.kind \in {"mbc3", "huc1"} -> << W(\h4000, b) >>
    [] info.kind = "mbc5" -> << W(\h4000, b % 16) >>

PlanRestore(info) ==
  CASE info.kind \in {"rom_only", "unknown"} -> << >>
    [] info.kind = "mbc1" -> << W(\h0000, 0), W(\h6000, 0), W(\h4000, 0), W(\h2000, 1) >>
    [] info.kind = "mbc2" -> << W(\h0000, 0), W(\h2100, 1) >>
    [] info.kind = "mbc3" -> << W(\h0000, 0), W(\h4000, 0), W(\h2000, 1) >>
    [] info.kind = "mbc5" -> << W(\h0000, 0), W(\h4000, 0), W(\h3000, 0), W(\h2000, 1) >>
    [] info.kind = "huc1" -> << W(\h0000, \h0E), W(\hA000, 0), W(\h4000, 0), W(\h2000, 1) >>

(* NormalizeMapperBeforeHeader, before the mapper is known. *)
Normalize == << W(\h0000, 0), W(\h6000, 0), W(\h4000, 0), W(\h3000, 0), W(\h2100, 1) >>

(* BeginRomBankRange leaves out the writes its cache says are in effect.   *)
\* Faulty variant: a register written once is never written again.
ChangedOnce(plan, cache) ==
  SelectSeq(plan, LAMBDA w : \A c \in cache : c.address # w.address)

Changed(plan, cache) ==
  LET kept[k \in 0 .. Len(plan)] ==
        IF k = 0 THEN << >>
        ELSE IF plan[k] \in cache THEN kept[k - 1] ELSE Append(kept[k - 1], plan[k])
  IN kept[Len(plan)]

CacheMapperWrite(cache, w) == {c \in cache : c.address # w.address} \cup {w}
CacheAll(cache, writes) ==
  LET after[k \in 0 .. Len(writes)] ==
        IF k = 0 THEN cache ELSE CacheMapperWrite(after[k - 1], writes[k])
  IN after[Len(writes)]

-----------------------------------------------------------------------------
(* The mapper chips: what a write to the ROM area does, and what is seen.  *)

PowerUp == [on |-> FALSE, lo |-> 1, hi |-> 0, mode |-> 0, rb |-> 0]

NonZero(v) == IF v = 0 THEN 1 ELSE v
Low(v) == v % 16 = 10

ChipWrite(info, r, w) ==
  LET area == w.address \div \h2000
      kind == info.kind
  IN CASE kind = "rom_only" \/ area > 3 -> r
       [] kind = "mbc2" /\ area < 2 ->
            IF (w.address \div 256) % 2 = 1 THEN [r EXCEPT !.lo = NonZero(w.value % 16)]
            ELSE [r EXCEPT !.on = Low(w.value)]
       [] kind = "huc1" /\ area = 0 -> [r EXCEPT !.on = w.value # \h0E]
       [] kind \in {"mbc1", "mbc3", "mbc5"} /\ area = 0 -> [r EXCEPT !.on = Low(w.value)]
       [] kind = "mbc1" /\ area = 1 -> [r EXCEPT !.lo = NonZero(w.value % 32)]
       [] kind = "mbc1" /\ area = 2 -> [r EXCEPT !.hi = w.value % 4]
       [] kind = "mbc1" /\ area = 3 -> [r EXCEPT !.mode = w.value % 2]
       [] kind = "mbc3" /\ area = 1 ->
            [r EXCEPT !.lo = NonZero(w.value % (IF info.mbc30 THEN 256 ELSE 128))]
       [] kind = "huc1" /\ area = 1 -> [r EXCEPT !.lo = NonZero(w.value % 64)]
       [] kind = "mbc5" /\ area = 1 ->
            IF w.address < \h3000 THEN [r EXCEPT !.lo = w.value]
            ELSE [r EXCEPT !.hi = w.value % 2]
       [] kind \in {"mbc3", "mbc5", "huc1"} /\ area = 2 -> [r EXCEPT !.rb = w.value % 16]
       [] OTHER -> r

ChipWrites(info, r, writes) ==
  LET after[k \in 0 .. Len(writes)] ==
        IF k = 0 THEN r ELSE ChipWrite(info, after[k - 1], writes[k])
  IN after[Len(writes)]

(* The bank of ROM seen at a window, and the bank of RAM at A000, or -1.   *)
RomSeen(info, r, window) ==
  LET bank == CASE info.kind = "mbc1" /\ window = 0 -> r.mode * r.hi * 32
                [] info.kind = "mbc1" /\ window # 0 -> r.hi * 32 + r.lo
                [] info.kind # "mbc1" /\ window = 0 -> 0
                [] info.kind = "rom_only" /\ window # 0 -> 1
                [] info.kind = "mbc5" /\ window # 0 -> r.hi * 256 + r.lo
                [] OTHER -> r.lo
  IN bank % info.banks

RamSeen(info, r) ==
  CASE info.kind = "rom_only" -> 0
    [] info.kind # "rom_only" /\ ~r.on -> -1
    [] info.kind = "mbc1" /\ r.on -> (r.mode * r.hi) % info.ramBanks
    [] info.kind = "mbc2" /\ r.on -> 0
    [] OTHER -> r.rb % info.ramBanks
=============================================================================

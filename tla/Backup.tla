------------------------------- MODULE Backup -------------------------------
(* Backing a cartridge up to the SD card.  The menu's backup task          *)
(* (cart_backup.c) reads the ROM bank by bank through its mapper into two  *)
(* buffers, which a writer task sums and writes; then it reads the save,   *)
(* hands the cartridge back, and replaces the older backup, all files      *)
(* together, through temporary and .old names.  A PC (pc_sd.c) asks for    *)
(* the same, or for the save alone, with the clock's state if there is     *)
(* one; its task writes the files itself and reads each one back.  A       *)
(* cartridge is its header and the chip's registers, a file is the run     *)
(* that wrote it.  FatFs calls and cartridge operations are the steps;     *)
(* each may fail, and power may be cut.                                    *)
EXTENDS CartMapper

CONSTANTS
  Limits,   (* the headers, with bounds: [header -> [runs, faults, cuts]] *)
  Depth     (* kRomBufferCount *)

Headers == DOMAIN Limits
ASSUME BackupAssumption ==
  /\ Depth \in Nat \ {0}
  /\ \A h \in Headers : /\ {Limits[h].runs, Limits[h].faults, Limits[h].cuts} \subseteq Nat
                        /\ Supported(h) => Info(h).banks > 1

VARIABLES
  head,       (* the header of the cartridge in the slot *)
  (* the backup task *)
  pc, failed, (* where it is; Result # ESP_OK *)
  info,       (* "none"; "decoded" by DecodeHeader; "named" by MakePaths *)
  acquired,   (* Acquired *)
  route,      (* who asked: the menu, or a PC, also for the save alone *)
  want,       (* BackupExpected: the artifacts to back up *)
  n, art,     (* the bank, or the artifact, it is at *)
  cache,      (* DumpRom's MapperCache, a set of writes *)
  hold,       (* BufferIndex *)
  staged, published,       (* the artifacts that are *)
  (* the writer and what it shares with the backup task *)
  writer, index,           (* where it is; its BufferIndex *)
  buf,        (* RomBankBuffers: the bank each holds *)
  work, free, (* WorkQueue, FreeQueue *)
  wok, sum,   (* RomWriter's Result, Checksum *)
  (* the cartridge and the card *)
  regs,       (* the registers of its mapper *)
  stream,     (* "open" in the engine, "unheard" if the MCU does not know *)
  rom, save,  (* banks in place in the temporary files, or Bad *)
  fs,         (* the names of each artifact *)
  (* history *)
  run, before, outcome, passed, faults, cuts,
  undone,     (* a call of the roll back failed *)
  strained    (* a call that switches cartridge RAM off failed *)

task == <<pc, failed, info, acquired, route, want, n, art>>
marks == <<staged, published>>
queues == <<hold, work, free>>
sums == <<writer, index, wok, sum, rom>>
chip == <<regs, stream>>
history == <<head, run, before, outcome, passed, faults, cuts, undone, strained>>
vars == <<task, cache, marks, queues, buf, sums, chip, save, fs, history>>

None == -1
Bad == -2                          \* torn, or with a bank out of place
Stop == -3                         \* kRomBufferCount or more
Buffers == 0 .. Depth - 1
cart == Info(head)
Names == {"rom", "save", "rtc"}
Artifacts == {a \in Names : /\ a = "save" => cart.ramBanks > 0
                            /\ a = "rtc" => HasRtc(head.type)}
Found == [final |-> None, temp |-> None, old |-> None]

(* What a game may have left in the mapper's registers. *)
Played(h) == IF Kind(h.type) \in {"rom_only", "unknown"} THEN {PowerUp}
             ELSE {PowerUp, [on |-> TRUE, lo |-> 17, hi |-> 1, mode |-> 1, rb |-> 2]}

Init ==
  /\ head \in Headers
  /\ \E older \in {None, 0} :      \* the card may hold a backup, numbered 0
       /\ fs = [a \in Names |->
                  IF a \in Artifacts THEN [Found EXCEPT !.final = older] ELSE Found]
       /\ passed = [a \in Artifacts |-> older]
  /\ pc = "idle" /\ failed = FALSE /\ info = "none" /\ acquired = FALSE
  /\ route = "menu" /\ want = {} /\ n = 0 /\ art = "rom" /\ cache = {} /\ hold = None /\ staged = {} /\ published = {}
  /\ writer = "off" /\ index = None /\ buf = [i \in Buffers |-> Bad]
  /\ work = <<>> /\ free = <<>> /\ wok = TRUE /\ sum = 0
  /\ regs \in Played(head) /\ stream = "none" /\ rom = 0 /\ save = 0
  /\ run = 0 /\ before = fs /\ outcome = "none" /\ faults = 0 /\ cuts = 0
  /\ undone = FALSE /\ strained = FALSE

-----------------------------------------------------------------------------
(* Where the backup task goes next. *)

Go(p) == pc' = p /\ UNCHANGED <<failed, info, acquired, route, want, n, art>>
Bank(p, banks, done) == /\ n' = n + 1
                        /\ pc' = IF n + 1 = banks THEN done ELSE p
                        /\ UNCHANGED <<failed, info, acquired, route, want, art>>

Rank == [rom |-> 1, save |-> 2, rtc |-> 3]
Least(S) == IF "rom" \in S THEN "rom" ELSE IF "save" \in S THEN "save" ELSE "rtc"
First == IF want = {} THEN "rom" ELSE Least(want)
Later == {a \in want : Rank[a] > Rank[art]}
Cleanup == /\ pc' = "stop" /\ failed' = TRUE /\ art' = First
           /\ UNCHANGED <<info, acquired, route, want, n>>

(* Step p for the next artifact, and after the last one step done for the  *)
(* first.                                                                  *)
After(p, done) ==
  /\ IF Later # {} THEN art' = Least(Later) /\ pc' = p ELSE art' = First /\ pc' = done
  /\ UNCHANGED <<failed, info, acquired, route, want, n>>
Each(p) == After(pc, p)

(* An error of a call: the calls are many, the bound on errors is one. *)
Fault == /\ faults < Limits[head].faults /\ faults' = faults + 1
         /\ UNCHANGED <<head, run, before, outcome, passed, cuts>>
Steady == UNCHANGED <<undone, strained>>

pipeline == <<queues, buf, sums>>
Files(new) == fs' = new /\ UNCHANGED <<cache, pipeline, chip, save>>
Chip(r, s) == /\ regs' = r /\ stream' = s
              /\ UNCHANGED <<marks, pipeline, fs>>

-----------------------------------------------------------------------------
(* The card, the session and the header. *)

(* A task's variables as they are before its run, or after a power cut.    *)
Fresh == /\ failed' = FALSE /\ info' = "none" /\ acquired' = FALSE
         /\ want' = {} /\ n' = 0 /\ art' = "rom" /\ cache' = {}
         /\ staged' = {} /\ published' = {}
         /\ hold' = None /\ work' = <<>> /\ free' = <<>>
         /\ writer' = "off" /\ index' = None /\ buf' = [i \in Buffers |-> Bad]
         /\ wok' = TRUE /\ sum' = 0 /\ rom' = 0 /\ save' = 0 /\ stream' = "none"

Start ==
  /\ pc = "idle" /\ run < Limits[head].runs
  /\ pc' = "mount" /\ run' = run + 1
  /\ route' \in {"menu", "pc", "pcSave"}
  /\ Fresh /\ regs' \in Played(head)
  /\ before' = fs /\ outcome' = "running"
  /\ undone' = FALSE /\ strained' = FALSE
  /\ UNCHANGED <<fs, head, passed, faults, cuts>>

Mount == pc = "mount" /\ Go("enter") /\ Files(fs) /\ UNCHANGED <<marks, history>>

Enter == /\ pc = "enter"
         /\ acquired' = TRUE /\ pc' = "header"
         /\ Files(fs)
         /\ UNCHANGED <<failed, info, route, want, n, art, marks, history>>

ReadHeader ==
  /\ pc = "header"
  /\ Chip(ChipWrites(cart, regs, Normalize), stream)
  /\ IF ~Supported(head)
       THEN /\ info' = IF route = "menu" THEN "decoded" ELSE "none"
            /\ pc' = "stop" /\ failed' = TRUE /\ UNCHANGED want
     ELSE IF route # "menu"
       THEN info' = "decoded" /\ pc' = "probe" /\ UNCHANGED <<failed, want>>
     ELSE /\ info' = "named" /\ pc' = "recover"
          /\ want' = Artifacts \ {"rtc"} /\ UNCHANGED failed
  /\ UNCHANGED <<acquired, route, n, art, cache, save, history>>

(* ProbePhysicalRtc may find no clock, whatever the header says; it leaves *)
(* cartridge RAM switched off.  Then BackupInfo.                           *)
RamOff == [regs EXCEPT !.on = FALSE, !.rb = 0]

ProbeRtc ==
  /\ pc = "probe"
  /\ Chip(IF HasRtc(head.type) THEN RamOff ELSE regs, stream)
  /\ want' \in {Artifacts \ without : without \in
                 {x \cup IF route = "pcSave" THEN {"rom"} ELSE {} : x \in {{}, {"rtc"}}}}
  /\ IF want' = {} THEN pc' = "stop" /\ failed' = TRUE /\ UNCHANGED <<info, art>>
     ELSE /\ pc' = "recover" /\ info' = "named" /\ UNCHANGED failed
          /\ art' = Least(want')
  /\ UNCHANGED <<acquired, route, n, cache, save, history>>

ProbeFails ==
  /\ pc = "probe" /\ HasRtc(head.type)
  /\ \E on \in BOOLEAN : Chip([RamOff EXCEPT !.on = on], stream)
  /\ Cleanup /\ Fault /\ Steady
  /\ UNCHANGED <<cache, save>>

HeaderFails ==
  /\ pc = "header"
  /\ \E k \in 0 .. Len(Normalize) :
       Chip(ChipWrites(cart, regs, SubSeq(Normalize, 1, k)), stream)
  /\ Cleanup /\ Fault /\ Steady
  /\ UNCHANGED <<cache, save>>

(* The backup of an artifact: the older one stands in for a missing one. *)
Available(a) == IF fs[a].final # None THEN fs[a].final ELSE fs[a].old

\* Faulty variant: the older file is preferred to the newer one.
RecoverOlder ==
  /\ pc = "recover"
  /\ Files([fs EXCEPT ![art] =
       IF @.old = None THEN @ ELSE [@ EXCEPT !.final = fs[art].old, !.old = None]])
  /\ before' = fs'
  /\ Each(IF route = "menu" THEN "open" ELSE "upload")
  /\ UNCHANGED <<marks, head, run, outcome, passed, faults, cuts, undone, strained>>

(* SDPublish_Recover. *)
Recover ==
  /\ pc = "recover"
  /\ Files([fs EXCEPT ![art] = [@ EXCEPT !.final = Available(art), !.old = None]])
  /\ before' = fs'
  /\ Each(IF route = "menu" THEN "open" ELSE "upload")
  /\ UNCHANGED <<marks, head, run, outcome, passed, faults, cuts, undone, strained>>

-----------------------------------------------------------------------------
(* DumpRom and its writer. *)

OpenTemp(a) == [fs EXCEPT ![a].temp = Bad]

OpenRom ==
  /\ pc = "open"
  /\ fs' = OpenTemp("rom")
  /\ writer' = "wait" /\ index' = None /\ wok' = TRUE /\ sum' = 0 /\ rom' = 0
  /\ work' = <<>> /\ free' = [i \in 1 .. Depth |-> i - 1] /\ hold' = None
  /\ cache' = {}
  /\ Go("dump")
  /\ UNCHANGED <<marks, buf, chip, save, history>>

OpenFails == /\ pc \in {"open", "openSave"}
             /\ Files(fs) \/ Files(OpenTemp(IF pc = "open" THEN "rom" ELSE "save"))
             /\ Cleanup /\ Fault /\ Steady /\ UNCHANGED marks

TakeBuffer ==
  /\ pc = "dump" /\ free # <<>>
  /\ hold' = Head(free) /\ free' = Tail(free)
  /\ IF wok THEN Go("begin") ELSE Cleanup
  /\ UNCHANGED <<cache, marks, work, buf, sums, chip, save, fs, history>>

BeginRomBankRange ==
  /\ pc = "begin"
  /\ LET changed == Changed(PlanRomBank(cart, n), cache)
     IN /\ regs' = ChipWrites(cart, regs, changed)
        /\ cache' = CacheAll(cache, changed)
  /\ stream' = "open"
  /\ buf' = [buf EXCEPT ![hold] = Bad]         \* until the last block is in
  /\ Go("read")
  /\ UNCHANGED <<marks, queues, sums, save, fs, history>>

(* Some of the writes were made; if all were, perhaps the range is open.   *)
Partly(writes) ==
  \E k \in 0 .. Len(writes), s \in {"none", "unheard"} :
    /\ s = "unheard" => k = Len(writes)
    /\ Chip(ChipWrites(cart, regs, SubSeq(writes, 1, k)), s)
    /\ strained' = (strained \/ s = "unheard")

BeginFails ==
  /\ pc = "begin"
  /\ Partly(Changed(PlanRomBank(cart, n), cache))
  /\ Cleanup /\ Fault /\ UNCHANGED <<cache, save, undone>>

ReadBank ==
  /\ pc = "read" /\ route = "menu" /\ Len(work) < Depth
  /\ buf' = [buf EXCEPT ![hold] = RomSeen(cart, regs, Window(cart, n))]
  /\ stream' = "none"
  /\ work' = Append(work, hold) /\ hold' = None
  /\ Bank("dump", cart.banks, "stop")
  /\ UNCHANGED <<cache, marks, free, sums, regs, save, fs, history>>

Extend(count, bank) == IF bank >= 0 /\ bank = count THEN count + 1 ELSE Bad

(* StreamRom: the PC's task writes the bank itself. *)
StreamBank ==
  /\ pc = "read" /\ route # "menu"
  /\ rom' = Extend(rom, RomSeen(cart, regs, Window(cart, n)))
  /\ stream' = "none"
  /\ Bank("begin", cart.banks, "finish")
  /\ UNCHANGED <<cache, marks, queues, buf, writer, index, wok, sum, regs, save, fs,
                 history>>

WriterTake ==
  /\ writer = "wait" /\ work # <<>>
  /\ work' = Tail(work)
  /\ IF Head(work) = Stop
       THEN writer' = "done" /\ UNCHANGED <<index, sum>>
       ELSE /\ writer' = "write" /\ index' = Head(work)
            /\ sum' = Extend(sum, buf[Head(work)])
  /\ UNCHANGED <<task, cache, marks, hold, free, buf, wok, rom, chip, save, fs, history>>

Write ==
  /\ writer = "write"
  /\ rom' = IF wok THEN Extend(rom, buf[index]) ELSE rom
  /\ writer' = "wait" /\ index' = None
  /\ free' = Append(free, index)
  /\ UNCHANGED <<task, cache, marks, hold, work, buf, wok, sum, chip, save, fs, history>>

WriteFails ==
  /\ writer = "write" /\ wok
  /\ wok' = FALSE
  /\ writer' = "wait" /\ index' = None
  /\ free' = Append(free, index)
  /\ Fault /\ Steady
  /\ UNCHANGED <<task, cache, marks, hold, work, buf, sum, rom, chip, save, fs>>

\* Faulty variant: a writer that had an error is taken to have left.
StopUnlessFailed ==
  /\ pc = "stop"
  /\ IF writer = "off" THEN Go("release") /\ UNCHANGED work
     ELSE /\ Len(work) < Depth
          /\ work' = IF wok THEN Append(work, Stop) ELSE work
          /\ Go("stopping")
  /\ UNCHANGED <<cache, marks, hold, free, buf, sums, chip, save, fs, history>>

(* StopRomWriter, after the dump or from Cleanup. *)
StopRomWriter ==
  /\ pc = "stop"
  /\ IF writer = "off" THEN Go("release") /\ UNCHANGED work
     ELSE Len(work) < Depth /\ work' = Append(work, Stop) /\ Go("stopping")
  /\ UNCHANGED <<cache, marks, hold, free, buf, sums, chip, save, fs, history>>

RomWriterStopped ==
  /\ pc = "stopping" /\ writer = "done"
  /\ writer' = "off" /\ work' = <<>> /\ free' = <<>> /\ hold' = None
  /\ buf' = [i \in Buffers |-> Bad]
  /\ IF failed THEN Go("release") ELSE IF wok THEN Go("check") ELSE Cleanup
  /\ UNCHANGED <<cache, marks, index, wok, sum, rom, chip, save, fs, history>>

(* A ROM with a bank out of place may have the right 16-bit sum. *)
CheckSum ==
  /\ pc = "check"
  /\ \/ Go(IF cart.ramBanks > 0 THEN "openSave" ELSE "restore")
     \/ sum # cart.banks /\ Cleanup
  /\ Files(fs) /\ UNCHANGED <<marks, history>>

-----------------------------------------------------------------------------
(* ReadRam into the save's file, and the cartridge's return. *)

OpenSave == /\ pc = "openSave"
            /\ Files(OpenTemp("save"))
            /\ Go("enable") /\ UNCHANGED <<marks, history>>

EnableRam == /\ pc = "enable"
             /\ Chip(ChipWrites(cart, regs, PlanRamEnable(cart)), "none")
             /\ save' = 0 /\ n' = 0 /\ pc' = "ram"
             /\ UNCHANGED <<failed, info, acquired, route, want, art, cache, history>>

SelectRam == /\ pc = "ram"
             /\ Chip(ChipWrites(cart, regs, PlanRamBank(cart, n)), "open")
             /\ Go("readRam") /\ UNCHANGED <<cache, save, history>>

RamFails ==
  /\ pc \in {"enable", "ram"}
  /\ Partly(IF pc = "ram" THEN PlanRamBank(cart, n) ELSE PlanRamEnable(cart))
  /\ pc = "enable" => stream' = "none"
  /\ Cleanup /\ Fault /\ UNCHANGED <<cache, save, undone>>

ReadRam == /\ pc = "readRam"
           /\ save' = Extend(save, RamSeen(cart, regs))
           /\ Chip(regs, "none")
           /\ Bank("ram", cart.ramBanks, IF route = "menu" THEN "restore" ELSE "finish")
           /\ UNCHANGED <<cache, history>>

(* BeginUpload; the clock is read before its file is opened.               *)
BeginUpload ==
  /\ pc = "upload"
  /\ fs' = OpenTemp(art)
  /\ regs' = IF art = "rtc" THEN RamOff ELSE regs
  /\ rom' = IF art = "rom" THEN 0 ELSE rom
  /\ cache' = {} /\ hold' = IF art = "rom" THEN 0 ELSE None
  /\ n' = 0
  /\ pc' = IF art = "rom" THEN "begin" ELSE IF art = "save" THEN "enable" ELSE "finish"
  /\ UNCHANGED <<failed, info, acquired, route, want, art, marks, work, free, buf, writer,
                 index, wok, sum, stream, save, history>>

UploadFails ==
  /\ pc = "upload"
  /\ \E on \in BOOLEAN :
       regs' = IF art = "rtc" THEN [RamOff EXCEPT !.on = on] ELSE regs
  /\ fs' \in {fs, OpenTemp(art)}
  /\ Cleanup /\ Fault /\ Steady
  /\ UNCHANGED <<cache, marks, pipeline, stream, save>>

(* The engine refuses writes while a range is open. *)
RestoreMapper ==
  /\ pc = "restore"
  /\ Chip(IF stream = "none" /\ info # "none"
            THEN ChipWrites(cart, regs, PlanRestore(cart)) ELSE regs, stream)
  /\ Go("exit") /\ UNCHANGED <<cache, save, history>>

RestoreFails ==
  /\ pc = "restore"
  /\ \E k \in 0 .. Len(PlanRestore(cart)) :
       Chip(IF stream = "none" /\ info # "none"
              THEN ChipWrites(cart, regs, SubSeq(PlanRestore(cart), 1, k)) ELSE regs, stream)
  /\ strained' = TRUE
  /\ Go("exit") /\ Fault /\ UNCHANGED <<cache, save, undone>>

RollBack == IF route = "menu" THEN "discard" ELSE "withdraw"
AfterSession == IF failed THEN IF info = "named" THEN RollBack ELSE "unmount"
                ELSE IF route = "menu" THEN "finish" ELSE "stage"

Exit == /\ pc = "exit"
        /\ acquired' = FALSE
        /\ pc' = AfterSession
        /\ Chip(regs, "none")
        /\ UNCHANGED <<failed, info, route, want, n, art, cache, save, history>>

(* In Cleanup the error of EXIT is ignored; a PC's run fails by it.        *)
ExitFails == /\ pc = "exit" /\ (failed \/ route # "menu")
             /\ acquired' = FALSE /\ failed' = TRUE
             /\ pc' = IF info = "named" THEN RollBack ELSE "unmount"
             /\ Chip(regs, "none") /\ Fault /\ Steady
             /\ UNCHANGED <<info, route, want, n, art, cache, save>>

-----------------------------------------------------------------------------
(* The replacement of the older backup. *)

Whole == /\ art = "rom" => rom = cart.banks
         /\ art = "save" => save = cart.ramBanks

Close == Files([fs EXCEPT ![art].temp = IF Whole THEN run ELSE Bad])

FinishFile == /\ pc = "finish" /\ route = "menu"
              /\ Close /\ Each("stage")
              /\ UNCHANGED <<marks, history>>

(* A PC's file is finished, and read back, before the next one is begun.   *)
BackupEnd == /\ pc = "finish" /\ route # "menu"
             /\ Close /\ After("upload", "restore")
             /\ UNCHANGED <<marks, history>>

Stage ==
  /\ pc = "stage"
  /\ IF fs[art].final = None THEN Files(fs) /\ UNCHANGED staged
     ELSE /\ Files([fs EXCEPT ![art] = [@ EXCEPT !.old = fs[art].final, !.final = None]])
          /\ staged' = staged \cup {art}
  /\ Each("swap") /\ UNCHANGED <<published, history>>

SwapIn ==
  /\ pc = "swap"
  /\ Files([fs EXCEPT ![art] = [@ EXCEPT !.final = fs[art].temp, !.temp = None]])
  /\ published' = published \cup {art}
  /\ Each(IF route = "menu" THEN "verify" ELSE "drop")
  /\ UNCHANGED <<staged, history>>

VerifyPublishedFile == /\ pc = "verify"
                       /\ Files(fs) /\ Each("drop") /\ UNCHANGED <<marks, history>>

DropOld == /\ pc = "drop"
           /\ IF art \in staged THEN Files([fs EXCEPT ![art].old = None]) ELSE Files(fs)
           /\ Each("unmount") /\ UNCHANGED <<marks, history>>

DropOldFails == /\ pc = "drop" /\ art \in staged
                /\ Files(fs) /\ Each("unmount")
                /\ Fault /\ Steady /\ UNCHANGED marks

(* The calls whose error leads to Cleanup and changes nothing. *)
CallFails ==
  /\ pc \in {"mount", "enter", "recover", "read", "check", "readRam", "finish", "stage",
             "swap", "verify"} \/ (pc = "exit" /\ ~failed /\ route = "menu")
  /\ Cleanup /\ Fault /\ Steady
  /\ Files(fs) /\ UNCHANGED marks

-----------------------------------------------------------------------------
(* Cleanup, in its order. *)

\* Faulty variant: the open range is forgotten.
ReleaseOnly == /\ pc = "release"
               /\ Chip(regs, stream)
               /\ Go(IF acquired THEN "restore" ELSE AfterSession)
               /\ UNCHANGED <<cache, save, history>>

Release == /\ pc = "release"
           /\ Chip(regs, IF acquired /\ stream = "open" THEN "none" ELSE stream)
           /\ Go(IF acquired THEN "restore" ELSE AfterSession)
           /\ UNCHANGED <<cache, save, history>>

AbortFails == /\ pc = "release" /\ acquired /\ stream = "open"
              /\ Chip(regs, stream) /\ strained' = TRUE
              /\ Go("restore") /\ Fault /\ UNCHANGED <<cache, save, undone>>

(* The menu's run unlinks the temporary files, then what it published, and *)
(* then puts back what it set aside; a PC's run does so file by file.      *)
Onward ==
  \/ route = "menu" /\ \/ pc = "discard" /\ Each("withdraw")
                       \/ pc = "withdraw" /\ Each("putBack")
                       \/ pc = "putBack" /\ Each("unmount")
  \/ route # "menu" /\ \/ pc = "withdraw" /\ Go("putBack")
                       \/ pc = "putBack" /\ Go("discard")
                       \/ pc = "discard" /\ After("withdraw", "unmount")

Discard == /\ pc = "discard"
           /\ Files([fs EXCEPT ![art].temp = None])
           /\ Onward /\ UNCHANGED <<marks, history>>

\* Faulty variant: a published file stays.
WithdrawNothing == /\ pc = "withdraw"
                   /\ Files(fs)
                   /\ Onward /\ UNCHANGED <<marks, history>>

Withdraw == /\ pc = "withdraw"
            /\ IF art \in published THEN Files([fs EXCEPT ![art].final = None])
               ELSE Files(fs)
            /\ Onward /\ UNCHANGED <<marks, history>>

(* FatFs refuses to rename onto a name that exists. *)
PutBack ==
  /\ pc = "putBack"
  /\ IF art \in staged /\ fs[art].final = None
       THEN Files([fs EXCEPT ![art] = [@ EXCEPT !.final = fs[art].old, !.old = None]])
       ELSE Files(fs)
  /\ Onward /\ UNCHANGED <<marks, history>>

RollBackFails == /\ pc \in {"discard", "withdraw", "putBack"}
                 /\ Files(fs)
                 /\ Onward
                 /\ undone' = TRUE
                 /\ Fault /\ UNCHANGED <<marks, strained>>

Unmount ==
  /\ pc = "unmount"
  /\ outcome' = IF failed THEN "failed" ELSE "passed"
  /\ passed' = [a \in Artifacts |-> IF ~failed /\ a \in want THEN run ELSE passed[a]]
  /\ Go("idle") /\ Files(fs)
  /\ UNCHANGED <<marks, head, run, before, faults, cuts, undone, strained>>

(* A backup that is in place is then reported as failed. *)
UnmountFails == /\ pc = "unmount" /\ ~failed
                /\ faults < Limits[head].faults /\ faults' = faults + 1
                /\ outcome' = "unsure"
                /\ Go("idle") /\ Files(fs)
                /\ UNCHANGED <<marks, head, run, before, passed, cuts, undone, strained>>

(* Every name stays; a temporary file that was not finished is torn.       *)
PowerCut ==
  /\ pc # "idle" /\ cuts < Limits[head].cuts
  /\ cuts' = cuts + 1 /\ outcome' = "cut"
  /\ pc' = "idle" /\ route' = "menu"
  /\ Fresh /\ regs' = PowerUp
  /\ UNCHANGED <<fs, head, run, before, passed, faults, undone, strained>>

-----------------------------------------------------------------------------
Proceed ==
  \/ Mount \/ Enter \/ ReadHeader \/ ProbeRtc \/ Recover \/ BeginUpload \/ StreamBank
  \/ OpenRom \/ TakeBuffer \/ BeginRomBankRange \/ ReadBank
  \/ StopRomWriter \/ RomWriterStopped \/ CheckSum
  \/ OpenSave \/ EnableRam \/ SelectRam \/ ReadRam \/ RestoreMapper \/ Exit
  \/ FinishFile \/ BackupEnd \/ Stage \/ SwapIn \/ VerifyPublishedFile \/ DropOld
  \/ Release \/ Discard \/ Withdraw \/ PutBack \/ Unmount

RomWriterTask == WriterTake \/ Write

Faults ==
  \/ HeaderFails \/ ProbeFails \/ UploadFails \/ OpenFails \/ BeginFails \/ WriteFails \/ RamFails \/ RestoreFails
  \/ ExitFails \/ DropOldFails \/ CallFails \/ AbortFails \/ RollBackFails
  \/ UnmountFails \/ PowerCut

Next == Start \/ Proceed \/ RomWriterTask \/ Faults

Spec == Init /\ [][Next]_vars

(* The scheduler runs both tasks: they have the same priority. *)
FairSpec == Spec /\ WF_vars(Proceed) /\ WF_vars(RomWriterTask)

-----------------------------------------------------------------------------
(* Nothing incomplete, torn or with a bank out of its place ever stands    *)
(* under the name of a backup or of the older one: the mapper plans, the   *)
(* cache of writes, the two buffers and the writer put every bank of every *)
(* supported cartridge in its place, and what fails is never published.    *)
PublishedIsWhole ==
  \A a \in Artifacts : fs[a].final # Bad /\ fs[a].old # Bad

(* Once a backup has been reported as passed, every file of it, or a newer *)
(* one, is to be had at every instant of every later run and after every   *)
(* failure and power cut.                                                  *)
PassIsKept == \A a \in Artifacts : Available(a) >= passed[a]

(* A run that fails leaves the names of ROM, save and clock as the         *)
(* recovery at its beginning left them: never the one replaced and the     *)
(* other not.                                                              *)
AllOrNothing ==
  outcome = "failed" /\ ~undone =>
    \A a \in Artifacts : /\ fs[a].final = before[a].final
                         /\ fs[a].old = before[a].old

(* However a run ends, the cartridge is handed back with its RAM switched  *)
(* off, unless the calls that do so fail: a range still being read when    *)
(* the run fails is aborted first, for the engine refuses writes until it  *)
(* is.                                                                     *)
CartIsHandedBack ==
  pc = "idle" /\ info # "none" /\ ~strained /\ Kind(head.type) \notin {"rom_only", "unknown"}
    => ~regs.on

(* A run ends: neither task waits for good on the other's queue, also when *)
(* the writer or the reader has failed half way.                           *)
RunEnds == pc # "idle" ~> pc = "idle"
=============================================================================

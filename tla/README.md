# ChroMagic: models, model checking and proofs

ChroMagic is firmware (`src/mcu`, ESP32, C) and FPGA logic (`src/fpga/esp32t`,
SystemVerilog) for a handheld Game Boy console.  It backs cartridges up to an SD
card and runs games from those backups.  What a user must be able to rely on is
above all that *no save is lost*: not by a power cut while it is written to the
card, not by the game writing while it is copied, not by a lost UART frame, not
by switching games; and that a backup is whole, an import exact, and a console or a PC
session never stuck.  The models follow a save from the game's write in FPGA cache to the
file on the card, a backup and an import from the cartridge's mapper to the file or the PC
and back, the command link and the block stream everything depends on, the flags by which
the tasks keep out of each other's way, and the management UART with the MCU's sleep.

Contents: 1 the system, 2 the modules, 3 the runs, 4 the proofs, 5 findings,
6 what is not modelled, 7 the plan.

## 1. The system

### Components, their state and their operations

| component | code | state | operations |
|---|---|---|---|
| save publication | `virtual_cart.c` `RecoverSavePublish`, `FinishSaveFile`, `PublishSaveTemp`, `UploadSave`, `PersistActiveSave` | three file names per game: the save, `.tmp`, `.old` | load, save, recover after an interrupted save |
| save cache | `EMU/virtual_cart_cache.sv` | 64 slots (32 sets of 2 ways) with tag, data and dirty bit; `dirty_seen`, `dirty_during_flush`, `flush_state`, `flush_index`; PSRAM; the snapshot buffer with its sequence | game read and write, miss with eviction, flush walk, snapshot of a block, enable, disable |
| virtual cartridge | `virtual_cart.c` `VirtualCart_Start/Stop`, `RunLoad`, `SaveTask`; `virtual_cart_session_cdc.sv`; the command decoder in `top.v` | MCU: `Running`, `LoadRequested`, `Active`, `ActiveSavePath`, `ActiveSavePending`, `SaveSequence`; FPGA: `enable_g`, `reset_request_g`, `start_pending_g`, `prepared_g`, `lifecycle_h` | STATUS, PREPARE, START, STOP, QUIESCE, RESUME, SAVE_BLOCK; load, stop, the 250 ms poll |
| cartridge link | `cart_link.c`, `fpga_tx.c`, `fpga_rx.c`; `system_monitor.sv`, `system_monitor_arbiter.sv`, `cart_maintenance_cdc.sv` | `NextTag`, a one-place response queue, a mutex; the FPGA's one request register and its answer path | a transaction with up to three transmissions; the same without a retry |
| maintenance engine | `cart_maintenance_engine.sv` | session (`active`, `sd_session`, `session_enter_tag`), block slots, stream, last acknowledgement, watchdog | PING, ENTER, READ_BLOCK, READ_RANGE, WRITE, WRITE_READ_RANGE, EXIT, ACK |
| block streaming | `cart_bulk.c`, `qspi_slave.v` | `SessionActive`, stream cursor, event queue | begin and end, read block, read range, write PSRAM |
| backup | `cart_backup.c`, `sd_publish.c`, `pc_sd.c` | `Running`, `Acquired`, mapper cache, two ROM buffers with a work and a free queue, staged and published files | back up ROM, save and clock; recover, stage, publish, withdraw |
| mappers, RTC | `cart_mapper.c`, `cart_rtc.c` | none | header, geometry, bank plans; probe, read, set a clock |
| import | `cart_backup.c` `CartBackup_ImportSaveFromPC` | pass, snapshot of the save, checksums | validate, write and verify, set the clock, check and recover |
| modes | `pc_backup.c`, `cart_backup.c`, `virtual_cart.c`, `sd_card.c`, `cart_bulk.c` | `Enabled`, `AppliedEnabled`, `ModeApplied`, `PCModeActive`, `Gate`, `Running`, `LoadRequested`, `Active`, `SessionActive`, the mount gate, the sleep count | enter and leave PC mode; the keepalive; begin and end a run; mount and unmount |
| PC protocol | `pc_backup.c`, `pc_sd.c` | the session, its frame number, upload and temporary file, mapper and chip of a flash cartridge | card session, flash session, ROM stream, import |
| USB stream | `cart_usb_streamer.sv`, `usb_cdc_tx_mux.sv` | `current_slot`, `event_seen`, the held console byte | send the slots an event names; put console bytes between |
| management UART | `system_monitor.sv`, `system_monitor_arbiter.sv`, `fpga_rx.c`, `fpga_tx.c` | brightness and its three refused values, `menuDisabled`, requests per channel; level, OSD visibility, buttons, event flags | readings, pulses, settings every 100 ms |
| power | `pwrmgr.c` | inhibit count, idle timer | pause the tasks, flush, sleep, wake |
| clock transfer | `virtual_cart_rtc_cdc.sv` | restore and snapshot handshakes | move the emulated clock |
| user interface | `components/osd`, `menu_mgr`, `settings`, `button`, `battery`, `rom_browser.c` | settings, menus | display |
| console | `Gameboy_MiSTer`, audio, video, memory controllers | the console itself | runs games |

### How they interact

A job of the firmware (backup, load, stop, poll of the save task) is one FreeRTOS
task.  It sends commands over one UART, one at a time (`CartLink`'s mutex); the
FPGA hands each to the maintenance engine or, for the magic address `0x5643`, to
the virtual-cartridge decoder of `top.v`.  Bulk data goes over QSPI: the FPGA
puts a block and its sequence number in a buffer, the MCU polls the header until
the number is the one it asked for.  The decoder drives the session state machine,
which resets, freezes and starts the console core, and asks the save cache for
snapshots.  The save task polls the dirty flag in STATUS, copies, and publishes on
the card.

### What is hard, and what makes it correct

* **Publication**: FatFs cannot replace a file.  Three renames and unlinks stand in
  for it, each may fail and power may be cut between them.  Correct: at every
  instant a whole save can be recovered, the old one or the new one, and no
  leftover blocks later saves.
* **Cache**: a flush walks 64 slots while the game writes, evicts and fills.
  Correct: when the flag is down PSRAM is what the game sees; every request is
  served.
* **Lifecycle**: copies are made of a live RAM, flags are cleared before the card
  has the data, commands are lost before or after they were carried out.  Correct:
  no torn save, no forgotten write, no game dropped unsaved (but see 5), a failed switch
  undone.
* **Link**: frames are lost, answers come late, tags repeat, the FPGA speaks
  unasked when the cartridge is pulled.  Correct: a call returns its own answer, a
  retry is answered like the first attempt, and a session is what the MCU was told.
* **Streaming**: one event per pair of blocks, sent once; two slots refilled while the
  MCU copies; requests that are not recognised as retries.  Correct: a caller gets the
  blocks of its range in order or a failure, fails only for a loss nothing repairs, and
  can begin again.
* **Ownership**: a dozen flags, read and written one by one by six tasks, and a setting
  that changes meanwhile.  Correct: nobody loses the cartridge to another, PC mode and a
  game exclude each other, the mode ends as it was set, the sleep count balances.
* **Backup and import**: banks pass through two buffers, a mapper cache and a writer task
  that may fail while the reader waits; three files replaced together; a clock that ticks
  while it is set, or is RAM in truth.  Correct: what is published is whole and never
  lost; an import that succeeds is exact and one that fails costs no more than it must.
* **PC sessions**: the PC reads the same slots the MCU sums; lines of the console and
  blocks share one endpoint; flash commands must not be repeated; a session may break
  anywhere.  Correct: streams exact, writes once and in order, programs whole, nothing
  left behind, and every session ends.
* **Management UART**: both ends change the brightness, the menu's state is inferred, and
  the MCU sleeps while the FPGA sends.  Correct: both ends agree in the end.

## 2. The modules

```
 AtomicSave <== SavePublish        MCSavePublish   SavePublishProofs
 SnapshotPort <-- SaveMemory <== SaveCache   MCSaveCache   SaveCacheProofs
                  SaveMemory <-- VirtualSave   MCVirtualSave   VirtualSaveProofs
                                 CartLink      MCCartLink   CartLinkProofs
 RangeRead <== CartStream        MCCartStream   CartStreamProofs
               Ownership         MCOwnership    OwnershipProofs
 CartMapper <-- Backup           MCBackup        BackupProofs
 CartMapper <-- CartImport       MCCartImport   CartImportProofs
 PCFrames, UsbStream <-- PCFiles                   \
 PCFrames, UsbStream, FlashProgram <-- PCFlash     -- PCConsole   MCPCConsole
 MonitorFpga <-- Monitor         MCMonitor
 (A <== B: B implements A;  A <-- B: B extends A)
```

**AtomicSave** is what a save file promises: one value, replaced as a whole, by a
publication that may fail having done it or not.

**SavePublish** translates the publication call by call: `pc` names the FatFs call
about to be made, `then` the place `RecoverSavePublish` returns to.  Every call
has its success and its failure; failures follow the code's `goto`s, including
that an error between the renames puts the old save back, and that the result of
the last `unlink` of the temporary file is ignored.  `PowerCut` may strike at any
call.  Metadata operations are atomic and durable, as FatFs synchronises the
directory before it returns; file data only after `fsync`.  `Partial` is any
file that is not a complete image.  Contents are uninterpreted.

**SnapshotPort** is the PSRAM side of the cache: the request toggle of `top.v`, its
pick-up, the wait for a flush on block 0, the copy line by line, `xsnapshot_ready`.
**SaveMemory** extends it to the *specification* of the save RAM: one memory the
game sees, PSRAM that follows line by line in any order, a flag that is cleared only
by a flush during which nothing was written.  **SaveCache** extends it to the
*implementation*: slots, tags, dirty bits, the walk with its capture and its later
clearing of the bit, the block on the set being written back.  It is shown to
implement SaveMemory, which is what the next module uses.

**VirtualSave** composes the save RAM with the firmware's jobs.  `pc` names the
command, the poll or the file operation the running job is at; `reply` is the
answer to the last command.  `Exchange` is a command that got through; `MessageLost`
a transmission of which the request or the answer was lost, after which the same
command is sent again, up to `Attempts` times, carried out again each time it
arrives.  A load ends by unmounting the card, with the new game active already; if that
fails, the cleanup sends STOP (`pc` is "dismiss", where a load that fails earlier is at
"abort").  The card is one save per game, replaced atomically (SavePublish).
`PowerCut` resets everything but the card.  Jobs exclude each other by
`SetRunning` and `SetLoadRequested`, hence one `job` variable.

**CartLink** is the link itself with the maintenance engine behind it.  A request
carries the number of its call as a history value; the code compares only
`Tag(call)`, 8 bits in the code, `TagCount` here.  The wire holds `Room` frames
each way, any of which may be lost.  The FPGA has one request register (`pending`),
two sources of answers (`reply` of the engine, `virtual` of `top.v`) and one
request for the UART (`queued`), which is raised by the *edge* of the combined
valid.  The engine's states, its session, its block and its acknowledgement are as
in the source; the cartridge may be pulled and put back at any time.  `verdicts`
and `lapsed` are history: what the engine answered to the running call, and
whether the session ended by itself.

**RangeRead** is what a range read promises: its blocks, each once and in order, or a
failure.  **CartStream** is the protocol behind it, `cart_bulk.c` against
`cart_maintenance_engine.sv`: the engine fills slot `s % 2` with block `s`, sends one event
per pair, and frees the slots on an acknowledgement; the MCU waits for the event, copies
both blocks over QSPI, checks their number and checksum, acknowledges, and repeats the
acknowledgement while it waits.  A block carries the range and the index it was read for,
which the code does not have, so that a right number on a wrong block shows.
`mishap` remembers a lost answer, a lost event or a wait cut short.

**Ownership** has six tasks: the menu, the console, PC mode's keepalive, and the backup,
load and save tasks.  `task[p].at` is the flag or mutex the task is about to read or
write, `ret` where each procedure under way returns to; `s` holds the flags under their names in the code.  What
a job does with the cartridge is one step, as is a command to the FPGA, which refuses a
second maintenance session.  The histories say which exclusions are void: `unseen`, tasks
that turn PC mode on although the setting was off for a while they did not see;
`meddled`, two tasks passed `CartBulk_Begin` or one ended another's session; `intruded`, a
diagnostic command was past it together with a job.  A saved setting that is on counts as a first
change, and `MaxEvents` is shared by the periods of the save task and the failures.
The card's session for a backup (`StreamToSD`) leaves the FPGA's session and enters
it again, which is when another could come in.

**CartMapper** holds the operators of `cart_mapper.c`: the header, the geometry it
resolves to, and the plan of writes that brings a ROM or RAM bank into view, beside the
mapper *chips* as their data sheets describe them: registers, masks, mirrors and the
banks they show.  Addresses and values are the real ones.

**Backup** is `RunBackup` with its writer task, and the PC's backup to the card.  `pc` is
the task's next FatFs call or cartridge operation.  A cartridge is a header and the chip's
registers; a bank read is the bank the *chip* shows, so that a skipped or wrong mapper
write puts a bank out of its place.  A file is the number of the run that wrote it, or
`Bad`, if it is torn or a bank of it is not its own.  The ROM's 16-bit sum is compared as
in the code and may collide.  `RecoverPublish`, staging, publishing and withdrawing are
the calls of `sd_publish.c`, each with its failure, and power may be cut at any.
That a temporary file survives a cut or not makes no difference, as each is opened
anew.  When the card does not unmount after everything was published the outcome is
"unsure": the run reports a failure of a backup that is there.

**CartImport** is `CartBackup_ImportSaveFromPC` with `cart_rtc.c`.  A bank of the save is
one block here, and bank `b` of the file is the number `b`; a bank of the cartridge is
that, or `Old`, `Bad` or `Other`.  Checksums do not collide.  A cartridge whose header claims
a clock may have one, or RAM that its registers alias, whose reads are then arbitrary.  A
second may pass at most once between letting the clock go and reading it, unless the
calls in between were repeated.  `Later` is the reference clock: it counts seconds, the code's
`AdvanceOneSecond` carries.  `spoiled` remembers an error of the link while the save
is copied, compared or put back.

**PCFrames** is the binary protocol of a session: CF01 frames with a number and a
checksum, one at a time, of which the first that is wrong, late or refused ends it.
**PCFiles** is `pc_sd.c`: the card mounted, file operations, an upload into a temporary file
that is read back and renamed, a download over the USB stream, and the backup to the
card as one step, whose detail is Backup's.  **UsbStream** is the way of blocks to the PC:
the two slots, the engine's stream, the streamer's choice of slots, the lines of the
console that go before its bytes.  A block goes in halves, so that a slot that is
overwritten while it is sent shows; a slot nobody is to read any more is blank, so
that reading it shows as well.  **FlashProgram** is the engine's walk through unlock
cycles, data and polling against a flash chip; a byte is the bit that is polled.
**PCFlash** has `FlashCommand` with its reads, writes, bank switches, programs and
ranges, and the ROM stream of `BackupCommand`.  A call to the cartridge is carried out and
answered; carried out and not answered; lost; kept by the request register of a busy
engine; or refused.  **PCConsole** puts them together: sessions one after the other on one
stream and one engine, the keepalive in between, a cartridge that may be pulled.
A PC starts a session when it has read everything and the engine rests, and takes
what it received before it sends again.  The setting of PC mode and the gate are
Ownership's.

**MonitorFpga** and **Monitor** are the two ends of the management UART.  The FPGA has the
menu button and its hotkeys, the backlight with the three values it refuses after a
hotkey, the low-battery dimming, and the arbiter's channels; those other than buttons, audio
and status only set a number on the screen, and are left out.  The MCU has the dispatch of
`fpga_rx.c`, the 100 ms round of `fpga_tx.c` with its pause, the brightness of the OSD, its
visibility and the keys it takes for pressed, and the sleep task.  A frame is whole, or
broken by a flush or by sleep, after which the decoder may spoil the next two (`skew`); the twenty
zero bytes before a frame of a closed menu let a woken MCU decode it.  The model
starts after boot, before the battery has been measured.  `missed` remembers a pulse that was
raised while its own frame was sent, a frame broken by flush or sleep, and one that arrived
in the 20 ms between them.

Operators marked *Faulty variant* are plausible bugs.  No specification uses them;
they stand beside the definition they vary, and `PROJECT.json` says which property
each of them breaks, so each property is known to depend on the code it is about.

## 3. The runs

| run | question | size |
|---|---|---|
| `save_publish` | Is a save replaced atomically under every failure and power cut? | 3 images; 2,688 states |
| `save_cache` | Does the cache keep the promise of its flag while the game runs? | 2 slots, 3 lines, 2 blocks; 75,552 states |
| `virtual_save` | Are saves right through start, poll, switch and stop? | 2 games, 2 writes, 2 lost messages; 2,683,934 states |
| `virtual_save_live` | Do writes reach the card and jobs end? | 1 game, 1 write; 41,914 states |
| `cart_link` | Does each call get its own answer, each retry the same, and is every request taken and every session ended? | 3 calls, 2 tags, 2 attempts; 630,043 states |
| `cart_stream` | Is a range read in order, or failed for a reason, and can the caller go on? | 2 calls, ranges of 1 to 4 blocks, 1 loss; 213,265 states |
| `ownership` | Who may own the cartridge, and does the mode settle? | 6 tasks, 2 changes, 1 start, 1 command, 2 requests; 516,966 states |
| `pc_mode_stuck` | Does PC mode end once it is set off? No: see 5. | the same |
| `backup` | Is what is published whole, kept, and all of it or nothing? | 14 cartridges, 2 runs, 2 faults, 1 power cut; 458,138 states |
| `cart_import` | Is an import exact, and what does a failed one cost? | 10 cartridges, 3 clocks, 5 states sent, 2 faults, 2 seconds; 961,600 states |
| `pc_console` | Are a PC's sessions exact, and do they end and clean up? | 2 sessions, 4 frames, 1 fault; 424,943 states |
| `monitor` | Do both ends of the management UART agree in the end? | 3 acts, 3 levels; 967,844 states |

### Properties

`save_publish`: `SaveNeverLost` (the recoverable save is whole, and the one found or
the one being published), `ReplacesAtomically` (refines AtomicSave),
`SavesGetThrough` (after any faults, repeated saves succeed again and again).

`save_cache`: `CleanMeansStored` (flag down, PSRAM is what the game sees),
`BehavesAsMemory` (refines SaveMemory), `RequestsAreServed`.

`virtual_save`: `NoTornSave` (the card holds a state the RAM was in),
`CleanMeansSaved` (no flag up, nothing unsaved), `SwitchKeepsSave` (a game is
disabled only when its save is on the card, but for the STOP of a load that failed to
unmount it), `FailedSwitchResumes` (no freeze outlives a failed switch) and
`RunningIsWatched` (a game that runs is polled), both as long as fewer messages are
lost than a command is sent.
`virtual_save_live`: `WritesReachCard`, `JobsEnd`.

`cart_link`: `AnswersTheCall`, `RetriesAgree`, `SessionAsAnswered`, explained in the
module; `RequestsAreTaken`, `SessionsEnd`.

`cart_stream`: `ReadsInOrder` (refines RangeRead), `LossesAreRepaired` (a range fails only
for a lost answer, a lost event or a wait cut short), `Recovers`.

`ownership`: `OwnersKeepTheCart` (a job's session stays its own; PC mode and a game exclude
each other), `SleepAccounted` (the MCU stays awake while something runs and may sleep when
nothing does), `ModeIsApplied` (the mode ends as the user set it).  Their premises are the
histories of section 2.  `pc_mode_stuck`: `OffIsApplied`, the same without its premise.

`backup`: `PublishedIsWhole`, `PassIsKept`, `AllOrNothing` (but for a withdrawal that fails
itself, `undone`), `CartIsHandedBack` (but for the calls that do it failing, `strained`),
`RunEnds`.

`cart_import`: `ImportIsExact`, `UntouchedUntilChecked`, `ClockNeverCostsSave` (but for a
link that fails again, `spoiled`), `FailsForAReason`.

`pc_console`: `StreamsAreExact` (but for a range begun twice, section 5), `WritesOnceInOrder`,
`ProgramsAreExact` (of a chip that was reading and takes the mode), `SessionsLeaveNothing`,
`ConsoleReturns`.

`monitor`: `SettingsSettle`, `MenuIsFollowed`.  The first has a premise for a closed menu: no
pulse was lost, for nothing is repeated while the menu is closed.  The second asks of a closed
menu that no job forbids sleep, for then sleep hides the OSD whatever was missed.

Where there are proofs the type invariant `TypeOK` and the inductive invariant `IInv` are
proved (section 4).  Elsewhere the types are those of the comments on the variables,
and the runs spend their time on the properties above.

### Bounds, and why they are enough

* *Three images*: the one on the card, the one being published and one more, so that
  an older save can be told from a lost one.
* *Two slots of one way, three lines, two blocks*: two lines compete for one slot
  (evictions), the walk has a slot before and a slot behind it, the first block
  flushes and the second does not.  One sequence number suffices, since the port
  never compares it.  The proofs cover every size.
* *Two attempts, two passes, two boots*: each loop runs more than once and runs
  out.  *Two lost messages* are enough to lose one command with all its
  retransmissions.  *Two writes* allow one before and one during a copy.  `Polls` is 0
  where the polls only have to run out, 1 where they are counted.
* *Two tags, three calls, one frame each way*: tags repeat and a late answer meets
  the next call.  `MCCartLink` has the first call open a session or be a virtual one, the
  last open a session, read or acknowledge, whatever comes between, and only `write` and `ping`, which have
  both forms in the code, sent without a retry.
* *Ranges of one to four blocks, eight numbers, one event in the queue*: a single
  block, a pair, a pair and one, two pairs; two calls wrap the numbers.
* *Two changes of the setting, one start, one command, two requests*: a change meets every
  job, a change back meets its application, and a second request meets a lost session.
* *Every mapper at its largest once* without errors (that takes a bank for each value of
  each register, and the MBC1's three odd sizes); one error at any bank of the MBC1, whose
  plans are the most intricate; two runs with two errors and a power cut on a
  cartridge of two banks, and one with a clock.
* *Clocks before every carry, at zero, halted, and a state out of range*; a second may
  pass twice, errors happen twice.
* *Three blocks to a file, a ROM or a window, four bytes to a block, pages of one, two and four*: a
  pair and one, so that the streamer starts at either slot; a block has several
  pages.  `MCPCConsole` has a flash session change the cartridge, read it and end, in
  three frames, and a second session follow one that failed.
* *Three acts of the user, the battery or a job*, of which `MCMonitor` says what may come
  first, second and third; three levels, so that there is one in the middle.

The bounds are constants (`MaxWrites`, `LossBudget`, `MaxCalls`, `Room`, `MaxOps`,
`MaxFaults`, ...) and appear in guards.  With their counters used up a system stops,
which is why those runs turn the deadlock check off.  The symmetry of the two games is
used in `virtual_save` only, which checks no liveness.

### Assumptions taken from the environment

* A request for a snapshot is not repeated before the one before it was served
  (the firmware resends after 50 ms, which is ample for 64 slots and one block), and
  it was picked up when its answer arrives.
* A game that dies before its first frame has written nothing; a game that boots
  does so within the polls' two seconds (`BootIsSlow` waits for it).
* Nothing stays under way as long as a whole round of tags: 256 unanswered calls
  take 12 seconds (`NothingAncient`, of CartLink and of CartStream).
* One caller uses the link at a time.  A caller that does not get the mutex changes
  nothing.
* The engine is not silent for ten seconds while a call it has heard is going on
  (`Silent`).
* FatFs metadata calls are atomic and durable; the CRC-32 of a block, a frame or a save does
  not collide.
* The flash chip takes nothing but a reset while it programs, and a buffered write of the
  size it was built for; the PC unlocks it before it asks for a program.
* The management UART: a round of the MCU's 100 ms timer does not fall between two bytes of
  a 3 ms frame that began after the last one (`Quiet`); the battery's reading is averaged
  over more than a second (`Averaged`); the user does not act again while the MCU falls
  asleep and the FPGA still sends (`UserActs`); the 20 ms before sleep let a transmission
  finish (`PmSleeps`).


### Fairness

`SavePublish`, `SaveCache`: the task that makes the FatFs calls and the FPGA's
processes go on (weak fairness of their steps); the walk owns the port whenever the
game does not access it, has stopped, or the walk has claimed it
(`flush_port_owned`).  `VirtualSave`: weak fairness of the firmware, the save RAM, a freeze and a
boot; *strong* fairness of the poll, because the save task wakes up four times a
second and the user's jobs only ever take finite time, so that it finds `Running`
clear again and again.  `CartLink`: weak fairness of the caller, the wire, the
engine and the watchdog.  `CartStream`: of the caller, the wire and the engine.
`Ownership`: of every task, each of which FreeRTOS schedules.  `Backup`: of the backup
task and of the writer.  `PCConsole`: of the MCU's task and of the hardware, the PC reading
its port included.  `Monitor`: of each task and each part of the FPGA, and of the timer.
`CartImport` states none: an import is one task whose every step may fail, and its runs
check safety.  No fairness is assumed of a fault, of a game's writes, of a PC's requests
or of the user.

## 4. The proofs

Everything holds for every value of the constants that satisfies the named
assumptions (`PublishAssumption`, `PortAssumption`, `CacheAssumption`,
`VirtualAssumption`, `LinkAssumption`, `StreamAssumption`, `BackupAssumption`,
`ImportAssumption`), of which TLC evaluates the instances.

**SavePublishProofs.**  `SaveNeverLost` is not inductive: it says nothing of what a
call will find.  `IInv` adds, for every call, what the directory looks like there
(before the swap the temporary file is the whole new save, the final name is free and
`.old` is the old save; and so on).  `InitInv`, `StepInv` with one step per group of
calls, `Invariance`; then `TypeCorrect` and `SafeSave`.  `Refinement`: under
`saved <- Recoverable` a `Persist` maps to AtomicSave's `Begin`; `SwapIn`, a failed size
check and the rollback to `Replace`; the last call of a good job to `Succeed`; an error
return and a power cut to `Stop`; every other call, the recovery's included, to a
stutter.

**SaveCacheProofs.**  `IInv` says that a line is in one slot of its set, a clean slot
agrees with PSRAM, no slot is dirty when the flag is down, and no slot before the
walk's index is dirty unless a write was noted since it began.  The last part is what
makes clearing the flag right.  `CleanSave` follows.  `Refinement` maps
`ram <- View`, the value each line has in the cache or else in PSRAM; the lemmas on
`View` say what a write, a miss, an eviction and a capture do to it.  A capture maps
to `Drain`; a miss that evicts does too; a fill is a stutter.

**CartLinkProofs.**  `IInv` bounds the age of everything that carries a call's number:
each frame, register and answer belongs to one of the last `TagCount` calls.  So
equal tags mean equal calls (`TagsTellApart`, `RecentMatches`), and `RightAnswer`
follows.  `EngineStep` abstracts what the engine may do to the rest, so
that its sixteen actions are examined once (`EngineOnly`).  `RetriesAgree` and
`SessionAsAnswered` need `SInv`, which adds: calls reach the engine in order (`InOrder`), all
requests of the running call are the same (`Alike`), an answer that says a session is open
stays right unless the session lapsed, and none is open after an exit was carried out
(`Standing`, `Left`), the engine works for the request it took (`AtWork`), and each verdict is
what the engine would say again (`ToldAgain`).  From it `RetriesAgreeSafe` and `SessionSafe`.

**VirtualSaveProofs.**  All five safety properties of the run, over every number of games,
blocks, attempts, passes, polls, writes and lost messages.  The hazard is that one save is
described by state in three clock domains.  `IInv` adds to the properties: one flush at a
time, and PSRAM is what the game sees while the FPGA's flag is down (`PortInv`); what is
enabled and what outlives it (`SessionInv`); which variables a job uses at which step
(`JobInv`); while the flag is down, the blocks read so far are those of the RAM, as no write
can hide behind another flush than the copy's own (`CopyInv`); a flush lowers the FPGA's
flag only while the firmware's is up (`FlagInv`); a frozen game stays frozen until it is
resumed or dropped (`SwitchInv`), and who froze it resumes it unless the command is lost
with its retries (`HoldInv`); from PREPARE to the first frame the new game has the save it
was given (`LoadInv`); a game nobody watches has cost a STOP with all its transmissions
(`WatchInv`).  One lemma per part, one step per group of actions; then
`TypeCorrect`, `NeverTorn`, `CleanIsSaved`, `SwitchResumes`, `Watched` and `SwitchIsSafe`.

**CartStreamProofs.**  `Refinement`: a range read implements RangeRead, for any number of
sequence numbers greater than that of the blocks of a range, any number of attempts,
calls and losses.  The hazard is that numbers repeat and requests are carried out again:
a slot, an event or an answer of an earlier range may look like one of this range.  `IInv`
says why it cannot.  Requests reach the engine in the order of the calls (`CallInv`,
`UpInv`, `WireInv`); an answer OK to the running call means that the engine reads that
call's range and no other, also when it began it anew (`OwnInv`); what is in a slot is then of
this range, under its own number (`StreamInv`); and a number names one block of a range that is
shorter than the numbers, so the blocks copied are the next ones (`ReadInv`).  The lemmas on
`Plus` and `At` (`PlusIs`, `AtTells`) carry the arithmetic.  `LossesRepaired`: a range never
fails because requests, acknowledgements or QSPI reads were lost, provided that fewer are
lost than each is tried (`FewerLost`, which the run's one loss satisfies: with more, the code
does give up).  That is about events and acknowledgements, which `IInv` leaves alone:
while no mishap happened, `CalmInv` keeps the engine in step with the MCU.  n blocks being
acknowledged, it still waits for the last acknowledgement, or has read none, one or all of the
next batch, and then its event is to be sent, on its way or received (`Stage`); the last
acknowledgements on the wire are as many as were sent and not lost (`AcksTried`), and older
ones can free nothing (`AcksOld`), as a slot's number differs by two.

**OwnershipProofs.**  `OwnersKeep` and `SleepIsAccounted`, for any number of settings, jobs,
commands, requests and failures.  The hazard is that four tasks share the bus session, PC mode
and the sleep count behind flags each tests at one instant and uses at another.  `IInv` says
where a task can be, what it carries and where its calls return to (`Local`); which flag
or mutex that takes, and that no other task holds it (`Locks`); what the sleep count is
made of, up to the work that is unaccounted for after a task meddled (`Counted`, `Awake`,
`Ending`); whose the FPGA's session is (`Sessions`); and what a task that turns PC mode on
or off has found out and may still rely on (`Modal`).  Each action is
shown to be one task's own step (`Own`) that obeys what the others rely on (`Obeys`); a task
that does not move keeps what it had across such a step (`CalmStep`).  `IInv` was checked by
TLC on the run's 516,966 states before it was proved.

**BackupProofs.**  `AllOrNothing`, `PublishedIsWhole`, `PassIsKept` and `CartIsHandedBack`,
every safety invariant of the `backup` run, for every set of headers, every depth of the queue
and any number of runs, errors and power cuts.  The hazard is that three files are replaced in four sweeps and
rolled back in three, by the menu sweep by sweep and by a PC file by file, and that any
call may be the one that fails.  `IInv` says where the task can be and what it has decoded
there (`Way`), that each sweep begins at the first wanted artifact (`Turn`), what it has
staged and published so far (`Marks`), that nothing wanted has an older file beside its backup
once it is recovered (`Recovered`) and that what was not staged was not there (`Missing`).
Then the names of an artifact go from `SetAside` to `Replaced` (`Kept`), and a roll back whose
calls succeed takes them back over `SetAside` to `Untouched` (`Rolled`): the withdrawal of an
artifact always comes before the older file is put back, and the last sweep ends with the last
artifact.  `SweepIs` and `OnwardIs` carry the order; the actions that touch no backup are
examined once (`StillStep`, `MoveStep`).  `PassKept` holds also when calls of the roll back
fail: `Keeping` adds that a file is closed by its run before it is swapped in (`Written`), that
what has been swapped in is this run's (`InPlace`), and that the older backup will do as long
as it may have to be put back (`Spared`).

`PublishedIsWhole` says that no file of the wrong bank, torn, or with a bank missing or twice,
is ever published.  It rests on three parts, together `BankInv`.  First, the mapper: what a
write does in each area of each chip (`AreaIs`), that the plan of a ROM bank, once in effect,
shows that bank in its window on every mapper and in every size (`RomIsInView`), likewise for
RAM (`RamIsInView`), that a plan cut down to what the cache has not got leaves the rest in
effect (`SettledAt`: no cached write would change the chip), and that restoring switches RAM
off (`RamIsOff`).  The plans have at most five writes, so the recursive functions that apply
them unfold without induction (`WritesAre`, `CacheIs`, `ChangedIs`).  Second, the session:
`Held` says where the task holds the cartridge, which range may be open and when RAM is
certainly off; `CartIsHandedBack` is a consequence.  Third, the double buffer: `InView` (the
bank in view is the next one), `Pipe` (the queue holds, in order, the banks the writer has not
summed, and STOP last), `Apart` (a free buffer is neither queued, written nor being filled)
and `Complete` (what has been written of ROM and save).  Of a run that has failed nothing is
claimed, for nothing of it is published.  `FlowStep` has one step per action, `WholeStep`
takes the sweeps of publication.  TLC checked each part on the run's 458,138 states before it
was proved.

The attempt corrected the model: `RomSeen` gave every chip but MBC1 a register for the high
bits of the bank, which only MBC5 has.  What a game leaves there (`Played`) vanished in the
remainder for every number of banks that is a power of two, but not for the 72 banks that an
MBC3 may have; no header of the run has that size, so TLC had not met it.

**CartImportProofs.**  `UntouchedUntilChecked` rests on the order of the two passes:
`IInv` adds that the second one begins with `validated` (`SecondPassIsChecked`), that the
state is only received after the sum of the banks was right (`SumIsChecked`), and that
what is left of a probe writes only to addresses below 8000 (`ProbeIsHarmless`), where no
RAM is, so that looking for a clock that is none costs nothing.  One lemma per group of
actions (`BusInv`, `LookInv`, `PassInv`, `WriteInv`, `EndInv`), then `UntouchedSafe`.  It
uses nothing of the mapper's plans.  `AdvanceCounts` is arithmetic: the fields carry as
the quotients of the seconds' count do (`Carries`), on all 44,236,800 states of a clock
and both of its flags.

`ClockNeverCosts` and `ImportExact` need where the save and the clock are at every call of
the task.  `SaveInv` is the save's part, on top of `IInv`: which bank the task is at and
that it is the one in view (`AtBank`); that the banks before it hold the file while the
second pass writes, that the copy is the file from the snapshot on, that after the clock is set
either a mismatch is noted or the banks compared so far are whole, and that a recovery
has put back the banks behind it (`Course`); and what that leaves at the end (`Ended`).  Its
lemmas about the mapper are those of BackupProofs, which cannot be extended here because
Backup and CartImport share the names of their variables.  `ClockInv` is the clock's part.
The thirty operations of `WriteAndVerify` are taken apart once (`WholePlan`): three
for the latch, six registers chosen and set, fifteen that look.  `Setting(k)` says what holds
after `k` of them: RAM on, the right register chosen, the registers set so far as
sent.  From `k = 5` on the clock is halted, so that the crystal adds nothing and the steps may
take any time; a crystal that ticks before is overwritten.  The fifteenth lets the clock
go, and from there on it is `ToRegisters(Later(file.state, since))`, which a tick keeps
because counting `k` seconds and one more is counting `k + 1` (`LaterNext`, `Ticks`),
carry flag and the end of day 511 included, and because a valid state survives
the registers (`RoundTrip`).  An error in between makes the verdict
an error, and then the import does not report success.

`FailsWithReason` is the converse: an import in which nothing fails (`Fair`: no error yet, a
file that fits, no false claim of a clock) does not fail.  `FairInv`, on top of the three,
says that nothing is wrong then with the save (`Sound`: the bank just written shows what was
sent, the copy has the file's sum, the comparison finds no mismatch) nor with the clock
(`Clear`).  A probe and the end of the plan are the same fifteen operations, latch, five
registers chosen and read, and back (`Look`); `Looking(k)` says after `k` of them which
register is chosen and that what was read is what was latched.  The two delicate places are
in `Clear`: a clock may show zeros when it is found, but then it shows more 1.1 s later, a
carry at least, and ever after (`NotZero`); and what is read back was latched at most one
second after the clock was let go (`Fresh`), as `Tick` lets at most one second pass until
then unless calls had to be repeated, so that it is the state sent or `AdvanceOneSecond` of
it (`AdvanceCounts`).

TLC checked `SaveInv`, `ClockInv` and `FairInv` on the 961,600 states of `cart_import` before
they were proved.

Model-checked only: the liveness properties, `ModeIsApplied` among them (fairness and ENABLED
are beyond the prover), and PCConsole and Monitor, which no proof module covers yet.

## 5. Findings

`pc_mode_stuck`: a PC mode command (`BackupCommand`, `ImportCommand`, `FlashCommand`) tests
the setting, waits for `Gate` without a limit, and calls `EnableLocked` without testing
again (`pc_backup.c:318-331`).  If the keepalive applies "off" while it waits, PC mode is
turned on after all; `AppliedEnabled` equals the setting already, so the keepalive never
corrects it: sleep stays inhibited, and backup and virtual cartridge are refused, until
the setting is turned on and off again.  `pc_mode_test.c:63` asserts
`!PhysicalActive && SleepCount == 0` of a setting turned off while the gate was busy.
`ModeIsApplied` states what does hold.

Met while modelling, outside the properties' premises or claimed by no comment or test:

* `ResumeActiveGame` (`virtual_cart.c:1093-1097`) sends RESUME and ignores what came of it.
  When a switch fails and RESUME is lost with its retries, the game stays frozen with
  `Active` set until the user asks for another switch or a stop.
  `virtual_transition_test.c:61` states that an export failure "resumes old game", over a
  link that loses nothing; `FailedSwitchResumes` states the number of losses it takes.
* START and PREPARE are refused when their retransmission arrives second, so a lost
  answer fails a load that worked; if the STOP of the cleanup is lost as well, a game
  runs that nobody saves.  `RunningIsWatched` states how many messages must be lost before
  a game can run unwatched; this takes one more.
* `RunLoad` makes the new game active (`virtual_cart.c:1319`) before it unmounts the card
  (1328).  An error of `SDCard_Unmount` then fails a load that worked: the cleanup stops the
  running game, ignores what came of the STOP, and clears `Active` (1341-1349).  What the game
  wrote since its first frame is not saved, which `SwitchKeepsSave` excepts, and if the
  STOP is lost with its retries the game runs and nobody saves it: the losses
  `RunningIsWatched` allows are just too few for that.
* An answer of the engine that becomes valid while a virtual one still waits makes no
  edge in `system_monitor.sv:140`: it is never sent, and the request register is
  occupied from then on.  `RequestsAreTaken` is therefore about an FPGA that is given
  no virtual-cartridge command.
* After a stop whose answers were all lost, `Active` stays set and every later switch
  is refused.
* `CartBulk_Begin` (`cart_bulk.c:283`) tests and sets without a lock.  Two tasks that pass it
  at once leave a sleep inhibitor behind; and `cartprobe` and `cartstress` end another
  task's session when they were refused their own.
* A READ_RANGE whose answer is lost is not recognised when it is sent again.  With three blocks or
  more it is refused as busy, and in PC mode the engine's stream is orphaned, as the keepalive's
  pings keep the watchdog quiet; with two or fewer it is begun again, and the PC is sent
  the blocks twice.  A READ_BLOCK whose answer or acknowledgement fails leaves its slot
  occupied, with the same effect.
* The MCU gives a program command five seconds, the engine a tenth of one for each page
  (`FLASH_POLL_CYCLES` at 8.4 MHz): with pages of one byte, mode 0x82, it may still program
  when the session is closed.  The poll sees the last byte of each page only, so
  a chip that does not take the mode may be reported as programmed.
* A line of the console that finds the last byte still waiting loses one
  (`usb_cdc_tx_mux.sv`); the PC sees it as a broken line.
* An import that fails in its second pass has replaced part of the save.  An error
  between halting a clock and letting it go leaves it halted.
* A power cut during a card session leaves its temporary file for good.
* `RemoveObsoleteCopies` (`cart_backup.c:762`) unlinks what looks like a numbered or
  short-name copy of the same title; another game's backup may have such a name.
* The OSD may be shown for a menu that has just closed: the buttons were sampled between
  the lifting of the button and the toggle.  Light sleep hides it; a job that forbids sleep
  leaves it.  A hotkey's frame that arrives in the 20 ms between the flush and light sleep is
  handled at the next wake-up only; `uart_flush` breaks a frame under way, and nothing
  repeats it while the menu is closed.  While the menu button is held in an open menu, both
  ends adopt each other's level.
* A V2 frame of length zero would be given a payload byte by the decoder (`fpga_rx.c:337`);
  the FPGA sends none.

## 6. What is not modelled

Inside the modelled parts:

* VirtualSave: the RTC sidecar and the ROM upload are one step each that may fail; ROM
  misses of the cache, which never write; games without battery RAM; the `Read`
  twice-and-compare of a snapshot block, beyond that it may fail; QSPI transfers that
  race a retransmitted SAVE_BLOCK; a failed unmount at the end of a stop or a poll, which
  changes nothing but the result that is reported; metastability, each two-flop synchroniser being a
  delay between steps.
* CartLink: range streaming (CartStream), flash programming (FlashProgram), a second
  caller that waits for the mutex.  CartStream: the upload to PSRAM, the stress tests, the
  display's share of the bus.
* Ownership: what a job does with the cartridge; the card's console test.
* Backup: names and the removal of obsolete copies; the text of the metadata.  CartImport:
  the blocks of a bank; wording of the progress lines.
* PCConsole: the stream of a save and of a clock to the PC, status commands, log lines in
  the middle of a stream, the crossing of the console's byte between clocks.
* Monitor: the byte-wise decoders and the V1 protocol, palettes, version, simulated
  buttons, the channels whose reading is only displayed.

Whole components: those listed as `not_modelled` in `PROJECT.json`, with the reason.
The console core, video, audio and the memory controllers are data paths or vendored; the
drawing of the user interface keeps no protocol.

## 7. The plan

Done: 1 SavePublish, 2 SaveCache, 3 VirtualSave, 4 CartLink, 5 CartStream, 6 Ownership,
7 CartMapper, 8 Backup, 9 CartImport, 10 PCConsole with its five parts, 11 Monitor.

Left to model:

12. **FrameDecoder**: `fpga_rx.c` and `uart_packet_wrapper_rx.sv` byte by byte;
    resynchronisation after loss, which Monitor takes as at most two spoilt frames.
13. **RtcTransfer**: the emulated clock across the clock domains, and the sidecar in
    VirtualSave.
14. **RomUpload**: the PSRAM writes of a load, with their sequence and the restart.
15. The stream of a save to the PC in PCFlash; the ROM browser's list.

Left to prove: `WritesOnceInOrder` of PCConsole.

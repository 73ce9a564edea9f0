------------------------------ MODULE Monitor ------------------------------
(* The management UART as a whole: the FPGA's readings, the MCU's receive, *)
(* transmit and power tasks, and the menu's buttons.  The MCU sleeps when  *)
(* the line has been quiet and no job forbids it, and is woken by the      *)
(* first bit of a frame.                                                   *)
EXTENDS MonitorFpga

VARIABLES
  inbox,                         (* frames in the UART buffer of the MCU *)
  events,
  rxResume, useBrightness,       (* the flags of the receive task *)
  txResume, txArmed, txFlags,    (* those of the transmit task; armed: past
                                    the test of Resume *)
  plan,                          (* the flags it has taken *)
  level, setting,                (* _Ctx.BrightnessLevel; what SysCtl says *)
  lpm,                           (* LPM_Status and LowPowerOverride *)
  visible,                       (* OSD.IsVisible *)
  prevKey, pressed,              (* _PrevButtons, _Ctx[b].State *)
  pm,                            (* the power task *)
  timer, notified, inhibited,
  skew                           (* frames that the decoder may yet spoil *)

taskVars == <<rxResume, useBrightness, txResume, txArmed, txFlags, plan>>
mcuVars == <<level, setting, lpm, visible, prevKey, pressed>>
powerVars == <<pm, timer, notified, inhibited, skew>>
vars == <<fpgaVars, inbox, down, taskVars, mcuVars, powerVars, events>>

Flags == {"brightness", "sysctl"}

(* After the start, whose settings the FPGA has long before it has         *)
(* measured the battery.                                                   *)
Init ==
  /\ FpgaInit /\ inbox = << >> /\ events = 0
  /\ rxResume = TRUE /\ useBrightness = FALSE
  /\ txResume = TRUE /\ txArmed = FALSE /\ txFlags = {} /\ plan = {}
  /\ level = brightness + 1 /\ setting = 0
  /\ lpm = FALSE /\ visible = FALSE /\ prevKey = None /\ pressed = {}
  /\ pm = "wait" /\ timer = TRUE /\ notified = FALSE /\ inhibited = FALSE
  /\ skew = 0

GetLevel == IF lpm THEN 0 ELSE level - 1

-----------------------------------------------------------------------------
(* The wire.  The bytes of a frame are in the buffer when it ends; a       *)
(* sleeping MCU is awake before that.  A decoder that lost its place reads *)
(* on until the zero bytes of a preamble, or for a frame or two without.   *)
Starts == Start /\ UNCHANGED <<inbox, down, taskVars, mcuVars, powerVars, events>>

Arrives ==
  /\ pm # "asleep" /\ Len(inbox) < Room
  /\ Finish
  /\ timer' = TRUE
  /\ \/ /\ sending.whole /\ (sending.preamble \/ skew = 0)
        /\ inbox' = Append(inbox, sending)
        /\ skew' = 0 /\ UNCHANGED missed
     \/ /\ sending.whole /\ ~sending.preamble /\ skew > 0
        /\ \/ inbox' = Append(inbox, sending) /\ skew' = 0 /\ UNCHANGED missed
           \/ UNCHANGED inbox /\ skew' = skew - 1 /\ missed' = TRUE
     \/ /\ ~sending.whole
        /\ missed' = TRUE
        /\ UNCHANGED <<inbox, skew>>
  /\ UNCHANGED <<down, taskVars, mcuVars, pm, notified, inhibited, events>>

Obeys == Obey /\ UNCHANGED <<inbox, taskVars, mcuVars, powerVars, events>>

-----------------------------------------------------------------------------
(* The receive task: ProcessMessage.                                       *)

(* Brightness_Update: refused in low power and out of its range.           *)
Update(to) == IF ~lpm /\ to \in 1..MaxLevel + 1 THEN level' = to ELSE UNCHANGED level

(* Only a button that was up counts as pressed.                            *)
ButtonUpdate(new) == /\ pressed' = IF new # None /\ new # prevKey THEN pressed \cup {new}
                                                                  ELSE pressed
                     /\ prevKey' = new

ResetAll == prevKey' = None /\ pressed' = {}

GetState(b) == b \in pressed /\ pressed' = pressed \ {b}

SetLPM(low) == lpm' = low

OnButtons(reading) ==
  /\ ButtonUpdate(reading.key)
  /\ visible' = ~reading.hidden
  /\ txFlags' = txFlags \cup {"brightness"}
  /\ UNCHANGED <<level, lpm, useBrightness, txResume>>

(* The MCU's level counts while the menu is open, the FPGA's otherwise;    *)
(* the first reading after a sleep lets the transmit task go on.           *)
OnAudio(reading) ==
  /\ IF visible THEN UNCHANGED level ELSE Update(reading + 1)
  /\ IF useBrightness THEN txFlags' = Flags /\ txResume' = TRUE /\ useBrightness' = FALSE
     ELSE txFlags' = txFlags \cup {"brightness"} /\ UNCHANGED <<txResume, useBrightness>>
  /\ UNCHANGED <<lpm, visible, prevKey, pressed>>

OnStatus(reading) ==
  /\ SetLPM(reading)
  /\ txFlags' = txFlags \cup {"brightness"}
  /\ UNCHANGED <<level, visible, prevKey, pressed, useBrightness, txResume>>

(* It reads on when it is paused until the buffer is cleared.              *)
Receives ==
  /\ inbox # << >> /\ (rxResume \/ pm = "pausing")
  /\ inbox' = Tail(inbox)
  /\ LET frame == Head(inbox) IN
     CASE frame.channel = Buttons -> OnButtons(frame.reading)
       [] frame.channel = Audio   -> OnAudio(frame.reading)
       [] frame.channel = Status  -> OnStatus(frame.reading)
  /\ timer' = TRUE
  /\ UNCHANGED <<fpgaVars, down, rxResume, txArmed, plan, setting, pm, notified, inhibited,
                 skew, events>>

-----------------------------------------------------------------------------
(* The transmit task takes the flags and then reads what it sends.         *)
TxTakes ==
  /\ plan = {} /\ txFlags # {} /\ (txResume \/ txArmed) /\ pm # "asleep"
  /\ plan' = txFlags /\ txFlags' = {} /\ txArmed' = FALSE
  /\ UNCHANGED <<fpgaVars, inbox, down, rxResume, useBrightness, txResume, mcuVars,
                 powerVars, events>>

Content(flag) == IF flag = "brightness" THEN GetLevel ELSE setting

TxSends ==
  /\ plan # {} /\ Len(down) < Room /\ pm # "asleep"
  /\ LET flag == IF "brightness" \in plan THEN "brightness" ELSE "sysctl" IN
     /\ plan' = plan \ {flag}
     /\ down' = Append(down, [command |-> flag, value |-> Content(flag)])
  /\ UNCHANGED <<fpgaVars, inbox, rxResume, useBrightness, txResume, txArmed, txFlags,
                 mcuVars, powerVars, events>>

TxTimesOut == /\ txArmed /\ plan = {} /\ txFlags = {}
              /\ txArmed' = FALSE
              /\ UNCHANGED <<fpgaVars, inbox, down, rxResume, useBrightness, txResume, txFlags,
                             plan, mcuVars, powerVars, events>>

(* A raises the backlight and B lowers it, where Brightness_Update allows  *)
(* it.                                                                     *)
OnButton(b) ==
  IF b \in {"a", "b"} /\ ~lpm /\ (IF b = "a" THEN level <= MaxLevel ELSE level > 1)
  THEN /\ level' = IF b = "a" THEN level + 1 ELSE level - 1
       /\ txFlags' = txFlags \cup {"brightness"}
  ELSE UNCHANGED <<level, txFlags>>

(* The menu's task handles a press that was kept for it.                   *)
OsdTakes ==
  /\ pm # "asleep"
  /\ \E k \in pressed : GetState(k) /\ OnButton(k)
  /\ UNCHANGED <<fpgaVars, inbox, down, rxResume, useBrightness, txResume, txArmed, plan,
                 setting, lpm, visible, prevKey, powerVars, events>>

-----------------------------------------------------------------------------
(* The power task.                                                         *)

(* The timer takes 100 ms, a frame 3 ms at most and the tasks no longer.   *)
Quiet == /\ sending = None /\ requests = {} /\ inbox = << >> /\ down = << >>
         /\ plan = {} /\ pressed = {} /\ (txResume => txFlags = {})

TimerFires ==
  /\ timer /\ pm = "wait" /\ rxResume /\ Quiet
  /\ timer' = FALSE
  /\ notified' = (notified \/ ~inhibited)
  /\ UNCHANGED <<fpgaVars, inbox, down, taskVars, mcuVars, pm, inhibited, skew, events>>

PmTakes ==
  /\ notified /\ pm = "wait"
  /\ notified' = FALSE
  /\ IF inhibited THEN UNCHANGED <<pm, taskVars>>
     ELSE /\ pm' = "pausing"
          /\ txResume' = FALSE /\ rxResume' = FALSE
          /\ txArmed' \in {txArmed, txArmed \/ (txResume /\ plan = {})}
          /\ UNCHANGED <<useBrightness, txFlags, plan>>
  /\ UNCHANGED <<fpgaVars, inbox, down, mcuVars, timer, inhibited, skew, events>>

(* The menu is taken for closed.                                          *)
KeepOsd == UNCHANGED visible
HideOsd == visible' = FALSE

(* uart_flush takes the beginning of a frame that is just arriving.        *)
Broken == IF sending = None THEN None ELSE [sending EXCEPT !.whole = FALSE]

PmFlushes ==
  /\ pm = "pausing"
  /\ pm' = "paused"
  /\ inbox' = << >>
  /\ missed' = (missed \/ inbox # << >>)
  /\ sending' = Broken /\ skew' = IF sending = None THEN skew ELSE 2
  /\ ResetAll
  /\ HideOsd
  /\ UNCHANGED <<menuVars, lightVars, system_control, requests, active, next, buttonNext,
                 dozing, down, taskVars, level, setting, lpm, timer, notified, inhibited, events>>

(* The two delays let the transmit task end what it has begun.  What has   *)
(* come since the flush waits for the next frame to wake the MCU.          *)
PmSleeps ==
  /\ pm = "paused"
  /\ plan = {} /\ (txArmed => txFlags = {})
  /\ pm' = "asleep"
  /\ sending' = Broken /\ skew' = IF sending = None THEN skew ELSE 2
  /\ missed' = (missed \/ inbox # << >>)
  /\ UNCHANGED <<menuVars, lightVars, system_control, requests, active, next, buttonNext,
                 dozing, inbox, down, taskVars, mcuVars, timer, notified, inhibited, events>>

(* The transmit task is to go on with the next reading of the backlight.   *)
ReadNothingBack == UNCHANGED useBrightness
UseBrightnessReadback == useBrightness' = TRUE

(* The zero bytes of a preamble pass while the MCU wakes.                  *)
PmWakes ==
  /\ pm = "asleep" /\ sending # None
  /\ pm' = "wait"
  /\ sending' = IF sending.preamble THEN sending ELSE Broken
  /\ skew' = IF sending.preamble THEN skew ELSE 2
  /\ UseBrightnessReadback /\ rxResume' = TRUE
  /\ UNCHANGED <<menuVars, lightVars, system_control, requests, active, next, buttonNext,
                 dozing, inbox, down, txResume, txArmed, txFlags, plan, mcuVars, timer,
                 notified, inhibited, events, missed>>

-----------------------------------------------------------------------------
(* What happens to the device.  A job that sets a setting or keeps the MCU *)
(* awake runs on the MCU.                                                  *)
Event == events < MaxEvents /\ events' = events + 1

(* While the MCU is falling asleep, which takes 20 ms, the user may act,   *)
(* and not again while the FPGA still sends for it.                        *)
UserActs ==
  /\ Event
  /\ \/ pm = "asleep" \/ (pm = "wait" /\ ~notified)
     \/ requests = {} /\ sending = None /\ inbox = << >>
  /\ MenuPress \/ \E k \in Keys : KeyPress(k)
  /\ UNCHANGED <<inbox, down, taskVars, mcuVars, powerVars>>

Released == /\ MenuRelease \/ KeyRelease
            /\ UNCHANGED <<inbox, down, taskVars, mcuVars, powerVars, events>>

Toggles == Toggle /\ UNCHANGED <<inbox, down, taskVars, mcuVars, powerVars, events>>

(* The FPGA averages the voltage over more than a second: between two      *)
(* changes the tasks have dealt with the first.                            *)
Averaged == /\ lpm = lowpowerBacklight \/ missed
            /\ plan = {} /\ down = << >> /\ (txResume \/ txArmed => txFlags = {})

BatteryActs == /\ Event /\ Averaged /\ (Sags \/ Recovers)
               /\ UNCHANGED <<inbox, down, taskVars, mcuVars, powerVars>>

SetsSysCtl ==
  /\ Event /\ pm # "asleep"
  /\ setting' = 1 - setting
  /\ txFlags' = txFlags \cup {"sysctl"}
  /\ UNCHANGED <<fpgaVars, inbox, down, rxResume, useBrightness, txResume, txArmed, plan,
                 level, lpm, visible, prevKey, pressed, powerVars>>

InhibitSleep ==
  /\ Event /\ pm # "asleep" /\ ~inhibited
  /\ inhibited' = TRUE /\ timer' = FALSE
  /\ UNCHANGED <<fpgaVars, inbox, down, taskVars, mcuVars, pm, notified, skew>>

AllowSleep ==
  /\ pm # "asleep" /\ inhibited
  /\ inhibited' = FALSE /\ timer' = TRUE
  /\ UNCHANGED <<fpgaVars, inbox, down, taskVars, mcuVars, pm, notified, skew, events>>

Fpga == Starts \/ Arrives \/ Obeys \/ Toggles
Rx == Receives
Tx == TxTakes \/ TxSends \/ TxTimesOut
Osd == OsdTakes
Power == PmTakes \/ PmFlushes \/ PmSleeps \/ PmWakes

Next == \/ Fpga \/ Rx \/ Tx \/ Osd \/ Power \/ TimerFires
        \/ UserActs \/ Released \/ BatteryActs \/ SetsSysCtl \/ InhibitSleep \/ AllowSleep

Fairness == /\ WF_vars(Starts \/ Arrives) /\ WF_vars(Obeys) /\ WF_vars(Toggles)
            /\ WF_vars(Rx) /\ WF_vars(Tx) /\ WF_vars(Osd)
            /\ WF_vars(Power) /\ WF_vars(TimerFires)

FairSpec == Init /\ [][Next]_vars /\ Fairness

-----------------------------------------------------------------------------
(* Once the menu is open for good, or if the FPGA's pulses all reached the *)
(* MCU, the backlight shows the level the MCU keeps (hotkeys and their     *)
(* three refused levels, low power, the sleep that loses frames); and with *)
(* the menu open the system control word is what the settings say.         *)
Open == ~menuDisabled /\ press = "up"

SettingsSettle ==
  /\ <>[](press = "up" /\ (menuDisabled => ~missed)) => <>[](brightness = GetLevel)
  /\ <>[]Open => <>[](system_control = setting)

(* The MCU takes the menu for open when it is, and for closed when it is,  *)
(* if not by a reading of the buttons then by going to sleep; a job that   *)
(* keeps it awake may leave it wrong, if the menu closed just while the    *)
(* buttons were sent.                                                      *)
MenuIsFollowed ==
  /\ <>[]Open => <>[]visible
  /\ <>[](menuDisabled /\ ~inhibited) => <>[]~visible
=============================================================================

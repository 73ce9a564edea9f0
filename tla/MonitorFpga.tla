---------------------------- MODULE MonitorFpga ----------------------------
(* The FPGA's end of the management UART (system_monitor.sv and its        *)
(* arbiter): the menu button and its hotkeys, the backlight, and the       *)
(* readings it sends to the MCU, one frame at a time.  While the menu is   *)
(* closed it sends only what a pulse asks for, behind a run of zero bytes  *)
(* that wakes the MCU.                                                     *)
EXTENDS Naturals, Sequences

CONSTANTS
  None,
  Keys,         (* the buttons that are pressed, of "a", "b", "left", "right" *)
  MaxLevel,     (* bound: levels of the backlight, 15 in the code          *)
  MaxEvents,    (* bound: acts of the user, the battery and jobs           *)
  Room          (* bound: frames under way in each direction               *)

ASSUME MonitorAssumption == /\ MaxLevel \in Nat /\ MaxEvents \in Nat
                            /\ Room \in Nat \ {0}
                            /\ Keys \subseteq {"a", "b", "left", "right"}
                            /\ None \notin Keys

VARIABLES
  press,            (* the menu button: "up", "down", and "lifted" until the
                       shift register has seen it *)
  key,              (* another button that is held, or None *)
  menuDown, menuDisabled,
  brightness, blockBrightnessReceive,
  lowpowerBacklight, lowerpowerOldBL,
  system_control,
  requests,         (* channelsDataRefreshRequest *)
  active, next, buttonNext,
  sending,          (* the frame on the wire, or None *)
  dozing,           (* the next frame starts with zero bytes *)
  down,             (* frames on their way to the FPGA *)
  missed            (* history: the MCU was not told of a change *)

menuVars == <<press, key, menuDown, menuDisabled>>
lightVars == <<brightness, blockBrightnessReceive, lowpowerBacklight, lowerpowerOldBL>>
arbiterVars == <<requests, active, next, buttonNext, sending, dozing>>
fpgaVars == <<menuVars, lightVars, arbiterVars, system_control, missed>>

(* The channels in the arbiter's order, those left out whose reading       *)
(* changes nothing here.                                                   *)
Buttons == 1
Audio == 2
Status == 3
Channels == {Buttons, Audio, Status}
Cyclic(i) == (i % 3) + 1

Levels == 0..MaxLevel

FpgaInit ==
  /\ press = "up" /\ key = None /\ menuDown = FALSE /\ menuDisabled = TRUE
  /\ brightness \in Levels /\ blockBrightnessReceive = 0
  /\ lowpowerBacklight = FALSE /\ lowerpowerOldBL = 0
  /\ system_control = 0
  /\ requests = {} /\ active = 1 /\ next = 1 /\ buttonNext = FALSE
  /\ sending = None /\ dozing = TRUE
  /\ down = << >> /\ missed = FALSE

-----------------------------------------------------------------------------
(* Sending.                                                                *)

(* A pulse is kept until its frame has gone; one that comes after the      *)
(* frame was filled goes with it unsent.                                   *)
Pulse(i) == /\ requests' = requests \cup {i}
            /\ missed' = (missed \/ (sending # None /\ sending.channel = i))

Reading(i) ==
  CASE i = Buttons -> [hidden |-> menuDisabled \/ press = "down", key |-> key]
    [] i = Audio   -> brightness
    [] i = Status  -> lowpowerBacklight

(* The search from the active channel, in the arbiter's order.             *)
First == CHOOSE i \in requests :
           \A j \in requests : (i + 3 - active) % 3 <= (j + 3 - active) % 3

Start ==
  /\ sending = None /\ requests # {}
  /\ active' = First
  /\ sending' = [channel |-> First, reading |-> Reading(First),
                 preamble |-> menuDisabled \/ dozing, whole |-> TRUE]
  /\ dozing' = FALSE
  /\ UNCHANGED <<requests, next, buttonNext, menuVars, lightVars, system_control, missed>>

(* write_done.  While the menu is open every channel is asked for again at *)
(* once.                                                                   *)
Finish ==
  /\ sending # None
  /\ requests' = IF menuDisabled THEN requests \ {active} ELSE requests
  /\ buttonNext' = ~buttonNext
  /\ IF buttonNext THEN active' = Buttons /\ UNCHANGED next
                   ELSE next' = Cyclic(next) /\ active' = next'
  /\ sending' = None
  /\ dozing' = menuDisabled
  /\ UNCHANGED <<menuVars, lightVars, system_control>>

-----------------------------------------------------------------------------
(* The buttons.                                                            *)

MenuPress ==
  /\ press = "up"
  /\ press' = "down" /\ menuDown' = (key = None)
  /\ UNCHANGED <<key, menuDisabled, lightVars, arbiterVars, system_control, missed>>

MenuRelease ==
  /\ press = "down"
  /\ press' = "lifted"
  /\ UNCHANGED <<key, menuDown, menuDisabled, lightVars, arbiterVars, system_control, missed>>

(* Sixteen clocks after the release.                                       *)
Toggle ==
  /\ press = "lifted"
  /\ press' = "up" /\ menuDown' = FALSE
  /\ IF menuDown
     THEN /\ menuDisabled' = ~menuDisabled
          /\ requests' = IF menuDisabled THEN Channels ELSE requests
          /\ dozing' = (dozing \/ (sending = None /\ ~menuDisabled))
     ELSE UNCHANGED <<menuDisabled, requests, dozing>>
  /\ UNCHANGED <<key, lightVars, active, next, buttonNext, sending, system_control, missed>>

KeyPress(k) ==
  /\ key = None
  /\ key' = k /\ menuDown' = FALSE
  /\ UNCHANGED <<press, menuDisabled, lightVars, arbiterVars, system_control, missed>>

(* Left or right let go under the menu button: a step of the backlight.    *)
Hotkey(k) == /\ menuDisabled /\ press = "down"
             /\ \/ k = "left" /\ brightness >= 1
                \/ k = "right" /\ brightness # MaxLevel
Turned(k) == IF k = "left" THEN brightness - 1 ELSE brightness + 1

KeyRelease ==
  /\ key # None
  /\ key' = None
  /\ IF Hotkey(key)
     THEN /\ blockBrightnessReceive' = 3
          /\ IF lowpowerBacklight
             THEN UNCHANGED <<brightness, requests, missed>>
             ELSE brightness' = Turned(key) /\ Pulse(Audio)
     ELSE UNCHANGED <<blockBrightnessReceive, brightness, requests, missed>>
  /\ UNCHANGED <<press, menuDown, menuDisabled, lowpowerBacklight, lowerpowerOldBL, active,
                 next, buttonNext, sending, dozing, system_control>>

-----------------------------------------------------------------------------
(* The battery: under 2.55 V the backlight goes to its minimum, above      *)
(* 3.4 V it comes back.                                                    *)
Sags ==
  /\ ~lowpowerBacklight
  /\ lowpowerBacklight' = TRUE /\ lowerpowerOldBL' = brightness /\ brightness' = 0
  /\ Pulse(Status)
  /\ UNCHANGED <<menuVars, blockBrightnessReceive, active, next, buttonNext, sending, dozing,
                 system_control>>

Recovers ==
  /\ lowpowerBacklight
  /\ lowpowerBacklight' = FALSE /\ brightness' = lowerpowerOldBL
  /\ Pulse(Status)
  /\ UNCHANGED <<menuVars, blockBrightnessReceive, lowerpowerOldBL, active, next, buttonNext,
                 sending, dozing, system_control>>

(* A frame from the MCU.  Three levels after a hotkey are let pass, so     *)
(* that one sent before the MCU knew does not undo it.                     *)
Obey ==
  /\ down # << >>
  /\ down' = Tail(down)
  /\ LET frame == Head(down) IN
     \/ /\ frame.command = "brightness" /\ blockBrightnessReceive = 0
        /\ brightness' = IF lowpowerBacklight THEN 0 ELSE frame.value
        /\ UNCHANGED <<blockBrightnessReceive, system_control>>
     \/ /\ frame.command = "brightness" /\ blockBrightnessReceive > 0
        /\ blockBrightnessReceive' = blockBrightnessReceive - 1
        /\ UNCHANGED <<brightness, system_control>>
     \/ /\ frame.command = "sysctl"
        /\ system_control' = frame.value
        /\ UNCHANGED <<brightness, blockBrightnessReceive>>
  /\ UNCHANGED <<menuVars, lowpowerBacklight, lowerpowerOldBL, arbiterVars, missed>>
=============================================================================

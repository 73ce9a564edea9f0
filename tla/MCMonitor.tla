----------------------------- MODULE MCMonitor -----------------------------
EXTENDS Monitor

MCInit == Init /\ brightness = 1

(* What may happen first, second and third: a third press of the menu      *)
(* button only after a hotkey, or under an inhibitor or a weak battery.    *)
Kind == CASE press = "up" /\ press' = "down"          -> "menu"
          [] key = None /\ key' # None                -> key'
          [] lowpowerBacklight' # lowpowerBacklight   -> "battery"
          [] setting' # setting                       -> "setting"
          [] OTHER                                    -> "inhibit"
Turn == << {"menu", "battery", "inhibit"}, {"menu", "left", "battery", "setting"},
           {"menu", "a"} >>
MCNext ==
  /\ Next
  /\ events' # events => /\ Kind \in Turn[events']
                         /\ events' = 3 /\ Kind = "menu" =>
                              brightness # 1 \/ inhibited \/ lowpowerBacklight
MCFairSpec == MCInit /\ [][MCNext]_vars /\ Fairness
=============================================================================

------------------------------ MODULE MCCartLink ----------------------------
EXTENDS CartLink
Choice(n) == CASE n = 1 -> {"enter", "virtual"}
              [] n = MaxCalls -> {"enter", "read", "ack"}
              [] OTHER -> Operations
Once == {"write", "ping"}
Chosen == calls' # calls => /\ call'.op \in Choice(calls')
                            /\ call'.left = Attempts \/ call'.op \in Once
MCNext == Next /\ Chosen
MCFairSpec == /\ Init /\ [][MCNext]_vars
              /\ WF_vars(Running) /\ WF_vars(Wire) /\ WF_vars(Engine)
              /\ WF_vars(AnswerVirtual) /\ WF_vars(Watchdog)
=============================================================================

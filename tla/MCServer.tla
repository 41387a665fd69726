------------------------------- MODULE MCServer -------------------------------
(* The debug server with a client of any port and one of the log. *)
EXTENDS SystemDebugging

AllListeners == {"proc", "log", "cmd", "cmdAuto"}
Limit == [k \in AllListeners |-> 1]
Actions == <<{"asks", "gone", "full"}, {}>>
Clients == <<{"proc", "log", "cmd"}, {"log"}>>
=============================================================================

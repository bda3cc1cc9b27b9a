---------------------------- MODULE SharedStream ----------------------------
(***************************************************************************)
(* What the recordings may rely on of the audio stream: it is open exactly *)
(* while somebody uses it.  Recording implements this; how it builds,      *)
(* shares and tears down the PipeWire objects is left out.                 *)
(***************************************************************************)
CONSTANT Outputs

VARIABLES users, open

Init ==
  /\ users = {}
  /\ open = FALSE

Attach(o) ==
  /\ o \notin users
  /\ users' = users \cup {o}
  /\ open' = TRUE

Detach(o) ==
  /\ o \in users
  /\ users' = users \ {o}
  /\ open' = (users' # {})

Next == \E o \in Outputs : Attach(o) \/ Detach(o)

Spec == Init /\ [][Next]_<<users, open>>
=============================================================================

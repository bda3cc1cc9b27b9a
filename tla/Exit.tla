-------------------------------- MODULE Exit --------------------------------
(***************************************************************************)
(* What scran promises of its exit, said without the capture UI, frames,   *)
(* feedback or counters.  Exit is asked for by a key, a signal or an image *)
(* that was the last thing wanted, in the midst of whatever is going on.   *)
(* What is being captured is brought to its end and what still waits is    *)
(* given up; of whole outputs nothing new is captured; and scran is gone   *)
(* only once nothing is left to do.                                        *)
(***************************************************************************)
CONSTANT Captures  \* what may be captured: of which output, and for what

VARIABLES
  requested,   \* exit was requested
  waiting,     \* the captures of whole outputs that wait for the UI
  fullscreen,  \* those under way
  frames,      \* what a frame is being captured for
  running      \* the loop has not returned
vars == <<requested, waiting, fullscreen, frames, running>>

Idle == waiting = {} /\ fullscreen = {} /\ frames = {}

Init == requested = FALSE /\ Idle /\ running = TRUE

\* A handler.  It may begin and end several captures, and request exit between two.
Handle ==
  /\ running
  /\ waiting' \in SUBSET Captures
  /\ fullscreen' \in SUBSET Captures
  /\ frames' \in SUBSET Captures
  /\ requested' \in BOOLEAN
  /\ requested => requested' /\ fullscreen' \subseteq fullscreen
  /\ requested' => waiting' = {}
  /\ UNCHANGED running

\* The loop returns.
Return ==
  /\ running /\ requested /\ Idle
  /\ running' = FALSE
  /\ UNCHANGED <<requested, waiting, fullscreen, frames>>

Next == Handle \/ Return

Spec == Init /\ [][Next]_vars
=============================================================================

-------------------------- MODULE ScranInvariants --------------------------
(***************************************************************************)
(* What the proofs about scran's capture pipeline say of its states and    *)
(* steps: the parts of the inductive invariants, and how what a function   *)
(* returns is related to what it was given.                                *)
(*                                                                         *)
(* None of the invariants of ScranProperties is inductive: an assertion of *)
(* a handler holds because of what another handler left, the count of the  *)
(* captures agrees with the consumers only if the frame does, and a hide   *)
(* is answered once only if the surface and the state of the UI agree.     *)
(* UiInv, SoundInv, EndInv, ExitInv and Held are.                          *)
(*                                                                         *)
(* Of an output, Sound holds between any two handlers, and two weaker      *)
(* forms of it within a handler: Steady up to the sync that ends it, and   *)
(* Balanced while what awaited the capture UI is being dispatched.  In a   *)
(* state of which SoundState holds every output is Sound, and stdout       *)
(* belongs to the one capture that writes to it.                           *)
(***************************************************************************)
EXTENDS ScranProperties

-----------------------------------------------------------------------------
(* The surface and the capture UI of one output                            *)

\* The surface holds the transparent pixel, and is disabled.
Covered(surface) == surface.single_pixel /\ "FULLSCREEN_HIDE" \in surface.disabled

\* b is a surface, and covered if a is.
Keeps(a, b) == b \in Surface /\ (Covered(a) => Covered(b))

\* What makes UiIsGoneFromCaptures inductive: a UI that is hidden, or about to
\* be, is off the surface, and stays so.
UiIsGone(x) ==
  /\ x.active \cap {"IMAGE", "FREEZEFRAME"} # {} => x.ui = "HIDDEN"
  /\ x.ui \in {"HIDE_PENDING", "HIDDEN"} => Covered(x.surface)

\* AwaitedUiIsChanging, of one output.
UiIsChanging(x) == x.awaiting_ui # {} => x.ui \in {"SHOW_PENDING", "HIDE_PENDING"}

\* y is an output that x may become where no consumer joins, or waits again.
Follows(x, y) ==
  /\ y \in Output
  /\ AllConsumers(y) \subseteq AllConsumers(x)
  /\ y.awaiting_ui \subseteq x.awaiting_ui
  /\ UiIsGone(x) => UiIsGone(y)
  /\ UiIsChanging(x) => UiIsChanging(y)

-----------------------------------------------------------------------------
(* The hides that the compositor has not answered                          *)

\* b waits for the same answers as a, and is hidden if a is.
SameHides(a, b) ==
  /\ HidesPending(b) = HidesPending(a)
  /\ "FULLSCREEN_HIDE" \in b.disabled <=> "FULLSCREEN_HIDE" \in a.disabled

\* No buffer of a that is busy is free in b.
StaysBusy(a, b) == BothBusy(a) => BothBusy(b)

HideIsAnswered(x) ==
  /\ x.ui = "HIDE_PENDING" => \E i : HidesPending(x.surface) = {i}
  /\ x.ui # "HIDE_PENDING" => HidesPending(x.surface) = {}
  /\ x.ui \in {"HIDE_PENDING", "HIDDEN"} <=> "FULLSCREEN_HIDE" \in x.surface.disabled

\* Everything of an output that is not its surface or its UI.
SameBooks(x, y) ==
  /\ y.frame = x.frame
  /\ y.freezeframe = x.freezeframe
  /\ y.active = x.active
  /\ y.awaiting_ui = x.awaiting_ui
  /\ y.video_stage = x.video_stage
  /\ y.captures = x.captures
  /\ y.selection = x.selection
  /\ y.size_is_frozen = x.size_is_frozen
  /\ y.failed_asserts = x.failed_asserts

\* y is x with its UI or surface changed, in a way that keeps hides answered.
UiMoves(x, y) ==
  /\ Follows(x, y)
  /\ SameBooks(x, y)
  /\ StaysBusy(x.surface, y.surface)
  /\ HideIsAnswered(x) => HideIsAnswered(y)

-----------------------------------------------------------------------------
(* What holds of one output                                                *)

Count(condition) == IF condition THEN 1 ELSE 0

\* CapturesAreCounted, of one output.
Counted(x) ==
  x.captures = Count(AllConsumers(x) # {}) + Count("IMAGE" \in x.frame.consumers)
                 + Count(VideoIsLive(x))

\* FrameServesItsConsumers, of one output.
FrameIsShared(x) ==
  /\ x.frame.in_flight <=> x.frame.consumers # {}
  /\ VideoIsLive(x) <=> "VIDEO" \in x.frame.consumers

\* RecordedSizeIsFixed, of one output.
SizeIsFixed(x) ==
  /\ x.size_is_frozen <=> x.video_stage # "NONE"
  /\ x.size_is_frozen => x.selection \notin {"INITIALIZING", "RESIZING"}

\* The consumers of a fullscreen capture are what they say: one that awaits the UI has
\* not begun, and one that is active has.
ConsumersAreReal(x) ==
  /\ x.active \cap x.awaiting_ui = {}
  /\ "VIDEO" \in x.awaiting_ui => x.video_stage = "FULLSCREEN_START_PENDING"
  /\ "VIDEO" \in x.active => VideoIsLive(x)
  /\ "IMAGE" \in x.active => "IMAGE" \in x.frame.consumers
  /\ "FREEZEFRAME" \in x.awaiting_ui => x.freezeframe.stage = "REFRESHING"
  /\ "FREEZEFRAME" \in x.active => x.freezeframe.stage = "CAPTURING"

\* A freezeframe being captured is at one of its three waits, for a buffer or a frame
\* that somebody will hand over.
FreezeframeIsServed(f) ==
  /\ f.stage = "CAPTURING" <=> f.capture_waiting \/ f.in_flight \/ f.surface_waiting
  /\ f.stage # "IDLE" => ~f.showing
  /\ f.in_flight => ~f.capture_busy /\ ~f.capture_waiting /\ ~f.surface_waiting
  /\ f.capture_waiting => f.capture_busy /\ ~f.surface_waiting
  /\ f.surface_waiting => f.surface_busy /\ ~f.capture_busy

\* A surface that has not had its first content holds neither a free buffer nor a
\* selection.
StartsEmpty(x) == x.freezeframe.startup => BothBusy(x.surface) /\ x.selection = "NONE"

\* What holds of an output even while what awaited its UI is being dispatched.
Balanced(x) ==
  UiIsGone(x) /\ HideIsAnswered(x) /\ Counted(x) /\ FrameIsShared(x) /\ StartsEmpty(x)

\* What holds of it within a handler, up to the sync that ends it.
Steady(x) == Balanced(x) /\ ConsumersAreReal(x) /\ FreezeframeIsServed(x.freezeframe)

Sound(x) == Steady(x) /\ UiIsChanging(x) /\ SizeIsFixed(x)

\* What every step does that is not about the selection: no assertion fails, and
\* neither what is written nor the selection changes.
Calm(x, y) ==
  /\ y.failed_asserts = x.failed_asserts
  /\ y.freezeframe.startup => x.freezeframe.startup
  /\ y.selection = x.selection
  /\ "IMAGE" \in y.frame.consumers <=> "IMAGE" \in x.frame.consumers
  /\ VideoIsLive(y) <=> VideoIsLive(x)
  /\ "IMAGE" \in AllConsumers(y) => "IMAGE" \in AllConsumers(x)

-----------------------------------------------------------------------------
(* An output but for one of its parts                                      *)

\* y is x but for its frame.
SameButFrame(x, y) ==
  /\ y \in Output
  /\ y.surface = x.surface /\ y.ui = x.ui
  /\ y.freezeframe = x.freezeframe
  /\ y.active = x.active /\ y.awaiting_ui = x.awaiting_ui
  /\ y.exit_after = x.exit_after
  /\ y.video_stage = x.video_stage /\ y.captures = x.captures
  /\ y.selection = x.selection /\ y.size_is_frozen = x.size_is_frozen
  /\ y.ui_inside = x.ui_inside
  /\ y.failed_asserts = x.failed_asserts

\* y is x but for its freezeframe, and as mapped as x.
SameButFreezeframe(x, y) ==
  /\ y \in Output
  /\ y.surface = x.surface /\ y.ui = x.ui
  /\ y.frame = x.frame
  /\ y.active = x.active /\ y.awaiting_ui = x.awaiting_ui
  /\ y.exit_after = x.exit_after
  /\ y.video_stage = x.video_stage /\ y.captures = x.captures
  /\ y.selection = x.selection /\ y.size_is_frozen = x.size_is_frozen
  /\ y.ui_inside = x.ui_inside
  /\ y.failed_asserts = x.failed_asserts
  /\ y.freezeframe.startup => x.freezeframe.startup

-----------------------------------------------------------------------------
(* What a step may do to the state                                         *)

\* Where exit was requested nothing waits for the UI any more.
GivenUp(s) == s.exit_requested => \A p \in Outputs : s.outputs[p].awaiting_ui = {}

\* Once exit was requested it stays so, and no consumer joins any output.
ExitObeyed(s, t) ==
  /\ s.exit_requested =>
       /\ t.exit_requested
       /\ \A p \in Outputs : AllConsumers(t.outputs[p]) \subseteq AllConsumers(s.outputs[p])
  /\ GivenUp(s) => GivenUp(t)

\* No output loses what holds of its UI.
GoneObeyed(s, t) ==
  \A p \in Outputs : UiIsGone(s.outputs[p]) => UiIsGone(t.outputs[p])

ChangingObeyed(s, t, outputs) ==
  \A p \in outputs : UiIsChanging(s.outputs[p]) => UiIsChanging(t.outputs[p])

\* t is a state that s may lead to.
Obeys(s, t) ==
  t \in State /\ ExitObeyed(s, t) /\ GoneObeyed(s, t) /\ ChangingObeyed(s, t, Outputs)

\* The same, but on o a consumer may have begun to await a UI that does not change
\* yet: what holds between a function's first assignment and its sync of the UI.
ObeysBut(s, t, o) ==
  t \in State /\ ExitObeyed(s, t) /\ GoneObeyed(s, t) /\ ChangingObeyed(s, t, Outputs \ {o})

-----------------------------------------------------------------------------
(* What holds of a state, and how a handler takes it on                    *)

\* Where slurp is printed there is no image to capture.
SlurpIsNoCapture(x) == ProduceSlurp => "IMAGE" \notin AllConsumers(x)

Capturing(x, purpose) ==
  IF purpose = "IMAGE" THEN "IMAGE" \in x.frame.consumers ELSE VideoIsLive(x)

\* StdoutHasOneWriter; and without -o - nobody reserves it.
StdoutIsOwned(s) ==
  /\ ~OutputToStdout => StdoutIsFree(s)
  /\ OutputToStdout => \A p \in Outputs, purpose \in {"IMAGE", "VIDEO"} :
                         Capturing(s.outputs[p], purpose) <=> ReservedFor(s, p, purpose)

OthersSound(s, outputs) ==
  /\ \A p \in outputs : Sound(s.outputs[p]) /\ SlurpIsNoCapture(s.outputs[p])
  /\ StdoutIsOwned(s)

SoundState(s) == OthersSound(s, Outputs)

\* From s to t no assertion fails, and no output is unmapped.
Quiet(s, t) ==
  \A p \in Outputs :
    /\ t.outputs[p].failed_asserts = s.outputs[p].failed_asserts
    /\ t.outputs[p].freezeframe.startup => s.outputs[p].freezeframe.startup

\* From s to t these outputs only change in ways their captures do not notice.
CalmOn(s, t, outputs) ==
  \A p \in outputs : /\ Calm(s.outputs[p], t.outputs[p])
                     /\ StaysBusy(s.outputs[p].surface, t.outputs[p].surface)

\* x goes on as y in the midst of a handler: at most its recording is asked to stop, its
\* awaiting consumers are given up, and its frame gets a consumer.
GoesOn(x, y) ==
  /\ y \in Output /\ Balanced(y)
  /\ y.active = x.active
  /\ y.awaiting_ui = x.awaiting_ui \/ y.awaiting_ui = {}
  /\ y.freezeframe = x.freezeframe
  /\ y.size_is_frozen = x.size_is_frozen
  /\ y.selection = x.selection
  /\ y.failed_asserts = x.failed_asserts
  /\ StaysBusy(x.surface, y.surface)
  /\ \/ y.video_stage = x.video_stage
     \/ x.video_stage = "CAPTURING" /\ y.video_stage = "STOP_REQUESTED"
  /\ UiIsChanging(x) => UiIsChanging(y)

\* From s to t the output o goes on in the midst of its handler, and the others calmly.
Continues(s, t, o) ==
  /\ t \in State
  /\ OthersSound(t, Outputs \ {o})
  /\ CalmOn(s, t, Outputs \ {o})
  /\ GoesOn(s.outputs[o], t.outputs[o])

\* What freezing or thawing the size of o's selection leaves alone.
SameButSelection(x, y) ==
  /\ y \in Output
  /\ y.surface = x.surface /\ y.ui = x.ui
  /\ y.frame = x.frame /\ y.freezeframe = x.freezeframe
  /\ y.active = x.active /\ y.awaiting_ui = x.awaiting_ui
  /\ y.captures = x.captures
  /\ y.failed_asserts = x.failed_asserts

\* t is s but for the output o and the button that is held.
SameButOn(s, t, o) ==
  /\ t \in State
  /\ t.stdout = s.stdout
  /\ t.exit_requested = s.exit_requested
  /\ \A p \in Outputs \ {o} : t.outputs[p] = s.outputs[p]

\* x goes on as y in a handler that may begin a recording.
FilmsOn(x, y) ==
  /\ y \in Output /\ Balanced(y)
  /\ y.active = x.active /\ y.awaiting_ui = x.awaiting_ui
  /\ y.freezeframe = x.freezeframe
  /\ y.failed_asserts = x.failed_asserts
  /\ StaysBusy(x.surface, y.surface)
  /\ UiIsChanging(x) => UiIsChanging(y)
  /\ "IMAGE" \in y.frame.consumers <=> "IMAGE" \in x.frame.consumers

\* The size of a selection that is to be recorded may yet have to be fixed.
SizeMayBeFixed(x) ==
  IF "VIDEO" \in x.awaiting_ui THEN x.selection # "INITIALIZING" /\ x.selection # "RESIZING"
  ELSE SizeIsFixed(x)

\* An output that a dispatch may begin with: the UI has settled for its consumers.
MayDispatch(x) ==
  /\ Steady(x) /\ SlurpIsNoCapture(x) /\ SizeMayBeFixed(x)
  /\ UiSettled(x) /\ x.awaiting_ui # {}

\* y captures what x captures, no assertion failed, and y is as mapped as x.
SameCaptures(x, y) ==
  /\ y.failed_asserts = x.failed_asserts
  /\ y.freezeframe.startup => x.freezeframe.startup
  /\ "IMAGE" \in y.frame.consumers <=> "IMAGE" \in x.frame.consumers
  /\ VideoIsLive(y) <=> VideoIsLive(x)

-----------------------------------------------------------------------------
(* A consumer that joins, and one that ends                                *)

\* What a handler that ends with a sync leaves of the output o.
Synced(s, t, o) ==
  /\ t \in State /\ OthersSound(t, Outputs \ {o}) /\ Quiet(s, t)
  /\ Steady(t.outputs[o]) /\ UiIsChanging(t.outputs[o]) /\ SlurpIsNoCapture(t.outputs[o])
  /\ t.outputs[o].selection = s.outputs[o].selection

\* A capture of x that has ended, with what it counted and the consumer it was.
EndsCapture(x, y, consumer) ==
  /\ y \in Output
  /\ y.active = x.active \ {consumer} /\ y.awaiting_ui = x.awaiting_ui
  /\ y.captures = x.captures - 1 - Count(consumer \in x.active /\ AllConsumers(y) = {})
  /\ y.freezeframe = x.freezeframe
  /\ y.selection = x.selection
  /\ y.failed_asserts = x.failed_asserts
  /\ y.frame = x.frame
  /\ StaysBusy(x.surface, y.surface)
  /\ UiIsGone(y) /\ HideIsAnswered(y) /\ UiIsChanging(y)

\* A consumer that has ended is none any more, and shows the UI if it was the last to
\* hide it.
EndsConsumer(x, y, consumer) ==
  /\ y \in Output
  /\ y.active = x.active \ {consumer} /\ y.awaiting_ui = x.awaiting_ui
  /\ y.captures = x.captures - Count(consumer \in x.active /\ AllConsumers(y) = {})
  /\ y.freezeframe = x.freezeframe
  /\ y.selection = x.selection
  /\ y.failed_asserts = x.failed_asserts
  /\ y.frame = x.frame
  /\ y.video_stage = x.video_stage /\ y.size_is_frozen = x.size_is_frozen
  /\ StaysBusy(x.surface, y.surface)
  /\ UiIsGone(y) /\ HideIsAnswered(y) /\ UiIsChanging(y)

\* What becomes of the state but for o, where a capture of o for this purpose ends.
Releases(s, t, o, purpose) ==
  /\ t \in State
  /\ t.exit_requested = s.exit_requested
  /\ t.stdout = IF ReservedFor(s, o, purpose) THEN Unreserved ELSE s.stdout
  /\ \A p \in Outputs \ {o} : t.outputs[p] = s.outputs[p]

\* A freezeframe whose frame has been answered, and that waits for nothing.
IsAnswered(x) ==
  /\ Balanced(x) /\ ConsumersAreReal(x) /\ UiIsChanging(x) /\ SizeIsFixed(x)
  /\ SlurpIsNoCapture(x)
  /\ x.freezeframe.stage = "CAPTURING"
  /\ ~x.freezeframe.in_flight /\ ~x.freezeframe.capture_waiting
  /\ ~x.freezeframe.surface_waiting

-----------------------------------------------------------------------------
(* The inductive invariants                                                *)

\* What every step of scran does to the state.
StepObeys == Obeys(g, g') /\ seat' \in Seat /\ running' \in BOOLEAN

UiInv == TypeOK /\ \A o \in Outputs : UiIsGone(out(o)) /\ UiIsChanging(out(o))

\* The assertion that two buttons pressed with -p make fail.
MayFail == IF UsePressesOnly THEN {"pointer.c:218"} ELSE {}

\* From s to t no other assertion fails, and no output is unmapped.
AlmostQuiet(s, t) ==
  \A p \in Outputs :
    /\ t.outputs[p].failed_asserts \subseteq s.outputs[p].failed_asserts \cup MayFail
    /\ t.outputs[p].freezeframe.startup => s.outputs[p].freezeframe.startup

FocusIsMapped == seat.focus # NoOutput => seat.focus \in Outputs /\ Mapped(seat.focus)

SoundInv ==
  /\ TypeOK
  /\ SoundState(g)
  /\ FocusIsMapped
  /\ \A o \in Outputs : out(o).failed_asserts \subseteq MayFail

\* What every step of scran does to a sound state.
StepIsSound == SoundState(g') /\ AlmostQuiet(g, g')

-----------------------------------------------------------------------------
(* While a frame is answered                                               *)

\* What holds of an output whose frame has been taken, while what it was captured for
\* is being finished: these captures are still in progress.
SoundButFrame(x, captured) ==
  /\ x \in Output
  /\ UiIsGone(x) /\ HideIsAnswered(x) /\ UiIsChanging(x)
  /\ StartsEmpty(x) /\ FreezeframeIsServed(x.freezeframe)
  /\ SizeIsFixed(x) /\ SlurpIsNoCapture(x)
  /\ x.captures = Count(AllConsumers(x) # {}) + Count("IMAGE" \in captured)
                    + Count("VIDEO" \in captured)
  /\ VideoIsLive(x) <=> "VIDEO" \in captured
  /\ x.active \cap x.awaiting_ui = {}
  /\ "VIDEO" \in x.awaiting_ui => x.video_stage = "FULLSCREEN_START_PENDING"
  /\ "VIDEO" \in x.active => "VIDEO" \in captured
  /\ "IMAGE" \in x.active => "IMAGE" \in captured
  /\ "FREEZEFRAME" \in x.awaiting_ui => x.freezeframe.stage = "REFRESHING"
  /\ "FREEZEFRAME" \in x.active => x.freezeframe.stage = "CAPTURING"

\* A recording that ends thaws its size.
StageEnds(x, y, consumer) ==
  IF consumer = "VIDEO" THEN y.video_stage = "NONE" /\ y.size_is_frozen = FALSE
  ELSE y.video_stage = x.video_stage /\ y.size_is_frozen = x.size_is_frozen

\* What holds of the state between the steps of such a handler: stdout is owned as if
\* the captures of o were those that are still in progress.
SoundBut(s, o, captured) ==
  /\ s \in State
  /\ SoundButFrame(s.outputs[o], captured)
  /\ \A p \in Outputs \ {o} : Sound(s.outputs[p]) /\ SlurpIsNoCapture(s.outputs[p])
  /\ ~OutputToStdout => StdoutIsFree(s)
  /\ OutputToStdout => \A purpose \in {"IMAGE", "VIDEO"} :
       /\ purpose \in captured <=> ReservedFor(s, o, purpose)
       /\ \A p \in Outputs \ {o} :
            Capturing(s.outputs[p], purpose) <=> ReservedFor(s, p, purpose)

\* What is left to capture when a consumer is done.
LeftOf(captured, left, consumer) ==
  /\ consumer \notin left
  /\ \A c \in {"IMAGE", "VIDEO"} : c # consumer => (c \in left <=> c \in captured)

-----------------------------------------------------------------------------
(* The end                                                                 *)

\* Where the loop has ended, the captures had too, and no output is left to be drawn.
EndInv ==
  /\ SoundInv
  /\ ~running => /\ FreezeAtStartup \/ \A o \in Outputs : Mapped(o)
                 /\ \A o \in Outputs : out(o).captures = 0

NothingCaptured == \A o \in Outputs : out(o).captures = 0

\* Exit with nothing waiting for the UI: what Exit needs of the states between steps.
ExitInv == EndInv /\ GivenUp(g)

-----------------------------------------------------------------------------
(* The buttons                                                             *)

OneOutput == \A p, q \in Outputs : p = q

\* The buttons that may be active while the selection is in this state.
ButtonsOf(selection) ==
  CASE selection \in {"NONE", "INITIALIZING"} -> {"NONE", "LEFT"}
    [] selection = "COMPLETE" -> {"NONE"}
    [] selection = "REBASING" -> {"LEFT"}
    [] selection = "RESIZING" -> {"RIGHT"}

\* y's selection is x's.
SameSelection(x, y) == "selection" \in DOMAIN y /\ y.selection = x.selection

\* s has what a handler reads of it.
Shaped(s) ==
  /\ {"outputs", "active_button", "exit_requested", "stdout"} \subseteq DOMAIN s
  /\ DOMAIN s.outputs = Outputs

\* GesturesHoldTheirButton, made inductive.
Held(s) ==
  /\ Shaped(s)
  /\ \A p \in Outputs :
       /\ "selection" \in DOMAIN s.outputs[p]
       /\ s.outputs[p].selection \in SelectionStates
       /\ s.active_button \in ButtonsOf(s.outputs[p].selection)

=============================================================================

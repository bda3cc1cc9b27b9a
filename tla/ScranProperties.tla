-------------------------- MODULE ScranProperties --------------------------
(***************************************************************************)
(* What must hold of scran's capture pipeline: the invariants, the step    *)
(* properties, and the progress it makes if the compositor answers.        *)
(***************************************************************************)
EXTENDS Scran

-----------------------------------------------------------------------------
(* Invariants                                                              *)

(***************************************************************************)
(* No assert() that Assertions of OutputCapture lists fails.  Each is      *)
(* recorded where it stands (Check), and the handlers that can make one    *)
(* fail are far from it.  Not in the list is capture.c:311, about the      *)
(* dimensions of a recording, which the pipeline does not have: it does    *)
(* fail (RecordingIsNotEmpty of SelectionBox).                             *)
(***************************************************************************)
NoAssertFails == \A o \in Outputs : out(o).failed_asserts = {}

(***************************************************************************)
(* A consumer only waits for the UI while the UI is changing: whatever     *)
(* order of requests, hides and shows led here, some feedback or frame     *)
(* callback will call capture_fullscreen_sync_ui_and_dispatch() again, and *)
(* nobody waits for a change that is over.                                 *)
(***************************************************************************)
AwaitedUiIsChanging ==
  \A o \in Outputs : out(o).awaiting_ui # {} => out(o).ui \in {"SHOW_PENDING", "HIDE_PENDING"}

(***************************************************************************)
(* While a frame is captured for a fullscreen image or a freezeframe, the  *)
(* capture UI is neither on screen nor about to be drawn: the surface      *)
(* holds the transparent pixel, and is disabled.  Toggling the UI, a video *)
(* that allows the UI, and the exit all try to bring it back.              *)
(***************************************************************************)
UiIsGoneFromCaptures ==
  \A o \in Outputs : out(o).active \cap {"IMAGE", "FREEZEFRAME"} # {} =>
    /\ out(o).ui = "HIDDEN"
    /\ out(o).surface.single_pixel
    /\ "FULLSCREEN_HIDE" \in out(o).surface.disabled

(***************************************************************************)
(* n_captures_in_progress counts exactly what is in progress: one for any  *)
(* fullscreen consumers together, one for an image being captured, one for *)
(* a live recording.  Too low and scran exits on a capture, too high and   *)
(* it never does; start, failure and finish count in six functions.        *)
(***************************************************************************)
CapturesAreCounted ==
  LET count(condition) == IF condition THEN 1 ELSE 0
  IN \A o \in Outputs : out(o).captures =
       count(AllConsumers(out(o)) # {}) + count("IMAGE" \in out(o).frame.consumers)
         + count(VideoIsLive(out(o)))

(***************************************************************************)
(* The frame in flight is shared by the image and the video, requested by  *)
(* either and destroyed by stop requests and session switches: there is    *)
(* one exactly when somebody wants it, and a live recording always does.   *)
(***************************************************************************)
FrameServesItsConsumers ==
  \A o \in Outputs :
    /\ out(o).frame.in_flight <=> out(o).frame.consumers # {}
    /\ VideoIsLive(out(o)) <=> "VIDEO" \in out(o).frame.consumers

(***************************************************************************)
(* The selection does not change size under a recording: from the request  *)
(* of a recording to its end the size is frozen, and a frozen selection is *)
(* neither being made nor being resized.                                   *)
(***************************************************************************)
RecordedSizeIsFixed ==
  \A o \in Outputs :
    /\ out(o).size_is_frozen <=> out(o).video_stage # "NONE"
    /\ out(o).size_is_frozen => out(o).selection \notin {"INITIALIZING", "RESIZING"}

(***************************************************************************)
(* A selection is moved while the left button is the active one and        *)
(* resized while the right one is, so that letting go ends it: a recording *)
(* that ends the resize drops the button too, or its release would begin   *)
(* another resize that no button holds.                                    *)
(***************************************************************************)
GesturesHoldTheirButton ==
  \A o \in Outputs :
    /\ out(o).selection = "REBASING" => g.active_button = "LEFT"
    /\ out(o).selection = "RESIZING" => g.active_button = "RIGHT"

(***************************************************************************)
(* With -o -, stdout belongs to exactly one capture of one output, from    *)
(* its start to its finish: bytes of two captures are never interleaved    *)
(* and the reservation is never lost or kept.                              *)
(***************************************************************************)
StdoutHasOneWriter ==
  LET capturing(o, purpose) ==
        IF purpose = "IMAGE" THEN "IMAGE" \in out(o).frame.consumers ELSE VideoIsLive(out(o))
  IN OutputToStdout => \A o \in Outputs, purpose \in {"IMAGE", "VIDEO"} :
                         capturing(o, purpose) <=> ReservedFor(g, o, purpose)

(***************************************************************************)
(* A hide that is pending is one that the compositor will answer, and only *)
(* one: the state machine of the UI and the surface it describes agree.    *)
(***************************************************************************)
HideIsAnsweredOnce ==
  \A o \in Outputs :
    /\ Cardinality(HidesPending(out(o).surface)) = IF out(o).ui = "HIDE_PENDING" THEN 1 ELSE 0
    /\ out(o).ui \in {"HIDE_PENDING", "HIDDEN"} <=> "FULLSCREEN_HIDE" \in out(o).surface.disabled

(***************************************************************************)
(* A freezeframe is not captured into a buffer that the compositor still   *)
(* reads, the two waits are for a buffer that will be handed back, and a   *)
(* freezeframe being captured is at one of the three, never stuck between. *)
(***************************************************************************)
FreezeframeHasItsBuffer ==
  \A o \in Outputs :
    LET f == out(o).freezeframe
        step == {w \in {"capture", "frame", "rotate"} :
                   \/ w = "capture" /\ f.capture_waiting
                   \/ w = "frame" /\ f.in_flight
                   \/ w = "rotate" /\ f.surface_waiting}
    IN /\ f.in_flight \/ f.surface_waiting => ~f.capture_busy
       /\ f.capture_waiting => f.capture_busy
       /\ f.surface_waiting => f.surface_busy
       /\ f.capture_waiting \/ f.surface_waiting => ~f.showing
       /\ Cardinality(step) = IF f.stage = "CAPTURING" THEN 1 ELSE 0
       /\ "FREEZEFRAME" \in AllConsumers(out(o)) => f.stage # "IDLE"

(***************************************************************************)
(* When the loop ends, no capture is cut off: on no output is an image or  *)
(* a recording in progress or a frame requested for one, no consumer       *)
(* captures or waits for the UI, and stdout is nobody's.  A hide may be    *)
(* left that the compositor has not answered, if its consumers were given  *)
(* up (by the exit, state-util.c:26-31): nobody waits for it.              *)
(***************************************************************************)
NothingIsCutOff ==
  ~running => /\ StdoutIsFree(g)
              /\ \A o \in Outputs : /\ out(o).frame.consumers = {}
                                    /\ ~VideoIsLive(out(o))
                                    /\ AllConsumers(out(o)) = {}

-----------------------------------------------------------------------------
(* Steps                                                                   *)

\* The consumers of all outputs, by what holds of each output's.
Of(consumers(_)) == {c \in Outputs \X Consumers : c[2] \in consumers(out(c[1]))}
Awaiting(x) == x.awaiting_ui
Active(x)   == x.active
Framed(x)   == x.frame.consumers

ScranExit == INSTANCE Exit WITH
  Captures   <- Outputs \X Consumers,
  requested  <- g.exit_requested,
  waiting    <- Of(Awaiting),
  fullscreen <- Of(Active),
  frames     <- Of(Framed)

(***************************************************************************)
(* scran's exit is the one that Exit describes: what waits for the UI is   *)
(* given up in the very handler that requests exit, from then on consumers *)
(* only leave, also where an image that is dispatched is what requests the *)
(* exit, and the loop does not end on a capture or a frame.                *)
(***************************************************************************)
ExitIsKept == ScranExit!Spec

(***************************************************************************)
(* A button is pressed to begin a selection: active_button is dropped when *)
(* the selection is forced to another state "to prevent inversion of       *)
(* interpreted button press/depress state" (scran_seat_pointerContext).    *)
(***************************************************************************)
SelectionsBeginWithAPress ==
  [][\A o \in Outputs :
       out(o).selection = "NONE" /\ out(o)'.selection = "INITIALIZING"
         => "LEFT" \in seat'.held]_vars

(***************************************************************************)
(* The capture UI counts as shown once it was "drawn and awaiting          *)
(* ::presented" (scran_fullscreen_ui_state) and that is presented: the     *)
(* commit whose feedback ends the wait is one that carried the UI.         *)
(***************************************************************************)
ShownUiWasPresented ==
  [][\A o \in Outputs :
       out(o).ui = "SHOW_PENDING" /\ "SHOW_PENDING" # out(o)'.ui => Oldest(o).ui]_vars

-----------------------------------------------------------------------------
(* Progress                                                                *)

(***************************************************************************)
(* The fairness assumed.  scran's loop never stops handling events, and    *)
(* the compositor answers what it was asked: feedback, frame callbacks and *)
(* a capture frame for which there is damage.  A frame that was not forced *)
(* may wait for damage for ever.  Of commits that follow each other it may *)
(* discard some but not all, and a buffer that is on screen is not         *)
(* handed back: of two busy ones one was replaced, and a freezeframe that  *)
(* waits for a buffer is not showing.                                      *)
(*                                                                         *)
(* The loop goes round, but no output is assumed to be outdated: a redraw  *)
(* that is needed has to be asked for by the step that needs it.           *)
(*                                                                         *)
(* This is weak fairness with ENABLED written out: an event can happen     *)
(* exactly while what it answers is pending.                               *)
(***************************************************************************)
FeedbackPresented(o) ==
  \E ok \in BOOLEAN : SelectionPresented(o, ok) \/ HidePresented(o, ok)

SurfaceBufferReleased(o) == \E b \in Buffers : SurfaceBufferRelease(o, b)

FreshFrameReady(o) == \E written, ok \in BOOLEAN : FrameReady(o, FALSE, written, ok)

FreezeframeAnswered(o) ==
  \E rotated, ok \in BOOLEAN : FreezeframeReady(o, rotated, ok) \/ FreezeframeFailed(o, ok)

RotationAnswered(o) == \E rotated, ok \in BOOLEAN : RotatedBufferRelease(o, rotated, ok)

Fairness ==
  /\ WF_vars(LoopIteration({}))
  /\ \A o \in Outputs :
       /\ WF_vars(InitSelection(o))
       /\ \/ []<>(Looping => out(o).surface.feedback = << >>)
          \/ []<><<FeedbackPresented(o)>>_vars
       /\ \/ []<>(Looping => ~out(o).surface.awaiting_frame)
          \/ []<><<FrameCallback(o)>>_vars
       /\ \/ []<>(Looping => ~BothBusy(out(o).surface))
          \/ []<><<SurfaceBufferReleased(o)>>_vars
       /\ \/ []<>(Looping => ~(out(o).frame.in_flight /\ out(o).frame.forced))
          \/ []<><<FreshFrameReady(o)>>_vars
       /\ \/ []<>(Looping => ~out(o).freezeframe.in_flight)
          \/ []<><<FreezeframeAnswered(o)>>_vars
       /\ \/ []<>(Looping => ~out(o).freezeframe.capture_waiting)
          \/ []<><<CaptureBufferRelease(o)>>_vars
       /\ \/ []<>(Looping => ~out(o).freezeframe.surface_waiting)
          \/ []<><<RotationAnswered(o)>>_vars

FairSpec == Spec /\ Fairness

\* The user stops giving inputs at some point.
UserIsQuiet == <>[][~UserStep]_vars

(***************************************************************************)
(* Once exit was requested, scran exits: captures in progress are brought  *)
(* to their end, and none of them waits for damage, for a UI that is fused *)
(* off, or for a count that does not reach 0.  A user who goes on could    *)
(* start a new capture of the selection each time.                         *)
(***************************************************************************)
ExitEnds == UserIsQuiet => (g.exit_requested ~> ~running)

(***************************************************************************)
(* A fullscreen capture that was asked for is begun or given up, if the    *)
(* compositor presents what it is given; a UI that is shown, hidden and    *)
(* toggled meanwhile settles.                                              *)
(***************************************************************************)
AwaitedUiSettles ==
  UserIsQuiet => \A o \in Outputs : (out(o).awaiting_ui # {} ~> out(o).awaiting_ui = {})

(***************************************************************************)
(* A freezeframe that was begun comes to its end, so that Z works again: Z *)
(* is ignored on all outputs while one of them is not done.  An exit gives *)
(* up those that still wait for the UI.                                    *)
(***************************************************************************)
FreezeframesEnd ==
  UserIsQuiet => \A o \in Outputs :
    (out(o).freezeframe.stage # "IDLE"
       ~> out(o).freezeframe.stage = "IDLE" \/ g.exit_requested)
=============================================================================

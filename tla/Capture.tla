------------------------------ MODULE Capture ------------------------------
(***************************************************************************)
(* The capture orchestration of src/capture/capture.c, src/freezeframe.c   *)
(* and src/selection.c, over the part of g_state that is shared between    *)
(* the outputs: whether exit was requested, who may write to stdout, and   *)
(* which pointer button is being held for an action.                       *)
(*                                                                         *)
(* An operator takes that state s (and the output o it is called for) and  *)
(* returns it as the C function leaves it; what the function returns is    *)
(* the predicate next to it.  capture_video_init_writers() may fail at any *)
(* call: `ok` says whether it succeeds in this step.                       *)
(***************************************************************************)
EXTENDS OutputCapture

CONSTANTS
  Outputs,
  OutputToStdout,      \* options.output_to_stdout
  ProduceSlurp,        \* options.produce_slurp
  ExitAfterSelection,  \* options.capture_and_exit_after_selection_init
  InitialSelection     \* the outputs given a selection on the command line

ASSUME CaptureOptions ==
  /\ IsFiniteSet(Outputs)
  /\ {OutputToStdout, ProduceSlurp, ExitAfterSelection} \subseteq BOOLEAN
  /\ InitialSelection \subseteq Outputs

PointerButtons == {"LEFT", "RIGHT"}

\* active_stdout_reservation: whose, and for what; or nobody's.
Reservation == [output : Outputs, purpose : {"IMAGE", "VIDEO"}]
Unreserved == [output |-> "none", purpose |-> "NONE"]

State ==
  [ outputs        : [Outputs -> Output],
    exit_requested : BOOLEAN,
    stdout         : Reservation \cup {Unreserved},
    active_button  : PointerButtons \cup {"NONE"} ]

\* The output o of s replaced by x.
Put(s, o, x) == [s EXCEPT !.outputs[o] = x]

-----------------------------------------------------------------------------
(* The reservation of stdout: scran_stdout_try_reserve() and _release()    *)

StdoutIsFree(s) == s.stdout = Unreserved
ReservedFor(s, o, purpose) == s.stdout = [output |-> o, purpose |-> purpose]
StdoutReserve(s, o, purpose) ==
  IF OutputToStdout THEN [s EXCEPT !.stdout = [output |-> o, purpose |-> purpose]] ELSE s
StdoutRelease(s, o, purpose) ==
  IF ReservedFor(s, o, purpose) THEN [s EXCEPT !.stdout = Unreserved] ELSE s

\* scran_request_exit().
RequestExit(s) ==
  [s EXCEPT !.exit_requested = TRUE,
            !.outputs = [o \in Outputs |-> RequestExitOnOutput(s.outputs[o])]]

-----------------------------------------------------------------------------
(* The size of the selection                                               *)

\* Mutant: the button that resized goes on to count as held.
SelectionFreezeSize_ButtonKept(s, o) ==
  LET x        == s.outputs[o]
      resizing == x.selection = "RESIZING"
      y        == Check(x, x.selection = "NONE" => AllConsumers(x) # {}, "selection.h:67")
  IN Put(s, o, [y EXCEPT !.size_is_frozen = TRUE,
                         !.selection = IF resizing THEN "COMPLETE" ELSE @])

\* Mutant: a resize in progress goes on.
SelectionFreezeSize_ResizeKept(s, o) == [s EXCEPT !.outputs[o].size_is_frozen = TRUE]

\* selection_freeze_size(): a resize in progress is over, and its button with it.
SelectionFreezeSize(s, o) ==
  LET x        == s.outputs[o]
      resizing == x.selection = "RESIZING"
      y        == Check(x, x.selection = "NONE" => AllConsumers(x) # {}, "selection.h:67")
  IN [Put(s, o, [y EXCEPT !.size_is_frozen = TRUE,
                          !.selection = IF resizing THEN "COMPLETE" ELSE @])
        EXCEPT !.active_button = IF resizing THEN "NONE" ELSE @]

\* selection_unfreeze_size().
SelectionUnfreezeSize(s, o) == [s EXCEPT !.outputs[o].size_is_frozen = FALSE]

-----------------------------------------------------------------------------
(* Images                                                                  *)

\* Whether capture_image_start() succeeds.
ImageStarts(s, o) ==
  IF ProduceSlurp THEN StdoutIsFree(s)
  ELSE /\ "IMAGE" \notin s.outputs[o].frame.consumers
       /\ OutputToStdout => StdoutIsFree(s)

\* capture_image_start(): an image already in progress is upgraded to exit; one
\* that finds stdout taken is not.
ImageStart(s, o, exit_after) ==
  LET x         == s.outputs[o]
      capturing == ImageStarts(s, o) /\ ~ProduceSlurp
      busy      == /\ ~ImageStarts(s, o)
                   /\ ProduceSlurp \/ "IMAGE" \notin x.frame.consumers
      started   == IF capturing
                     THEN Put(StdoutReserve(s, o, "IMAGE"), o,
                              [RequestFrameForced(x, {"IMAGE"}) EXCEPT !.captures = @ + 1])
                   ELSE IF busy /\ ~ProduceSlurp
                     THEN Put(s, o, Check(x, ~ReservedFor(s, o, "IMAGE"), "capture.c:596"))
                     ELSE s
  IN IF exit_after /\ ~busy THEN RequestExit(started) ELSE started

-----------------------------------------------------------------------------
(* Videos                                                                  *)

\* Whether capture_video_start() succeeds.
VideoStarts(s, o, ok) ==
  /\ ~VideoIsLive(s.outputs[o])
  /\ OutputToStdout => StdoutIsFree(s)
  /\ ok

\* Mutant: a video that fails to start keeps stdout.
VideoStart_StdoutKept(s, o, ok) ==
  LET frozen  == SelectionFreezeSize(s, o)
      started == RequestFrameForced(RequestFrameCallback(frozen.outputs[o]), {"VIDEO"})
  IN IF VideoIsLive(s.outputs[o]) THEN s
     ELSE IF VideoStarts(s, o, ok)
       THEN Put(StdoutReserve(frozen, o, "VIDEO"), o,
                [started EXCEPT !.video_stage = "CAPTURING", !.captures = @ + 1])
     ELSE IF StdoutIsFree(s)
       THEN SelectionUnfreezeSize(StdoutReserve(frozen, o, "VIDEO"), o)
     ELSE SelectionUnfreezeSize(frozen, o)

\* capture_video_start(): the size is frozen first, and thawed on failure.
VideoStart(s, o, ok) ==
  LET frozen  == SelectionFreezeSize(s, o)
      started == RequestFrameForced(RequestFrameCallback(frozen.outputs[o]), {"VIDEO"})
  IN IF VideoIsLive(s.outputs[o]) THEN s
     ELSE IF VideoStarts(s, o, ok)
       THEN Put(StdoutReserve(frozen, o, "VIDEO"), o,
                [started EXCEPT !.video_stage = "CAPTURING", !.captures = @ + 1])
       ELSE SelectionUnfreezeSize(StdoutRelease(frozen, o, "VIDEO"), o)

\* capture_video_cancel_pending_fullscreen_capture().
VideoCancelPending(s, o) ==
  LET x == s.outputs[o]
      y == Check(x, x.video_stage = "FULLSCREEN_START_PENDING", "capture.c:388")
  IN SelectionUnfreezeSize(Put(s, o, [y EXCEPT !.video_stage = "NONE"]), o)

-----------------------------------------------------------------------------
(* Fullscreen captures                                                     *)

(***************************************************************************)
(* capture_fullscreen_dispatch_awaiting_consumers(): all that awaited the  *)
(* UI is made active and started, in this order, and what fails to start   *)
(* is ended.  The image may request exit, which the video then sees.       *)
(***************************************************************************)
DispatchAwaiting(s, o, ok) ==
  LET x         == s.outputs[o]
      awaiting  == x.awaiting_ui
      begun     == Put(s, o, [x EXCEPT !.active = @ \cup awaiting, !.awaiting_ui = {}])
      imaged    == IF "IMAGE" \in awaiting THEN ImageStart(begun, o, x.exit_after) ELSE begun
      Recording(i) == ~i.exit_requested /\ VideoStarts(i, o, ok)
      Film(i)   == IF "VIDEO" \notin awaiting THEN i
                   ELSE IF i.exit_requested THEN VideoCancelPending(i, o)
                   ELSE IF Recording(i) THEN VideoStart(i, o, ok)
                   ELSE VideoCancelPending(VideoStart(i, o, ok), o)
      Freeze(f) == IF "FREEZEFRAME" \in awaiting
                     THEN Put(f, o, FreezeframeCaptureStart(f.outputs[o]))
                     ELSE f
      Failed(i) == {c \in awaiting : \/ c = "IMAGE" /\ ~ImageStarts(begun, o)
                                     \/ c = "VIDEO" /\ ~Recording(i)}
      End(t, failed) == IF failed = {} THEN t
                        ELSE Put(t, o, EndWithNoneAwaiting(t.outputs[o], failed))
      Rest(i)   == End(Freeze(Film(i)), Failed(i))
  IN Rest(imaged)

\* capture_fullscreen_sync_ui_and_dispatch().
SyncUiAndDispatch(s, o, ok) ==
  IF UiSettled(s.outputs[o]) /\ s.outputs[o].awaiting_ui # {}
    THEN DispatchAwaiting(s, o, ok)
    ELSE Put(s, o, SyncUi(s.outputs[o]))

\* Mutant: a fullscreen capture begins although exit was requested.
FullscreenStart_WhenExiting(s, o, consumer, ok) ==
  LET x == s.outputs[o]
  IN IF consumer \in AllConsumers(x) THEN s
     ELSE SyncUiAndDispatch(
            Put(s, o, [x EXCEPT !.captures = IF AllConsumers(x) = {} THEN @ + 1 ELSE @,
                                !.awaiting_ui = @ \cup {consumer}]),
            o, ok)

\* Mutant: every consumer counts as a capture.
FullscreenStart_CountEach(s, o, consumer, ok) ==
  LET x == s.outputs[o]
  IN IF consumer \in AllConsumers(x) \/ s.exit_requested THEN s
     ELSE SyncUiAndDispatch(
            Put(s, o, [x EXCEPT !.captures = @ + 1, !.awaiting_ui = @ \cup {consumer}]),
            o, ok)

\* capture_fullscreen_start(): the first consumer counts as a capture, for the
\* whole time there is one.
FullscreenStart(s, o, consumer, ok) ==
  LET x == s.outputs[o]
  IN IF consumer \in AllConsumers(x) \/ s.exit_requested THEN s
     ELSE SyncUiAndDispatch(
            Put(s, o, [x EXCEPT !.captures = IF AllConsumers(x) = {} THEN @ + 1 ELSE @,
                                !.awaiting_ui = @ \cup {consumer}]),
            o, ok)

\* What capture_fullscreen_start() returns, having changed s to t.
FullscreenStarted(s, t, o, consumer) ==
  /\ consumer \notin AllConsumers(s.outputs[o])
  /\ consumer \in AllConsumers(t.outputs[o])

\* capture_fullscreen_end().
FullscreenEnd(s, o, consumer, ok) ==
  SyncUiAndDispatch(Put(s, o, EndConsumers(s.outputs[o], {consumer})), o, ok)

\* capture_image_start_fullscreen(): exit_after is set first, since the capture
\* may be dispatched at once, and put back if it is not taken.
ImageStartFullscreen(s, o, exit_after, ok) ==
  LET asked == [s EXCEPT !.outputs[o].exit_after = exit_after]
      Begun(t) == IF FullscreenStarted(asked, t, o, "IMAGE") THEN t
                  ELSE [t EXCEPT !.outputs[o].exit_after = s.outputs[o].exit_after]
  IN IF ProduceSlurp
       THEN IF StdoutIsFree(s) /\ exit_after THEN RequestExit(s) ELSE s
     ELSE Begun(FullscreenStart(asked, o, "IMAGE", ok))

\* capture_video_start_fullscreen(): pending until dispatched, and the size is
\* frozen meanwhile so that no selection can be begun.
VideoStartFullscreen(s, o, ok) ==
  LET pending == [s EXCEPT !.outputs[o].video_stage = "FULLSCREEN_START_PENDING"]
      Begun(t) == IF FullscreenStarted(pending, t, o, "VIDEO") THEN SelectionFreezeSize(t, o)
                  ELSE [t EXCEPT !.outputs[o].video_stage = "NONE"]
  IN IF VideoIsLive(s.outputs[o]) THEN s
     ELSE Begun(FullscreenStart(pending, o, "VIDEO", ok))

-----------------------------------------------------------------------------
(* The end of a capture                                                    *)

\* capture_image_finish().
ImageFinish(s, o, ok) ==
  LET Release(t) ==
        LET x == Check(t.outputs[o],
                       OutputToStdout => ReservedFor(t, o, "IMAGE"), "capture.c:620")
        IN Put(StdoutRelease(t, o, "IMAGE"), o, [x EXCEPT !.captures = @ - 1])
  IN Release(IF "IMAGE" \in s.outputs[o].active THEN FullscreenEnd(s, o, "IMAGE", ok) ELSE s)

\* capture_video_finish().
VideoFinish(s, o, ok) ==
  LET released == StdoutRelease(s, o, "VIDEO")
      thawed   == SelectionUnfreezeSize(
                    Put(released, o, RequestFrameCallback(s.outputs[o])), o)
      Done(t)  == Put(t, o, [t.outputs[o] EXCEPT !.captures = @ - 1, !.video_stage = "NONE"])
  IN Done(IF "VIDEO" \in s.outputs[o].active
            THEN FullscreenEnd(thawed, o, "VIDEO", ok) ELSE thawed)

\* selection_set_initialized().
SelectionSetInitialized(s, o) ==
  LET x    == s.outputs[o]
      y    == Check(x, \/ x.selection = "INITIALIZING"
                       \/ InitialSelection # {} /\ x.selection = "NONE", "selection.c:25")
      done == [Put(s, o, [y EXCEPT !.selection = "COMPLETE"]) EXCEPT !.active_button = "NONE"]
  IN IF ExitAfterSelection THEN RequestExit(ImageStart(done, o, TRUE)) ELSE done

-----------------------------------------------------------------------------
(* The end of a freezeframe capture                                        *)

\* init_selection_surface_content(): the surface gets its first content, after
\* the selection it starts with, if any, is made.
InitSelectionSurfaceContent(s, o) ==
  LET Draw(t) ==
        LET x == Check(t.outputs[o], \A b \in Buffers : t.outputs[o].surface.buffers[b].busy,
                       "selection-surface.c:1377")
        IN Put(t, o, [x EXCEPT !.surface = InitContent(@)])
  IN Draw(IF o \in InitialSelection THEN SelectionSetInitialized(s, o) ELSE s)

\* freezeframe_capture_finish(): with -z the surface waits for the first one.
FreezeframeFinish(s, o, ok) ==
  LET x     == s.outputs[o]
      y     == Check(x, x.freezeframe.stage = "CAPTURING", "freezeframe.c:122")
      idle  == Put(s, o, [y EXCEPT !.freezeframe.stage = "IDLE"])
      CallBack(t) ==
        IF x.freezeframe.startup
          THEN InitSelectionSurfaceContent([t EXCEPT !.outputs[o].freezeframe.startup = FALSE], o)
          ELSE t
  IN CallBack(IF "FREEZEFRAME" \in x.active THEN FullscreenEnd(idle, o, "FREEZEFRAME", ok)
              ELSE idle)

(***************************************************************************)
(* freezeframe_capture_handle_frame_ready(): a frame that needs a rotation *)
(* is rotated into surface_buffer, which has to be free; `rotated` is FALSE*)
(* for the others and where the rotation fails.                            *)
(***************************************************************************)
FreezeframeShow(s, o, needs_rotation, rotated, ok) ==
  LET x       == s.outputs[o]
      y       == Check(Check(x, x.freezeframe.stage = "CAPTURING", "freezeframe.c:155"),
                       ~x.freezeframe.capture_busy, "freezeframe.c:156")
      waiting == [y EXCEPT !.freezeframe.surface_waiting = TRUE]
      shown   == [y EXCEPT !.freezeframe.capture_busy = @ \/ ~rotated,
                           !.freezeframe.surface_busy = @ \/ rotated,
                           !.freezeframe.showing = TRUE]
  IN IF needs_rotation /\ x.freezeframe.surface_busy THEN Put(s, o, waiting)
     ELSE FreezeframeFinish(Put(s, o, shown), o, ok)
=============================================================================

--------------------------- MODULE OutputCapture ---------------------------
(***************************************************************************)
(* What scran keeps for one output, and the steps of the capture pipeline  *)
(* that stay within that output: requesting frames, showing and hiding the *)
(* capture UI around a fullscreen capture, the freezeframe, and the part   *)
(* of an exit request that concerns the output.                            *)
(*                                                                         *)
(* An operator takes an output x and returns it as the C function leaves   *)
(* it.  A failed assert() of the code is recorded in x.failed_asserts,     *)
(* under the line it stands at, and execution goes on.                     *)
(***************************************************************************)
EXTENDS SelectionSurface, Integers, FiniteSets

CONSTANTS
  HideUiItems,   \* options.hide_ui_level >= SCRAN_OPT_HIDE_UI_ITEMS
  CursorSession  \* session_ctx_with_cursor exists (neither -c nor -C)

ASSUME OutputOptions == HideUiItems \in BOOLEAN /\ CursorSession \in BOOLEAN

\* enum scran_capture_frame_consumer_mask: what a frame is captured for.
Consumers == {"IMAGE", "VIDEO", "FREEZEFRAME"}

FullscreenUiStates == {"NONE", "SHOW_PENDING", "SHOWN", "HIDE_PENDING", "HIDDEN"}
VideoStages == {"NONE", "FULLSCREEN_START_PENDING", "CAPTURING", "STOP_REQUESTED"}
SelectionStates == {"NONE", "INITIALIZING", "COMPLETE", "REBASING", "RESIZING"}
FreezeframeStages == {"IDLE", "REFRESHING", "CAPTURING"}

\* The assertions of the code that the model checks, by where they stand.  The
\* last is one of the model's own: see FreezeframeRefresh.
Assertions ==
  { "selection.h:67", "selection.c:25", "selection.c:100", "selection-surface.c:1377",
    "capture.h:293", "capture.c:388", "capture.c:515", "capture.c:596", "capture.c:620",
    "freezeframe.c:122", "freezeframe.c:155", "freezeframe.c:156", "pointer.c:75,135",
    "pointer.c:218", "pointer.c:274,305", "pointer.c:340", "image-copy-capture-frame.c:83",
    "transparent-selection-capture.c:15", "transparent-selection-capture.c:26",
    "dispatch of others" }

\* capture.frame_ctx, and the capture session its frames are created from.
FrameContext ==
  [ in_flight : BOOLEAN,                       \* frame != NULL
    consumers : SUBSET {"IMAGE", "VIDEO"},
    forced    : BOOLEAN,                       \* our damage is in no frame yet, so one will come
    session   : {"DEFAULT", "WITH_CURSOR"},    \* active_session_ctx
    switched  : BOOLEAN ]                      \* frames older than session_switch_time may arrive

\* output.freezeframe; the frame context is its own, with one possible consumer.
Freezeframe ==
  [ stage           : FreezeframeStages,
    in_flight       : BOOLEAN,
    showing         : BOOLEAN,
    capture_busy    : BOOLEAN,   \* frame_ctx.scran_wl_buffer.busy
    capture_waiting : BOOLEAN,   \* its release_callback restarts the capture
    surface_busy    : BOOLEAN,   \* surface_buffer.busy
    surface_waiting : BOOLEAN,   \* its release_callback shows the frame
    startup         : BOOLEAN ]  \* callback == init_selection_surface_content

Output ==
  [ surface         : Surface,
    frame           : FrameContext,
    freezeframe     : Freezeframe,
    active          : SUBSET Consumers,        \* fullscreen_consumers.active
    awaiting_ui     : SUBSET Consumers,        \* fullscreen_consumers.awaiting_ui
    ui              : FullscreenUiStates,      \* fullscreen_ui_state
    exit_after      : BOOLEAN,                 \* exit_after_capture
    video_stage     : VideoStages,
    captures        : Int,                     \* this output's share of n_captures_in_progress
    selection       : SelectionStates,         \* selection_ctx.selection_state
    size_is_frozen  : BOOLEAN,
    ui_inside       : BOOLEAN,                 \* ui_inside_selection
    failed_asserts  : SUBSET Assertions ]

Check(x, condition, where) ==
  IF condition THEN x ELSE [x EXCEPT !.failed_asserts = @ \cup {where}]

-----------------------------------------------------------------------------
(* Drawing and frames                                                      *)

\* selection_surface_draws_fullscreen_capture().
DrawsFullscreenCapture(x) == x.ui \in {"SHOW_PENDING", "SHOWN"}

Redraw(x) == [x EXCEPT !.surface = DrawAndCommit(@, DrawsFullscreenCapture(x))]
RequestFrameCallback(x) == [x EXCEPT !.surface = ArmFrameCallback(@)]

\* capture_video_is_live().
VideoIsLive(x) == x.video_stage \in {"CAPTURING", "STOP_REQUESTED"}

\* capture_request_frame(): joins the frame in flight, or creates one.
RequestFrame(x, consumers) ==
  [x EXCEPT !.frame.in_flight = TRUE, !.frame.consumers = @ \cup consumers]

\* capture_request_frame_forced(): the compositor may wait for damage before it
\* answers, so the selection surface is damaged.
RequestFrameForced(x, consumers) ==
  [RequestFrame(x, consumers) EXCEPT !.frame.forced = TRUE]

\* capture_destroy_frame(), on a frame that has to exist.
DestroyFrame(x, where) ==
  [Check(x, x.frame.in_flight, where) EXCEPT !.frame.in_flight = FALSE]

\* Mutant: the last frame is not forced.
VideoRequestStop_NotForced(x) ==
  IF x.video_stage = "STOP_REQUESTED" THEN x
  ELSE RequestFrame(
         DestroyFrame([x EXCEPT !.video_stage = "STOP_REQUESTED"], "capture.c:515"),
         {"VIDEO"})

\* Mutant: the frame is destroyed and no other requested.
VideoRequestStop_NoFrame(x) ==
  IF x.video_stage = "STOP_REQUESTED" THEN x
  ELSE DestroyFrame([x EXCEPT !.video_stage = "STOP_REQUESTED"], "capture.c:515")

\* capture_video_request_stop(): the frame is requested anew, so that a last one
\* is triggered by damage.
VideoRequestStop(x) ==
  IF x.video_stage = "STOP_REQUESTED" THEN x
  ELSE RequestFrameForced(
         DestroyFrame([x EXCEPT !.video_stage = "STOP_REQUESTED"], "capture.c:515"),
         {"VIDEO"})

\* capture_sync_cursor_capture(): switches the session, and the frame with it.
SyncCursorCapture(x, will_show_scran_cursor) ==
  LET session == IF will_show_scran_cursor THEN "DEFAULT" ELSE "WITH_CURSOR"
      switch(y) == [y EXCEPT !.frame.session = session, !.frame.switched = TRUE]
  IN IF (session = "WITH_CURSOR" /\ ~CursorSession) \/ x.frame.session = session
       THEN x
     ELSE IF x.frame.consumers = {}
       THEN switch(x)
     ELSE RequestFrameForced(switch(DestroyFrame(x, "capture.h:293")), x.frame.consumers)

-----------------------------------------------------------------------------
(* The capture UI around a fullscreen capture                              *)

AllConsumers(x) == x.active \cup x.awaiting_ui

\* capture_fullscreen_consumers_allow_ui().
ConsumersAllowUi(consumers) ==
  "IMAGE" \notin consumers /\ "FREEZEFRAME" \notin consumers /\ ~HideUiItems

UiShouldBeHidden(x) ==
  /\ AllConsumers(x) # {}
  /\ ~x.ui_inside \/ ~ConsumersAllowUi(AllConsumers(x))

\* capture_fullscreen_acquire_ui_hide().
AcquireUiHide(x) ==
  IF x.ui \in {"HIDDEN", "HIDE_PENDING"} THEN x
  ELSE [x EXCEPT !.ui = "HIDE_PENDING", !.surface = AcquireHide(@)]

\* capture_fullscreen_release_ui_hide(): the state is set first, for the redraw.
ReleaseUiHide(x) ==
  LET next == IF AllConsumers(x) # {} THEN "SHOW_PENDING" ELSE "NONE"
      y    == Check(x, ReleaseHideAssertion(x.surface), "selection.c:100")
  IN [y EXCEPT !.ui = next, !.surface = ReleaseHide(@, next = "SHOW_PENDING")]

(***************************************************************************)
(* capture_fullscreen_sync_ui_and_dispatch() in two parts: UiSettled holds *)
(* where the switch breaks out of and the awaiting consumers are           *)
(* dispatched; SyncUi is what it does where it returns instead.            *)
(***************************************************************************)
UiSettled(x) ==
  \/ x.ui = "SHOWN"  /\ AllConsumers(x) # {} /\ ~UiShouldBeHidden(x)
  \/ x.ui = "HIDDEN" /\ UiShouldBeHidden(x)

SyncUi(x) ==
  CASE x.ui \in {"NONE", "SHOWN"} /\ UiShouldBeHidden(x) -> AcquireUiHide(x)
    [] x.ui = "NONE" /\ AllConsumers(x) # {} /\ ~UiShouldBeHidden(x) ->
         Redraw([x EXCEPT !.ui = "SHOW_PENDING"])
    [] x.ui = "SHOWN" /\ AllConsumers(x) = {} -> Redraw([x EXCEPT !.ui = "NONE"])
    [] x.ui = "HIDDEN" /\ ~UiShouldBeHidden(x) -> ReleaseUiHide(x)
    [] OTHER -> x

\* Mutant: each consumer that ends gives back a capture.
EndConsumers_CountEach(x, finished) ==
  [x EXCEPT !.active = @ \ finished, !.captures = @ - 1]

\* capture_fullscreen_end() up to the sync: the last consumer to go gives back
\* the capture that stood for the whole fullscreen session.
EndConsumers(x, finished) ==
  LET y == [x EXCEPT !.active = @ \ finished]
  IN IF AllConsumers(y) = {} THEN [y EXCEPT !.captures = @ - 1] ELSE y

\* capture_fullscreen_end() where nothing awaits the UI, so that its sync has
\* nothing to dispatch: after a dispatch, and when exiting.
EndWithNoneAwaiting(x, finished) == SyncUi(EndConsumers(x, finished))

-----------------------------------------------------------------------------
(* The freezeframe                                                         *)

\* Mutant: a capture into a buffer that is still being read.
FreezeframeCaptureStart_BufferBusy(x) ==
  [x EXCEPT !.freezeframe.stage = "CAPTURING", !.freezeframe.in_flight = TRUE]

\* Mutant: the frame is requested on the capture's frame context.
FreezeframeCaptureStart_WrongFrame(x) ==
  RequestFrameForced([x EXCEPT !.freezeframe.stage = "CAPTURING"], {"FREEZEFRAME"})

\* freezeframe_capture_start_retain_callback(): waits for the buffer if need be.
FreezeframeCaptureStart(x) ==
  LET y == [x EXCEPT !.freezeframe.stage = "CAPTURING"]
  IN IF y.freezeframe.capture_busy
       THEN [y EXCEPT !.freezeframe.capture_waiting = TRUE]
       ELSE [y EXCEPT !.freezeframe.in_flight = TRUE]

\* freezeframe_hide_if_showing().
FreezeframeHide(x) ==
  IF x.freezeframe.showing
    THEN RequestFrameCallback([x EXCEPT !.freezeframe.showing = FALSE])
    ELSE x

(***************************************************************************)
(* freezeframe_capture_refresh() on an output whose freezeframe is idle.   *)
(* The freezeframe becomes one more fullscreen consumer, which waits for   *)
(* the UI to be hidden or is dispatched at once.  The dispatch is spelled  *)
(* out for a freezeframe alone; that nothing else can be awaiting then is  *)
(* checked like the assertions of the code.                                *)
(***************************************************************************)
FreezeframeRefresh(x, exit_requested) ==
  LET hidden  == FreezeframeHide(x)
      started == "FREEZEFRAME" \notin AllConsumers(x) /\ ~exit_requested
      waiting == [hidden EXCEPT
                    !.freezeframe.stage = "REFRESHING",
                    !.captures = IF AllConsumers(x) = {} THEN @ + 1 ELSE @,
                    !.awaiting_ui = @ \cup {"FREEZEFRAME"}]
  IN IF ~started THEN hidden
     ELSE IF ~UiSettled(waiting) THEN SyncUi(waiting)
     ELSE FreezeframeCaptureStart(
            [Check(waiting, x.awaiting_ui = {}, "dispatch of others") EXCEPT
               !.awaiting_ui = {}, !.active = @ \cup {"FREEZEFRAME"}])

-----------------------------------------------------------------------------
(* Exit                                                                    *)

\* The body of the loop of scran_request_exit(): what still waits for the UI is
\* given up, and a recording is asked to stop.
RequestExitOnOutput(x) ==
  LET fused    == [x EXCEPT !.surface = FuseOff(@)]
      ended    == IF x.awaiting_ui = {} THEN fused
                  ELSE EndWithNoneAwaiting([fused EXCEPT !.awaiting_ui = {}], x.awaiting_ui)
      Stop(y)  == IF y.video_stage = "CAPTURING" THEN VideoRequestStop(y) ELSE y
  IN Stop(ended)
=============================================================================

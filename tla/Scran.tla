------------------------------- MODULE Scran -------------------------------
(***************************************************************************)
(* scran as a whole: a single-threaded loop that handles the events of the *)
(* keyboard, the pointer and the compositor one at a time, and ends once   *)
(* exit was requested and no capture is in progress.  Each action is one   *)
(* event handler, with everything it calls; the operators it is made of    *)
(* are in Capture, OutputCapture and SelectionSurface.                     *)
(***************************************************************************)
EXTENDS Capture, Functions

CONSTANTS
  FreezeAtStartup,   \* options.freezeframe_at_startup
  UsePressesOnly,    \* pointer_ctx.use_presses_only
  Rotated,           \* the outputs whose frames have to be rotated for a freezeframe
  Inputs,            \* the user's inputs that occur
  Discards,          \* the presentation feedback the compositor may discard
  MaxFeedback        \* bound: feedback outstanding when a buffer is handed back

NoOutput == "none"

AllInputs == {"hide_ui", "freezeframe", "image", "video", "escape", "tab", "arrow",
              "buttons", "focus"}

ASSUME ScranOptions ==
  /\ {FreezeAtStartup, UsePressesOnly} \subseteq BOOLEAN
  /\ Discards \in {"NONE", "REPLACED", "ANY"}
  /\ Rotated \subseteq Outputs
  /\ NoOutput \notin Outputs
  /\ Inputs \subseteq AllInputs
  /\ MaxFeedback \in Nat \ {0}

VARIABLES
  g,        \* g_state: see State in Capture
  seat,     \* the pointer's focus and held buttons, and the escape that only warned
  running   \* run_main_loop() has not returned
vars == <<g, seat, running>>

Seat ==
  [ focus         : Outputs \cup {NoOutput},   \* pointer_ctx.focused_selection_surface
    held          : SUBSET PointerButtons,     \* the buttons that are physically down
    escape_warned : BOOLEAN ]                  \* last_press_was_untrusted_escape

TypeOK == g \in State /\ seat \in Seat /\ running \in BOOLEAN

-----------------------------------------------------------------------------
\* An output before init_postmem__selection() draws it; with -z its first
\* freezeframe has been requested.
InitialOutput ==
  [ surface        |-> SurfacePremem,
    frame          |-> [in_flight |-> FALSE, consumers |-> {}, forced |-> FALSE,
                        session |-> "DEFAULT", switched |-> FALSE],
    freezeframe    |-> [stage |-> IF FreezeAtStartup THEN "CAPTURING" ELSE "IDLE",
                        in_flight |-> FreezeAtStartup, showing |-> FALSE,
                        capture_busy |-> FALSE, capture_waiting |-> FALSE,
                        surface_busy |-> FALSE, surface_waiting |-> FALSE,
                        startup |-> TRUE],
    active         |-> {},
    awaiting_ui    |-> {},
    ui             |-> "NONE",
    exit_after     |-> FALSE,
    video_stage    |-> "NONE",
    captures       |-> 0,
    selection      |-> "NONE",
    size_is_frozen |-> FALSE,
    ui_inside      |-> FALSE,
    failed_asserts |-> {} ]

Init ==
  /\ g = [outputs |-> [o \in Outputs |-> InitialOutput], exit_requested |-> FALSE,
          stdout |-> Unreserved, active_button |-> "NONE"]
  /\ seat = [focus |-> NoOutput, held |-> {}, escape_warned |-> FALSE]
  /\ running = TRUE

out(o) == g.outputs[o]
Mapped(o) == ~out(o).freezeframe.startup

\* Without -z every output is drawn before the loop begins.
Looping == running /\ (FreezeAtStartup \/ \A o \in Outputs : Mapped(o))

\* init_postmem__selection() without -z.
InitSelection(o) ==
  /\ ~FreezeAtStartup
  /\ ~Mapped(o)
  /\ g' = InitSelectionSurfaceContent([g EXCEPT !.outputs[o].freezeframe.startup = FALSE], o)
  /\ UNCHANGED <<seat, running>>

-----------------------------------------------------------------------------
(* The keyboard: handle_keyboard_key()                                     *)

\* seat.active_selection_surface: the pointer's surface, if it is trusted, or the
\* keyboard's if the pointer is on none.
ActiveSurfaces ==
  (IF seat.focus = NoOutput THEN {o \in Outputs : Mapped(o)} ELSE {seat.focus}) \cup {NoOutput}

\* A key pressed on the active output o changes g to `next`.
KeyPressed(key, o, next) ==
  /\ Looping
  /\ key \in Inputs
  /\ o \in ActiveSurfaces \ {NoOutput}
  /\ g' = next
  /\ seat' = [seat EXCEPT !.escape_warned = FALSE]
  /\ UNCHANGED running

\* S moves the UI in or out of the selection.
KeyHideUi(o, ok) ==
  KeyPressed("hide_ui", o,
    SyncUiAndDispatch([g EXCEPT !.outputs[o].ui_inside = ~@], o, ok))

\* An arrow key shifts the selection, if there is one and it stays inside.
KeyArrow(o) ==
  /\ out(o).selection # "NONE"
  /\ KeyPressed("arrow", o, Put(g, o, RequestFrameCallback(out(o))))

\* Z toggles the freezeframes of all outputs, unless one is in progress.
KeyFreezeframe(o) ==
  LET outputs == IF \E p \in Outputs : out(p).freezeframe.stage # "IDLE" THEN g.outputs
                 ELSE IF \E p \in Outputs : out(p).freezeframe.showing
                   THEN [p \in Outputs |-> FreezeframeHide(out(p))]
                   ELSE [p \in Outputs |-> FreezeframeRefresh(out(p), g.exit_requested)]
  IN KeyPressed("freezeframe", o, [g EXCEPT !.outputs = outputs])

\* Return captures an image, and with it exits unless shift is down or a video is on.
KeyImage(o, shift, ok) ==
  LET recording  == out(o).video_stage \in {"CAPTURING", "FULLSCREEN_START_PENDING"}
      exit_after == ~recording /\ ~shift
  IN KeyPressed("image", o,
       IF out(o).selection = "NONE" THEN ImageStartFullscreen(g, o, exit_after, ok)
       ELSE ImageStart(g, o, exit_after))

\* Space starts a video or stops it; a selection being made is completed first.
KeyVideo(o, ok) ==
  LET x        == out(o)
      selected == IF x.selection = "INITIALIZING" THEN SelectionSetInitialized(g, o) ELSE g
  IN KeyPressed("video", o,
       CASE x.video_stage = "NONE" /\ x.selection = "NONE" -> VideoStartFullscreen(g, o, ok)
         [] x.video_stage = "NONE" /\ x.selection # "NONE" -> VideoStart(selected, o, ok)
         [] x.video_stage = "CAPTURING" -> Put(g, o, VideoRequestStop(x))
         [] OTHER -> g)

\* Escape stops the video of the active output, or exits.  With no active output,
\* the first one during a recording only warns.
KeyEscape(o) ==
  LET recording == \E p \in Outputs : out(p).video_stage = "CAPTURING"
      warns     == o = NoOutput /\ recording /\ ~seat.escape_warned
      stops     == o # NoOutput /\ out(o).video_stage = "CAPTURING"
  IN /\ Looping
     /\ "escape" \in Inputs
     /\ o \in ActiveSurfaces
     /\ g' = IF warns THEN g
             ELSE IF stops THEN Put(g, o, VideoRequestStop(out(o)))
             ELSE RequestExit(g)
     /\ seat' = [seat EXCEPT !.escape_warned = warns]
     /\ UNCHANGED running

\* Tab releases the focus: scran_focus_release().
KeyTab ==
  /\ Looping
  /\ "tab" \in Inputs
  /\ g' = [g EXCEPT !.outputs = [o \in Outputs |-> FreezeframeHide(out(o))]]
  /\ seat' = [seat EXCEPT !.escape_warned = FALSE]
  /\ UNCHANGED running

-----------------------------------------------------------------------------
(* The pointer                                                             *)

\* handle_pointer_enter() and handle_pointer_leave().  A button held while the
\* pointer is taken away is never seen to be released.
PointerFocus(o) ==
  /\ Looping
  /\ "focus" \in Inputs
  /\ o # seat.focus
  /\ o # NoOutput => Mapped(o)
  /\ seat' = [seat EXCEPT !.focus = o, !.held = {}]
  /\ UNCHANGED <<g, running>>

\* handle_pointer_motion() on a selection that follows the pointer.
PointerMotion ==
  LET o == seat.focus
      x == Check(out(o), out(o).selection # "REBASING" => ~out(o).size_is_frozen,
                 "pointer.c:75,135")
  IN /\ Looping
     /\ "buttons" \in Inputs
     /\ o # NoOutput
     /\ out(o).selection \in {"INITIALIZING", "REBASING", "RESIZING"}
     /\ g' = Put(g, o, RequestFrameCallback(x))
     /\ UNCHANGED <<seat, running>>

\* Mutant: a selection is begun although its size is frozen.
ButtonLeft_WhenFrozen(s, o) ==
  LET x    == s.outputs[o]
      y    == Check(x, ~x.size_is_frozen, "pointer.c:274,305")
      become(state) == Put(s, o, [x EXCEPT !.selection = state])
  IN CASE x.selection = "NONE" ->
            Put(s, o, RequestFrameCallback([x EXCEPT !.selection = "INITIALIZING"]))
       [] x.selection = "INITIALIZING" -> SelectionSetInitialized(Put(s, o, y), o)
       [] x.selection = "COMPLETE" -> become("REBASING")
       [] x.selection = "REBASING" -> become("COMPLETE")
       [] x.selection = "RESIZING" -> Put(s, o, y)

\* handle_pointer_button() of BTN_LEFT, once accepted.
ButtonLeft(s, o) ==
  LET x    == s.outputs[o]
      y    == Check(x, ~x.size_is_frozen, "pointer.c:274,305")
      become(state) == Put(s, o, [x EXCEPT !.selection = state])
  IN CASE x.selection = "NONE" /\ x.size_is_frozen -> s
       [] x.selection = "NONE" /\ ~x.size_is_frozen ->
            Put(s, o, RequestFrameCallback([x EXCEPT !.selection = "INITIALIZING"]))
       [] x.selection = "INITIALIZING" -> SelectionSetInitialized(Put(s, o, y), o)
       [] x.selection = "COMPLETE" -> become("REBASING")
       [] x.selection = "REBASING" -> become("COMPLETE")
       [] x.selection = "RESIZING" -> Put(s, o, y)

\* handle_pointer_button() of BTN_RIGHT, once accepted: where it means nothing the
\* button is forgotten.
ButtonRight(s, o) ==
  LET x == s.outputs[o]
      y == Check(x, ~x.size_is_frozen, "pointer.c:340")
  IN CASE x.selection = "COMPLETE" /\ ~x.size_is_frozen ->
            Put(s, o, [x EXCEPT !.selection = "RESIZING"])
       [] x.selection = "RESIZING" -> Put(s, o, [y EXCEPT !.selection = "COMPLETE"])
       [] OTHER -> [s EXCEPT !.active_button = "NONE"]

\* handle_pointer_button(): one button at a time, which its release has to match;
\* with -p releases are ignored.
ButtonAccepted(button, pressed) ==
  IF UsePressesOnly THEN pressed
  ELSE g.active_button = IF pressed THEN "NONE" ELSE button

PointerButton(button, pressed) ==
  LET o       == seat.focus
      checked == Put(g, o, Check(out(o), UsePressesOnly => g.active_button = "NONE",
                                 "pointer.c:218"))
      taken   == [checked EXCEPT !.active_button = IF @ = "NONE" THEN button ELSE "NONE"]
  IN /\ Looping
     /\ "buttons" \in Inputs
     /\ o # NoOutput
     /\ pressed <=> button \notin seat.held
     /\ seat' = [seat EXCEPT !.held = IF pressed THEN @ \cup {button} ELSE @ \ {button}]
     /\ g' = IF ~ButtonAccepted(button, pressed) THEN checked
             ELSE IF button = "LEFT" THEN ButtonLeft(taken, o)
             ELSE ButtonRight(taken, o)
     /\ UNCHANGED running

-----------------------------------------------------------------------------
(* The compositor                                                          *)

\* An event of the compositor on output o changes g to `next`.
Event(next) == Looping /\ g' = next /\ UNCHANGED <<seat, running>>

\* selection_surface_frame_callback_handler().
FrameCallback(o) ==
  /\ out(o).surface.awaiting_frame
  /\ Event(Put(g, o, [out(o) EXCEPT
             !.surface = FrameCallbackDone(@, DrawsFullscreenCapture(out(o)))]))

\* handle_scran_wl_buffer_release() of a buffer of the selection surface.
SurfaceBufferRelease(o, b) ==
  /\ Mapped(o)
  /\ out(o).surface.buffers[b].busy
  /\ Len(out(o).surface.feedback) < MaxFeedback
  /\ Event(Put(g, o, [out(o) EXCEPT !.surface = BufferReleased(@, b)]))

Oldest(o) == Head(out(o).surface.feedback)
Answered(o) == Put(g, o, [out(o) EXCEPT !.surface = FeedbackDone(@)])

\* handle_presentation_feedback_presented__selection(): a buffer that is said to
\* hold the capture UI ends the wait for it.
SelectionPresented(o, ok) ==
  LET shows == /\ out(o).ui = "SHOW_PENDING"
               /\ out(o).surface.buffers[Oldest(o).buffer].drew_ui
  IN /\ out(o).surface.feedback # << >>
     /\ Oldest(o) # HideFeedback
     /\ Event(IF shows
                THEN SyncUiAndDispatch([Answered(o) EXCEPT !.outputs[o].ui = "SHOWN"], o, ok)
                ELSE Answered(o))

\* handle_presentation_feedback_discarded__selection(): nothing more is done.  A
\* commit is discarded if a later one replaces it, or if it cannot be shown at all.
SelectionDiscarded(o) ==
  /\ out(o).surface.feedback # << >>
  /\ \/ Discards = "ANY"
     \/ Discards = "REPLACED" /\ Len(out(o).surface.feedback) > 1
  /\ Oldest(o) # HideFeedback
  /\ Event(Answered(o))

\* Mutant: what waited for the hide is not dispatched.
HidePresented_NoSync(o, ok) ==
  LET hidden == [out(o) EXCEPT !.surface = FeedbackDone(@),
                               !.ui = IF @ = "HIDE_PENDING" THEN "HIDDEN" ELSE @]
  IN /\ out(o).surface.feedback # << >>
     /\ Oldest(o) = HideFeedback
     /\ Event(Put(g, o, hidden))

\* The feedback of a hide: presented and discarded are taken for the same.
HidePresented(o, ok) ==
  LET x == Check(Check(out(o), "FULLSCREEN_HIDE" \in out(o).surface.disabled,
                       "transparent-selection-capture.c:15"),
                 out(o).ui = "HIDE_PENDING", "transparent-selection-capture.c:26")
      hidden == [x EXCEPT !.surface = FeedbackDone(@),
                          !.ui = IF @ = "HIDE_PENDING" THEN "HIDDEN" ELSE @]
  IN /\ out(o).surface.feedback # << >>
     /\ Oldest(o) = HideFeedback
     /\ Event(SyncUiAndDispatch(Put(g, o, hidden), o, ok))

(***************************************************************************)
(* handle_image_copy_capture_frame_ready() of the capture's frame.  A      *)
(* frame is stale if it was presented before the session was switched; the *)
(* video then asks for another.  Writing a frame of the video may fail.    *)
(***************************************************************************)
FrameReady(o, stale, written, ok) ==
  LET x         == out(o)
      consumers == x.frame.consumers
      taken     == Put(g, o,
        [Check(x, consumers # {}, "image-copy-capture-frame.c:83") EXCEPT
           !.frame.in_flight = FALSE,
           !.frame.consumers = {},
           !.frame.forced = @ /\ stale,
           !.frame.switched = @ /\ stale])
      imaged    == IF "IMAGE" \in consumers THEN ImageFinish(taken, o, ok) ELSE taken
      Wrote(s)  == IF written THEN s
                   ELSE [s EXCEPT !.outputs[o].video_stage = "STOP_REQUESTED"]
      Again(s)  == Put(s, o, RequestFrame(s.outputs[o], {"VIDEO"}))
      Ends(s)   == s.outputs[o].video_stage = "STOP_REQUESTED" \/ s.exit_requested
      Film(s)   == IF "VIDEO" \notin consumers THEN s
                   ELSE IF stale THEN Again(s)
                   ELSE IF Ends(Wrote(s)) THEN VideoFinish(Wrote(s), o, ok)
                   ELSE Again(Wrote(s))
  IN /\ x.frame.in_flight
     /\ stale => x.frame.switched
     /\ ~written => "VIDEO" \in consumers /\ ~stale
     /\ Event(Film(imaged))

\* handle_image_copy_capture_frame_failed() of the capture's frame.
FrameFailed(o, ok) ==
  LET consumers == out(o).frame.consumers
      taken  == Put(g, o, [out(o) EXCEPT !.frame.in_flight = FALSE, !.frame.forced = FALSE])
      imaged == IF "IMAGE" \in consumers THEN ImageFinish(taken, o, ok) ELSE taken
      Film(s) == IF "VIDEO" \in s.outputs[o].frame.consumers THEN VideoFinish(s, o, ok) ELSE s
  IN /\ out(o).frame.in_flight
     /\ Event([Film(imaged) EXCEPT !.outputs[o].frame.consumers = {}])

\* The rest of the ways a recording is asked to stop: the audio stream failed, in
\* on_process() or scran_pipewire_update().
AudioFailed(o) ==
  /\ VideoIsLive(out(o))
  /\ Event(Put(g, o, VideoRequestStop(out(o))))

\* handle_image_copy_capture_frame_ready() of the freezeframe's frame.
FreezeframeReady(o, rotated, ok) ==
  /\ out(o).freezeframe.in_flight
  /\ rotated => o \in Rotated
  /\ Event(FreezeframeShow([g EXCEPT !.outputs[o].freezeframe.in_flight = FALSE],
                           o, o \in Rotated, rotated, ok))

\* handle_image_copy_capture_frame_failed() of the freezeframe's frame.
FreezeframeFailed(o, ok) ==
  /\ out(o).freezeframe.in_flight
  /\ Event(FreezeframeFinish([g EXCEPT !.outputs[o].freezeframe.in_flight = FALSE], o, ok))

\* Mutant: a capture that waited for the buffer is forgotten.
CaptureBufferRelease_NoCallback(o) ==
  /\ out(o).freezeframe.capture_busy
  /\ Event(Put(g, o, [out(o) EXCEPT !.freezeframe.capture_busy = FALSE,
                                    !.freezeframe.capture_waiting = FALSE]))

\* handle_scran_wl_buffer_release() of the freezeframe's capture buffer: a capture
\* that waited for it starts.
CaptureBufferRelease(o) ==
  LET freed == [out(o) EXCEPT !.freezeframe.capture_busy = FALSE,
                              !.freezeframe.capture_waiting = FALSE]
  IN /\ out(o).freezeframe.capture_busy
     /\ Event(Put(g, o, IF out(o).freezeframe.capture_waiting
                          THEN FreezeframeCaptureStart(freed) ELSE freed))

\* The same of the buffer that holds the rotated frame: a frame that waited for it
\* is shown.
RotatedBufferRelease(o, rotated, ok) ==
  LET freed == Put(g, o, [out(o) EXCEPT !.freezeframe.surface_busy = FALSE,
                                        !.freezeframe.surface_waiting = FALSE])
  IN /\ out(o).freezeframe.surface_busy
     /\ rotated => o \in Rotated
     /\ Event(IF out(o).freezeframe.surface_waiting
                THEN FreezeframeShow(freed, o, TRUE, rotated, ok) ELSE freed)

-----------------------------------------------------------------------------
(* The main loop                                                           *)

CapturesInProgress == FoldFunction(+, 0, [o \in Outputs |-> out(o).captures])

(***************************************************************************)
(* The end of an iteration of run_main_loop(), after the events that were  *)
(* pending: sync_outputs() switches the capture sessions to the pointer's  *)
(* focus, update_ui() asks to redraw the outputs whose UI is out of date   *)
(* (a signal that gives back the focus, all of them), and the loop goes on *)
(* unless scran may exit.                                                  *)
(***************************************************************************)
LoopIteration(outdated) ==
  LET synced == [o \in Outputs |-> SyncCursorCapture(out(o), seat.focus # NoOutput)]
  IN /\ Looping
     /\ HideUiItems => outdated \in {{}, Outputs}
     /\ g' = [g EXCEPT !.outputs = [o \in Outputs |->
                IF o \in outdated THEN RequestFrameCallback(synced[o]) ELSE synced[o]]]
     /\ running' = (~g.exit_requested \/ CapturesInProgress > 0)
     /\ UNCHANGED seat

Exited == ~running /\ UNCHANGED vars

-----------------------------------------------------------------------------
UserStep ==
  \/ \E o \in Outputs, ok \in BOOLEAN : KeyHideUi(o, ok) \/ KeyVideo(o, ok)
  \/ \E o \in Outputs, shift, ok \in BOOLEAN : KeyImage(o, shift, ok)
  \/ \E o \in Outputs : KeyArrow(o) \/ KeyFreezeframe(o)
  \/ \E o \in Outputs \cup {NoOutput} : KeyEscape(o) \/ PointerFocus(o)
  \/ KeyTab
  \/ PointerMotion
  \/ \E button \in PointerButtons, pressed \in BOOLEAN : PointerButton(button, pressed)

CompositorStep ==
  \/ \E o \in Outputs : FrameCallback(o) \/ SelectionDiscarded(o) \/ CaptureBufferRelease(o)
  \/ \E o \in Outputs, b \in Buffers : SurfaceBufferRelease(o, b)
  \/ \E o \in Outputs, ok \in BOOLEAN :
       \/ SelectionPresented(o, ok)
       \/ HidePresented(o, ok)
       \/ FrameFailed(o, ok)
       \/ FreezeframeFailed(o, ok)
  \/ \E o \in Outputs, stale, written, ok \in BOOLEAN : FrameReady(o, stale, written, ok)
  \/ \E o \in Outputs, rotated, ok \in BOOLEAN :
       FreezeframeReady(o, rotated, ok) \/ RotatedBufferRelease(o, rotated, ok)

Next ==
  \/ UserStep
  \/ CompositorStep
  \/ \E o \in Outputs : InitSelection(o) \/ AudioFailed(o)
  \/ \E outdated \in SUBSET Outputs : LoopIteration(outdated)
  \/ Exited

Spec == Init /\ [][Next]_vars
=============================================================================

------------------------- MODULE SelectionSurface -------------------------
(***************************************************************************)
(* The selection surface of one output: its two buffers, its frame         *)
(* callback, the reasons it is disabled for, and the presentation feedback *)
(* it has asked the compositor for (src/selection-surface.c, selection.c). *)
(*                                                                         *)
(* The module has no variables: an operator takes the surface as it is     *)
(* and returns it as the function of that name leaves it.  Drawing is      *)
(* abstracted to the one thing others read back: whether the capture UI    *)
(* was drawn (drew_fullscreen_ui).                                         *)
(***************************************************************************)
EXTENDS Naturals, Sequences

\* The two buffers of double_buffer[].
Buffers == 1..2

\* disable_reason_mask.
DisableReasons == {"FULLSCREEN_HIDE", "UI_STAGE_FINISHED"}

(***************************************************************************)
(* What a wl_surface::commit was asked feedback for: a drawn buffer, or    *)
(* the transparent pixel of a hide (buffer 0).  `ui` is what the commit    *)
(* itself carried; the program keeps only the buffer, whose flag a later   *)
(* draw overwrites.                                                        *)
(***************************************************************************)
Feedback == [buffer : {0} \cup Buffers, ui : BOOLEAN]
HideFeedback == [buffer |-> 0, ui |-> FALSE]

Surface ==
  [ disabled       : SUBSET DisableReasons,                          \* disable_reason_mask
    buffers        : [Buffers -> [busy : BOOLEAN, drew_ui : BOOLEAN]],
    awaiting_frame : BOOLEAN,                                        \* awaiting_frame_callback
    single_pixel   : BOOLEAN,                                        \* single_pixel_buffer_committed
    feedback       : Seq(Feedback) ]                                 \* in the order of the commits

\* Both buffers busy, nothing committed: init_premem__selection().
SurfacePremem ==
  [ disabled       |-> {},
    buffers        |-> [b \in Buffers |-> [busy |-> TRUE, drew_ui |-> FALSE]],
    awaiting_frame |-> FALSE,
    single_pixel   |-> FALSE,
    feedback       |-> << >> ]

\* arm_selection_surface_frame_callback(): at most one callback is outstanding,
\* and none is asked for while the surface is disabled.
ArmFrameCallback(surface) ==
  IF surface.awaiting_frame \/ surface.disabled # {}
    THEN surface
    ELSE [surface EXCEPT !.awaiting_frame = TRUE]

\* get_free_double_buffer(): the first buffer unless it is busy.
FreeBuffer(surface) == IF surface.buffers[1].busy THEN 2 ELSE 1

BothBusy(surface) == \A b \in Buffers : surface.buffers[b].busy

\* Mutant: a hide does not keep the surface from being drawn.
DrawAndCommit_WhileDisabled(surface, ui) ==
  IF BothBusy(surface) THEN ArmFrameCallback(surface)
  ELSE [surface EXCEPT
          !.buffers[FreeBuffer(surface)] = [busy |-> TRUE, drew_ui |-> ui],
          !.single_pixel = FALSE,
          !.feedback = Append(@, [buffer |-> FreeBuffer(surface), ui |-> ui])]

\* Mutant: a draw that finds both buffers busy is not made up for.
DrawAndCommit_Lost(surface, ui) ==
  IF surface.disabled # {} \/ BothBusy(surface) THEN surface
  ELSE [surface EXCEPT
          !.buffers[FreeBuffer(surface)] = [busy |-> TRUE, drew_ui |-> ui],
          !.single_pixel = FALSE,
          !.feedback = Append(@, [buffer |-> FreeBuffer(surface), ui |-> ui])]

\* draw_selection_and_commit(): `ui` says whether the capture UI is drawn.
DrawAndCommit(surface, ui) ==
  IF surface.disabled # {} THEN surface
  ELSE IF BothBusy(surface) THEN ArmFrameCallback(surface)
  ELSE [surface EXCEPT
          !.buffers[FreeBuffer(surface)] = [busy |-> TRUE, drew_ui |-> ui],
          !.single_pixel = FALSE,
          !.feedback = Append(@, [buffer |-> FreeBuffer(surface), ui |-> ui])]

\* Mutant: the pixel that was committed is not recorded.
AcquireHide_PixelForgotten(surface) ==
  [surface EXCEPT !.feedback = Append(@, HideFeedback),
                  !.disabled = @ \cup {"FULLSCREEN_HIDE"}]

\* selection_surface_acquire_hide_then() and the selection_surface_hide() it calls.
AcquireHide(surface) ==
  [surface EXCEPT !.feedback = Append(@, HideFeedback),
                  !.disabled = @ \cup {"FULLSCREEN_HIDE"},
                  !.single_pixel = TRUE]

\* Mutant: the reason is not taken out of the mask.
ReleaseHide_ReasonKept(surface, ui) == DrawAndCommit(surface, ui)

\* selection_surface_release_hide(): redraws unless another reason remains.
ReleaseHide(surface, ui) ==
  DrawAndCommit([surface EXCEPT !.disabled = @ \ {"FULLSCREEN_HIDE"}], ui)

\* The assertion of selection_surface_release_hide(): what is being released is
\* what is on the surface.
ReleaseHideAssertion(surface) ==
  surface.disabled \subseteq {"FULLSCREEN_HIDE"} => surface.single_pixel

\* scran_request_exit() fuses the surface off.
FuseOff(surface) == [surface EXCEPT !.disabled = @ \cup {"UI_STAGE_FINISHED"}]

\* selection_surface_frame_callback_handler().
FrameCallbackDone(surface, ui) ==
  DrawAndCommit([surface EXCEPT !.awaiting_frame = FALSE], ui)

\* handle_scran_wl_buffer_release(), on a buffer of the selection surface.
BufferReleased(surface, b) == [surface EXCEPT !.buffers[b].busy = FALSE]

\* A wp_presentation_feedback answered and destroyed: the oldest goes first.
FeedbackDone(surface) == [surface EXCEPT !.feedback = Tail(@)]

\* init_selection_surface_content(): draws both buffers and commits the first,
\* asking for a frame callback but for no feedback.
InitContent(surface) ==
  ArmFrameCallback([surface EXCEPT
    !.buffers = [b \in Buffers |-> [busy |-> b = 1, drew_ui |-> FALSE]]])

\* How many hides the compositor has not answered yet.
HidesPending(surface) == {i \in DOMAIN surface.feedback : surface.feedback[i] = HideFeedback}
=============================================================================

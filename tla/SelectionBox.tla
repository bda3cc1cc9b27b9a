---------------------------- MODULE SelectionBox ----------------------------
(***************************************************************************)
(* The box of a selection, in the three places that must agree: where the  *)
(* user drags it (selection_ctx.box_px), what the buffers of the selection *)
(* surface show of it, and what is captured (capture.selection_ctx_box_px, *)
(* the area).  The area follows the screen: it is taken from a buffer when *)
(* the compositor answers the commit of that buffer.  A recording freezes  *)
(* the size while answers, drags and keys go on.                           *)
(*                                                                         *)
(* One output.  When captures of the whole output hide or change its UI is *)
(* the subject of OutputCapture; here it may happen at any time.           *)
(***************************************************************************)
EXTENDS Integers, Sequences, Functions

CONSTANTS
  Axes,         \* "x" and "y", or one of them: nothing but the sizes looks at both
  Extent,       \* the output's width and height
  Positions,    \* where the compositor reports the pointer, also outside
  MaxCommits    \* bound: commits not yet answered

Buffers == {1, 2}

ASSUME SelectionBoxConstants ==
  /\ Extent \in [Axes -> Nat \ {0}]
  /\ Positions \subseteq [Axes -> Int]
  /\ MaxCommits \in Nat \ {0}

VARIABLES
  point,            \* pointer_ctx.coordinates
  button,           \* pointer_ctx.active_button
  selection_state,
  box,              \* box_px: a span of pixels on each axis
  frozen,           \* size_is_frozen
  gesture,          \* where a drag began, the box before it, and the ends that a resize moves
  area,             \* capture.selection_ctx_box_px
  video,            \* video_stage, and whether of the selection or of the output
  size,             \* the dimensions the writers of a recording were made for
  ui,               \* fullscreen_ui_state: the selection, the whole output, or nothing is drawn
  awaiting,         \* awaiting_frame_callback
  drawn,            \* drawn[b]: box_currently_drawn of buffer b
  shown,            \* committed_selection
  commits,          \* compositor: the buffers of the commits it has yet to answer
  restated          \* history: completing the selection changed its box, and nothing was drawn since

pointing == <<point, button, gesture>>
screen == <<awaiting, drawn, shown, commits, restated>>
vars == <<point, button, selection_state, box, frozen, gesture, area, video, size, ui, awaiting,
          drawn, shown, commits, restated>>

-----------------------------------------------------------------------------
(* Boxes                                                                   *)

Span(lo, hi) == [lo |-> lo, hi |-> hi]
SpanLength(s) == s.hi - s.lo
Dimensions(b) == [a \in Axes |-> SpanLength(b[a])]
IsEmpty(b) == \E a \in Axes : SpanLength(b[a]) = 0

NoBox == [a \in Axes |-> Span(0, 0)]
WholeOutput == [a \in Axes |-> Span(0, Extent[a])]

Clamp(n, limit) == IF n < 0 THEN 0 ELSE IF n > limit THEN limit ELSE n
Deinverted(s) == IF s.hi < s.lo THEN Span(s.hi, s.lo) ELSE s

Clamped(p) == [a \in Axes |-> Clamp(p[a], Extent[a])]
BoxBetween(p, q) == [a \in Axes |-> Deinverted(Span(p[a], q[a]))]

\* A span moved as far as the output's edge.
Rebased(s, shift, limit) ==
  LET moved == Span(s.lo + shift, s.hi + shift)
  IN  CASE moved.lo < 0 -> Span(0, moved.hi - moved.lo)
        [] moved.lo >= 0 /\ moved.hi > limit -> Span(moved.lo - (moved.hi - limit), limit)
        [] OTHER -> moved

\* A span with one end moved, which may pass the other.
Resized(s, end, shift, limit) ==
  Deinverted(IF end = "lo" THEN Span(Clamp(s.lo + shift, limit), s.hi)
             ELSE Span(s.lo, Clamp(s.hi + shift, limit)))

\* The ends nearest to the point: on each axis, that of the half it is in.
NearestEnds(b, p) ==
  [a \in Axes |-> IF p[a] < b[a].lo + SpanLength(b[a]) \div 2 THEN "lo" ELSE "hi"]

\* The box that a pointer at p drags.
DraggedBox(p) ==
  CASE selection_state = "INITIALIZING" -> BoxBetween(gesture.origin, p)
    [] selection_state = "REBASING" ->
         [a \in Axes |-> Rebased(gesture.before[a], p[a] - gesture.origin[a], Extent[a])]
    [] selection_state = "RESIZING" ->
         [a \in Axes |-> Resized(gesture.before[a], gesture.ends[a], p[a] - gesture.origin[a], Extent[a])]
    [] OTHER -> box

\* Only a drag looks at its gesture, and every drag begins one.
NoGesture == [origin |-> [a \in Axes |-> 0], before |-> NoBox, ends |-> [a \in Axes |-> "lo"]]

Init ==
  /\ point = [a \in Axes |-> 0]
  /\ button = "NONE"
  /\ selection_state = "NONE"
  /\ box = NoBox /\ area = NoBox /\ shown = NoBox
  /\ drawn = [b \in Buffers |-> NoBox]
  /\ frozen = FALSE
  /\ gesture = NoGesture
  /\ video = "NONE"
  /\ size = Dimensions(NoBox)
  /\ ui = "NONE"
  /\ awaiting = TRUE
  /\ commits = <<>>
  /\ restated = FALSE

-----------------------------------------------------------------------------
(* The screen                                                              *)

\* request_selection_surface_frame_callback(), which a hidden surface ignores.
RequestFrame ==
  /\ awaiting' = (awaiting \/ ui # "HIDDEN")
  /\ restated' = FALSE

\* Mutant: with both buffers busy the drawing is given up.
RetriesDrawing_Never(u) == FALSE

\* With both buffers drawing is tried again at the next frame callback; not if the surface is hidden.
RetriesDrawing(u) == u # "HIDDEN"

\* draw_selection_and_commit(), when fullscreen_ui_state is u and a frame callback is armed or not.  Which
\* buffers the compositor has handed back by now, before or after it answered their commits, is its choice.
DrawAndCommit(u, armed) ==
  \/ /\ awaiting' = (armed \/ RetriesDrawing(u))
     /\ UNCHANGED <<drawn, shown, commits, restated>>
  \/ /\ u # "HIDDEN"
     /\ Len(commits) < MaxCommits
     /\ awaiting' = armed
     /\ shown' = IF u = "WHOLE" THEN WholeOutput ELSE box
     /\ restated' = FALSE
     /\ \E b \in Buffers :
          /\ drawn' = [drawn EXCEPT ![b] = shown']
          /\ commits' = Append(commits, b)

FrameCallback ==
  /\ awaiting
  /\ DrawAndCommit(ui, FALSE)
  /\ UNCHANGED <<pointing, selection_state, box, frozen, area, video, size, ui>>

\* update_ui(), after every turn of the loop: the size that the status line shows is not that of the box.
UpdateUi ==
  /\ ui = "NONE"
  /\ Dimensions(box) # Dimensions(shown)
  /\ RequestFrame
  /\ UNCHANGED <<pointing, selection_state, box, frozen, area, video, size, ui, drawn, shown, commits>>

\* Mutant: a recording's area takes the size of whatever was drawn.
UpdatedArea_Always(b) == b

\* capture_update_selection()
UpdatedArea(b) == IF frozen /\ Dimensions(b) # Dimensions(area) THEN area ELSE b

\* What a buffer shows is looked at when its commit is answered, and not again.
ForgetDrawn ==
  drawn' = [b \in Buffers |-> IF b \in Range(commits') THEN drawn[b] ELSE NoBox]

\* The commit is on the screen: the area becomes what its buffer shows by now.
CommitIsShown ==
  /\ commits # <<>>
  /\ area' = UpdatedArea(drawn[Head(commits)])
  /\ commits' = Tail(commits)
  /\ ForgetDrawn
  /\ UNCHANGED <<pointing, selection_state, box, frozen, video, size, ui, awaiting, shown, restated>>

\* The commit is discarded, since another one follows.
CommitIsDiscarded ==
  /\ commits # <<>>
  /\ Len(commits) > 1 \/ awaiting \/ ui = "HIDDEN"
  /\ commits' = Tail(commits)
  /\ ForgetDrawn
  /\ UNCHANGED <<pointing, selection_state, box, frozen, area, video, size, ui, awaiting, shown, restated>>

\* Captures of the whole output, which begin before there is a selection, change what the surface is for.
ChangeUi(u) ==
  /\ u # ui
  /\ ui = "NONE" => selection_state = "NONE"
  /\ u = "NONE" => video \notin {"PENDING", "OUTPUT"}
  /\ ui' = u
  /\ DrawAndCommit(u, awaiting)
  /\ UNCHANGED <<pointing, selection_state, box, frozen, area, video, size>>

-----------------------------------------------------------------------------
(* The pointer                                                             *)

\* The pointer enters the surface, which moves no box.
PointerEnter(p) ==
  /\ point' = Clamped(p)
  /\ UNCHANGED <<button, gesture, selection_state, box, frozen, area, video, size, ui, screen>>

PointerMotion(p) ==
  /\ point' = Clamped(p)
  /\ box' = DraggedBox(Clamped(p))
  /\ IF selection_state \in {"INITIALIZING", "REBASING", "RESIZING"}
     THEN RequestFrame
     ELSE UNCHANGED <<awaiting, restated>>
  /\ UNCHANGED <<button, gesture, selection_state, frozen, area, video, size, ui, drawn, shown, commits>>

\* Events of a button: a press while none is active, or the release of the active one.
AcceptsButton(b) == button \in {"NONE", b}
ToggledButton(b) == IF button = "NONE" THEN b ELSE "NONE"

BeginSelection ==
  /\ selection_state = "NONE" /\ ~frozen
  /\ AcceptsButton("LEFT")
  /\ button' = ToggledButton("LEFT")
  /\ selection_state' = "INITIALIZING"
  /\ box' = BoxBetween(point, point)
  /\ gesture' = [NoGesture EXCEPT !.origin = point]
  /\ RequestFrame
  /\ UNCHANGED <<point, frozen, area, video, size, ui, drawn, shown, commits>>

\* selection_set_initialized(): the area does not wait for the screen, and nothing asks for a drawing.
CompleteSelection ==
  /\ selection_state = "INITIALIZING"
  /\ AcceptsButton("LEFT")
  /\ button' = "NONE"
  /\ selection_state' = "COMPLETE"
  /\ box' = BoxBetween(gesture.origin, point)
  /\ area' = UpdatedArea(box')
  /\ restated' = (restated \/ box' # box)
  /\ gesture' = NoGesture
  /\ UNCHANGED <<point, frozen, video, size, ui, awaiting, drawn, shown, commits>>

BeginRebase ==
  /\ selection_state = "COMPLETE"
  /\ AcceptsButton("LEFT")
  /\ button' = ToggledButton("LEFT")
  /\ selection_state' = "REBASING"
  /\ gesture' = [NoGesture EXCEPT !.origin = point, !.before = box]
  /\ UNCHANGED <<point, box, frozen, area, video, size, ui, screen>>

BeginResize ==
  /\ selection_state = "COMPLETE" /\ ~frozen
  /\ AcceptsButton("RIGHT")
  /\ button' = ToggledButton("RIGHT")
  /\ selection_state' = "RESIZING"
  /\ gesture' = [origin |-> point, before |-> box, ends |-> NearestEnds(box, point)]
  /\ UNCHANGED <<point, box, frozen, area, video, size, ui, screen>>

\* The button of a drag ends it.
EndDrag(b) ==
  /\ AcceptsButton(b)
  /\ selection_state = IF b = "LEFT" THEN "REBASING" ELSE "RESIZING"
  /\ button' = ToggledButton(b)
  /\ selection_state' = "COMPLETE"
  /\ gesture' = NoGesture
  /\ UNCHANGED <<point, box, frozen, area, video, size, ui, screen>>

\* A button that does nothing: the left one counts as active even so.
IdleButton(b) ==
  /\ AcceptsButton(b)
  /\ IF b = "LEFT"
     THEN \/ selection_state = "NONE" /\ frozen
          \/ selection_state = "RESIZING"
     ELSE \/ selection_state \in {"NONE", "INITIALIZING", "REBASING"}
          \/ selection_state = "COMPLETE" /\ frozen
  /\ button' = IF b = "LEFT" THEN ToggledButton(b) ELSE "NONE"
  /\ UNCHANGED <<point, gesture, selection_state, box, frozen, area, video, size, ui, screen>>

-----------------------------------------------------------------------------
(* Keys                                                                    *)

\* An arrow key, in any state of the selection: a drag under way does not see it.
ShiftSelection(axis, n) ==
  LET shifted == [box EXCEPT ![axis] = Span(@.lo + n, @.hi + n)]
  IN  /\ selection_state # "NONE"
      /\ shifted[axis].lo >= 0 /\ shifted[axis].hi <= Extent[axis]
      /\ box' = shifted
      /\ RequestFrame
      /\ UNCHANGED <<pointing, selection_state, frozen, area, video, size, ui, drawn, shown, commits>>

\* Space with a selection, which completes it and ends a resize: capture_video_start().  The area is made to
\* have the size of the box, if the answers are late.  It must not be empty; the program ends if it is.
StartVideoOfSelection ==
  LET settles == selection_state \in {"INITIALIZING", "RESIZING"}
      updated == IF selection_state = "INITIALIZING" THEN UpdatedArea(box) ELSE area
      captured == IF Dimensions(box) # Dimensions(updated) THEN UpdatedArea(box) ELSE updated
  IN  /\ video = "NONE" /\ selection_state # "NONE"
      /\ area' = captured
      /\ selection_state' = IF settles THEN "COMPLETE" ELSE selection_state
      /\ button' = IF settles THEN "NONE" ELSE button
      /\ gesture' = IF settles THEN NoGesture ELSE gesture
      /\ \/ /\ IsEmpty(captured)
            /\ video' = "ABORTED"
            /\ UNCHANGED <<frozen, size, awaiting, restated>>
         \/ /\ ~IsEmpty(captured)
            /\ video' = "SELECTION" /\ frozen' = TRUE
            /\ size' = Dimensions(captured)
            /\ RequestFrame
         \/ /\ ~IsEmpty(captured)                            \* the writers fail
            /\ frozen' = FALSE
            /\ UNCHANGED <<video, size, awaiting, restated>>
      /\ UNCHANGED <<point, box, ui, drawn, shown, commits>>

\* Space without a selection: the recording waits for the UI, and until then the size is frozen.
StartVideoOfOutput ==
  /\ video = "NONE" /\ selection_state = "NONE"
  /\ video' = "PENDING" /\ frozen' = TRUE
  /\ \E u \in IF ui = "NONE" THEN {"WHOLE", "HIDDEN"} ELSE {ui} :
       /\ ui' = u
       /\ IF u = ui THEN UNCHANGED screen ELSE DrawAndCommit(u, awaiting)
  /\ UNCHANGED <<pointing, selection_state, box, area, size>>

\* The UI is as it has to be: the recording starts, or fails, or is called off.
DispatchVideo ==
  /\ video = "PENDING"
  /\ \/ /\ video' = "OUTPUT" /\ frozen' = TRUE
        /\ size' = Extent
        /\ RequestFrame
     \/ /\ video' = "NONE" /\ frozen' = FALSE
        /\ UNCHANGED <<size, awaiting, restated>>
  /\ UNCHANGED <<pointing, selection_state, box, area, ui, drawn, shown, commits>>

\* capture_video_finish()
FinishVideo ==
  /\ video \in {"SELECTION", "OUTPUT"}
  /\ video' = "NONE" /\ frozen' = FALSE
  /\ size' = Dimensions(NoBox)
  /\ RequestFrame
  /\ UNCHANGED <<pointing, selection_state, box, area, ui, drawn, shown, commits>>

-----------------------------------------------------------------------------

Aborted == video = "ABORTED" /\ UNCHANGED vars

Running ==
  \/ FrameCallback \/ UpdateUi \/ CommitIsShown \/ CommitIsDiscarded
  \/ \E u \in {"NONE", "WHOLE", "HIDDEN"} : ChangeUi(u)
  \/ \E p \in Positions : PointerEnter(p) \/ PointerMotion(p)
  \/ BeginSelection \/ CompleteSelection \/ BeginRebase \/ BeginResize
  \/ \E b \in {"LEFT", "RIGHT"} : EndDrag(b) \/ IdleButton(b)
  \/ \E a \in Axes, n \in {-1, 1} : ShiftSelection(a, n)
  \/ StartVideoOfSelection \/ StartVideoOfOutput \/ DispatchVideo \/ FinishVideo

Next == (video # "ABORTED" /\ Running) \/ Aborted

Spec == Init /\ [][Next]_vars

-----------------------------------------------------------------------------
(* Properties                                                              *)

\* The assertion of capture_video_start(): what is recorded has a width and a height.
RecordingIsNotEmpty == video # "ABORTED"

\* While a selection is recorded, the area and the box keep the size its writers were made for, whatever
\* answers, drags and keys come; and neither ever leaves the output.
RecordedSizeIsKept ==
  /\ video = "SELECTION" => Dimensions(area) = size /\ Dimensions(box) = size
  /\ \A b \in {box, area}, a \in Axes : 0 <= b[a].lo /\ b[a].lo <= b[a].hi /\ b[a].hi <= Extent[a]

\* Nothing is under way that would bring the screen or the area up to date.
Settled ==
  /\ ui = "NONE" /\ ~awaiting /\ commits = <<>>
  /\ Dimensions(box) = Dimensions(shown)

\* Once everything is answered, what is captured, what the screen shows and what the user dragged are the
\* same: no answer that came late, was lost or was refused leaves its mark.  The exception is a selection
\* whose box is not the last one dragged when its button comes up: an arrow key had moved it, or the pointer
\* had come back to the surface elsewhere.
AreaIsWhatIsShown ==
  Settled /\ ~restated => area = box /\ shown = box
=============================================================================

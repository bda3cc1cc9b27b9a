--------------------------- MODULE MCParts_proofs ---------------------------
(***************************************************************************)
(* The theorems of the parts.  Those of the box of a selection, which      *)
(* MCParts extends, are proved here.  Of the other parts MCParts has the   *)
(* proofs as instances, and what is left to prove is that they apply: a    *)
(* behaviour of MCParts is one of its part, and the other parts rest.      *)
(***************************************************************************)
EXTENDS MCParts, TLAPS

-----------------------------------------------------------------------------
(* The box of a selection: while it is recorded its area and its box keep  *)
(* their size, and neither ever leaves the output (SelectionInv); and once *)
(* everything is answered the area is the box that is shown (ScreenInv,    *)
(* which needs the former: an area may refuse a size only while that of    *)
(* the box is fixed).  For every output, any number of axes, every         *)
(* position of the pointer and every bound.                                *)

SpanType == [lo : Int, hi : Int]
WithinSpan(s, limit) == s \in SpanType /\ 0 <= s.lo /\ s.lo <= s.hi /\ s.hi <= limit

\* A box, and a point, on the output.
Inside(b) == b \in [Axes -> SpanType] /\ \A a \in Axes : WithinSpan(b[a], Extent[a])
OnOutput(p) == p \in [Axes -> Int] /\ \A a \in Axes : 0 <= p[a] /\ p[a] <= Extent[a]

SelectionStates == {"NONE", "INITIALIZING", "COMPLETE", "REBASING", "RESIZING"}

\* The boxes, wherever they are kept, are on the output.
BoxesInv ==
  /\ OnOutput(point) /\ Inside(box) /\ Inside(area)
  /\ drawn \in [Buffers -> [Axes -> SpanType]] /\ \A b \in Buffers : Inside(drawn[b])
  /\ commits \in Seq(Buffers)

\* A drag began with a box on the output, and one that moves the box began with its size.
GestureInv ==
  /\ selection_state \in SelectionStates
  /\ gesture \in [origin : [Axes -> Int], before : [Axes -> SpanType], ends : [Axes -> {"lo", "hi"}]]
  /\ OnOutput(gesture.origin) /\ Inside(gesture.before)
  /\ selection_state = "REBASING" => Dimensions(gesture.before) = Dimensions(box)

\* The size is frozen as long as the selection is recorded, and not without a recording; nothing that could
\* change the size of the box is under way then.
RecordingInv ==
  /\ frozen \in BOOLEAN
  /\ video = "NONE" => ~frozen
  /\ video = "SELECTION" =>
       /\ frozen
       /\ selection_state \in {"COMPLETE", "REBASING"}
       /\ Dimensions(area) = size /\ Dimensions(box) = size

SelectionInv == BoxesInv /\ GestureInv /\ RecordingInv

-----------------------------------------------------------------------------
(* Boxes                                                                   *)

\* Both ends of a span count from zero to the limit, whatever they are clamped from.
LEMMA ClampBounds ==
  ASSUME NEW n \in Int, NEW limit \in Nat
  PROVE  Clamp(n, limit) \in Int /\ 0 <= Clamp(n, limit) /\ Clamp(n, limit) <= limit
  BY DEF Clamp

LEMMA ExtentType ==
  ASSUME NEW a \in Axes
  PROVE  Extent[a] \in Nat /\ Extent[a] > 0
  BY SelectionBoxConstants DEF SelectionBoxConstants

LEMMA ClampedOnOutput ==
  ASSUME NEW p \in [Axes -> Int]
  PROVE  OnOutput(Clamped(p))
  BY ClampBounds, ExtentType DEF OnOutput, Clamped

LEMMA NoBoxInside == Inside(NoBox)
  BY ExtentType DEF Inside, WithinSpan, SpanType, NoBox, Span

LEMMA WholeOutputInside == Inside(WholeOutput)
  BY ExtentType DEF Inside, WithinSpan, SpanType, WholeOutput, Span

\* A span between two ends within the limit is within it, whichever comes first.
LEMMA DeinvertedWithin ==
  ASSUME NEW limit \in Nat, NEW m \in Int, NEW n \in Int,
         0 <= m, m <= limit, 0 <= n, n <= limit
  PROVE  WithinSpan(Deinverted(Span(m, n)), limit)
  BY DEF WithinSpan, Deinverted, Span, SpanType

LEMMA BoxBetweenInside ==
  ASSUME NEW p, NEW q, OnOutput(p), OnOutput(q)
  PROVE  Inside(BoxBetween(p, q))
<1>1. \A a \in Axes : WithinSpan(Deinverted(Span(p[a], q[a])), Extent[a])
  BY DeinvertedWithin, ExtentType DEF OnOutput
<1> QED BY <1>1 DEF Inside, BoxBetween, WithinSpan

\* A span that is moved keeps its length and stays within the limit.
LEMMA RebasedSpan ==
  ASSUME NEW limit \in Nat, NEW s, NEW n \in Int, WithinSpan(s, limit)
  PROVE  WithinSpan(Rebased(s, n, limit), limit) /\ SpanLength(Rebased(s, n, limit)) = SpanLength(s)
  BY DEF WithinSpan, SpanType, Rebased, SpanLength, Span

\* A span with one end moved stays within the limit.
LEMMA ResizedWithin ==
  ASSUME NEW limit \in Nat, NEW s, NEW end \in {"lo", "hi"}, NEW n \in Int, WithinSpan(s, limit)
  PROVE  WithinSpan(Resized(s, end, n, limit), limit)
<1>1. s.lo \in Int /\ s.hi \in Int /\ 0 <= s.lo /\ s.lo <= limit /\ 0 <= s.hi /\ s.hi <= limit
  BY DEF WithinSpan, SpanType
<1>2. CASE end = "lo"
  <2> DEFINE lo == Clamp(s.lo + n, limit)
  <2>1. lo \in Int /\ 0 <= lo /\ lo <= limit
    BY <1>1 DEF Clamp
  <2>2. Resized(s, end, n, limit) = Deinverted(Span(lo, s.hi))
    BY <1>2 DEF Resized
  <2> HIDE DEF lo
  <2> QED BY <1>1, <2>1, <2>2, DeinvertedWithin
<1>3. CASE end = "hi"
  <2> DEFINE hi == Clamp(s.hi + n, limit)
  <2>1. hi \in Int /\ 0 <= hi /\ hi <= limit
    BY <1>1 DEF Clamp
  <2>2. Resized(s, end, n, limit) = Deinverted(Span(s.lo, hi))
    BY <1>3 DEF Resized
  <2> HIDE DEF hi
  <2> QED BY <1>1, <2>1, <2>2, DeinvertedWithin
<1> QED BY <1>2, <1>3

\* A box that is dragged stays on the output, and one that is only moved keeps its size.
LEMMA DraggedBoxInside ==
  ASSUME BoxesInv, GestureInv, NEW p, OnOutput(p)
  PROVE  /\ Inside(DraggedBox(p))
         /\ selection_state \in {"NONE", "COMPLETE"} => DraggedBox(p) = box
         /\ selection_state = "REBASING" => Dimensions(DraggedBox(p)) = Dimensions(box)
<1>1. CASE selection_state = "INITIALIZING"
  BY <1>1, BoxBetweenInside DEF DraggedBox, GestureInv
<1>2. CASE selection_state = "REBASING"
  <2> DEFINE moved(a) == Rebased(gesture.before[a], p[a] - gesture.origin[a], Extent[a])
  <2>1. \A a \in Axes : WithinSpan(moved(a), Extent[a]) /\ SpanLength(moved(a)) = SpanLength(gesture.before[a])
    BY RebasedSpan, ExtentType DEF GestureInv, OnOutput, Inside
  <2>2. DraggedBox(p) = [a \in Axes |-> moved(a)]
    BY <1>2 DEF DraggedBox
  <2> HIDE DEF moved
  <2>3. Inside(DraggedBox(p))
    BY <2>1, <2>2 DEF Inside, WithinSpan
  <2>4. Dimensions(DraggedBox(p)) = Dimensions(gesture.before)
    BY <2>1, <2>2 DEF Dimensions
  <2> QED BY <1>2, <2>3, <2>4 DEF GestureInv
<1>3. CASE selection_state = "RESIZING"
  <2> DEFINE resized(a) == Resized(gesture.before[a], gesture.ends[a], p[a] - gesture.origin[a], Extent[a])
  <2>1. \A a \in Axes : WithinSpan(resized(a), Extent[a])
    BY ResizedWithin, ExtentType DEF GestureInv, OnOutput, Inside
  <2>2. DraggedBox(p) = [a \in Axes |-> resized(a)]
    BY <1>3 DEF DraggedBox
  <2> HIDE DEF resized
  <2> QED BY <1>3, <2>1, <2>2 DEF Inside, WithinSpan
<1>4. CASE selection_state \in {"NONE", "COMPLETE"}
  BY <1>4 DEF DraggedBox, BoxesInv
<1> QED BY <1>1, <1>2, <1>3, <1>4 DEF GestureInv, SelectionStates

-----------------------------------------------------------------------------
(* Steps                                                                   *)

\* The area is what it was or what was drawn, and of its size if the size is frozen.
LEMMA UpdatedAreaInside ==
  ASSUME NEW b, Inside(b), Inside(area), frozen \in BOOLEAN
  PROVE  /\ Inside(UpdatedArea(b))
         /\ frozen => Dimensions(UpdatedArea(b)) = Dimensions(area)
         /\ ~frozen => UpdatedArea(b) = b
  BY DEF UpdatedArea

LEMMA NoGestureType ==
  /\ NoGesture \in [origin : [Axes -> Int], before : [Axes -> SpanType], ends : [Axes -> {"lo", "hi"}]]
  /\ OnOutput(NoGesture.origin) /\ Inside(NoGesture.before)
<1>1. Inside(NoBox) /\ NoBox \in [Axes -> SpanType]
  BY NoBoxInside DEF Inside
<1>2. OnOutput([a \in Axes |-> 0])
  BY ExtentType DEF OnOutput
<1> QED BY <1>1, <1>2 DEF NoGesture

\* Whatever a drawing is of, what the buffers hold is on the output.
LEMMA DrawingStaysInside ==
  ASSUME BoxesInv, NEW u, NEW armed, DrawAndCommit(u, armed)
  PROVE  /\ drawn' \in [Buffers -> [Axes -> SpanType]] /\ \A b \in Buffers : Inside(drawn'[b])
         /\ commits' \in Seq(Buffers)
<1>1. CASE UNCHANGED <<drawn, shown, commits, restated>>
  BY <1>1 DEF BoxesInv
<1>2. ASSUME NEW b \in Buffers,
             shown' = IF u = "WHOLE" THEN WholeOutput ELSE box,
             drawn' = [drawn EXCEPT ![b] = shown'],
             commits' = Append(commits, b)
      PROVE  /\ drawn' \in [Buffers -> [Axes -> SpanType]] /\ \A c \in Buffers : Inside(drawn'[c])
             /\ commits' \in Seq(Buffers)
  <2>1. Inside(shown')
    BY <1>2, WholeOutputInside DEF BoxesInv
  <2>2. shown' \in [Axes -> SpanType]
    BY <2>1 DEF Inside
  <2>3. drawn' \in [Buffers -> [Axes -> SpanType]] /\ \A c \in Buffers : Inside(drawn'[c])
    BY <1>2, <2>1, <2>2 DEF BoxesInv
  <2>4. commits' \in Seq(Buffers)
    BY <1>2 DEF BoxesInv
  <2> QED BY <2>3, <2>4
<1> QED BY <1>1, <1>2 DEF DrawAndCommit

\* Nor does forgetting what a buffer showed matter.
LEMMA ForgettingStaysInside ==
  ASSUME BoxesInv, commits # <<>>, commits' = Tail(commits), ForgetDrawn
  PROVE  /\ drawn' \in [Buffers -> [Axes -> SpanType]] /\ \A b \in Buffers : Inside(drawn'[b])
         /\ commits' \in Seq(Buffers)
<1>1. NoBox \in [Axes -> SpanType] /\ Inside(NoBox)
  BY NoBoxInside DEF Inside
<1>2. commits' \in Seq(Buffers)
  BY DEF BoxesInv
<1>3. drawn' \in [Buffers -> [Axes -> SpanType]] /\ \A b \in Buffers : Inside(drawn'[b])
  BY <1>1 DEF ForgetDrawn, BoxesInv
<1> QED BY <1>2, <1>3

LEMMA InitSelectionInv == Init => SelectionInv
<1> SUFFICES ASSUME Init PROVE SelectionInv
  OBVIOUS
<1>1. NoBox \in [Axes -> SpanType] /\ Inside(NoBox)
  BY NoBoxInside DEF Inside
<1>2. OnOutput(point)
  BY ExtentType DEF Init, OnOutput
<1>3. BoxesInv
  BY <1>1, <1>2 DEF Init, BoxesInv
<1>4. GestureInv
  BY NoGestureType DEF Init, GestureInv, SelectionStates
<1>5. RecordingInv
  BY DEF Init, RecordingInv
<1> QED BY <1>3, <1>4, <1>5 DEF SelectionInv

\* What no step of an action disturbs.
LEMMA BoxesUntouched ==
  ASSUME BoxesInv, UNCHANGED <<point, box, area, drawn, commits>>
  PROVE  BoxesInv'
  BY DEF BoxesInv, OnOutput, Inside

LEMMA GestureUntouched ==
  ASSUME GestureInv, UNCHANGED <<selection_state, gesture, box>>
  PROVE  GestureInv'
  BY DEF GestureInv, OnOutput, Inside, Dimensions

LEMMA RecordingUntouched ==
  ASSUME RecordingInv, UNCHANGED <<frozen, video, selection_state, area, box, size>>
  PROVE  RecordingInv'
  BY DEF RecordingInv, Dimensions

\* The screen: only an answer reaches the area.
LEMMA ScreenKeepsInv ==
  ASSUME SelectionInv,
         \/ FrameCallback \/ UpdateUi \/ CommitIsShown \/ CommitIsDiscarded
         \/ \E u \in {"NONE", "WHOLE", "HIDDEN"} : ChangeUi(u)
  PROVE  SelectionInv'
<1> USE DEF SelectionInv
<1>1. CASE FrameCallback
  <2>1. BoxesInv'
    BY <1>1, DrawingStaysInside DEF FrameCallback, BoxesInv, pointing
  <2> QED BY <1>1, <2>1, GestureUntouched, RecordingUntouched DEF FrameCallback, pointing
<1>2. CASE UpdateUi
  BY <1>2, BoxesUntouched, GestureUntouched, RecordingUntouched DEF UpdateUi, pointing
<1>3. CASE CommitIsShown
  <2> DEFINE b == drawn[Head(commits)]
  <2>1. commits # <<>> /\ commits' = Tail(commits) /\ ForgetDrawn /\ area' = UpdatedArea(b)
    BY <1>3 DEF CommitIsShown
  <2>2. UNCHANGED <<point, gesture, selection_state, box, frozen, video, size>>
    BY <1>3 DEF CommitIsShown, pointing
  <2>3. Head(commits) \in Buffers
    BY <2>1 DEF BoxesInv
  <2>4. Inside(b)
    BY <2>3 DEF BoxesInv
  <2> HIDE DEF b
  <2>5. /\ Inside(area')
        /\ frozen => Dimensions(area') = Dimensions(area)
    BY <2>1, <2>4, UpdatedAreaInside DEF BoxesInv, RecordingInv
  <2>6. BoxesInv'
    BY <2>1, <2>2, <2>5, ForgettingStaysInside DEF BoxesInv
  <2>7. RecordingInv'
    BY <2>2, <2>5 DEF RecordingInv
  <2> QED BY <2>2, <2>6, <2>7, GestureUntouched
<1>4. CASE CommitIsDiscarded
  <2>1. BoxesInv'
    BY <1>4, ForgettingStaysInside DEF CommitIsDiscarded, BoxesInv, pointing
  <2> QED BY <1>4, <2>1, GestureUntouched, RecordingUntouched DEF CommitIsDiscarded, pointing
<1>5. ASSUME NEW u \in {"NONE", "WHOLE", "HIDDEN"}, ChangeUi(u)
      PROVE  SelectionInv'
  <2>1. BoxesInv'
    BY <1>5, DrawingStaysInside DEF ChangeUi, BoxesInv, pointing
  <2> QED BY <1>5, <2>1, GestureUntouched, RecordingUntouched DEF ChangeUi, pointing
<1> QED BY <1>1, <1>2, <1>3, <1>4, <1>5

\* The pointer and its buttons: a drag that could change the size neither goes on nor begins while it is frozen.
LEMMA PointerKeepsInv ==
  ASSUME SelectionInv,
         \/ \E p \in Positions : PointerEnter(p) \/ PointerMotion(p)
         \/ BeginSelection \/ CompleteSelection \/ BeginRebase \/ BeginResize
         \/ \E b \in {"LEFT", "RIGHT"} : EndDrag(b) \/ IdleButton(b)
  PROVE  SelectionInv'
<1> USE DEF SelectionInv
<1>1. ASSUME NEW p \in Positions, PointerEnter(p)
      PROVE  SelectionInv'
  <2>1. OnOutput(point')
    BY <1>1, ClampedOnOutput, SelectionBoxConstants DEF PointerEnter, SelectionBoxConstants
  <2>2. BoxesInv'
    BY <1>1, <2>1 DEF PointerEnter, screen, BoxesInv
  <2> QED BY <1>1, <2>2, GestureUntouched, RecordingUntouched DEF PointerEnter
<1>2. ASSUME NEW p \in Positions, PointerMotion(p)
      PROVE  SelectionInv'
  <2> DEFINE q == Clamped(p)
  <2>1. OnOutput(q)
    BY ClampedOnOutput, SelectionBoxConstants DEF SelectionBoxConstants
  <2>2. /\ point' = q /\ box' = DraggedBox(q)
        /\ UNCHANGED <<gesture, selection_state, frozen, area, video, size, drawn, commits>>
    BY <1>2 DEF PointerMotion
  <2> HIDE DEF q
  <2>3. /\ Inside(box')
        /\ selection_state \in {"NONE", "COMPLETE"} => box' = box
        /\ selection_state = "REBASING" => Dimensions(box') = Dimensions(box)
    BY <2>1, <2>2, DraggedBoxInside
  <2>4. BoxesInv'
    BY <2>1, <2>2, <2>3 DEF BoxesInv
  <2>5. GestureInv'
    BY <2>2, <2>3 DEF GestureInv
  <2>6. RecordingInv'
    BY <2>2, <2>3 DEF RecordingInv
  <2> QED BY <2>4, <2>5, <2>6
<1>3. CASE BeginSelection
  <2>1. Inside(box')
    BY <1>3, BoxBetweenInside DEF BeginSelection, BoxesInv
  <2>2. BoxesInv'
    BY <1>3, <2>1 DEF BeginSelection, BoxesInv
  <2>3. gesture' = [NoGesture EXCEPT !.origin = point] /\ selection_state' = "INITIALIZING"
    BY <1>3 DEF BeginSelection
  <2>4. GestureInv'
    BY <2>3, NoGestureType DEF GestureInv, BoxesInv, OnOutput, SelectionStates
  <2>5. RecordingInv'
    BY <1>3 DEF BeginSelection, RecordingInv
  <2> QED BY <2>2, <2>4, <2>5
<1>4. CASE CompleteSelection
  <2>1. Inside(box')
    BY <1>4, BoxBetweenInside DEF CompleteSelection, BoxesInv, GestureInv
  <2>2. Inside(area')
    BY <1>4, <2>1, UpdatedAreaInside DEF CompleteSelection, BoxesInv, RecordingInv
  <2>3. BoxesInv'
    BY <1>4, <2>1, <2>2 DEF CompleteSelection, BoxesInv
  <2>4. GestureInv'
    BY <1>4, NoGestureType DEF CompleteSelection, GestureInv, SelectionStates
  <2>5. RecordingInv'
    BY <1>4 DEF CompleteSelection, RecordingInv
  <2> QED BY <2>3, <2>4, <2>5
<1>5. CASE BeginRebase
  <2>1. gesture' = [NoGesture EXCEPT !.origin = point, !.before = box] /\ selection_state' = "REBASING"
        /\ box' = box
    BY <1>5 DEF BeginRebase
  <2>2. GestureInv'
    BY <2>1, NoGestureType DEF GestureInv, BoxesInv, OnOutput, Inside, SelectionStates
  <2>3. RecordingInv'
    BY <1>5 DEF BeginRebase, RecordingInv
  <2> QED BY <1>5, <2>2, <2>3, BoxesUntouched DEF BeginRebase, screen
<1>6. CASE BeginResize
  <2>1. gesture' = [origin |-> point, before |-> box, ends |-> NearestEnds(box, point)]
        /\ selection_state' = "RESIZING" /\ box' = box
    BY <1>6 DEF BeginResize
  <2>2. NearestEnds(box, point) \in [Axes -> {"lo", "hi"}]
    BY DEF NearestEnds
  <2>3. GestureInv'
    BY <2>1, <2>2 DEF GestureInv, BoxesInv, OnOutput, Inside, SelectionStates
  <2>4. RecordingInv'
    BY <1>6 DEF BeginResize, RecordingInv
  <2> QED BY <1>6, <2>3, <2>4, BoxesUntouched DEF BeginResize, screen
<1>7. ASSUME NEW b \in {"LEFT", "RIGHT"}, EndDrag(b)
      PROVE  SelectionInv'
  <2>1. gesture' = NoGesture /\ selection_state' = "COMPLETE"
        /\ UNCHANGED <<point, box, frozen, area, video, size, screen>>
    BY <1>7 DEF EndDrag
  <2>2. GestureInv'
    BY <2>1, NoGestureType DEF GestureInv, SelectionStates
  <2>3. RecordingInv'
    BY <2>1 DEF RecordingInv
  <2> QED BY <2>1, <2>2, <2>3, BoxesUntouched DEF screen
<1>8. ASSUME NEW b \in {"LEFT", "RIGHT"}, IdleButton(b)
      PROVE  SelectionInv'
  <2>1. UNCHANGED <<point, gesture, selection_state, box, frozen, area, video, size, screen>>
    BY <1>8 DEF IdleButton
  <2> QED BY <2>1, BoxesUntouched, GestureUntouched, RecordingUntouched DEF screen
<1> QED BY <1>1, <1>2, <1>3, <1>4, <1>5, <1>6, <1>7, <1>8

\* An arrow key moves the box and leaves its size, also in the middle of a drag.
LEMMA ShiftKeepsInv ==
  ASSUME SelectionInv, NEW axis \in Axes, NEW n \in {-1, 1}, ShiftSelection(axis, n)
  PROVE  SelectionInv'
<1> USE DEF SelectionInv
<1>1. /\ box' = [box EXCEPT ![axis] = Span(@.lo + n, @.hi + n)]
      /\ box'[axis].lo >= 0 /\ box'[axis].hi <= Extent[axis]
      /\ UNCHANGED <<point, gesture, selection_state, frozen, area, video, size, drawn, commits>>
  BY DEF ShiftSelection, pointing
<1>2. box \in [Axes -> SpanType]
  BY DEF BoxesInv, Inside
<1>3. \A a \in Axes : box[a].lo \in Int /\ box[a].hi \in Int /\ WithinSpan(box[a], Extent[a])
  BY <1>2 DEF BoxesInv, Inside, SpanType
<1>4. box'[axis] = [lo |-> box[axis].lo + n, hi |-> box[axis].hi + n]
  BY <1>1, <1>2 DEF Span
<1>5. WithinSpan(box'[axis], Extent[axis]) /\ SpanLength(box'[axis]) = SpanLength(box[axis])
  BY <1>1, <1>3, <1>4 DEF WithinSpan, SpanType, SpanLength
<1>6. \A a \in Axes : a # axis => box'[a] = box[a]
  BY <1>1, <1>2
<1>7. box' \in [Axes -> SpanType]
  BY <1>1, <1>2, <1>4, <1>5 DEF WithinSpan
<1>8. Inside(box')
  BY <1>3, <1>5, <1>6, <1>7 DEF Inside
<1>9. Dimensions(box') = Dimensions(box)
  BY <1>5, <1>6 DEF Dimensions
<1>10. BoxesInv'
  BY <1>1, <1>8 DEF BoxesInv
<1>11. GestureInv'
  BY <1>1, <1>9 DEF GestureInv
<1>12. RecordingInv'
  BY <1>1, <1>9 DEF RecordingInv
<1> QED BY <1>10, <1>11, <1>12

\* A recording of the selection begins with the area of its box, or not at all.
LEMMA StartKeepsInv ==
  ASSUME SelectionInv, StartVideoOfSelection
  PROVE  SelectionInv'
<1> USE DEF SelectionInv
<1> DEFINE settles == selection_state \in {"INITIALIZING", "RESIZING"}
           updated == IF selection_state = "INITIALIZING" THEN UpdatedArea(box) ELSE area
           captured == IF Dimensions(box) # Dimensions(updated) THEN UpdatedArea(box) ELSE updated
<1>1. /\ video = "NONE" /\ selection_state # "NONE"
      /\ area' = captured
      /\ selection_state' = IF settles THEN "COMPLETE" ELSE selection_state
      /\ gesture' = IF settles THEN NoGesture ELSE gesture
      /\ \/ video' = "ABORTED" /\ UNCHANGED <<frozen, size>>
         \/ video' = "SELECTION" /\ frozen' = TRUE /\ size' = Dimensions(captured)
         \/ frozen' = FALSE /\ UNCHANGED <<video, size>>
      /\ UNCHANGED <<point, box, drawn, commits>>
  BY DEF StartVideoOfSelection
<1>2. ~frozen
  BY <1>1 DEF RecordingInv
<1>3. UpdatedArea(box) = box
  BY <1>2 DEF UpdatedArea
<1>4. Inside(captured) /\ Dimensions(captured) = Dimensions(box)
  BY <1>3 DEF BoxesInv
<1> HIDE DEF updated, captured
<1>5. BoxesInv'
  BY <1>1, <1>4 DEF BoxesInv
<1>6. GestureInv'
  BY <1>1, NoGestureType DEF GestureInv, SelectionStates
<1>7. selection_state' \in {"COMPLETE", "REBASING"}
  BY <1>1 DEF GestureInv, SelectionStates
<1>8. RecordingInv'
  BY <1>1, <1>2, <1>4, <1>7 DEF RecordingInv
<1> QED BY <1>5, <1>6, <1>8

\* Recordings of the output, and the end of every recording.
LEMMA OtherVideoKeepsInv ==
  ASSUME SelectionInv, StartVideoOfOutput \/ DispatchVideo \/ FinishVideo
  PROVE  SelectionInv'
<1> USE DEF SelectionInv
<1>1. CASE StartVideoOfOutput
  <2>1. PICK u : IF u = ui THEN UNCHANGED screen ELSE DrawAndCommit(u, awaiting)
    BY <1>1 DEF StartVideoOfOutput
  <2>2. UNCHANGED <<point, gesture, selection_state, box, area, size>> /\ video' = "PENDING" /\ frozen' = TRUE
    BY <1>1 DEF StartVideoOfOutput, pointing
  <2>3. BoxesInv'
    <3>1. CASE UNCHANGED screen
      BY <2>2, <3>1, BoxesUntouched DEF screen
    <3>2. CASE DrawAndCommit(u, awaiting)
      BY <2>2, <3>2, DrawingStaysInside DEF BoxesInv
    <3> QED BY <2>1, <3>1, <3>2
  <2>4. RecordingInv'
    BY <2>2 DEF RecordingInv
  <2> QED BY <2>2, <2>3, <2>4, GestureUntouched
<1>2. CASE DispatchVideo
  <2>1. RecordingInv'
    BY <1>2 DEF DispatchVideo, RecordingInv
  <2> QED BY <1>2, <2>1, BoxesUntouched, GestureUntouched DEF DispatchVideo, pointing
<1>3. CASE FinishVideo
  <2>1. RecordingInv'
    BY <1>3 DEF FinishVideo, RecordingInv
  <2> QED BY <1>3, <2>1, BoxesUntouched, GestureUntouched DEF FinishVideo, pointing
<1> QED BY <1>1, <1>2, <1>3

-----------------------------------------------------------------------------
(* Theorems                                                                *)

\* Every step keeps the invariant.
THEOREM SelectionInvariant == Spec => []SelectionInv
<1>1. SelectionInv /\ [Next]_vars => SelectionInv'
  <2> SUFFICES ASSUME SelectionInv, [Next]_vars PROVE SelectionInv'
    OBVIOUS
  <2>1. CASE \/ FrameCallback \/ UpdateUi \/ CommitIsShown \/ CommitIsDiscarded
             \/ \E u \in {"NONE", "WHOLE", "HIDDEN"} : ChangeUi(u)
    BY <2>1, ScreenKeepsInv
  <2>2. CASE \/ \E p \in Positions : PointerEnter(p) \/ PointerMotion(p)
             \/ BeginSelection \/ CompleteSelection \/ BeginRebase \/ BeginResize
             \/ \E b \in {"LEFT", "RIGHT"} : EndDrag(b) \/ IdleButton(b)
    BY <2>2, PointerKeepsInv
  <2>3. CASE \E a \in Axes, n \in {-1, 1} : ShiftSelection(a, n)
    BY <2>3, ShiftKeepsInv
  <2>4. CASE StartVideoOfSelection
    BY <2>4, StartKeepsInv
  <2>5. CASE StartVideoOfOutput \/ DispatchVideo \/ FinishVideo
    BY <2>5, OtherVideoKeepsInv
  <2>6. CASE UNCHANGED vars
    BY <2>6, BoxesUntouched, GestureUntouched, RecordingUntouched DEF SelectionInv, vars
  <2> QED BY <2>1, <2>2, <2>3, <2>4, <2>5, <2>6 DEF Next, Running, Aborted
<1> QED BY <1>1, InitSelectionInv, PTL DEF Spec

\* The size of what is recorded stays that of its writers, and no box leaves the output.
THEOREM SelectionKeepsItsSize == Spec => []RecordedSizeIsKept
<1>1. SelectionInv => RecordedSizeIsKept
  BY DEF SelectionInv, BoxesInv, RecordingInv, Inside, WithinSpan, RecordedSizeIsKept
<1> QED BY <1>1, SelectionInvariant, PTL

-----------------------------------------------------------------------------
(* The screen                                                              *)

\* Nothing is asked for that would draw the box, nor has it changed since it was drawn.
UpToDate == ui = "NONE" /\ ~awaiting /\ ~restated

\* What the last commit shows is what was drawn last.  What is up to date is of the box, and so is the area
\* once that commit is answered.
ScreenInv ==
  /\ ui = "NONE" => video \notin {"PENDING", "OUTPUT"}
  /\ frozen => video \in {"SELECTION", "PENDING", "OUTPUT"}
  /\ commits # <<>> => drawn[commits[Len(commits)]] = shown
  /\ UpToDate => shown = box
  /\ UpToDate /\ commits = <<>> => area = box

\* A box that is no smaller or larger than the area is never refused.
LEMMA AreaIsUpdated ==
  ASSUME RecordingInv, ScreenInv, ui = "NONE",
         video = "SELECTION" => Dimensions(shown) = Dimensions(area)
  PROVE  UpdatedArea(shown) = shown
  BY DEF UpdatedArea, RecordingInv, ScreenInv

\* A drawing is of the box, and will be answered; or it is tried again.
LEMMA DrawingKeepsScreen ==
  ASSUME BoxesInv, ScreenInv, NEW u, NEW armed, DrawAndCommit(u, armed), ui' = u,
         UNCHANGED <<box, area, frozen>>,
         u = "NONE" => video' \notin {"PENDING", "OUTPUT"},
         frozen' => video' \in {"SELECTION", "PENDING", "OUTPUT"}
  PROVE  ScreenInv'
<1>1. CASE awaiting' = (armed \/ RetriesDrawing(u)) /\ UNCHANGED <<drawn, shown, commits, restated>>
  <2>1. ui' = "NONE" => awaiting'
    BY <1>1 DEF RetriesDrawing
  <2> QED BY <1>1, <2>1 DEF ScreenInv, UpToDate
<1>2. ASSUME NEW b \in Buffers, drawn' = [drawn EXCEPT ![b] = shown'], commits' = Append(commits, b),
             shown' = IF u = "WHOLE" THEN WholeOutput ELSE box
      PROVE  ScreenInv'
  <2>1. commits \in Seq(Buffers) /\ drawn \in [Buffers -> [Axes -> SpanType]]
    BY DEF BoxesInv
  <2>2. commits' # <<>> /\ commits'[Len(commits')] = b
    BY <1>2, <2>1
  <2>3. drawn'[b] = shown'
    BY <1>2, <2>1
  <2>4. ui' = "NONE" => shown' = box'
    BY <1>2
  <2> QED BY <2>2, <2>3, <2>4 DEF ScreenInv, UpToDate
<1> QED BY <1>1, <1>2 DEF DrawAndCommit

LEMMA TailOfCommits ==
  ASSUME NEW s \in Seq(Buffers), s # <<>>
  PROVE  /\ Tail(s) \in Seq(Buffers) /\ Len(Tail(s)) = Len(s) - 1
         /\ Len(s) \in Nat \ {0}
         /\ Tail(s) = <<>> <=> Len(s) = 1
         /\ Tail(s) # <<>> => Tail(s)[Len(Tail(s))] = s[Len(s)]
         /\ Head(s) = s[1]
<1>1. /\ Tail(s) \in Seq(Buffers) /\ Len(s) \in Nat \ {0}
      /\ Len(Tail(s)) = Len(s) - 1 /\ Head(s) = s[1]
      /\ \A i \in 1..(Len(s) - 1) : Tail(s)[i] = s[i + 1]
  OBVIOUS
<1>2. Tail(s) = <<>> <=> Len(Tail(s)) = 0
  BY <1>1
<1>3. Tail(s) # <<>> => Len(Tail(s)) \in 1..(Len(s) - 1)
  BY <1>1, <1>2
<1> QED BY <1>1, <1>2, <1>3

\* Whatever is answered, the last commit is not forgotten before it is.
LEMMA LastIsKept ==
  ASSUME BoxesInv, ScreenInv, commits # <<>>, commits' = Tail(commits), ForgetDrawn, UNCHANGED shown
  PROVE  /\ commits' # <<>> => drawn'[commits'[Len(commits')]] = shown'
         /\ commits' = <<>> => drawn[Head(commits)] = shown
<1>1. commits \in Seq(Buffers)
  BY DEF BoxesInv
<1>2. CASE commits' # <<>>
  <2>1. /\ Len(commits') = Len(commits) - 1 /\ Len(commits') > 0
        /\ commits' \in Seq(Buffers)
        /\ commits'[Len(commits')] = commits[Len(commits)]
    BY <1>1, <1>2, TailOfCommits
  <2>2. commits'[Len(commits')] \in Buffers /\ commits'[Len(commits')] \in Range(commits')
    <3>1. Len(commits') \in DOMAIN commits'
      BY <2>1
    <3>2. commits'[Len(commits')] \in Buffers
      BY <2>1, <3>1
    <3> QED BY <3>1, <3>2 DEF Range
  <2>3. drawn'[commits'[Len(commits')]] = drawn[commits'[Len(commits')]]
    BY <2>2 DEF ForgetDrawn
  <2> QED BY <1>2, <2>1, <2>3 DEF ScreenInv
<1>3. CASE commits' = <<>>
  <2>1. Len(commits) = 1 /\ Head(commits) = commits[1]
    BY <1>1, <1>3, TailOfCommits
  <2> QED BY <1>3, <2>1 DEF ScreenInv
<1> QED BY <1>2, <1>3

\* What an action leaves alone that does not concern the screen.
LEMMA ScreenUntouched ==
  ASSUME ScreenInv, UNCHANGED <<box, frozen, area, video, ui, awaiting, drawn, shown, commits, restated>>
  PROVE  ScreenInv'
  BY DEF ScreenInv, UpToDate

\* Where a frame is requested the box will be drawn, and nothing is claimed until then.
LEMMA RequestKeepsScreen ==
  ASSUME ScreenInv, RequestFrame, UNCHANGED <<ui, drawn, shown, commits>>,
         ui = "NONE" => video' \notin {"PENDING", "OUTPUT"},
         frozen' => video' \in {"SELECTION", "PENDING", "OUTPUT"}
  PROVE  ScreenInv'
<1>1. ui' = "NONE" => awaiting'
  BY DEF RequestFrame
<1> QED BY <1>1 DEF ScreenInv, UpToDate

LEMMA InitScreenInv == Init => ScreenInv
  BY DEF Init, ScreenInv, UpToDate

LEMMA CommitsKeepScreen ==
  ASSUME SelectionInv, ScreenInv,
         \/ FrameCallback \/ UpdateUi \/ CommitIsShown \/ CommitIsDiscarded
         \/ \E u \in {"NONE", "WHOLE", "HIDDEN"} : ChangeUi(u)
  PROVE  ScreenInv'
<1>1. BoxesInv /\ RecordingInv
  BY DEF SelectionInv
<1>2. CASE FrameCallback
  BY <1>1, <1>2, DrawingKeepsScreen DEF FrameCallback, ScreenInv
<1>3. CASE UpdateUi
  BY <1>3, RequestKeepsScreen DEF UpdateUi, ScreenInv
<1>4. CASE CommitIsShown
  <2>1. /\ commits # <<>> /\ commits' = Tail(commits)
        /\ area' = UpdatedArea(drawn[Head(commits)])
        /\ UNCHANGED <<box, frozen, video, ui, awaiting, shown, restated>>
    BY <1>4 DEF CommitIsShown
  <2>2. /\ commits' # <<>> => drawn'[commits'[Len(commits')]] = shown'
        /\ commits' = <<>> => drawn[Head(commits)] = shown
    BY <1>1, <1>4, LastIsKept DEF CommitIsShown
  <2>3. ASSUME UpToDate', commits' = <<>>
        PROVE  area' = box'
    <3>1. UpToDate /\ ui = "NONE" /\ shown = box
      BY <2>1, <2>3 DEF UpToDate, ScreenInv
    <3>2. UpdatedArea(shown) = shown
      BY <1>1, <3>1, AreaIsUpdated DEF RecordingInv
    <3> QED BY <2>1, <2>2, <2>3, <3>1, <3>2
  <2>4. UpToDate' => UpToDate
    BY <2>1 DEF UpToDate
  <2> QED BY <2>1, <2>2, <2>3, <2>4 DEF ScreenInv
<1>5. CASE CommitIsDiscarded
  <2>1. /\ commits # <<>> /\ commits' = Tail(commits)
        /\ Len(commits) > 1 \/ awaiting \/ ui = "HIDDEN"
        /\ UNCHANGED <<box, area, frozen, video, ui, awaiting, shown, restated>>
    BY <1>5 DEF CommitIsDiscarded
  <2>2. commits' # <<>> => drawn'[commits'[Len(commits')]] = shown'
    BY <1>1, <1>5, LastIsKept DEF CommitIsDiscarded
  <2>3. UpToDate' => UpToDate /\ commits' # <<>>
    <3>1. UpToDate' => UpToDate /\ Len(commits) > 1
      BY <2>1 DEF UpToDate
    <3>2. Len(commits) > 1 => commits' # <<>>
      <4>1. commits \in Seq(Buffers)
        BY <1>1 DEF BoxesInv
      <4>2. Tail(commits) = <<>> <=> Len(commits) = 1
        BY <2>1, <4>1, TailOfCommits
      <4>3. Len(commits) \in Nat
        BY <2>1, <4>1, TailOfCommits
      <4>4. Len(commits) = 1 => ~(Len(commits) > 1)
        OBVIOUS
      <4> QED BY <2>1, <4>2, <4>4
    <3> QED BY <3>1, <3>2
  <2> QED BY <2>1, <2>2, <2>3 DEF ScreenInv
<1>6. ASSUME NEW u \in {"NONE", "WHOLE", "HIDDEN"}, ChangeUi(u)
      PROVE  ScreenInv'
  <2>1. /\ DrawAndCommit(u, awaiting) /\ ui' = u /\ UNCHANGED <<box, area, frozen, video>>
        /\ u = "NONE" => video \notin {"PENDING", "OUTPUT"}
    BY <1>6 DEF ChangeUi
  <2> QED BY <1>1, <2>1, DrawingKeepsScreen DEF ScreenInv
<1> QED BY <1>2, <1>3, <1>4, <1>5, <1>6

LEMMA PointerKeepsScreen ==
  ASSUME SelectionInv, ScreenInv,
         \/ \E p \in Positions : PointerEnter(p) \/ PointerMotion(p)
         \/ BeginSelection \/ CompleteSelection \/ BeginRebase \/ BeginResize
         \/ \E b \in {"LEFT", "RIGHT"} : EndDrag(b) \/ IdleButton(b)
  PROVE  ScreenInv'
<1>1. BoxesInv /\ GestureInv /\ RecordingInv
  BY DEF SelectionInv
<1>2. ASSUME NEW p \in Positions, PointerEnter(p)
      PROVE  ScreenInv'
  BY <1>2, ScreenUntouched DEF PointerEnter, screen
<1>3. ASSUME NEW p \in Positions, PointerMotion(p)
      PROVE  ScreenInv'
  <2>1. CASE selection_state \in {"INITIALIZING", "REBASING", "RESIZING"}
    BY <1>3, <2>1, RequestKeepsScreen DEF PointerMotion, ScreenInv
  <2>2. CASE selection_state \notin {"INITIALIZING", "REBASING", "RESIZING"}
    <3>1. DraggedBox(Clamped(p)) = box
      BY <2>2 DEF DraggedBox
    <3> QED BY <1>3, <2>2, <3>1, ScreenUntouched DEF PointerMotion
  <2> QED BY <2>1, <2>2
<1>4. CASE BeginSelection
  BY <1>4, RequestKeepsScreen DEF BeginSelection, ScreenInv
<1>5. CASE CompleteSelection
  <2>1. /\ selection_state = "INITIALIZING" /\ area' = UpdatedArea(box')
        /\ restated' = (restated \/ box' # box)
        /\ UNCHANGED <<frozen, video, ui, awaiting, drawn, shown, commits>>
    BY <1>5 DEF CompleteSelection
  <2>2. video # "SELECTION"
    BY <1>1, <2>1 DEF RecordingInv
  <2>3. ui = "NONE" => area' = box'
    BY <2>1, <2>2 DEF UpdatedArea, ScreenInv
  <2>4. UpToDate' => UpToDate /\ box' = box /\ area' = box'
    BY <2>1, <2>3 DEF UpToDate
  <2> QED BY <2>1, <2>4 DEF ScreenInv
<1>6. CASE BeginRebase \/ BeginResize
  BY <1>6, ScreenUntouched DEF BeginRebase, BeginResize, screen
<1>7. ASSUME NEW b \in {"LEFT", "RIGHT"}, EndDrag(b) \/ IdleButton(b)
      PROVE  ScreenInv'
  BY <1>7, ScreenUntouched DEF EndDrag, IdleButton, screen
<1> QED BY <1>2, <1>3, <1>4, <1>5, <1>6, <1>7

LEMMA VideoKeepsScreen ==
  ASSUME SelectionInv, ScreenInv,
         StartVideoOfSelection \/ StartVideoOfOutput \/ DispatchVideo \/ FinishVideo
  PROVE  ScreenInv'
<1>1. BoxesInv /\ RecordingInv
  BY DEF SelectionInv
<1>2. CASE StartVideoOfSelection
  <2> DEFINE updated == IF selection_state = "INITIALIZING" THEN UpdatedArea(box) ELSE area
             captured == IF Dimensions(box) # Dimensions(updated) THEN UpdatedArea(box) ELSE updated
  <2>1. ~frozen /\ video = "NONE"
    BY <1>1, <1>2 DEF StartVideoOfSelection, RecordingInv
  <2>2. captured \in {area, box}
    BY <2>1 DEF UpdatedArea
  <2>3. /\ area' = captured
        /\ UNCHANGED <<box, ui, drawn, shown, commits>>
        /\ \/ video' = "ABORTED" /\ UNCHANGED <<frozen, awaiting, restated>>
           \/ video' = "SELECTION" /\ RequestFrame
           \/ frozen' = FALSE /\ UNCHANGED <<video, awaiting, restated>>
    BY <1>2 DEF StartVideoOfSelection
  <2> HIDE DEF captured
  <2>4. CASE video' = "SELECTION" /\ RequestFrame
    BY <2>3, <2>4, RequestKeepsScreen
  <2>5. CASE UNCHANGED <<awaiting, restated>> /\ video' \in {"NONE", "ABORTED"} /\ ~frozen'
    <3>1. UpToDate' <=> UpToDate
      BY <2>3, <2>5 DEF UpToDate
    <3> QED BY <2>2, <2>3, <2>5, <3>1 DEF ScreenInv
  <2> QED BY <2>1, <2>3, <2>4, <2>5
<1>3. CASE StartVideoOfOutput
  <2>1. PICK u \in IF ui = "NONE" THEN {"WHOLE", "HIDDEN"} ELSE {ui} :
          /\ ui' = u
          /\ IF u = ui THEN UNCHANGED screen ELSE DrawAndCommit(u, awaiting)
    BY <1>3 DEF StartVideoOfOutput
  <2>2. ui' # "NONE" /\ video' = "PENDING"
    BY <1>3, <2>1 DEF StartVideoOfOutput
  <2>3. commits' # <<>> => drawn'[commits'[Len(commits')]] = shown'
    <3>1. CASE UNCHANGED <<drawn, shown, commits>>
      BY <3>1 DEF ScreenInv
    <3>2. ASSUME NEW b \in Buffers, drawn' = [drawn EXCEPT ![b] = shown'], commits' = Append(commits, b)
          PROVE  drawn'[commits'[Len(commits')]] = shown'
      <4>1. commits'[Len(commits')] = b
        BY <1>1, <3>2 DEF BoxesInv
      <4> QED BY <1>1, <3>2, <4>1 DEF BoxesInv
    <3> QED BY <2>1, <3>1, <3>2 DEF DrawAndCommit, screen
  <2> QED BY <2>2, <2>3 DEF ScreenInv, UpToDate
<1>4. CASE DispatchVideo
  <2>1. ui # "NONE" /\ ui' = ui /\ UNCHANGED <<drawn, shown, commits>>
    BY <1>4 DEF DispatchVideo, ScreenInv
  <2>2. frozen' => video' = "OUTPUT"
    BY <1>4 DEF DispatchVideo
  <2> QED BY <2>1, <2>2 DEF ScreenInv, UpToDate
<1>5. CASE FinishVideo
  BY <1>5, RequestKeepsScreen DEF FinishVideo
<1> QED BY <1>2, <1>3, <1>4, <1>5

LEMMA ScreenHolds == Spec => []ScreenInv
<1>1. SelectionInv /\ ScreenInv /\ [Next]_vars => ScreenInv'
  <2> SUFFICES ASSUME SelectionInv, ScreenInv, Next
               PROVE  ScreenInv'
    BY ScreenUntouched DEF vars
  <2>1. ASSUME NEW a \in Axes, NEW n \in {-1, 1}, ShiftSelection(a, n)
        PROVE  ScreenInv'
    BY <2>1, RequestKeepsScreen DEF ShiftSelection, ScreenInv
  <2>2. CASE Aborted
    BY <2>2, ScreenUntouched DEF Aborted, vars
  <2> QED BY <2>1, <2>2, CommitsKeepScreen, PointerKeepsScreen, VideoKeepsScreen DEF Next, Running
<1> QED BY <1>1, InitScreenInv, SelectionInvariant, PTL DEF Spec

(***************************************************************************)
(* Once everything is answered the area that is captured, the box that is  *)
(* shown and the one that was dragged are the same, whichever answers came *)
(* late, were lost or were refused.                                        *)
(***************************************************************************)
THEOREM AreaIsAlwaysWhatIsShown == Spec => []AreaIsWhatIsShown
<1>1. ScreenInv => AreaIsWhatIsShown
  BY DEF ScreenInv, UpToDate, Settled, AreaIsWhatIsShown
<1> QED BY <1>1, ScreenHolds, PTL

all == <<part, selection, recordings, clock, conversion, seat, tray, notifications>>

-----------------------------------------------------------------------------
(* The selection                                                           *)

LEMMA SelectionOfAPart == PartsSpec => Spec
<1>1. PartsInit => Init
  BY DEF PartsInit
<1>2. [PartsNext]_all => [Next]_vars
  BY DEF PartsNext, SelectionNext, all, selection
<1> QED BY <1>1, <1>2, PTL DEF PartsSpec, all, Spec

\* RecordedSizeIsKept and AreaIsWhatIsShown, whatever the other parts do.
THEOREM SelectionPartIsRight == PartsSpec => [](RecordedSizeIsKept /\ AreaIsWhatIsShown)
BY SelectionOfAPart, SelectionKeepsItsSize, AreaIsAlwaysWhatIsShown, PTL

-----------------------------------------------------------------------------
(* The recordings                                                          *)

\* Those of one output have the steps of Writer; in all other parts those of Stream, if any.
LEMMA RecordingsOfAPart ==
  PartsSpec => ([](part = "writers") /\ Writer!Spec) \/ ([]~(part = "writers") /\ Stream!Spec)
<1>1. PartsInit /\ part = "writers" => Writer!Init
  BY DEF PartsInit
<1>2. PartsInit /\ ~(part = "writers") => Stream!Init
  BY DEF PartsInit
<1>3. part = "writers" /\ [PartsNext]_all => (part = "writers")' /\ [Writer!Next]_(Writer!vars)
  BY DEF PartsNext, RecordingsNext, all, recordings, Writer!vars
<1>4. ~(part = "writers") /\ [PartsNext]_all => (~(part = "writers"))' /\ [Stream!Next]_(Stream!vars)
  BY DEF PartsNext, RecordingsNext, all, recordings, Stream!vars
<1> QED BY <1>1, <1>2, <1>3, <1>4, PTL DEF PartsSpec, all, Writer!Spec, Stream!Spec

\* NothingIsLeftBehind: whichever calls of libav and PipeWire fail, of one output or of several, a recording that is
\* over has released what it acquired, the audio stream is that of the recordings in progress, a start that failed
\* leaves no file, and the tray shows that something records exactly while something does.
THEOREM NothingIsEverLeftBehind == PartsSpec => []NothingIsLeftBehind
<1>1. (part = "writers" => Writer!NothingLeaks /\ Writer!NoFileIsLeftBehind)
      /\ (~(part = "writers") => Stream!NothingLeaks /\ Stream!NoFileIsLeftBehind /\ Stream!TrayShowsRecordings)
        => NothingIsLeftBehind
  BY DEF NothingIsLeftBehind
<1> QED
  BY <1>1, RecordingsOfAPart, Writer!NothingEverLeaks, Writer!NoFileIsEverLeftBehind, Stream!NothingEverLeaks,
     Stream!NoFileIsEverLeftBehind, Stream!TrayAlwaysShowsRecordings, PTL

\* ReportedIsTrue: a recording is reported complete only if nothing of it failed and every frame that was accepted
\* is in the file, and incomplete only if something failed.
THEOREM ReportedIsAlwaysTrue == PartsSpec => []ReportedIsTrue
<1>1. (part = "writers" => Writer!ReportsAreTrue) /\ (~(part = "writers") => Stream!ReportsAreTrue)
        => ReportedIsTrue
  BY DEF ReportedIsTrue
<1> QED BY <1>1, RecordingsOfAPart, Writer!ReportsAreAlwaysTrue, Stream!ReportsAreAlwaysTrue, PTL

\* StreamIsShared: the recordings attach to the audio stream and detach from it as SharedStream allows, so it is
\* open exactly while somebody uses it.
THEOREM StreamIsAlwaysShared == PartsSpec => StreamIsShared
<1>1. Writer!Stream!Init => Stream!Stream!Init
  BY DEF Writer!Stream!Init, Stream!Stream!Init
<1>2. Writer!Stream!Next => Stream!Stream!Next
  BY PartsConstants
  DEF PartsConstants, Writer!Stream!Next, Stream!Stream!Next, Writer!Stream!Attach, Stream!Stream!Attach,
      Writer!Stream!Detach, Stream!Stream!Detach
<1> QED
  BY <1>1, <1>2, RecordingsOfAPart, Writer!RecordingsShareTheStream, Stream!RecordingsShareTheStream, PTL
  DEF StreamIsShared, Writer!StreamIsShared, Stream!StreamIsShared, Writer!Stream!Spec, Stream!Stream!Spec

-----------------------------------------------------------------------------
(* The audio clock                                                         *)

LEMMA ClockOfAPart == PartsSpec => ([](part = "clock") /\ Stream!Clock!Spec) \/ []~(part = "clock")
<1>1. PartsInit => Stream!Clock!Init
  BY DEF PartsInit
<1>2. part = "clock" /\ [PartsNext]_all => (part = "clock")' /\ [Stream!Clock!Next]_(Stream!Clock!vars)
  BY DEF PartsNext, ClockNext, all, clock, Stream!Clock!vars
<1>3. ~(part = "clock") /\ [PartsNext]_all => (~(part = "clock"))'
  BY DEF PartsNext, all
<1> QED BY <1>1, <1>2, <1>3, PTL DEF PartsSpec, all, Stream!Clock!Spec

\* SoundIsInTime: timestamps increase, sound is heard when it was presented and not before the video starts,
\* and every sample that PipeWire handed over since is in its place.
THEOREM SoundIsAlwaysInTime == PartsSpec => []SoundIsInTime
<1>1. Stream!ClockConstants
  BY PartsConstants DEF PartsConstants
<1>2. /\ Stream!Clock!PtsIncrease /\ Stream!Clock!NewestSampleIsOnTime
      /\ Stream!Clock!SoundStartsWithTheVideo /\ Stream!Clock!SamplesAreConsecutive
      => SoundIsInTime
  BY DEF SoundIsInTime
<1>3. ~(part = "clock") => SoundIsInTime
  BY DEF SoundIsInTime
<1> QED BY <1>1, <1>2, <1>3, Stream!SoundIsAlwaysInTime, ClockOfAPart, PTL

-----------------------------------------------------------------------------
(* The conversion of images                                                *)

LEMMA RotationOfAPart == PartsSpec => Rotate!Spec
<1>1. PartsInit => Rotate!Init
  BY DEF PartsInit
<1>2. [PartsNext]_all => [Rotate!Next]_(Rotate!vars)
  BY DEF PartsNext, RotationNext, all, conversion, rotation, Rotate!vars
<1> QED BY <1>1, <1>2, PTL DEF PartsSpec, all, Rotate!Spec

\* EveryStoreIsRight: whatever an image's size, its pixels come to lie in their planes where the reference has them.
THEOREM EveryStoreIsAlwaysRight == PartsSpec => []EveryStoreIsRight
<1>1. Rotate!ImagesAssumption /\ Rotate!PaddingAssumption
  BY PartsConstants DEF PartsConstants
<1>2. Rotate!EveryStoreIsRight => EveryStoreIsRight
  BY DEF EveryStoreIsRight
<1> QED BY <1>1, <1>2, RotationOfAPart, Rotate!StoresAreAlwaysRight, PTL

\* ImagesAreWhole: nothing outside an image is read, nothing of the output is left unwritten, and whether it is
\* converted does not depend on the CPU.
THEOREM ImagesAreAlwaysWhole == PartsSpec => []ImagesAreWhole
<1>1. Rotate!ImagesAssumption /\ Rotate!PaddingAssumption
  BY PartsConstants DEF PartsConstants
<1>2. Rotate!ReadsStayInside /\ Rotate!NothingIsLeftOut /\ Rotate!CpuDoesNotDecide => ImagesAreWhole
  BY DEF ImagesAreWhole
<1> QED
  BY <1>1, <1>2, RotationOfAPart, Rotate!ReadsAlwaysStayInside, Rotate!NothingIsEverLeftOut,
     Rotate!CpuNeverDecides, PTL

-----------------------------------------------------------------------------
(* The seat                                                                *)

LEMMA SeatOfAPart ==
  PartsSpec => ([](part = "selected") /\ SelectedSeat!Spec) \/ ([]~(part = "selected") /\ Seat!Spec)
<1>1. PartsInit => Seat!Init
  BY DEF PartsInit
<1>2. Seat!Init => SelectedSeat!Init
  BY DEF Seat!Init, SelectedSeat!Init, Seat!Idle, SelectedSeat!Idle
<1>3. part = "selected" /\ [PartsNext]_all => (part = "selected")' /\ [SelectedSeat!Next]_(SelectedSeat!vars)
  BY DEF PartsNext, SeatNext, all, seat, SelectedSeat!vars
<1>4. ~(part = "selected") /\ [PartsNext]_all => (~(part = "selected"))' /\ [Seat!Next]_(Seat!vars)
  BY DEF PartsNext, SeatNext, all, seat, Seat!vars
<1> QED BY <1>1, <1>2, <1>3, <1>4, PTL DEF PartsSpec, all, SelectedSeat!Spec, Seat!Spec

\* ActiveIsPointedAt: keys act on the output the pointer is inside of, or on the one with the keyboard when it is
\* on none, after any enters, leaves and motions.
THEOREM KeysActOnThePointedOutput == PartsSpec => []ActiveIsPointedAt
<1>1. (part = "selected" => SelectedSeat!ActiveIsPointedAt) /\ (~(part = "selected") => Seat!ActiveIsPointedAt)
        => ActiveIsPointedAt
  BY DEF ActiveIsPointedAt
<1> QED BY <1>1, SeatOfAPart, SelectedSeat!SeatFollowsThePointer, Seat!SeatFollowsThePointer, PTL

\* RecordingKeepsItsChoice: a recording has the audio choice of its key press, however long the UI kept it waiting.
THEOREM ChoiceIsAlwaysKept == PartsSpec => []RecordingKeepsItsChoice
<1>1. SelectedSeat!RecordingKeepsItsChoice => RecordingKeepsItsChoice
  BY DEF RecordingKeepsItsChoice, SelectedSeat!RecordingKeepsItsChoice, Seat!RecordingKeepsItsChoice,
         SelectedSeat!Capturing, Seat!Capturing
<1>2. Seat!RecordingKeepsItsChoice => RecordingKeepsItsChoice
  BY DEF RecordingKeepsItsChoice
<1> QED BY <1>1, <1>2, SeatOfAPart, SelectedSeat!RecordingsKeepTheirChoice, Seat!RecordingsKeepTheirChoice, PTL

\* ShiftTurnsAudioOffAtOnce: where no recording waits for the UI, Shift at its key press is what turns its audio off,
\* and the modifier is down on the active output alone.
THEOREM ShiftAlwaysActsAtOnce == PartsSpec => []ShiftTurnsAudioOffAtOnce
<1>1. SelectedSeat!SeatOutputs /\ Selected = Outputs
  BY PartsConstants DEF PartsConstants, SelectedSeat!SeatOutputs, Seat!SeatOutputs
<1>2. (part = "selected" /\ (SelectedSeat!SeatOutputs /\ Selected = Outputs
        => SelectedSeat!ShiftTurnsAudioOff /\ SelectedSeat!ModifierFollowsFocus)) => ShiftTurnsAudioOffAtOnce
  BY <1>1 DEF ShiftTurnsAudioOffAtOnce
<1>3. ~(part = "selected") => ShiftTurnsAudioOffAtOnce
  BY DEF ShiftTurnsAudioOffAtOnce
<1> QED BY <1>2, <1>3, SeatOfAPart, SelectedSeat!ShiftActsAtOnce, PTL

\* OneEscapeKeepsTheSession: while an output records, no single Escape ends the session when the seat acts on none.
THEOREM EscapeAlwaysWarnsFirst == PartsSpec => OneEscapeKeepsTheSession
<1>1. [running /\ ~running' /\ active = None /\ (\E o \in Outputs : SelectedSeat!Capturing(o))
         => escaped]_(SelectedSeat!vars)
        => [running /\ ~running' /\ active = None /\ (\E o \in Outputs : Seat!Capturing(o)) => escaped]_(Seat!vars)
  BY DEF SelectedSeat!Capturing, Seat!Capturing, SelectedSeat!vars, Seat!vars
<1> QED
  BY <1>1, SeatOfAPart, SelectedSeat!EscapeWarnsFirst, Seat!EscapeWarnsFirst, PTL
  DEF OneEscapeKeepsTheSession, SelectedSeat!OneEscapeKeepsTheSession, Seat!OneEscapeKeepsTheSession

-----------------------------------------------------------------------------
(* The tray icon                                                           *)

LEMMA TrayOfAPart ==
  PartsSpec =>
    \/ [](part = "late") /\ LateTray!Init /\ [][LateTray!Next]_(LateTray!vars)
    \/ []~(part = "late") /\ Tray!Init /\ [][Tray!Next]_(Tray!vars)
<1>1. (PartsInit /\ part = "late" => LateTray!Init) /\ (PartsInit /\ ~(part = "late") => Tray!Init)
  BY DEF PartsInit
<1>2. part = "late" /\ [PartsNext]_all => (part = "late")' /\ [LateTray!Next]_(LateTray!vars)
  BY DEF PartsNext, TrayNext, all, tray, LateTray!vars
<1>3. ~(part = "late") /\ [PartsNext]_all => (~(part = "late"))' /\ [Tray!Next]_(Tray!vars)
  BY DEF PartsNext, TrayNext, all, tray, Tray!vars
<1> QED BY <1>1, <1>2, <1>3, PTL DEF PartsSpec, all

\* IconIsShown: whatever watchers come, go, hand over, answer late or refuse, scran takes its icon for registered if
\* and only if there is a watcher that has it; and with timeouts, which end that, a watcher that has the item still
\* shows the icon of what scran does, and replies find scran owning its name.
THEOREM IconIsAlwaysShown == PartsSpec => []IconIsShown
<1>1. part = "late"
        /\ (LateTray!TrayBounds => LateTray!IconIsCurrent) /\ (LateTray!TrayBounds => LateTray!RepliesFindTheName)
        => IconIsShown
  BY PartsConstants DEF PartsConstants, IconIsShown
<1>2. ~(part = "late") /\ (Tray!TrayBounds /\ ~FALSE => Tray!RegisteredIsShown) => IconIsShown
  BY PartsConstants DEF PartsConstants, IconIsShown
<1> QED
  BY <1>1, <1>2, TrayOfAPart, LateTray!IconIsAlwaysCurrent, LateTray!RepliesAlwaysFindTheName,
     Tray!RegistrationIsAlwaysShown, PTL

-----------------------------------------------------------------------------
(* The notifications                                                       *)

LEMMA NotificationsOfAPart ==
  PartsSpec => ([](part = "handover") /\ HandedOver!Spec) \/ ([]~(part = "handover") /\ Notify!Spec)
<1>1. PartsInit => Notify!Init
  BY DEF PartsInit
<1>2. Notify!Init => HandedOver!Init
  BY DEF Notify!Init, HandedOver!Init, Notify!Nobody, HandedOver!Nobody, Notify!Awaited, HandedOver!Awaited,
         Notify!NoFile, HandedOver!NoFile
<1>3. part = "handover" /\ [PartsNext]_all => (part = "handover")' /\ [HandedOver!Next]_(HandedOver!vars)
  BY DEF PartsNext, NotificationsNext, all, notifications, HandedOver!vars
<1>4. ~(part = "handover") /\ [PartsNext]_all => (~(part = "handover"))' /\ [Notify!Next]_(Notify!vars)
  BY DEF PartsNext, NotificationsNext, all, notifications, Notify!vars
<1> QED BY <1>1, <1>2, <1>3, <1>4, PTL DEF PartsSpec, all, HandedOver!Spec, Notify!Spec

\* ClickOpensItsFile: whatever servers restart, hand over and number alike, a click opens the file of its
\* notification or nothing.
THEOREM ClickAlwaysOpensItsFile == PartsSpec => []ClickOpensItsFile
<1>1. (HandedOver!NotificationBounds => HandedOver!ClickOpensItsFile) => ClickOpensItsFile
  BY PartsConstants DEF PartsConstants, ClickOpensItsFile, HandedOver!ClickOpensItsFile, Notify!ClickOpensItsFile
<1>2. (Notify!NotificationBounds => Notify!ClickOpensItsFile) => ClickOpensItsFile
  BY PartsConstants DEF PartsConstants, ClickOpensItsFile
<1> QED
  BY <1>1, <1>2, NotificationsOfAPart, HandedOver!ClicksAlwaysOpenTheirFile, Notify!ClicksAlwaysOpenTheirFile, PTL

\* OpenOnesAreStored: only overtaken notifications of scran's own are closed; and where a server lives until it
\* loses its name, what is on the screen when nothing is on its way opens its file.
THEOREM OpenNotificationsAreStored == PartsSpec => []OpenOnesAreStored
<1>1. part = "handover" /\ (HandedOver!NotificationBounds => HandedOver!ClosesOnlyOvertaken) => OpenOnesAreStored
  BY PartsConstants DEF PartsConstants, OpenOnesAreStored, HandedOver!ClosesOnlyOvertaken, Notify!ClosesOnlyOvertaken,
                        HandedOver!Foreign, Notify!Foreign, HandedOver!ToSet, Notify!ToSet
<1>2. /\ Notify!NotificationBounds => Notify!ClosesOnlyOvertaken
      /\ Notify!NotificationBounds /\ ~FALSE => Notify!OpenOnesAreStored
      => OpenOnesAreStored
  BY PartsConstants DEF PartsConstants, OpenOnesAreStored
<1> QED
  BY <1>1, <1>2, NotificationsOfAPart, HandedOver!OnlyOvertakenOnesAreClosed, Notify!OnlyOvertakenOnesAreClosed,
     Notify!OpenOnesAreAlwaysStored, PTL
=============================================================================

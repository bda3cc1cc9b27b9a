---------------------------- MODULE Scran_proofs ----------------------------
(***************************************************************************)
(* Theorems about scran, for every set of outputs and every value of the   *)
(* options.                                                                *)
(*                                                                         *)
(* First come lemmas about the operators of SelectionSurface,              *)
(* OutputCapture and Capture: what each returns is an output or a state    *)
(* again, is related to what it was given as a step of scran may relate    *)
(* them, and is sound if that was, with no assertion failed.  Then come    *)
(* the steps.  Every step of scran obeys what a step may do to the state   *)
(* (NextSteps), and keeps a sound state sound (NextIsSound); the theorems  *)
(* follow from that.  The proof about the buttons goes through the         *)
(* functions once more, for the two things they may do to a gesture.       *)
(***************************************************************************)
EXTENDS ScranInvariants, SequenceTheorems, FiniteSetTheorems, TLAPS

(* The selection surface                                                   *)

LEMMA KeepsTransitive ==
  ASSUME NEW a, NEW b, NEW c, Keeps(a, b), Keeps(b, c)
  PROVE  Keeps(a, c)
  BY DEF Keeps

LEMMA ArmFrameCallbackKeeps ==
  ASSUME NEW surface \in Surface
  PROVE  Keeps(surface, ArmFrameCallback(surface))
  BY DEF ArmFrameCallback, Keeps, Covered, Surface

\* A surface that is disabled is not drawn, so it stays covered.
LEMMA DrawAndCommitKeeps ==
  ASSUME NEW surface \in Surface, NEW ui \in BOOLEAN
  PROVE  Keeps(surface, DrawAndCommit(surface, ui))
<1> DEFINE drawn == [surface EXCEPT
                       !.buffers[FreeBuffer(surface)] = [busy |-> TRUE, drew_ui |-> ui],
                       !.single_pixel = FALSE,
                       !.feedback = Append(@, [buffer |-> FreeBuffer(surface), ui |-> ui])]
<1>1. FreeBuffer(surface) \in Buffers
  BY DEF FreeBuffer, Buffers
<1>2. [buffer |-> FreeBuffer(surface), ui |-> ui] \in Feedback
  BY <1>1 DEF Feedback
<1>3. Append(surface.feedback, [buffer |-> FreeBuffer(surface), ui |-> ui]) \in Seq(Feedback)
  BY <1>2 DEF Surface
<1>4. drawn \in Surface
  BY <1>1, <1>3 DEF Surface
<1>5. DrawAndCommit(surface, ui) \in
        IF surface.disabled # {} THEN {surface} ELSE {ArmFrameCallback(surface), drawn}
  BY DEF DrawAndCommit
<1> HIDE DEF drawn
<1> QED BY <1>4, <1>5, ArmFrameCallbackKeeps DEF Keeps, Covered

LEMMA HideTypes ==
  ASSUME NEW surface \in Surface, NEW ui \in BOOLEAN
  PROVE  /\ AcquireHide(surface) \in Surface /\ Covered(AcquireHide(surface))
         /\ ReleaseHide(surface, ui) \in Surface
         /\ Keeps(surface, FuseOff(surface))
<1>1. AcquireHide(surface) \in Surface /\ Covered(AcquireHide(surface))
  <2>1. HideFeedback \in Feedback
    BY DEF HideFeedback, Feedback
  <2>2. Append(surface.feedback, HideFeedback) \in Seq(Feedback)
    BY <2>1 DEF Surface
  <2> QED BY <2>2 DEF AcquireHide, Surface, DisableReasons, Covered
<1>2. ReleaseHide(surface, ui) \in Surface
  BY DrawAndCommitKeeps DEF Surface, ReleaseHide, Keeps
<1>3. Keeps(surface, FuseOff(surface))
  BY DEF FuseOff, Surface, DisableReasons, Keeps, Covered
<1> QED BY <1>1, <1>2, <1>3

LEMMA FrameCallbackDoneKeeps ==
  ASSUME NEW surface \in Surface, NEW ui \in BOOLEAN
  PROVE  Keeps(surface, FrameCallbackDone(surface, ui))
<1> DEFINE answered == [surface EXCEPT !.awaiting_frame = FALSE]
<1>1. Keeps(surface, answered)
  BY DEF Surface, Keeps, Covered
<1> HIDE DEF answered
<1>2. Keeps(answered, DrawAndCommit(answered, ui))
  BY <1>1, DrawAndCommitKeeps DEF Keeps
<1>3. Keeps(surface, DrawAndCommit(answered, ui))
  BY <1>1, <1>2, KeepsTransitive
<1> QED BY <1>3 DEF FrameCallbackDone, answered

LEMMA BufferReleasedKeeps ==
  ASSUME NEW surface \in Surface, NEW b \in Buffers
  PROVE  Keeps(surface, BufferReleased(surface, b))
  BY DEF BufferReleased, Surface, Keeps, Covered

LEMMA FeedbackDoneKeeps ==
  ASSUME NEW surface \in Surface, surface.feedback # << >>
  PROVE  Keeps(surface, FeedbackDone(surface))
  BY HeadTailProperties DEF Surface, FeedbackDone, Keeps, Covered

LEMMA InitContentKeeps ==
  ASSUME NEW surface \in Surface
  PROVE  Keeps(surface, InitContent(surface))
<1> DEFINE drawn == [surface EXCEPT
                      !.buffers = [c \in Buffers |-> [busy |-> c = 1, drew_ui |-> FALSE]]]
<1>1. Keeps(surface, drawn)
  BY DEF Surface, Keeps, Covered
<1> HIDE DEF drawn
<1>2. Keeps(drawn, ArmFrameCallback(drawn))
  BY <1>1, ArmFrameCallbackKeeps DEF Keeps
<1>3. Keeps(surface, ArmFrameCallback(drawn))
  BY <1>1, <1>2, KeepsTransitive
<1> QED BY <1>3 DEF InitContent, drawn

(* An output                                                               *)

LEMMA FollowsReflexive ==
  ASSUME NEW x \in Output
  PROVE  Follows(x, x)
  BY DEF Follows

LEMMA FollowsTransitive ==
  ASSUME NEW x, NEW y, NEW z, Follows(x, y), Follows(y, z)
  PROVE  Follows(x, z)
  BY DEF Follows

LEMMA CheckFollows ==
  ASSUME NEW x \in Output, NEW condition, NEW where \in Assertions
  PROVE  Follows(x, Check(x, condition, where))
  BY DEF Check, Follows, Output, AllConsumers, UiIsGone, UiIsChanging

LEMMA SurfaceFollows ==
  ASSUME NEW x \in Output, NEW surface, Keeps(x.surface, surface)
  PROVE  Follows(x, [x EXCEPT !.surface = surface])
  BY DEF Keeps, Follows, Output, AllConsumers, UiIsGone, UiIsChanging

LEMMA FieldsFollow ==
  ASSUME NEW x \in Output
  PROVE  /\ \A stage \in VideoStages : Follows(x, [x EXCEPT !.video_stage = stage])
         /\ \A state \in SelectionStates : Follows(x, [x EXCEPT !.selection = state])
         /\ \A after \in BOOLEAN : Follows(x, [x EXCEPT !.exit_after = after])
         /\ \A frozen \in BOOLEAN : Follows(x, [x EXCEPT !.size_is_frozen = frozen])
         /\ \A inside \in BOOLEAN : Follows(x, [x EXCEPT !.ui_inside = inside])
         /\ \A frame \in FrameContext : Follows(x, [x EXCEPT !.frame = frame])
         /\ \A freezeframe \in Freezeframe : Follows(x, [x EXCEPT !.freezeframe = freezeframe])
  BY DEF Follows, Output, AllConsumers, UiIsGone, UiIsChanging

LEMMA CapturesFollow ==
  ASSUME NEW x \in Output
  PROVE  /\ Follows(x, [x EXCEPT !.captures = @ + 1])
         /\ Follows(x, [x EXCEPT !.captures = @ - 1])
  BY DEF Output, Follows, AllConsumers, UiIsGone, UiIsChanging

LEMMA DrawsFullscreenCaptureType ==
  ASSUME NEW x
  PROVE  DrawsFullscreenCapture(x) \in BOOLEAN
  BY DEF DrawsFullscreenCapture

LEMMA DrawingFollows ==
  ASSUME NEW x \in Output
  PROVE  /\ Follows(x, Redraw(x))
         /\ Follows(x, RequestFrameCallback(x))
<1>1. x.surface \in Surface
  BY DEF Output
<1>2. Follows(x, Redraw(x))
  BY <1>1, DrawAndCommitKeeps, DrawsFullscreenCaptureType, SurfaceFollows DEF Redraw
<1>3. Follows(x, RequestFrameCallback(x))
  BY <1>1, ArmFrameCallbackKeeps, SurfaceFollows DEF RequestFrameCallback
<1> QED BY <1>2, <1>3

LEMMA RequestFrameFollows ==
  ASSUME NEW x \in Output, NEW consumers \in SUBSET {"IMAGE", "VIDEO"}
  PROVE  /\ Follows(x, RequestFrame(x, consumers))
         /\ Follows(x, RequestFrameForced(x, consumers))
<1> DEFINE requested == RequestFrame(x, consumers)
<1>1. Follows(x, requested)
  BY DEF Follows, RequestFrame, Output, FrameContext, AllConsumers, UiIsGone, UiIsChanging
<1>2. Follows(requested, RequestFrameForced(x, consumers))
  <2> HIDE DEF requested
  <2>1. Follows(requested, [requested EXCEPT !.frame.forced = TRUE])
    BY <1>1 DEF Follows, Output, FrameContext, AllConsumers, UiIsGone, UiIsChanging
  <2> QED BY <2>1 DEF RequestFrameForced, requested
<1> HIDE DEF requested
<1>3. Follows(x, RequestFrameForced(x, consumers))
  BY <1>1, <1>2, FollowsTransitive
<1> QED BY <1>1, <1>3 DEF requested

LEMMA DestroyFrameFollows ==
  ASSUME NEW x \in Output, NEW where \in Assertions
  PROVE  Follows(x, DestroyFrame(x, where))
<1> DEFINE y == Check(x, x.frame.in_flight, where)
<1>1. Follows(x, y)
  BY CheckFollows
<1> HIDE DEF y
<1>2. Follows(y, [y EXCEPT !.frame.in_flight = FALSE])
  BY <1>1 DEF Follows, Output, FrameContext, AllConsumers, UiIsGone, UiIsChanging
<1>3. Follows(x, [y EXCEPT !.frame.in_flight = FALSE])
  BY <1>1, <1>2, FollowsTransitive
<1> QED BY <1>3 DEF DestroyFrame, y

LEMMA VideoRequestStopFollows ==
  ASSUME NEW x \in Output
  PROVE  Follows(x, VideoRequestStop(x))
<1> DEFINE y == [x EXCEPT !.video_stage = "STOP_REQUESTED"]
           z == DestroyFrame(y, "capture.c:515")
<1>1. Follows(x, y)
  BY FieldsFollow DEF VideoStages
<1>2. VideoRequestStop(x) \in {x, RequestFrameForced(z, {"VIDEO"})}
  BY DEF VideoRequestStop
<1> HIDE DEF y
<1>3. Follows(y, z)
  BY <1>1, DestroyFrameFollows DEF Follows, Assertions
<1> HIDE DEF z
<1>4. Follows(z, RequestFrameForced(z, {"VIDEO"}))
  BY <1>3, RequestFrameFollows DEF Follows
<1>5. Follows(x, RequestFrameForced(z, {"VIDEO"}))
  BY <1>1, <1>3, <1>4, FollowsTransitive
<1> QED BY <1>2, <1>5, FollowsReflexive

LEMMA SyncCursorCaptureFollows ==
  ASSUME NEW x \in Output, NEW shown \in BOOLEAN
  PROVE  Follows(x, SyncCursorCapture(x, shown))
<1> DEFINE session == IF shown THEN "DEFAULT" ELSE "WITH_CURSOR"
           switch(y) == [y EXCEPT !.frame.session = session, !.frame.switched = TRUE]
           d == DestroyFrame(x, "capture.h:293")
           asked == RequestFrameForced(switch(d), x.frame.consumers)
<1>1. \A y \in Output : Follows(y, switch(y))
  BY ZenonT(30) DEF Follows, Output, FrameContext, AllConsumers, UiIsGone, UiIsChanging
<1>2. Follows(x, d)
  BY DestroyFrameFollows DEF Assertions
<1>3. SyncCursorCapture(x, shown) \in {x, switch(x), asked}
  BY DEF SyncCursorCapture
<1>4. x.frame.consumers \in SUBSET {"IMAGE", "VIDEO"}
  BY DEF Output, FrameContext
<1> HIDE DEF d, switch
<1>5. Follows(d, switch(d))
  BY <1>1, <1>2 DEF Follows
<1>6. Follows(switch(d), asked)
  BY <1>4, <1>5, RequestFrameFollows DEF Follows
<1> HIDE DEF asked
<1>7. Follows(x, asked)
  BY <1>2, <1>5, <1>6, FollowsTransitive
<1> QED BY <1>1, <1>3, <1>7, FollowsReflexive

(* The capture UI                                                          *)

\* A hide covers the surface before it counts as pending.
LEMMA AcquireUiHideFollows ==
  ASSUME NEW x \in Output, UiShouldBeHidden(x), x.ui \in {"NONE", "SHOWN"}
  PROVE  Follows(x, AcquireUiHide(x)) /\ UiIsChanging(AcquireUiHide(x))
  BY HideTypes
     DEF Output, AcquireUiHide, Follows, FullscreenUiStates, AllConsumers, UiIsGone,
         UiIsChanging

\* A hide is only released where no consumer forbids the UI.
LEMMA ReleaseUiHideFollows ==
  ASSUME NEW x \in Output, ~UiShouldBeHidden(x)
  PROVE  Follows(x, ReleaseUiHide(x)) /\ UiIsChanging(ReleaseUiHide(x))
<1> DEFINE next    == IF AllConsumers(x) # {} THEN "SHOW_PENDING" ELSE "NONE"
           y       == Check(x, ReleaseHideAssertion(x.surface), "selection.c:100")
           surface == ReleaseHide(y.surface, next = "SHOW_PENDING")
           z       == [y EXCEPT !.ui = next, !.surface = surface]
<1>1. Follows(x, y) /\ y.active = x.active /\ y.awaiting_ui = x.awaiting_ui
  BY CheckFollows DEF Assertions, Check, Output
<1>2. surface \in Surface
  BY <1>1, HideTypes DEF Follows, Output
<1>3. x.active \cap {"IMAGE", "FREEZEFRAME"} = {}
  BY DEF UiShouldBeHidden, ConsumersAllowUi, AllConsumers, Output
<1>4. next \in {"SHOW_PENDING", "NONE"} /\ (x.awaiting_ui # {} => next = "SHOW_PENDING")
  BY DEF AllConsumers
<1>5. ReleaseUiHide(x) = z
  BY DEF ReleaseUiHide
<1> HIDE DEF next, y, surface
<1>6. /\ z \in Output /\ z.awaiting_ui = x.awaiting_ui
      /\ AllConsumers(z) = AllConsumers(x) /\ UiIsGone(z) /\ UiIsChanging(z)
  BY <1>1, <1>2, <1>3, <1>4
     DEF Follows, Output, FullscreenUiStates, AllConsumers, UiIsGone, UiIsChanging
<1> QED BY <1>5, <1>6 DEF Follows

LEMMA RedrawnFollows ==
  ASSUME NEW x \in Output, x.ui \in {"NONE", "SHOWN"},
         NEW state \in {"NONE", "SHOW_PENDING"}, x.awaiting_ui = {} \/ state = "SHOW_PENDING"
  PROVE  /\ Follows(x, Redraw([x EXCEPT !.ui = state]))
         /\ UiIsChanging(Redraw([x EXCEPT !.ui = state]))
<1> DEFINE y == [x EXCEPT !.ui = state]
<1>1. Follows(x, y) /\ UiIsChanging(y)
  BY DEF Follows, Output, FullscreenUiStates, AllConsumers, UiIsGone, UiIsChanging
<1> HIDE DEF y
<1>2. Follows(y, Redraw(y))
  BY <1>1, DrawingFollows DEF Follows
<1>3. Follows(x, Redraw(y)) /\ UiIsChanging(Redraw(y))
  BY <1>1, <1>2, FollowsTransitive DEF Follows
<1> QED BY <1>3 DEF y

\* Where the UI is not settled for the consumers there are, it is made to change.
LEMMA SyncUiFollows ==
  ASSUME NEW x \in Output
  PROVE  /\ Follows(x, SyncUi(x))
         /\ ~UiSettled(x) => UiIsChanging(SyncUi(x))
<1>1. CASE x.ui \in {"NONE", "SHOWN"} /\ UiShouldBeHidden(x)
  <2> AllConsumers(x) # {}
    BY <1>1 DEF UiShouldBeHidden
  <2>1. SyncUi(x) = AcquireUiHide(x)
    BY <1>1 DEF SyncUi
  <2>2. Follows(x, AcquireUiHide(x)) /\ UiIsChanging(AcquireUiHide(x))
    BY <1>1, AcquireUiHideFollows
  <2> QED BY <2>1, <2>2
<1>2. CASE x.ui = "NONE" /\ AllConsumers(x) # {} /\ ~UiShouldBeHidden(x)
  BY <1>2, RedrawnFollows DEF SyncUi
<1>3. CASE x.ui = "SHOWN" /\ AllConsumers(x) = {}
  BY <1>3, RedrawnFollows DEF UiShouldBeHidden, AllConsumers, SyncUi
<1>4. CASE x.ui = "HIDDEN" /\ ~UiShouldBeHidden(x)
  BY <1>4, ReleaseUiHideFollows DEF SyncUi
<1>5. CASE /\ ~(x.ui \in {"NONE", "SHOWN"} /\ UiShouldBeHidden(x))
           /\ ~(x.ui = "NONE" /\ AllConsumers(x) # {} /\ ~UiShouldBeHidden(x))
           /\ ~(x.ui = "SHOWN" /\ AllConsumers(x) = {})
           /\ ~(x.ui = "HIDDEN" /\ ~UiShouldBeHidden(x))
  BY <1>5, FollowsReflexive
     DEF SyncUi, UiSettled, UiIsChanging, AllConsumers, Output, FullscreenUiStates
<1> QED BY <1>1, <1>2, <1>3, <1>4, <1>5

LEMMA EndConsumersFollows ==
  ASSUME NEW x \in Output, NEW finished
  PROVE  Follows(x, EndConsumers(x, finished))
<1> DEFINE y == [x EXCEPT !.active = @ \ finished]
<1>1. Follows(x, y)
  BY DEF Follows, Output, AllConsumers, UiIsGone, UiIsChanging
<1>2. EndConsumers(x, finished) \in {y, [y EXCEPT !.captures = @ - 1]}
  BY DEF EndConsumers
<1> HIDE DEF y
<1>3. Follows(y, [y EXCEPT !.captures = @ - 1])
  BY <1>1, CapturesFollow DEF Follows
<1> QED BY <1>1, <1>2, <1>3, FollowsTransitive

LEMMA EndFollows ==
  ASSUME NEW x \in Output, NEW finished
  PROVE  Follows(x, EndWithNoneAwaiting(x, finished))
  BY EndConsumersFollows, SyncUiFollows, FollowsTransitive
     DEF Follows, EndWithNoneAwaiting

(* The freezeframe, and exit                                               *)

LEMMA FreezeframeFollows ==
  ASSUME NEW x \in Output
  PROVE  /\ Follows(x, FreezeframeCaptureStart(x))
         /\ Follows(x, FreezeframeHide(x))
<1>1. Follows(x, FreezeframeCaptureStart(x))
  <2> DEFINE y == [x EXCEPT !.freezeframe.stage = "CAPTURING"]
  <2>1. Follows(x, y)
    BY DEF Follows, Output, Freezeframe, FreezeframeStages, AllConsumers, UiIsGone, UiIsChanging
  <2> DEFINE waiting  == [y EXCEPT !.freezeframe.capture_waiting = TRUE]
             captures == [y EXCEPT !.freezeframe.in_flight = TRUE]
  <2>2. FreezeframeCaptureStart(x) \in {waiting, captures}
    BY DEF FreezeframeCaptureStart
  <2> HIDE DEF y
  <2>3. Follows(y, waiting) /\ Follows(y, captures)
    BY <2>1 DEF Follows, Output, Freezeframe, AllConsumers, UiIsGone, UiIsChanging
  <2> HIDE DEF waiting, captures
  <2> QED BY <2>1, <2>2, <2>3, FollowsTransitive
<1>2. Follows(x, FreezeframeHide(x))
  <2> DEFINE y == [x EXCEPT !.freezeframe.showing = FALSE]
  <2>1. Follows(x, y)
    BY DEF Follows, Output, Freezeframe, AllConsumers, UiIsGone, UiIsChanging
  <2>2. FreezeframeHide(x) \in {x, RequestFrameCallback(y)}
    BY DEF FreezeframeHide
  <2> HIDE DEF y
  <2>3. Follows(y, RequestFrameCallback(y))
    BY <2>1, DrawingFollows DEF Follows
  <2>4. Follows(x, RequestFrameCallback(y))
    BY <2>1, <2>3, FollowsTransitive
  <2> QED BY <2>2, <2>4, FollowsReflexive
<1> QED BY <1>1, <1>2

\* A freezeframe joins the consumers, unless exit was requested, and keeps them off
\* the UI.
LEMMA FreezeframeRefreshFollows ==
  ASSUME NEW x \in Output, NEW exit_requested \in BOOLEAN
  PROVE  LET y == FreezeframeRefresh(x, exit_requested)
         IN /\ y \in Output
            /\ exit_requested => Follows(x, y)
            /\ UiIsGone(x) => UiIsGone(y)
            /\ UiIsChanging(x) => UiIsChanging(y)
<1> DEFINE hidden  == FreezeframeHide(x)
           n       == IF AllConsumers(x) = {} THEN hidden.captures + 1 ELSE hidden.captures
           waiting == [hidden EXCEPT
                         !.freezeframe.stage = "REFRESHING",
                         !.captures = IF AllConsumers(x) = {} THEN @ + 1 ELSE @,
                         !.awaiting_ui = @ \cup {"FREEZEFRAME"}]
           checked == Check(waiting, x.awaiting_ui = {}, "dispatch of others")
           begun   == [checked EXCEPT !.awaiting_ui = {}, !.active = @ \cup {"FREEZEFRAME"}]
           started == FreezeframeCaptureStart(begun)
           y       == FreezeframeRefresh(x, exit_requested)
<1>1. Follows(x, hidden)
  BY FreezeframeFollows
<1>2. \/ y = hidden
      \/ ~exit_requested /\ ~UiSettled(waiting) /\ y = SyncUi(waiting)
      \/ ~exit_requested /\ UiSettled(waiting) /\ y = started
  BY DEF FreezeframeRefresh
<1>3. /\ waiting \in Output
      /\ UiIsGone(hidden) => UiIsGone(waiting)
      /\ "FREEZEFRAME" \in waiting.awaiting_ui
  <2>1. hidden \in Output
    BY <1>1 DEF Follows
  <2>2. n \in Int
    BY <2>1 DEF Output
  <2> HIDE DEF hidden, n
  <2> DEFINE w == [hidden EXCEPT !.freezeframe.stage = "REFRESHING", !.captures = n,
                                 !.awaiting_ui = @ \cup {"FREEZEFRAME"}]
  <2>3. /\ w \in Output
        /\ UiIsGone(hidden) => UiIsGone(w)
        /\ "FREEZEFRAME" \in w.awaiting_ui
    BY <2>1, <2>2 DEF Output, Freezeframe, FreezeframeStages, Consumers, UiIsGone
  <2> QED BY <2>3 DEF n
<1> HIDE DEF hidden, waiting
<1>4. ASSUME ~UiSettled(waiting)
      PROVE  /\ SyncUi(waiting) \in Output
             /\ UiIsGone(waiting) => UiIsGone(SyncUi(waiting))
             /\ UiIsChanging(SyncUi(waiting))
  BY <1>3, <1>4, SyncUiFollows DEF Follows
<1>5. ASSUME UiSettled(waiting)
      PROVE  /\ started \in Output
             /\ UiIsGone(waiting) => UiIsGone(started)
             /\ UiIsChanging(started)
  <2>1. checked \in Output /\ checked.ui = waiting.ui /\ checked.surface = waiting.surface
    <3>1. Follows(waiting, checked)
      BY <1>3, CheckFollows DEF Assertions
    <3> QED BY <1>3, <3>1 DEF Follows, Check, Output
  <2>2. waiting.ui = "HIDDEN"
    BY <1>3, <1>5 DEF UiSettled, UiShouldBeHidden, ConsumersAllowUi, AllConsumers
  <2> HIDE DEF checked
  <2>3. begun \in Output /\ (UiIsGone(waiting) => UiIsGone(begun)) /\ UiIsChanging(begun)
    BY <2>1, <2>2 DEF Output, Consumers, UiIsGone, UiIsChanging
  <2> HIDE DEF begun
  <2>4. Follows(begun, started)
    BY <2>3, FreezeframeFollows
  <2> QED BY <2>3, <2>4 DEF Follows
<1> HIDE DEF started, y
<1>6. /\ y \in Output
      /\ exit_requested => Follows(x, y)
      /\ UiIsGone(x) => UiIsGone(y)
      /\ UiIsChanging(x) => UiIsChanging(y)
  BY <1>1, <1>2, <1>3, <1>4, <1>5 DEF Follows
<1> QED BY <1>6 DEF y

LEMMA RequestExitOnOutputFollows ==
  ASSUME NEW x \in Output
  PROVE  Follows(x, RequestExitOnOutput(x)) /\ RequestExitOnOutput(x).awaiting_ui = {}
<1> DEFINE fused   == [x EXCEPT !.surface = FuseOff(@)]
           given   == [fused EXCEPT !.awaiting_ui = {}]
           ended   == IF x.awaiting_ui = {} THEN fused
                      ELSE EndWithNoneAwaiting(given, x.awaiting_ui)
<1>1. Follows(x, fused)
  BY HideTypes, SurfaceFollows DEF Output
<1>2. RequestExitOnOutput(x) \in {ended, VideoRequestStop(ended)}
  BY DEF RequestExitOnOutput
<1> HIDE DEF fused
<1>3. Follows(fused, given) /\ given.awaiting_ui = {}
  BY <1>1 DEF Follows, Output, AllConsumers, UiIsGone, UiIsChanging
<1> HIDE DEF given
<1>4. Follows(given, EndWithNoneAwaiting(given, x.awaiting_ui))
  BY <1>3, EndFollows DEF Follows
<1>5. Follows(x, ended) /\ ended.awaiting_ui = {}
  BY <1>1, <1>3, <1>4, FollowsTransitive DEF Follows
<1> HIDE DEF ended
<1>6. Follows(ended, VideoRequestStop(ended))
  BY <1>5, VideoRequestStopFollows DEF Follows
<1>7. VideoRequestStop(ended).awaiting_ui = {}
  BY <1>5, <1>6 DEF Follows
<1> QED BY <1>2, <1>5, <1>6, <1>7, FollowsTransitive

(* The hides that the compositor has not answered                          *)

LEMMA AppendedHides ==
  ASSUME NEW q \in Seq(Feedback), NEW e \in Feedback
  PROVE  LET hides(r) == {i \in DOMAIN r : r[i] = HideFeedback}
         IN hides(Append(q, e)) =
              IF e = HideFeedback THEN hides(q) \cup {Len(q) + 1} ELSE hides(q)
<1>1. /\ DOMAIN q = 1..Len(q) /\ Len(q) \in Nat
      /\ DOMAIN Append(q, e) = 1..(Len(q) + 1)
      /\ \A i \in 1..Len(q) : Append(q, e)[i] = q[i]
      /\ Append(q, e)[Len(q) + 1] = e
  BY AppendProperties
<1>2. \A i \in 1..(Len(q) + 1) : i \in 1..Len(q) \/ i = Len(q) + 1
  BY <1>1
<1>3. \A i \in 1..Len(q) : i \in 1..(Len(q) + 1) /\ i # Len(q) + 1
  BY <1>1
<1>4. Len(q) + 1 \in 1..(Len(q) + 1)
  BY <1>1
<1> QED BY <1>1, <1>2, <1>3, <1>4

\* The oldest feedback is gone, and the others have moved up by one.
LEMMA RemainingHides ==
  ASSUME NEW q \in Seq(Feedback), q # << >>
  PROVE  /\ Tail(q) \in Seq(Feedback)
         /\ 1 \in DOMAIN q /\ q[1] = Head(q)
         /\ {i \in DOMAIN Tail(q) : Tail(q)[i] = HideFeedback}
              = {i \in 1..(Len(q) - 1) : q[i + 1] = HideFeedback}
         /\ DOMAIN q = 1..Len(q) /\ Len(q) \in Nat \ {0}
  BY HeadTailProperties, EmptySeq

LEMMA ArmFrameCallbackHides ==
  ASSUME NEW surface \in Surface
  PROVE  /\ SameHides(surface, ArmFrameCallback(surface))
         /\ StaysBusy(surface, ArmFrameCallback(surface))
  BY DEF ArmFrameCallback, SameHides, StaysBusy, BothBusy, HidesPending, Surface

LEMMA DrawAndCommitHides ==
  ASSUME NEW surface \in Surface, NEW ui \in BOOLEAN
  PROVE  /\ SameHides(surface, DrawAndCommit(surface, ui))
         /\ StaysBusy(surface, DrawAndCommit(surface, ui))
<1> DEFINE e == [buffer |-> FreeBuffer(surface), ui |-> ui]
           q == Append(surface.feedback, e)
           buffers == [surface.buffers EXCEPT ![FreeBuffer(surface)] =
                         [busy |-> TRUE, drew_ui |-> ui]]
           drawn == [surface EXCEPT !.buffers = buffers, !.single_pixel = FALSE, !.feedback = q]
<1>1. FreeBuffer(surface) \in Buffers
  BY DEF FreeBuffer, Buffers
<1>2. e \in Feedback /\ e # HideFeedback
  BY <1>1 DEF Feedback, HideFeedback, Buffers
<1>3. surface.feedback \in Seq(Feedback)
  BY DEF Surface
<1> HIDE DEF e
<1>4. {i \in DOMAIN q : q[i] = HideFeedback}
        = {i \in DOMAIN surface.feedback : surface.feedback[i] = HideFeedback}
  BY <1>2, <1>3, AppendedHides
<1> HIDE DEF q, buffers
<1>5. SameHides(surface, drawn)
  BY <1>4 DEF SameHides, HidesPending, Surface
<1>6. DrawAndCommit(surface, ui) = IF surface.disabled # {} THEN surface
                                   ELSE IF BothBusy(surface) THEN ArmFrameCallback(surface)
                                   ELSE drawn
  BY DEF DrawAndCommit, e, q, buffers
<1> HIDE DEF drawn
<1>7. SameHides(surface, surface) /\ StaysBusy(surface, surface)
  BY DEF SameHides, StaysBusy
<1> QED BY <1>5, <1>6, <1>7, ArmFrameCallbackHides DEF StaysBusy

LEMMA AcquireHideHides ==
  ASSUME NEW surface \in Surface
  PROVE  /\ HidesPending(AcquireHide(surface))
              = HidesPending(surface) \cup {Len(surface.feedback) + 1}
         /\ "FULLSCREEN_HIDE" \in AcquireHide(surface).disabled
         /\ StaysBusy(surface, AcquireHide(surface))
<1> DEFINE q == Append(surface.feedback, HideFeedback)
<1>1. surface.feedback \in Seq(Feedback) /\ HideFeedback \in Feedback
  BY DEF Surface, HideFeedback, Feedback
<1>2. {i \in DOMAIN q : q[i] = HideFeedback}
        = {i \in DOMAIN surface.feedback : surface.feedback[i] = HideFeedback}
            \cup {Len(surface.feedback) + 1}
  BY <1>1, AppendedHides
<1>3. AcquireHide(surface) = [surface EXCEPT !.feedback = q,
                                !.disabled = @ \cup {"FULLSCREEN_HIDE"}, !.single_pixel = TRUE]
  BY DEF AcquireHide
<1> HIDE DEF q
<1> QED BY <1>2, <1>3 DEF HidesPending, StaysBusy, BothBusy, Surface

LEMMA ReleaseHideHides ==
  ASSUME NEW surface \in Surface, NEW ui \in BOOLEAN
  PROVE  /\ HidesPending(ReleaseHide(surface, ui)) = HidesPending(surface)
         /\ "FULLSCREEN_HIDE" \notin ReleaseHide(surface, ui).disabled
         /\ StaysBusy(surface, ReleaseHide(surface, ui))
<1> DEFINE released == [surface EXCEPT !.disabled = @ \ {"FULLSCREEN_HIDE"}]
<1>1. /\ released \in Surface
      /\ HidesPending(released) = HidesPending(surface)
      /\ "FULLSCREEN_HIDE" \notin released.disabled
      /\ BothBusy(surface) => BothBusy(released)
  BY DEF Surface, HidesPending, BothBusy
<1>2. ReleaseHide(surface, ui) = DrawAndCommit(released, ui)
  BY DEF ReleaseHide
<1> HIDE DEF released
<1> QED BY <1>1, <1>2, DrawAndCommitHides DEF SameHides, StaysBusy

LEMMA SurfaceEventHides ==
  ASSUME NEW surface \in Surface
  PROVE  /\ SameHides(surface, FuseOff(surface)) /\ StaysBusy(surface, FuseOff(surface))
         /\ \A b \in Buffers : SameHides(surface, BufferReleased(surface, b))
         /\ SameHides(surface, InitContent(surface))
         /\ \A ui \in BOOLEAN : /\ SameHides(surface, FrameCallbackDone(surface, ui))
                                /\ StaysBusy(surface, FrameCallbackDone(surface, ui))
<1>1. SameHides(surface, FuseOff(surface)) /\ StaysBusy(surface, FuseOff(surface))
  BY DEF FuseOff, SameHides, HidesPending, StaysBusy, BothBusy, Surface
<1>2. \A b \in Buffers : SameHides(surface, BufferReleased(surface, b))
  BY DEF BufferReleased, SameHides, HidesPending, Surface
<1>3. SameHides(surface, InitContent(surface))
  <2> DEFINE drawn == [surface EXCEPT
                        !.buffers = [c \in Buffers |-> [busy |-> c = 1, drew_ui |-> FALSE]]]
  <2>1. drawn \in Surface /\ SameHides(surface, drawn)
    BY DEF Surface, SameHides, HidesPending
  <2>2. InitContent(surface) = ArmFrameCallback(drawn)
    BY DEF InitContent
  <2> HIDE DEF drawn
  <2> QED BY <2>1, <2>2, ArmFrameCallbackHides DEF SameHides
<1>4. ASSUME NEW ui \in BOOLEAN
      PROVE  /\ SameHides(surface, FrameCallbackDone(surface, ui))
             /\ StaysBusy(surface, FrameCallbackDone(surface, ui))
  <2> DEFINE answered == [surface EXCEPT !.awaiting_frame = FALSE]
  <2>1. /\ answered \in Surface
        /\ SameHides(surface, answered)
        /\ StaysBusy(surface, answered)
    BY DEF Surface, SameHides, HidesPending, StaysBusy, BothBusy
  <2>2. FrameCallbackDone(surface, ui) = DrawAndCommit(answered, ui)
    BY DEF FrameCallbackDone
  <2> HIDE DEF answered
  <2> QED BY <2>1, <2>2, DrawAndCommitHides DEF SameHides, StaysBusy
<1> QED BY <1>1, <1>2, <1>3, <1>4

(* HideIsAnsweredOnce, of one output                                       *)

\* The answer to a hide makes it none; the answer to a commit leaves the hide pending.
LEMMA FeedbackDoneHides ==
  ASSUME NEW x \in Output, HideIsAnswered(x), x.surface.feedback # << >>
  PROVE  LET done == [x EXCEPT !.surface = FeedbackDone(@)]
         IN /\ Head(x.surface.feedback) = HideFeedback
                 => x.ui = "HIDE_PENDING" /\ HideIsAnswered([done EXCEPT !.ui = "HIDDEN"])
            /\ Head(x.surface.feedback) # HideFeedback => HideIsAnswered(done)
            /\ StaysBusy(x.surface, FeedbackDone(x.surface))
            /\ FeedbackDone(x.surface).disabled = x.surface.disabled
<1> DEFINE q == x.surface.feedback
           rest == {i \in DOMAIN Tail(q) : Tail(q)[i] = HideFeedback}
           hides == {i \in DOMAIN q : q[i] = HideFeedback}
<1>1. x.surface \in Surface /\ q \in Seq(Feedback) /\ q # << >>
  BY DEF Output, Surface
<1>2. /\ 1 \in DOMAIN q /\ q[1] = Head(q)
      /\ rest = {i \in 1..(Len(q) - 1) : q[i + 1] = HideFeedback}
      /\ DOMAIN q = 1..Len(q) /\ Len(q) \in Nat \ {0}
  BY <1>1, RemainingHides
<1>3. hides = HidesPending(x.surface) /\ HidesPending(FeedbackDone(x.surface)) = rest
  BY <1>1 DEF HidesPending, FeedbackDone, Surface
<1>4. \A i \in 1..(Len(q) - 1) : i + 1 \in 1..Len(q) /\ i + 1 # 1
  BY <1>2
<1>5. \A i \in rest : i + 1 \in hides /\ i + 1 # 1
  BY <1>2, <1>4
<1>6. FeedbackDone(x.surface).disabled = x.surface.disabled
  BY <1>1 DEF FeedbackDone, Surface
<1>7. StaysBusy(x.surface, FeedbackDone(x.surface))
  BY <1>1 DEF FeedbackDone, StaysBusy, BothBusy, Surface
<1>8. ASSUME Head(q) = HideFeedback
      PROVE  x.ui = "HIDE_PENDING" /\ rest = {}
  BY <1>2, <1>3, <1>5, <1>8 DEF HideIsAnswered
<1>9. ASSUME Head(q) # HideFeedback, x.ui = "HIDE_PENDING"
      PROVE  \E i : rest = {i}
  <2>1. PICK k : hides = {k}
    BY <1>3, <1>9 DEF HideIsAnswered
  <2>2. k \in 1..Len(q) /\ k # 1 /\ q[k] = HideFeedback
    BY <1>2, <1>9, <2>1
  <2>3. k - 1 \in 1..(Len(q) - 1) /\ (k - 1) + 1 = k
    BY <1>2, <2>2
  <2>4. k - 1 \in rest
    BY <1>2, <2>2, <2>3
  <2>5. \A i \in rest : i = k - 1
    <3> TAKE i \in rest
    <3>1. i + 1 = k /\ i \in 1..(Len(q) - 1)
      BY <1>2, <1>5, <2>1
    <3> QED BY <1>2, <3>1
  <2>6. rest = {k - 1}
    BY <2>4, <2>5
  <2> QED BY <2>6
<1>10. ASSUME x.ui # "HIDE_PENDING"
       PROVE  rest = {}
  BY <1>3, <1>5, <1>10 DEF HideIsAnswered
<1> HIDE DEF q, rest, hides
<1>11. x.surface.feedback = q
  BY DEF q
<1> DEFINE a == FeedbackDone(x.surface)
<1> HIDE DEF a
<1>12. HidesPending(a) = rest /\ a.disabled = x.surface.disabled
  BY <1>3, <1>6 DEF a
<1> DEFINE done == [x EXCEPT !.surface = a]
<1>13. ASSUME Head(q) = HideFeedback PROVE HideIsAnswered([done EXCEPT !.ui = "HIDDEN"])
  BY <1>8, <1>12, <1>13 DEF HideIsAnswered, Output
<1>14. ASSUME Head(q) # HideFeedback PROVE HideIsAnswered(done)
  BY <1>9, <1>10, <1>12, <1>14 DEF HideIsAnswered, Output
<1> QED BY <1>6, <1>7, <1>8, <1>11, <1>13, <1>14 DEF a

(* Steps that only concern the capture UI and the surface                  *)

LEMMA SurfaceUiMoves ==
  ASSUME NEW x \in Output, NEW surface, Keeps(x.surface, surface),
         SameHides(x.surface, surface), StaysBusy(x.surface, surface)
  PROVE  UiMoves(x, [x EXCEPT !.surface = surface])
<1> DEFINE y == [x EXCEPT !.surface = surface]
<1>1. Follows(x, y)
  BY SurfaceFollows
<1>2. SameBooks(x, y) /\ y.surface = surface /\ y.ui = x.ui
  BY DEF SameBooks, Output
<1> HIDE DEF y
<1> QED BY <1>1, <1>2 DEF UiMoves, HideIsAnswered, SameHides, y

LEMMA DrawingUiMoves ==
  ASSUME NEW x \in Output
  PROVE  /\ UiMoves(x, Redraw(x))
         /\ UiMoves(x, RequestFrameCallback(x))
  BY DrawsFullscreenCaptureType, DrawAndCommitKeeps, DrawAndCommitHides, SurfaceUiMoves,
     ArmFrameCallbackKeeps, ArmFrameCallbackHides
     DEF Output, Redraw, RequestFrameCallback

LEMMA AcquireUiHideMoves ==
  ASSUME NEW x \in Output, HideIsAnswered(x), x.ui \in {"NONE", "SHOWN"}
  PROVE  LET y == AcquireUiHide(x)
         IN SameBooks(x, y) /\ StaysBusy(x.surface, y.surface) /\ HideIsAnswered(y)
<1> DEFINE a == AcquireHide(x.surface)
           y == [x EXCEPT !.ui = "HIDE_PENDING", !.surface = a]
<1>1. /\ HidesPending(a) = HidesPending(x.surface) \cup {Len(x.surface.feedback) + 1}
      /\ "FULLSCREEN_HIDE" \in a.disabled
      /\ StaysBusy(x.surface, a)
  BY AcquireHideHides DEF Output
<1>2. HidesPending(x.surface) = {}
  BY DEF HideIsAnswered
<1>3. AcquireUiHide(x) = y
  BY DEF AcquireUiHide
<1> HIDE DEF a
<1>4. y.ui = "HIDE_PENDING" /\ y.surface = a /\ SameBooks(x, y)
  BY DEF Output, SameBooks
<1> HIDE DEF y
<1>5. HidesPending(a) = {Len(x.surface.feedback) + 1}
  BY <1>1, <1>2
<1> QED BY <1>1, <1>3, <1>4, <1>5 DEF HideIsAnswered

\* The assertion holds: what is hidden is covered.
LEMMA ReleaseUiHideMoves ==
  ASSUME NEW x \in Output, HideIsAnswered(x), UiIsGone(x), x.ui = "HIDDEN"
  PROVE  LET y == ReleaseUiHide(x)
         IN SameBooks(x, y) /\ StaysBusy(x.surface, y.surface) /\ HideIsAnswered(y)
<1> DEFINE next == IF AllConsumers(x) # {} THEN "SHOW_PENDING" ELSE "NONE"
           a    == ReleaseHide(x.surface, next = "SHOW_PENDING")
           y    == [x EXCEPT !.ui = next, !.surface = a]
<1>1. ReleaseHideAssertion(x.surface)
  BY DEF UiIsGone, Covered, ReleaseHideAssertion
<1>2. ReleaseUiHide(x) = y
  BY <1>1 DEF ReleaseUiHide, Check
<1>3. /\ HidesPending(a) = HidesPending(x.surface)
      /\ "FULLSCREEN_HIDE" \notin a.disabled
      /\ StaysBusy(x.surface, a)
  BY ReleaseHideHides DEF Output
<1>4. HidesPending(x.surface) = {}
  BY DEF HideIsAnswered
<1>5. next \in {"SHOW_PENDING", "NONE"}
  OBVIOUS
<1> HIDE DEF next, a
<1>6. y.ui = next /\ y.surface = a /\ SameBooks(x, y)
  BY DEF Output, SameBooks
<1> HIDE DEF y
<1> QED BY <1>2, <1>3, <1>4, <1>5, <1>6 DEF HideIsAnswered

LEMMA SyncUiMoves ==
  ASSUME NEW x \in Output, HideIsAnswered(x), UiIsGone(x)
  PROVE  UiMoves(x, SyncUi(x))
<1>1. Follows(x, SyncUi(x))
  BY SyncUiFollows
<1>2. \A ui \in {"NONE", "SHOW_PENDING"} : x.ui \in {"NONE", "SHOWN"} =>
        LET y == Redraw([x EXCEPT !.ui = ui])
        IN SameBooks(x, y) /\ StaysBusy(x.surface, y.surface) /\ HideIsAnswered(y)
  <2> SUFFICES ASSUME NEW ui \in {"NONE", "SHOW_PENDING"}, x.ui \in {"NONE", "SHOWN"}
               PROVE  LET y == Redraw([x EXCEPT !.ui = ui])
                      IN /\ SameBooks(x, y)
                         /\ StaysBusy(x.surface, y.surface)
                         /\ HideIsAnswered(y)
    OBVIOUS
  <2> DEFINE z == [x EXCEPT !.ui = ui]
  <2>1. z \in Output /\ SameBooks(x, z) /\ z.surface = x.surface /\ z.ui = ui
    BY DEF Output, FullscreenUiStates, SameBooks
  <2> HIDE DEF z
  <2>2. HideIsAnswered(z)
    BY <2>1 DEF HideIsAnswered
  <2>3. UiMoves(z, Redraw(z))
    BY <2>1, DrawingUiMoves
  <2> QED BY <2>1, <2>2, <2>3 DEF UiMoves, SameBooks, z
<1>3. \/ SyncUi(x) = x
      \/ x.ui \in {"NONE", "SHOWN"} /\ SyncUi(x) = AcquireUiHide(x)
      \/ x.ui \in {"NONE", "SHOWN"} /\ SyncUi(x) = Redraw([x EXCEPT !.ui = "SHOW_PENDING"])
      \/ x.ui \in {"NONE", "SHOWN"} /\ SyncUi(x) = Redraw([x EXCEPT !.ui = "NONE"])
      \/ x.ui = "HIDDEN" /\ SyncUi(x) = ReleaseUiHide(x)
  BY DEF SyncUi
<1>4. SameBooks(x, x) /\ StaysBusy(x.surface, x.surface)
  BY DEF SameBooks, StaysBusy
<1>5. /\ SameBooks(x, SyncUi(x))
      /\ StaysBusy(x.surface, SyncUi(x).surface)
      /\ HideIsAnswered(SyncUi(x))
  BY <1>2, <1>3, <1>4, AcquireUiHideMoves, ReleaseUiHideMoves
<1> QED BY <1>1, <1>5 DEF UiMoves

(* What holds of one output                                                *)

LEMMA UiMovesSound ==
  ASSUME NEW x \in Output, NEW y, UiMoves(x, y)
  PROVE  /\ Calm(x, y)
         /\ Balanced(x) => Balanced(y)
         /\ Steady(x) => Steady(y)
         /\ SizeIsFixed(x) => SizeIsFixed(y)
         /\ Sound(x) => Sound(y)
<1>1. Calm(x, y)
  BY DEF UiMoves, SameBooks, Calm, VideoIsLive, AllConsumers
<1>2. ASSUME Balanced(x) PROVE Balanced(y)
  <2>1. UiIsGone(y) /\ HideIsAnswered(y)
    BY <1>2 DEF Balanced, UiMoves, Follows
  <2>2. Counted(y) /\ FrameIsShared(y)
    BY <1>2 DEF Balanced, UiMoves, SameBooks, Counted, FrameIsShared, AllConsumers, VideoIsLive
  <2>3. StartsEmpty(y)
    BY <1>2 DEF Balanced, UiMoves, SameBooks, StartsEmpty, StaysBusy
  <2> QED BY <2>1, <2>2, <2>3 DEF Balanced
<1>3. ASSUME Steady(x) PROVE Steady(y)
  BY <1>2, <1>3 DEF Steady, UiMoves, SameBooks, ConsumersAreReal, VideoIsLive
<1>4. SizeIsFixed(x) => SizeIsFixed(y)
  BY DEF UiMoves, SameBooks, SizeIsFixed
<1>5. UiIsChanging(x) => UiIsChanging(y)
  BY DEF UiMoves, Follows
<1> QED BY <1>1, <1>2, <1>3, <1>4, <1>5 DEF Sound

(* Frames                                                                  *)

LEMMA SameButFrameTransitive ==
  ASSUME NEW x, NEW y, NEW z, SameButFrame(x, y), SameButFrame(y, z)
  PROVE  SameButFrame(x, z)
  BY DEF SameButFrame

LEMMA FrameReplaced ==
  ASSUME NEW x \in Output, NEW frame \in FrameContext
  PROVE  SameButFrame(x, [x EXCEPT !.frame = frame]) /\ [x EXCEPT !.frame = frame].frame = frame
  BY DEF SameButFrame, Output

LEMMA RequestFrameBooks ==
  ASSUME NEW x \in Output, NEW consumers \in SUBSET {"IMAGE", "VIDEO"}
  PROVE  /\ LET y == RequestFrame(x, consumers)
            IN /\ SameButFrame(x, y)
               /\ y.frame.in_flight
               /\ y.frame.consumers = x.frame.consumers \cup consumers
         /\ LET y == RequestFrameForced(x, consumers)
            IN /\ SameButFrame(x, y)
               /\ y.frame.in_flight
               /\ y.frame.consumers = x.frame.consumers \cup consumers
<1> DEFINE y == RequestFrame(x, consumers)
           z == [y EXCEPT !.frame.forced = TRUE]
<1>1. SameButFrame(x, y)
  BY DEF RequestFrame, Output, FrameContext, SameButFrame
<1>2. y.frame.in_flight /\ y.frame.consumers = x.frame.consumers \cup consumers
  BY DEF RequestFrame, Output, FrameContext
<1>3. RequestFrameForced(x, consumers) = z
  BY DEF RequestFrameForced
<1> HIDE DEF y
<1>4. y \in Output
  BY <1>1 DEF SameButFrame
<1>5. SameButFrame(y, z)
  BY <1>4 DEF Output, FrameContext, SameButFrame
<1>6. z.frame.in_flight = y.frame.in_flight /\ z.frame.consumers = y.frame.consumers
  BY <1>4 DEF Output, FrameContext
<1> HIDE DEF z
<1> QED BY <1>1, <1>2, <1>3, <1>5, <1>6, SameButFrameTransitive DEF y

LEMMA DestroyFrameBooks ==
  ASSUME NEW x \in Output, NEW where, x.frame.in_flight
  PROVE  LET y == DestroyFrame(x, where)
         IN SameButFrame(x, y) /\ y.frame.consumers = x.frame.consumers
<1>1. DestroyFrame(x, where) = [x EXCEPT !.frame.in_flight = FALSE]
  BY DEF DestroyFrame, Check
<1> DEFINE y == [x EXCEPT !.frame.in_flight = FALSE]
<1>2. SameButFrame(x, y)
  BY DEF Output, FrameContext, SameButFrame
<1>3. y.frame.consumers = x.frame.consumers
  BY DEF Output, FrameContext
<1> QED BY <1>1, <1>2, <1>3

\* A recording is asked to stop once; its frame is there to be replaced.
LEMMA VideoRequestStopBooks ==
  ASSUME NEW x \in Output, VideoIsLive(x), FrameIsShared(x)
  PROVE  LET y == VideoRequestStop(x)
         IN /\ Calm(x, y)
            /\ FrameIsShared(y)
            /\ y.frame.consumers = x.frame.consumers
            /\ y.freezeframe = x.freezeframe
            /\ y.active = x.active /\ y.awaiting_ui = x.awaiting_ui
            /\ y.video_stage = "STOP_REQUESTED" /\ y.captures = x.captures
            /\ y.size_is_frozen = x.size_is_frozen
            /\ y.surface = x.surface /\ y.ui = x.ui
<1> DEFINE stopping == [x EXCEPT !.video_stage = "STOP_REQUESTED"]
           freed    == DestroyFrame(stopping, "capture.c:515")
           y        == RequestFrameForced(freed, {"VIDEO"})
<1>1. "VIDEO" \in x.frame.consumers /\ x.frame.in_flight
  BY DEF FrameIsShared
<1>2. CASE x.video_stage = "STOP_REQUESTED"
  BY <1>2 DEF VideoRequestStop, Calm
<1>3. CASE x.video_stage # "STOP_REQUESTED"
  <2>1. /\ stopping \in Output /\ stopping.frame = x.frame
        /\ stopping.surface = x.surface /\ stopping.ui = x.ui
        /\ stopping.freezeframe = x.freezeframe
        /\ stopping.active = x.active /\ stopping.awaiting_ui = x.awaiting_ui
        /\ stopping.video_stage = "STOP_REQUESTED" /\ stopping.captures = x.captures
        /\ stopping.selection = x.selection /\ stopping.size_is_frozen = x.size_is_frozen
        /\ stopping.failed_asserts = x.failed_asserts
    BY DEF Output, VideoStages
  <2>2. VideoRequestStop(x) = y
    BY <1>3 DEF VideoRequestStop
  <2> HIDE DEF stopping
  <2>3. SameButFrame(stopping, freed) /\ freed.frame.consumers = x.frame.consumers
    BY <1>1, <2>1, DestroyFrameBooks
  <2> HIDE DEF freed
  <2>4. /\ SameButFrame(freed, y)
        /\ y.frame.in_flight
        /\ y.frame.consumers = freed.frame.consumers \cup {"VIDEO"}
    BY <2>3, RequestFrameBooks DEF SameButFrame
  <2> HIDE DEF y
  <2>5. SameButFrame(stopping, y)
    BY <2>3, <2>4, SameButFrameTransitive
  <2>6. y.frame.consumers = x.frame.consumers
    BY <1>1, <2>3, <2>4
  <2> QED BY <1>1, <2>1, <2>2, <2>4, <2>5, <2>6
          DEF Calm, FrameIsShared, VideoIsLive, AllConsumers, SameButFrame
<1> QED BY <1>2, <1>3

LEMMA VideoRequestStopSound ==
  ASSUME NEW x \in Output, VideoIsLive(x), Sound(x)
  PROVE  Sound(VideoRequestStop(x)) /\ Calm(x, VideoRequestStop(x))
<1> DEFINE y == VideoRequestStop(x)
<1>1. /\ Calm(x, y)
      /\ FrameIsShared(y)
      /\ y.frame.consumers = x.frame.consumers
      /\ y.freezeframe = x.freezeframe
      /\ y.active = x.active /\ y.awaiting_ui = x.awaiting_ui
      /\ y.video_stage = "STOP_REQUESTED" /\ y.captures = x.captures
      /\ y.size_is_frozen = x.size_is_frozen
      /\ y.surface = x.surface /\ y.ui = x.ui
  BY VideoRequestStopBooks DEF Sound, Steady, Balanced
<1> HIDE DEF y
<1>2. UiIsGone(y) /\ UiIsChanging(y) /\ HideIsAnswered(y)
  BY <1>1 DEF Sound, Steady, Balanced, UiIsGone, UiIsChanging, HideIsAnswered
<1>3. Counted(y) /\ SizeIsFixed(y)
  BY <1>1 DEF Sound, Steady, Balanced, Counted, SizeIsFixed, AllConsumers, VideoIsLive, Calm
<1>4. ConsumersAreReal(y) /\ FreezeframeIsServed(y.freezeframe) /\ StartsEmpty(y)
  BY <1>1 DEF Sound, Steady, Balanced, ConsumersAreReal, StartsEmpty, VideoIsLive, Calm
<1> QED BY <1>1, <1>2, <1>3, <1>4 DEF Sound, Steady, Balanced, y

\* A switch of the session takes the frame in flight with it.
LEMMA SyncCursorCaptureSound ==
  ASSUME NEW x \in Output, NEW shown \in BOOLEAN, Sound(x)
  PROVE  Sound(SyncCursorCapture(x, shown)) /\ Calm(x, SyncCursorCapture(x, shown))
<1> DEFINE session == IF shown THEN "DEFAULT" ELSE "WITH_CURSOR"
           switch(y) == [y EXCEPT !.frame.session = session, !.frame.switched = TRUE]
           freed    == DestroyFrame(x, "capture.h:293")
           switched == switch(freed)
           asked    == RequestFrameForced(switched, x.frame.consumers)
           y        == SyncCursorCapture(x, shown)
<1>1. \/ y = x
      \/ x.frame.consumers = {} /\ y = switch(x)
      \/ x.frame.consumers # {} /\ y = asked
  BY DEF SyncCursorCapture
<1>2. \A z \in Output : /\ SameButFrame(z, switch(z))
                        /\ switch(z).frame.in_flight = z.frame.in_flight
                        /\ switch(z).frame.consumers = z.frame.consumers
  BY ZenonT(30) DEF Output, FrameContext, SameButFrame
<1>3. ASSUME x.frame.consumers # {}
      PROVE  /\ SameButFrame(x, asked)
             /\ asked.frame.in_flight
             /\ asked.frame.consumers = x.frame.consumers
  <2>1. x.frame.in_flight /\ x.frame.consumers \in SUBSET {"IMAGE", "VIDEO"}
    BY <1>3 DEF Sound, Steady, Balanced, FrameIsShared, Output, FrameContext
  <2>2. SameButFrame(x, freed) /\ freed.frame.consumers = x.frame.consumers
    BY <2>1, DestroyFrameBooks
  <2> HIDE DEF freed, switch
  <2>3. SameButFrame(freed, switched) /\ switched.frame.consumers = x.frame.consumers
    BY <1>2, <2>2 DEF SameButFrame
  <2> HIDE DEF switched
  <2>4. /\ SameButFrame(switched, asked)
        /\ asked.frame.in_flight
        /\ asked.frame.consumers = switched.frame.consumers \cup x.frame.consumers
    BY <2>1, <2>3, RequestFrameBooks DEF SameButFrame
  <2> HIDE DEF asked
  <2>5. SameButFrame(x, asked)
    BY <2>2, <2>3, <2>4, SameButFrameTransitive
  <2> QED BY <2>3, <2>4, <2>5
<1>4. /\ SameButFrame(x, y)
      /\ y.frame.consumers = x.frame.consumers
      /\ y.frame.in_flight <=> y.frame.consumers # {}
  <2>1. SameButFrame(x, x)
    BY DEF SameButFrame
  <2> HIDE DEF switch, asked, y
  <2> QED BY <1>1, <1>2, <1>3, <2>1 DEF Sound, Steady, Balanced, FrameIsShared
<1> HIDE DEF y
<1>5. Calm(x, y)
  BY <1>4 DEF Calm, VideoIsLive, AllConsumers, SameButFrame
<1>6. UiIsGone(y) /\ UiIsChanging(y) /\ HideIsAnswered(y)
  BY <1>4 DEF Sound, Steady, Balanced, UiIsGone, UiIsChanging, HideIsAnswered, SameButFrame
<1>7. Counted(y) /\ SizeIsFixed(y) /\ FrameIsShared(y)
  BY <1>4 DEF Sound, Steady, Balanced, Counted, SizeIsFixed, AllConsumers, VideoIsLive, FrameIsShared, SameButFrame
<1>8. ConsumersAreReal(y) /\ FreezeframeIsServed(y.freezeframe) /\ StartsEmpty(y)
  BY <1>4 DEF Sound, Steady, Balanced, ConsumersAreReal, StartsEmpty, VideoIsLive, SameButFrame
<1> QED BY <1>5, <1>6, <1>7, <1>8 DEF Sound, Steady, Balanced, y

(* The consumers of a fullscreen capture                                   *)

LEMMA EndConsumersBooks ==
  ASSUME NEW x \in Output, NEW finished
  PROVE  LET y == EndConsumers(x, finished)
         IN /\ y.active = x.active \ finished
            /\ y.captures = IF AllConsumers(y) = {} THEN x.captures - 1 ELSE x.captures
            /\ y.frame = x.frame /\ y.freezeframe = x.freezeframe
            /\ y.awaiting_ui = x.awaiting_ui
            /\ y.video_stage = x.video_stage
            /\ y.selection = x.selection /\ y.size_is_frozen = x.size_is_frozen
            /\ y.failed_asserts = x.failed_asserts
            /\ y.surface = x.surface /\ y.ui = x.ui
<1> DEFINE z == [x EXCEPT !.active = @ \ finished]
<1>1. /\ z \in Output
      /\ z.active = x.active \ finished
      /\ z.captures = x.captures
      /\ z.frame = x.frame /\ z.freezeframe = x.freezeframe
      /\ z.awaiting_ui = x.awaiting_ui
      /\ z.video_stage = x.video_stage
      /\ z.selection = x.selection /\ z.size_is_frozen = x.size_is_frozen
      /\ z.failed_asserts = x.failed_asserts
      /\ z.surface = x.surface /\ z.ui = x.ui
  BY DEF Output
<1>2. EndConsumers(x, finished) = IF AllConsumers(z) = {} THEN [z EXCEPT !.captures = @ - 1] ELSE z
  BY DEF EndConsumers
<1> HIDE DEF z
<1>3. AllConsumers([z EXCEPT !.captures = @ - 1]) = AllConsumers(z)
  BY <1>1 DEF AllConsumers, Output
<1> QED BY <1>1, <1>2, <1>3 DEF Output

\* Consumers that have ended give back their capture, if they are the last.
LEMMA EndBooks ==
  ASSUME NEW x \in Output, NEW finished, HideIsAnswered(x), UiIsGone(x)
  PROVE  LET y == SyncUi(EndConsumers(x, finished))
         IN /\ y.active = x.active \ finished
            /\ y.captures = IF (x.active \ finished) \cup x.awaiting_ui = {}
                              THEN x.captures - 1 ELSE x.captures
            /\ y.frame = x.frame /\ y.freezeframe = x.freezeframe
            /\ y.awaiting_ui = x.awaiting_ui
            /\ y.video_stage = x.video_stage
            /\ y.size_is_frozen = x.size_is_frozen
            /\ StaysBusy(x.surface, y.surface)
            /\ Calm(x, y)
            /\ Follows(x, y)
            /\ HideIsAnswered(y)
<1> DEFINE z == EndConsumers(x, finished)
           y == SyncUi(z)
<1>1. /\ z.active = x.active \ finished
      /\ z.captures = IF AllConsumers(z) = {} THEN x.captures - 1 ELSE x.captures
      /\ z.frame = x.frame /\ z.freezeframe = x.freezeframe
      /\ z.awaiting_ui = x.awaiting_ui
      /\ z.video_stage = x.video_stage
      /\ z.selection = x.selection /\ z.size_is_frozen = x.size_is_frozen
      /\ z.failed_asserts = x.failed_asserts
      /\ z.surface = x.surface /\ z.ui = x.ui
  BY EndConsumersBooks
<1>2. Follows(x, z)
  BY EndConsumersFollows
<1> HIDE DEF z
<1>3. z \in Output /\ HideIsAnswered(z) /\ UiIsGone(z)
  BY <1>1, <1>2 DEF Follows, HideIsAnswered
<1>4. UiMoves(z, y)
  BY <1>3, SyncUiMoves
<1> HIDE DEF y
<1>5. Follows(x, y)
  BY <1>2, <1>4, FollowsTransitive DEF UiMoves
<1>6. Calm(x, y)
  BY <1>1, <1>4 DEF UiMoves, SameBooks, Calm, VideoIsLive, AllConsumers
<1>7. AllConsumers(z) = (x.active \ finished) \cup x.awaiting_ui
  BY <1>1 DEF AllConsumers
<1> QED BY <1>1, <1>3, <1>4, <1>5, <1>6, <1>7 DEF UiMoves, SameBooks, y, z

LEMMA CalmReflexive ==
  ASSUME NEW x
  PROVE  Calm(x, x)
  BY DEF Calm

LEMMA CalmTransitive ==
  ASSUME NEW x, NEW y, NEW z, Calm(x, y), Calm(y, z)
  PROVE  Calm(x, z)
  BY DEF Calm

(* The freezeframe                                                         *)

\* A freezeframe may go through any change in which it stays served.
LEMMA FreezeframeMovesSound ==
  ASSUME NEW x \in Output, NEW y, SameButFreezeframe(x, y), Sound(x),
         FreezeframeIsServed(y.freezeframe),
         "FREEZEFRAME" \in x.awaiting_ui => y.freezeframe.stage = "REFRESHING",
         "FREEZEFRAME" \in x.active => y.freezeframe.stage = "CAPTURING"
  PROVE  Sound(y) /\ Calm(x, y)
<1>1. Calm(x, y)
  BY DEF SameButFreezeframe, Calm, VideoIsLive, AllConsumers
<1>2. UiIsGone(y) /\ UiIsChanging(y) /\ HideIsAnswered(y)
  BY DEF Sound, Steady, Balanced, SameButFreezeframe, UiIsGone, UiIsChanging, HideIsAnswered
<1>3. Counted(y) /\ FrameIsShared(y) /\ SizeIsFixed(y)
  BY DEF Sound, Steady, Balanced, SameButFreezeframe, Counted, FrameIsShared, SizeIsFixed, AllConsumers,
         VideoIsLive
<1>4. ConsumersAreReal(y)
  BY DEF Sound, Steady, Balanced, SameButFreezeframe, ConsumersAreReal, VideoIsLive
<1>5. StartsEmpty(y)
  BY DEF Sound, Steady, Balanced, SameButFreezeframe, StartsEmpty
<1> QED BY <1>1, <1>2, <1>3, <1>4, <1>5 DEF Sound, Steady, Balanced

\* A capture that starts where none is under way waits for one thing only.
LEMMA FreezeframeCaptureStartBooks ==
  ASSUME NEW x \in Output, ~x.freezeframe.in_flight, ~x.freezeframe.capture_waiting,
         ~x.freezeframe.surface_waiting, ~x.freezeframe.showing
  PROVE  LET y == FreezeframeCaptureStart(x)
         IN /\ SameButFreezeframe(x, y)
            /\ y.freezeframe.stage = "CAPTURING"
            /\ FreezeframeIsServed(y.freezeframe)
<1> DEFINE y == [x EXCEPT !.freezeframe.stage = "CAPTURING"]
           waits == [y EXCEPT !.freezeframe.capture_waiting = TRUE]
           takes == [y EXCEPT !.freezeframe.in_flight = TRUE]
<1>1. /\ SameButFreezeframe(x, y)
      /\ y.freezeframe = [x.freezeframe EXCEPT !.stage = "CAPTURING"]
  BY DEF Output, Freezeframe, FreezeframeStages, SameButFreezeframe
<1>2. FreezeframeCaptureStart(x) = IF y.freezeframe.capture_busy THEN waits ELSE takes
  BY DEF FreezeframeCaptureStart
<1>3. /\ y \in Output /\ x.freezeframe \in Freezeframe
      /\ ~y.freezeframe.in_flight /\ ~y.freezeframe.capture_waiting
      /\ ~y.freezeframe.surface_waiting /\ ~y.freezeframe.showing
      /\ y.freezeframe.stage = "CAPTURING"
  BY <1>1 DEF SameButFreezeframe, Freezeframe, Output
<1> HIDE DEF y
<1>4. /\ SameButFreezeframe(y, waits)
      /\ waits.freezeframe = [y.freezeframe EXCEPT !.capture_waiting = TRUE]
  BY <1>3 DEF Output, Freezeframe, SameButFreezeframe
<1>5. /\ SameButFreezeframe(y, takes)
      /\ takes.freezeframe = [y.freezeframe EXCEPT !.in_flight = TRUE]
  BY <1>3 DEF Output, Freezeframe, SameButFreezeframe
<1> HIDE DEF waits, takes
<1>6. y.freezeframe.capture_busy =>
        FreezeframeIsServed(waits.freezeframe) /\ waits.freezeframe.stage = "CAPTURING"
  BY <1>3, <1>4 DEF Output, Freezeframe, FreezeframeIsServed
<1>7. ~y.freezeframe.capture_busy =>
        FreezeframeIsServed(takes.freezeframe) /\ takes.freezeframe.stage = "CAPTURING"
  BY <1>3, <1>5 DEF Output, Freezeframe, FreezeframeIsServed
<1>8. SameButFreezeframe(x, waits) /\ SameButFreezeframe(x, takes)
  BY <1>1, <1>4, <1>5 DEF SameButFreezeframe
<1> QED BY <1>2, <1>6, <1>7, <1>8

LEMMA FreezeframeHideSound ==
  ASSUME NEW x \in Output, Sound(x)
  PROVE  LET y == FreezeframeHide(x)
         IN /\ Sound(y) /\ Calm(x, y)
            /\ y \in Output
            /\ y.freezeframe = [x.freezeframe EXCEPT !.showing = FALSE]
            /\ y.active = x.active /\ y.awaiting_ui = x.awaiting_ui
            /\ y.captures = x.captures
<1> DEFINE y == [x EXCEPT !.freezeframe.showing = FALSE]
           z == FreezeframeHide(x)
<1>1. /\ SameButFreezeframe(x, y)
      /\ y.freezeframe = [x.freezeframe EXCEPT !.showing = FALSE]
  BY DEF Output, Freezeframe, SameButFreezeframe
<1>2. x.freezeframe \in Freezeframe
  BY DEF Output
<1>3. FreezeframeIsServed(y.freezeframe) /\ y.freezeframe.stage = x.freezeframe.stage
  BY <1>1, <1>2 DEF Sound, Steady, Balanced, FreezeframeIsServed, Freezeframe
<1> HIDE DEF y
<1>4. Sound(y) /\ Calm(x, y) /\ y \in Output
  <2>1. /\ "FREEZEFRAME" \in x.awaiting_ui => y.freezeframe.stage = "REFRESHING"
        /\ "FREEZEFRAME" \in x.active => y.freezeframe.stage = "CAPTURING"
    BY <1>3 DEF Sound, Steady, Balanced, ConsumersAreReal
  <2>2. Sound(y) /\ Calm(x, y)
    BY <1>1, <1>3, <2>1, FreezeframeMovesSound
  <2> QED BY <1>1, <2>2 DEF SameButFreezeframe
<1>5. z = IF x.freezeframe.showing THEN RequestFrameCallback(y) ELSE x
  BY DEF FreezeframeHide, y
<1>6. x.freezeframe.showing = FALSE => x.freezeframe = [x.freezeframe EXCEPT !.showing = FALSE]
  BY <1>2 DEF Freezeframe
<1>7. UiMoves(y, RequestFrameCallback(y))
  BY <1>4, DrawingUiMoves
<1>8. Sound(RequestFrameCallback(y)) /\ Calm(y, RequestFrameCallback(y))
  BY <1>4, <1>7, UiMovesSound
<1>9. CASE x.freezeframe.showing
  BY <1>1, <1>4, <1>5, <1>7, <1>8, <1>9, CalmTransitive
     DEF UiMoves, Follows, SameBooks, SameButFreezeframe
<1>10. CASE x.freezeframe.showing = FALSE
  BY <1>5, <1>6, <1>10, CalmReflexive
<1>11. x.freezeframe.showing \in BOOLEAN
  BY <1>2 DEF Freezeframe
<1> QED BY <1>9, <1>10, <1>11

\* What waited for another freezeframe's dispatch would have been waiting for a UI that
\* has settled, so the freezeframe is dispatched alone.
LEMMA FreezeframeRefreshSound ==
  ASSUME NEW x \in Output, NEW exit_requested \in BOOLEAN, Sound(x),
         x.freezeframe.stage = "IDLE"
  PROVE  /\ Sound(FreezeframeRefresh(x, exit_requested))
         /\ Calm(x, FreezeframeRefresh(x, exit_requested))
<1> DEFINE h       == FreezeframeHide(x)
           n       == IF AllConsumers(x) = {} THEN h.captures + 1 ELSE h.captures
           w       == [h EXCEPT !.freezeframe.stage = "REFRESHING", !.captures = n,
                                !.awaiting_ui = @ \cup {"FREEZEFRAME"}]
           checked == Check(w, x.awaiting_ui = {}, "dispatch of others")
           begun   == [checked EXCEPT !.awaiting_ui = {}, !.active = @ \cup {"FREEZEFRAME"}]
           alone   == [w EXCEPT !.awaiting_ui = {}, !.active = @ \cup {"FREEZEFRAME"}]
           y       == FreezeframeRefresh(x, exit_requested)
<1>1. /\ Sound(h) /\ Calm(x, h)
      /\ h \in Output
      /\ h.freezeframe = [x.freezeframe EXCEPT !.showing = FALSE]
      /\ h.active = x.active /\ h.awaiting_ui = x.awaiting_ui
      /\ h.captures = x.captures
  BY FreezeframeHideSound
<1>2. \/ y = h
      \/ "FREEZEFRAME" \notin AllConsumers(x) /\ ~UiSettled(w) /\ y = SyncUi(w)
      \/ "FREEZEFRAME" \notin AllConsumers(x) /\ UiSettled(w)
           /\ y = FreezeframeCaptureStart(begun)
  BY DEF FreezeframeRefresh
<1> HIDE DEF h
<1>3. /\ h.freezeframe \in Freezeframe /\ x.freezeframe \in Freezeframe
      /\ h.freezeframe.stage = "IDLE" /\ ~h.freezeframe.showing
      /\ ~h.freezeframe.in_flight /\ ~h.freezeframe.capture_waiting
      /\ ~h.freezeframe.surface_waiting
  BY <1>1 DEF Sound, Steady, Balanced, FreezeframeIsServed, Output, Freezeframe
<1>4. n \in Int
  BY <1>1 DEF Output
<1>5. /\ w \in Output
      /\ w.freezeframe = [h.freezeframe EXCEPT !.stage = "REFRESHING"]
      /\ w.captures = n
      /\ w.awaiting_ui = h.awaiting_ui \cup {"FREEZEFRAME"} /\ w.active = h.active
      /\ w.frame = h.frame /\ w.video_stage = h.video_stage
      /\ w.surface = h.surface /\ w.ui = h.ui
      /\ w.selection = h.selection /\ w.size_is_frozen = h.size_is_frozen
      /\ w.failed_asserts = h.failed_asserts
  <2> HIDE DEF n
  <2> QED BY <1>1, <1>4 DEF Output, Freezeframe, FreezeframeStages, Consumers
<1> HIDE DEF w
<1>6. Calm(h, w)
  BY <1>3, <1>5 DEF Calm, VideoIsLive, AllConsumers, Freezeframe
<1>7. ASSUME "FREEZEFRAME" \notin AllConsumers(x) PROVE Steady(w) /\ SizeIsFixed(w)
  <2>1. UiIsGone(w) /\ HideIsAnswered(w)
    BY <1>1, <1>5 DEF Sound, Steady, Balanced, UiIsGone, HideIsAnswered
  <2>2. Counted(w)
    BY <1>1, <1>5 DEF Sound, Steady, Balanced, Counted, AllConsumers, VideoIsLive, Count
  <2>3. FrameIsShared(w) /\ SizeIsFixed(w) /\ StartsEmpty(w)
    BY <1>1, <1>3, <1>5
       DEF Sound, Steady, Balanced, FrameIsShared, SizeIsFixed, StartsEmpty, VideoIsLive, Freezeframe
  <2>4. FreezeframeIsServed(w.freezeframe) /\ w.freezeframe.stage = "REFRESHING"
    BY <1>3, <1>5 DEF FreezeframeIsServed, Freezeframe
  <2>5. ConsumersAreReal(w)
    BY <1>1, <1>5, <1>7, <2>4 DEF Sound, Steady, Balanced, ConsumersAreReal, VideoIsLive, AllConsumers
  <2> QED BY <2>1, <2>2, <2>3, <2>4, <2>5 DEF Steady, Balanced
<1>8. ASSUME "FREEZEFRAME" \notin AllConsumers(x), ~UiSettled(w)
      PROVE  Sound(SyncUi(w)) /\ Calm(x, SyncUi(w))
  <2>1. UiMoves(w, SyncUi(w)) /\ UiIsChanging(SyncUi(w))
    BY <1>5, <1>7, <1>8, SyncUiMoves, SyncUiFollows DEF Steady, Balanced
  <2>2. /\ Calm(w, SyncUi(w)) /\ Steady(SyncUi(w)) /\ SizeIsFixed(SyncUi(w))
    BY <1>5, <1>7, <1>8, <2>1, UiMovesSound
  <2>3. Calm(x, SyncUi(w))
    BY <1>1, <1>6, <2>2, CalmTransitive
  <2> QED BY <2>1, <2>2, <2>3 DEF Sound
<1>9. ASSUME "FREEZEFRAME" \notin AllConsumers(x), UiSettled(w)
      PROVE  /\ Sound(FreezeframeCaptureStart(begun))
             /\ Calm(x, FreezeframeCaptureStart(begun))
  <2>1. w.ui = "HIDDEN"
    BY <1>5, <1>9 DEF UiSettled, UiShouldBeHidden, ConsumersAllowUi, AllConsumers
  <2>2. x.awaiting_ui = {}
    BY <1>1, <1>5, <2>1 DEF Sound, UiIsChanging
  <2>3. begun = alone
    BY <2>2 DEF Check
  <2>4. /\ alone \in Output
        /\ alone.freezeframe = w.freezeframe
        /\ alone.captures = w.captures
        /\ alone.awaiting_ui = {} /\ alone.active = w.active \cup {"FREEZEFRAME"}
        /\ alone.frame = w.frame /\ alone.video_stage = w.video_stage
        /\ alone.surface = w.surface /\ alone.ui = w.ui
        /\ alone.selection = w.selection /\ alone.size_is_frozen = w.size_is_frozen
        /\ alone.failed_asserts = w.failed_asserts
    BY <1>5 DEF Output, Consumers
  <2> HIDE DEF alone, begun
  <2>5. AllConsumers(alone) = AllConsumers(w)
    BY <1>1, <1>5, <2>2, <2>4 DEF AllConsumers
  <2>6. Calm(w, alone)
    BY <2>4, <2>5 DEF Calm, VideoIsLive
  <2> DEFINE z == FreezeframeCaptureStart(alone)
  <2>7. /\ SameButFreezeframe(alone, z)
        /\ z.freezeframe.stage = "CAPTURING"
        /\ FreezeframeIsServed(z.freezeframe)
    BY <1>3, <1>5, <2>4, FreezeframeCaptureStartBooks DEF Freezeframe
  <2> HIDE DEF z
  <2>8. Calm(alone, z)
    BY <2>7 DEF SameButFreezeframe, Calm, VideoIsLive, AllConsumers
  <2>9. UiIsGone(z) /\ UiIsChanging(z) /\ HideIsAnswered(z)
    BY <1>7, <1>9, <2>1, <2>4, <2>7
       DEF Steady, Balanced, SameButFreezeframe, UiIsGone, UiIsChanging, HideIsAnswered
  <2>10. Counted(z) /\ FrameIsShared(z) /\ SizeIsFixed(z)
    <3>1. AllConsumers(z) = AllConsumers(w)
      BY <2>5, <2>7 DEF SameButFreezeframe, AllConsumers
    <3> QED BY <1>7, <1>9, <2>4, <2>7, <3>1
            DEF Steady, Balanced, SameButFreezeframe, Counted, FrameIsShared, SizeIsFixed, VideoIsLive
  <2>11. ConsumersAreReal(z) /\ StartsEmpty(z)
    BY <1>1, <1>5, <1>7, <1>9, <2>2, <2>4, <2>7
       DEF Steady, Balanced, SameButFreezeframe, ConsumersAreReal, StartsEmpty, VideoIsLive
  <2>12. Calm(x, z)
    BY <1>1, <1>6, <2>6, <2>8, CalmTransitive
  <2> QED BY <2>3, <2>7, <2>9, <2>10, <2>11, <2>12 DEF Sound, Steady, Balanced, z
<1> QED BY <1>1, <1>2, <1>8, <1>9 DEF y

(* Exit                                                                    *)

\* What an exit request does to an output, also in the midst of a dispatch: nothing
\* awaits the UI any more, what was active stays so, and a recording may be stopping.
LEMMA RequestExitOnOutputBooks ==
  ASSUME NEW x \in Output, Balanced(x), x.active \cap x.awaiting_ui = {}
  PROVE  LET y == RequestExitOnOutput(x)
         IN /\ Balanced(y) /\ Calm(x, y) /\ Follows(x, y)
            /\ StaysBusy(x.surface, y.surface)
            /\ y.active = x.active /\ y.awaiting_ui = {}
            /\ y.freezeframe = x.freezeframe
            /\ y.size_is_frozen = x.size_is_frozen
            /\ y.frame.consumers = x.frame.consumers
            /\ y.video_stage = IF x.video_stage = "CAPTURING" THEN "STOP_REQUESTED"
                               ELSE x.video_stage
<1> DEFINE fused   == [x EXCEPT !.surface = FuseOff(@)]
           given   == [fused EXCEPT !.awaiting_ui = {}]
           ended   == IF x.awaiting_ui = {} THEN fused
                      ELSE EndWithNoneAwaiting(given, x.awaiting_ui)
           y       == RequestExitOnOutput(x)
<1>1. UiMoves(x, fused)
  BY HideTypes, SurfaceEventHides, SurfaceUiMoves DEF Output
<1>2. y = IF ended.video_stage = "CAPTURING" THEN VideoRequestStop(ended) ELSE ended
  BY DEF RequestExitOnOutput
<1>3. Follows(x, y)
  BY RequestExitOnOutputFollows
<1> HIDE DEF fused, y
<1>4. fused \in Output /\ Balanced(fused) /\ Calm(x, fused)
  BY <1>1, UiMovesSound DEF UiMoves, Follows
<1>5. ASSUME x.awaiting_ui # {}
      PROVE  LET z == EndWithNoneAwaiting(given, x.awaiting_ui)
             IN /\ z \in Output /\ Balanced(z) /\ Calm(x, z)
                /\ StaysBusy(x.surface, z.surface)
                /\ z.active = x.active /\ z.awaiting_ui = {}
                /\ z.freezeframe = x.freezeframe /\ z.frame = x.frame
                /\ z.size_is_frozen = x.size_is_frozen
                /\ z.video_stage = x.video_stage
  <2> DEFINE z == SyncUi(EndConsumers(given, x.awaiting_ui))
  <2>1. /\ given \in Output
        /\ given.active = x.active /\ given.awaiting_ui = {}
        /\ given.freezeframe = x.freezeframe /\ given.frame = x.frame
        /\ given.size_is_frozen = x.size_is_frozen
        /\ given.video_stage = x.video_stage /\ given.captures = x.captures
        /\ given.selection = x.selection /\ given.failed_asserts = x.failed_asserts
        /\ given.surface = fused.surface /\ given.ui = fused.ui
    BY <1>1, <1>4 DEF UiMoves, SameBooks, Output
  <2> HIDE DEF given
  <2>2. HideIsAnswered(given) /\ UiIsGone(given)
    BY <1>1, <1>4, <2>1 DEF Balanced, UiMoves, SameBooks, HideIsAnswered, UiIsGone
  <2>3. /\ z.active = given.active \ x.awaiting_ui
        /\ z.captures = IF (given.active \ x.awaiting_ui) \cup given.awaiting_ui = {}
                          THEN given.captures - 1 ELSE given.captures
        /\ z.frame = given.frame /\ z.freezeframe = given.freezeframe
        /\ z.awaiting_ui = given.awaiting_ui
        /\ z.video_stage = given.video_stage
        /\ z.size_is_frozen = given.size_is_frozen
        /\ StaysBusy(given.surface, z.surface)
        /\ Calm(given, z)
        /\ Follows(given, z)
        /\ HideIsAnswered(z)
    BY <2>1, <2>2, EndBooks
  <2> HIDE DEF z
  <2>4. z.active = x.active /\ z.awaiting_ui = {}
    BY <2>1, <2>3
  <2>5. Calm(x, z)
    BY <2>1, <2>3, <2>4 DEF Calm, VideoIsLive, AllConsumers
  <2>6. StaysBusy(x.surface, z.surface)
    BY <1>1, <2>1, <2>3 DEF UiMoves, StaysBusy
  <2>7. Counted(z)
    BY <1>5, <2>1, <2>3, <2>4 DEF Balanced, Counted, Count, AllConsumers, VideoIsLive
  <2>8. FrameIsShared(z) /\ StartsEmpty(z)
    BY <2>1, <2>3, <2>5, <2>6
       DEF Balanced, FrameIsShared, StartsEmpty, VideoIsLive, StaysBusy, Calm
  <2>9. UiIsGone(z)
    BY <2>2, <2>3 DEF Follows
  <2> QED BY <2>1, <2>3, <2>4, <2>5, <2>6, <2>7, <2>8, <2>9
          DEF Balanced, Follows, EndWithNoneAwaiting, z
<1>6. /\ ended \in Output /\ Balanced(ended) /\ Calm(x, ended)
      /\ StaysBusy(x.surface, ended.surface)
      /\ ended.active = x.active /\ ended.awaiting_ui = {}
      /\ ended.freezeframe = x.freezeframe /\ ended.frame = x.frame
      /\ ended.size_is_frozen = x.size_is_frozen
      /\ ended.video_stage = x.video_stage
  <2> HIDE DEF given
  <2>1. CASE x.awaiting_ui = {}
    BY <1>1, <1>4, <2>1 DEF UiMoves, SameBooks
  <2>2. CASE x.awaiting_ui # {}
    BY <1>5, <2>2
  <2> QED BY <2>1, <2>2
<1> HIDE DEF ended
<1>7. ASSUME ended.video_stage = "CAPTURING"
      PROVE  LET z == VideoRequestStop(ended)
             IN /\ Balanced(z) /\ Calm(x, z)
                /\ StaysBusy(x.surface, z.surface)
                /\ z.active = x.active /\ z.awaiting_ui = {}
                /\ z.freezeframe = x.freezeframe
                /\ z.frame.consumers = x.frame.consumers
                /\ z.size_is_frozen = x.size_is_frozen
                /\ z.video_stage = "STOP_REQUESTED"
  <2> DEFINE z == VideoRequestStop(ended)
  <2>1. VideoIsLive(ended) /\ FrameIsShared(ended)
    BY <1>6, <1>7 DEF VideoIsLive, Balanced
  <2>2. /\ Calm(ended, z)
        /\ FrameIsShared(z)
        /\ z.frame.consumers = ended.frame.consumers
        /\ z.freezeframe = ended.freezeframe
        /\ z.active = ended.active /\ z.awaiting_ui = ended.awaiting_ui
        /\ z.video_stage = "STOP_REQUESTED" /\ z.captures = ended.captures
        /\ z.size_is_frozen = ended.size_is_frozen
        /\ z.surface = ended.surface /\ z.ui = ended.ui
    BY <1>6, <2>1, VideoRequestStopBooks
  <2> HIDE DEF z
  <2>3. UiIsGone(z) /\ HideIsAnswered(z) /\ Counted(z) /\ StartsEmpty(z)
    BY <1>6, <2>1, <2>2, ZenonT(30)
       DEF Balanced, UiIsGone, HideIsAnswered, Counted, StartsEmpty, AllConsumers, Calm
  <2>4. Calm(x, z)
    BY <1>6, <2>2, CalmTransitive
  <2> QED BY <1>6, <2>2, <2>3, <2>4 DEF Balanced, z
<1>8. CASE ended.video_stage = "CAPTURING"
  BY <1>2, <1>3, <1>6, <1>7, <1>8 DEF y
<1>9. CASE ended.video_stage # "CAPTURING"
  BY <1>2, <1>3, <1>6, <1>9 DEF y
<1> QED BY <1>8, <1>9

LEMMA RequestExitOnOutputSound ==
  ASSUME NEW x \in Output, Sound(x)
  PROVE  /\ Sound(RequestExitOnOutput(x)) /\ Calm(x, RequestExitOnOutput(x))
         /\ StaysBusy(x.surface, RequestExitOnOutput(x).surface)
<1> DEFINE y == RequestExitOnOutput(x)
<1>1. /\ Balanced(y) /\ Calm(x, y) /\ Follows(x, y)
      /\ StaysBusy(x.surface, y.surface)
      /\ y.active = x.active /\ y.awaiting_ui = {}
      /\ y.freezeframe = x.freezeframe
      /\ y.size_is_frozen = x.size_is_frozen
      /\ y.frame.consumers = x.frame.consumers
      /\ y.video_stage = IF x.video_stage = "CAPTURING" THEN "STOP_REQUESTED"
                         ELSE x.video_stage
  BY RequestExitOnOutputBooks DEF Sound, Steady, ConsumersAreReal
<1> HIDE DEF y
<1>2. ConsumersAreReal(y) /\ FreezeframeIsServed(y.freezeframe)
  BY <1>1 DEF Sound, Steady, ConsumersAreReal, Calm
<1>3. UiIsChanging(y)
  BY <1>1 DEF UiIsChanging
<1>4. SizeIsFixed(y)
  BY <1>1 DEF Sound, SizeIsFixed, Calm
<1> QED BY <1>1, <1>2, <1>3, <1>4 DEF Sound, Steady, y

(* What a step obeys                                                       *)

LEMMA ObeysReflexive ==
  ASSUME NEW s \in State
  PROVE  Obeys(s, s)
  BY DEF Obeys, ExitObeyed, GoneObeyed, ChangingObeyed

LEMMA ObeysTransitive ==
  ASSUME NEW s, NEW t, NEW u, Obeys(s, t), Obeys(t, u)
  PROVE  Obeys(s, u)
  BY DEF Obeys, ExitObeyed, GoneObeyed, ChangingObeyed

\* A function that ends by making o's UI change makes up for what ObeysBut allows.
LEMMA ObeysButThenObeys ==
  ASSUME NEW s, NEW o \in Outputs, NEW t, NEW u,
         ObeysBut(s, t, o), Obeys(t, u), UiIsChanging(u.outputs[o])
  PROVE  Obeys(s, u)
  BY DEF Obeys, ObeysBut, ExitObeyed, GoneObeyed, ChangingObeyed

LEMMA OutputOfState ==
  ASSUME NEW s \in State, NEW o \in Outputs
  PROVE  s.outputs[o] \in Output
  BY DEF State

LEMMA PutValues ==
  ASSUME NEW s \in State, NEW o \in Outputs, NEW x \in Output
  PROVE  /\ Put(s, o, x) \in State
         /\ Put(s, o, x).exit_requested = s.exit_requested
         /\ Put(s, o, x).outputs[o] = x
         /\ \A p \in Outputs \ {o} : Put(s, o, x).outputs[p] = s.outputs[p]
  BY DEF Put, State

LEMMA PutObeysBut ==
  ASSUME NEW s \in State, NEW o \in Outputs, NEW x \in Output,
         s.exit_requested => /\ AllConsumers(x) \subseteq AllConsumers(s.outputs[o])
                             /\ x.awaiting_ui \subseteq s.outputs[o].awaiting_ui,
         UiIsGone(s.outputs[o]) => UiIsGone(x)
  PROVE  ObeysBut(s, Put(s, o, x), o)
<1> DEFINE t == Put(s, o, x)
<1>1. /\ t \in State
      /\ t.exit_requested = s.exit_requested
      /\ t.outputs[o] = x
      /\ \A p \in Outputs \ {o} : t.outputs[p] = s.outputs[p]
  BY PutValues
<1> HIDE DEF t
<1>2. ExitObeyed(s, t)
  BY <1>1 DEF ExitObeyed, GivenUp
<1>3. GoneObeyed(s, t)
  BY <1>1 DEF GoneObeyed
<1>4. ChangingObeyed(s, t, Outputs \ {o})
  BY <1>1 DEF ChangingObeyed
<1> QED BY <1>1, <1>2, <1>3, <1>4 DEF ObeysBut, t

LEMMA PutFollows ==
  ASSUME NEW s \in State, NEW o \in Outputs, NEW x, Follows(s.outputs[o], x)
  PROVE  Obeys(s, Put(s, o, x))
<1> DEFINE t == Put(s, o, x)
<1>1. x \in Output
  BY DEF Follows
<1>2. ObeysBut(s, t, o)
  BY <1>1, PutObeysBut DEF Follows
<1>3. t.outputs[o] = x
  BY <1>1, PutValues
<1> HIDE DEF t
<1>4. ChangingObeyed(s, t, Outputs)
  BY <1>2, <1>3 DEF ObeysBut, ChangingObeyed, Follows
<1> QED BY <1>2, <1>4 DEF ObeysBut, Obeys, t

\* Every output may be replaced by one that follows it.
LEMMA OutputsObey ==
  ASSUME NEW s \in State, NEW outputs, NEW requested \in BOOLEAN,
         outputs \in [Outputs -> Output],
         s.exit_requested => requested,
         requested => s.exit_requested \/ \A p \in Outputs : outputs[p].awaiting_ui = {},
         \A p \in Outputs : Follows(s.outputs[p], outputs[p])
  PROVE  Obeys(s, [s EXCEPT !.exit_requested = requested, !.outputs = outputs])
<1> DEFINE t == [s EXCEPT !.exit_requested = requested, !.outputs = outputs]
<1>1. t \in State /\ t.exit_requested = requested /\ t.outputs = outputs
  BY DEF State
<1> HIDE DEF t
<1>2. ExitObeyed(s, t)
  BY <1>1 DEF ExitObeyed, GivenUp, Follows
<1>3. GoneObeyed(s, t)
  BY <1>1 DEF GoneObeyed, Follows
<1>4. ChangingObeyed(s, t, Outputs)
  BY <1>1 DEF ChangingObeyed, Follows
<1> QED BY <1>1, <1>2, <1>3, <1>4 DEF Obeys, t

LEMMA StdoutObeys ==
  ASSUME NEW s \in State, NEW o \in Outputs, NEW purpose \in {"IMAGE", "VIDEO"}
  PROVE  /\ Obeys(s, StdoutReserve(s, o, purpose))
         /\ Obeys(s, StdoutRelease(s, o, purpose))
         /\ StdoutReserve(s, o, purpose).outputs = s.outputs
         /\ StdoutRelease(s, o, purpose).outputs = s.outputs
<1>1. [output |-> o, purpose |-> purpose] \in Reservation
  BY DEF Reservation
<1>2. \A r \in Reservation \cup {Unreserved} :
        Obeys(s, [s EXCEPT !.stdout = r]) /\ [s EXCEPT !.stdout = r].outputs = s.outputs
  BY DEF Obeys, ExitObeyed, GivenUp, GoneObeyed, ChangingObeyed, State
<1> QED BY <1>1, <1>2, ObeysReflexive DEF StdoutReserve, StdoutRelease

LEMMA RequestExitObeys ==
  ASSUME NEW s \in State
  PROVE  Obeys(s, RequestExit(s))
<1>1. \A o \in Outputs : /\ Follows(s.outputs[o], RequestExitOnOutput(s.outputs[o]))
                          /\ RequestExitOnOutput(s.outputs[o]).awaiting_ui = {}
  BY OutputOfState, RequestExitOnOutputFollows
<1> DEFINE outputs == [o \in Outputs |-> RequestExitOnOutput(s.outputs[o])]
<1>2. /\ outputs \in [Outputs -> Output]
      /\ \A o \in Outputs : Follows(s.outputs[o], outputs[o]) /\ outputs[o].awaiting_ui = {}
  BY <1>1 DEF Follows
<1> HIDE DEF outputs
<1>3. Obeys(s, [s EXCEPT !.exit_requested = TRUE, !.outputs = outputs])
  BY <1>2, OutputsObey
<1> QED BY <1>3 DEF RequestExit, outputs

LEMMA ActiveButtonObeys ==
  ASSUME NEW s \in State, NEW button \in PointerButtons \cup {"NONE"}
  PROVE  Obeys(s, [s EXCEPT !.active_button = button])
  BY DEF Obeys, ExitObeyed, GivenUp, GoneObeyed, ChangingObeyed, State

LEMMA SelectionSizeObeys ==
  ASSUME NEW s \in State, NEW o \in Outputs
  PROVE  /\ Obeys(s, SelectionFreezeSize(s, o))
         /\ Obeys(s, SelectionUnfreezeSize(s, o))
<1> DEFINE x == s.outputs[o]
<1>1. x \in Output
  BY OutputOfState
<1>2. Obeys(s, SelectionFreezeSize(s, o))
  <2> DEFINE resizing == x.selection = "RESIZING"
             y == Check(x, x.selection = "NONE" => AllConsumers(x) # {}, "selection.h:67")
             z == [y EXCEPT !.size_is_frozen = TRUE,
                            !.selection = IF resizing THEN "COMPLETE" ELSE @]
             t == Put(s, o, z)
  <2>1. Follows(x, y)
    <3> HIDE DEF x
    <3> QED BY <1>1, CheckFollows DEF Assertions
  <2>2. Follows(y, z)
    <3> HIDE DEF y
    <3> QED BY <2>1 DEF Follows, Output, SelectionStates, AllConsumers, UiIsGone, UiIsChanging
  <2>3. Obeys(s, t)
    <3> HIDE DEF y, z
    <3> QED BY <2>1, <2>2, FollowsTransitive, PutFollows
  <2>4. t.active_button \in PointerButtons \cup {"NONE"}
    <3> HIDE DEF t
    <3> QED BY <2>3 DEF Obeys, State
  <2>5. Obeys(t, [t EXCEPT !.active_button = IF resizing THEN "NONE" ELSE @])
    <3> HIDE DEF t
    <3> QED BY <2>3, <2>4, ActiveButtonObeys DEF Obeys
  <2>6. SelectionFreezeSize(s, o) = [t EXCEPT !.active_button = IF resizing THEN "NONE" ELSE @]
    BY DEF SelectionFreezeSize
  <2> HIDE DEF t
  <2> QED BY <2>3, <2>5, <2>6, ObeysTransitive
<1>3. Obeys(s, SelectionUnfreezeSize(s, o))
  <2>1. Follows(x, [x EXCEPT !.size_is_frozen = FALSE])
    <3> HIDE DEF x
    <3> QED BY <1>1 DEF Follows, Output, AllConsumers, UiIsGone, UiIsChanging
  <2> QED BY <2>1, PutFollows DEF Put, SelectionUnfreezeSize
<1> QED BY <1>2, <1>3

LEMMA FieldsObey ==
  ASSUME NEW s \in State, NEW o \in Outputs
  PROVE  /\ \A stage \in VideoStages : Obeys(s, [s EXCEPT !.outputs[o].video_stage = stage])
         /\ \A after \in BOOLEAN : Obeys(s, [s EXCEPT !.outputs[o].exit_after = after])
         /\ Obeys(s, [s EXCEPT !.outputs[o].captures = @ - 1])
<1>1. s.outputs[o] \in Output
  BY OutputOfState
<1>2. \A stage \in VideoStages : Obeys(s, Put(s, o, [s.outputs[o] EXCEPT !.video_stage = stage]))
  BY <1>1, FieldsFollow, PutFollows
<1>3. \A after \in BOOLEAN : Obeys(s, Put(s, o, [s.outputs[o] EXCEPT !.exit_after = after]))
  BY <1>1, FieldsFollow, PutFollows
<1>4. Obeys(s, Put(s, o, [s.outputs[o] EXCEPT !.captures = @ - 1]))
  BY <1>1, CapturesFollow, PutFollows
<1> QED BY <1>2, <1>3, <1>4 DEF Put

LEMMA MappedObeys ==
  ASSUME NEW s \in State, NEW o \in Outputs
  PROVE  Obeys(s, [s EXCEPT !.outputs[o].freezeframe.startup = FALSE])
<1> DEFINE x == s.outputs[o]
           y == [x EXCEPT !.freezeframe.startup = FALSE]
<1>1. Follows(x, y)
  <2>1. x \in Output
    BY OutputOfState
  <2> HIDE DEF x
  <2> QED BY <2>1 DEF Follows, Output, Freezeframe, AllConsumers, UiIsGone, UiIsChanging
<1>2. Obeys(s, Put(s, o, y))
  BY <1>1, PutFollows
<1> QED BY <1>2 DEF Put

LEMMA ImageStartObeys ==
  ASSUME NEW s \in State, NEW o \in Outputs, NEW exit_after \in BOOLEAN
  PROVE  Obeys(s, ImageStart(s, o, exit_after))
<1> DEFINE x        == s.outputs[o]
           framed   == RequestFrameForced(x, {"IMAGE"})
           counted  == [framed EXCEPT !.captures = @ + 1]
           reserved == StdoutReserve(s, o, "IMAGE")
           checked  == Check(x, ~ReservedFor(s, o, "IMAGE"), "capture.c:596")
           begun    == Put(reserved, o, counted)
           refused  == Put(s, o, checked)
<1>1. x \in Output
  BY OutputOfState
<1>2. Follows(x, counted)
  <2>1. Follows(x, framed)
    <3> HIDE DEF x
    <3> QED BY <1>1, RequestFrameFollows
  <2>2. Follows(framed, counted)
    <3> HIDE DEF framed
    <3> QED BY <2>1, CapturesFollow DEF Follows
  <2> HIDE DEF x, framed, counted
  <2> QED BY <2>1, <2>2, FollowsTransitive
<1>3. Obeys(s, begun)
  <2>1. Obeys(s, reserved) /\ reserved.outputs[o] = x
    BY StdoutObeys
  <2> HIDE DEF reserved, counted, x
  <2>2. Obeys(reserved, begun)
    BY <1>2, <2>1, PutFollows DEF Obeys
  <2> QED BY <2>1, <2>2, ObeysTransitive
<1>4. Obeys(s, refused)
  <2>1. Follows(x, checked)
    <3> HIDE DEF x
    <3> QED BY <1>1, CheckFollows DEF Assertions
  <2> HIDE DEF checked
  <2> QED BY <2>1, PutFollows
<1>5. Obeys(s, s)
  BY ObeysReflexive
<1>6. \A t : Obeys(s, t) => Obeys(s, RequestExit(t))
  <2> SUFFICES ASSUME NEW t, Obeys(s, t) PROVE Obeys(s, RequestExit(t))
    OBVIOUS
  <2>1. Obeys(t, RequestExit(t))
    BY RequestExitObeys DEF Obeys
  <2> QED BY <2>1, ObeysTransitive
<1>7. \E t \in {s, begun, refused} : ImageStart(s, o, exit_after) \in {t, RequestExit(t)}
  BY DEF ImageStart
<1> HIDE DEF begun, refused
<1> QED BY <1>3, <1>4, <1>5, <1>6, <1>7

LEMMA VideoStartObeys ==
  ASSUME NEW s \in State, NEW o \in Outputs, NEW ok \in BOOLEAN
  PROVE  Obeys(s, VideoStart(s, o, ok))
<1> DEFINE frozen   == SelectionFreezeSize(s, o)
           x        == frozen.outputs[o]
           armed    == RequestFrameCallback(x)
           started  == RequestFrameForced(armed, {"VIDEO"})
           staged   == [started EXCEPT !.video_stage = "CAPTURING"]
           counted  == [staged EXCEPT !.captures = @ + 1]
           reserved == StdoutReserve(frozen, o, "VIDEO")
           released == StdoutRelease(frozen, o, "VIDEO")
<1>1. Obeys(s, frozen)
  BY SelectionSizeObeys
<1>2. frozen \in State
  BY <1>1 DEF Obeys
<1> HIDE DEF frozen
<1>3. Follows(x, counted)
  <2>1. Follows(x, armed)
    BY <1>2, OutputOfState, DrawingFollows
  <2> HIDE DEF x, armed
  <2>2. Follows(armed, started)
    BY <2>1, RequestFrameFollows DEF Follows
  <2> HIDE DEF started
  <2>3. Follows(started, staged)
    BY <2>2, FieldsFollow DEF Follows, VideoStages
  <2> HIDE DEF staged
  <2>4. Follows(staged, counted)
    BY <2>3, CapturesFollow DEF Follows
  <2> HIDE DEF counted
  <2> QED BY <2>1, <2>2, <2>3, <2>4, FollowsTransitive
<1>4. Obeys(s, Put(reserved, o, counted))
  <2>1. Obeys(frozen, reserved) /\ reserved.outputs[o] = x
    BY <1>2, StdoutObeys
  <2> HIDE DEF reserved, counted, x
  <2>2. Obeys(reserved, Put(reserved, o, counted))
    BY <1>3, <2>1, PutFollows DEF Obeys
  <2> QED BY <1>1, <2>1, <2>2, ObeysTransitive
<1>5. Obeys(s, SelectionUnfreezeSize(released, o))
  <2>1. Obeys(frozen, released)
    BY <1>2, StdoutObeys
  <2> HIDE DEF released
  <2>2. Obeys(released, SelectionUnfreezeSize(released, o))
    BY <2>1, SelectionSizeObeys DEF Obeys
  <2> QED BY <1>1, <2>1, <2>2, ObeysTransitive
<1>6. VideoStart(s, o, ok) \in
        {s, Put(reserved, o, counted), SelectionUnfreezeSize(released, o)}
  BY DEF VideoStart, frozen
<1> HIDE DEF reserved, counted, released
<1> QED BY <1>4, <1>5, <1>6, ObeysReflexive

LEMMA VideoCancelPendingObeys ==
  ASSUME NEW s \in State, NEW o \in Outputs
  PROVE  Obeys(s, VideoCancelPending(s, o))
<1> DEFINE x == s.outputs[o]
           y == Check(x, x.video_stage = "FULLSCREEN_START_PENDING", "capture.c:388")
           z == [y EXCEPT !.video_stage = "NONE"]
           t == Put(s, o, z)
<1>1. Follows(x, y)
  BY OutputOfState, CheckFollows DEF Assertions
<1>2. Obeys(s, t)
  <2> HIDE DEF x, y
  <2>1. Follows(y, z)
    BY <1>1, FieldsFollow DEF Follows, VideoStages
  <2> HIDE DEF z
  <2>2. Follows(x, z)
    BY <1>1, <2>1, FollowsTransitive
  <2> QED BY <2>2, PutFollows DEF x
<1>3. VideoCancelPending(s, o) = SelectionUnfreezeSize(t, o)
  BY DEF VideoCancelPending
<1> HIDE DEF t
<1>4. Obeys(t, SelectionUnfreezeSize(t, o))
  BY <1>2, SelectionSizeObeys DEF Obeys
<1> QED BY <1>2, <1>3, <1>4, ObeysTransitive

\* What awaits a settled UI begins; an image or a freezeframe among it has no UI in it.
LEMMA DispatchAwaitingObeys ==
  ASSUME NEW s \in State, NEW o \in Outputs, NEW ok \in BOOLEAN,
         UiSettled(s.outputs[o])
  PROVE  /\ Obeys(s, DispatchAwaiting(s, o, ok))
         /\ UiIsChanging(DispatchAwaiting(s, o, ok).outputs[o])
<1> DEFINE x        == s.outputs[o]
           awaiting == x.awaiting_ui
           y        == [x EXCEPT !.active = @ \cup awaiting, !.awaiting_ui = {}]
           begun    == Put(s, o, y)
           imaged   == IF "IMAGE" \in awaiting THEN ImageStart(begun, o, x.exit_after) ELSE begun
           recording == ~imaged.exit_requested /\ VideoStarts(imaged, o, ok)
           filmed   == IF "VIDEO" \notin awaiting THEN imaged
                       ELSE IF imaged.exit_requested THEN VideoCancelPending(imaged, o)
                       ELSE IF recording THEN VideoStart(imaged, o, ok)
                       ELSE VideoCancelPending(VideoStart(imaged, o, ok), o)
           frozen   == IF "FREEZEFRAME" \in awaiting
                         THEN Put(filmed, o, FreezeframeCaptureStart(filmed.outputs[o]))
                         ELSE filmed
           failed   == {c \in awaiting : \/ c = "IMAGE" /\ ~ImageStarts(begun, o)
                                         \/ c = "VIDEO" /\ ~recording}
           ended    == Put(frozen, o, EndWithNoneAwaiting(frozen.outputs[o], failed))
<1>1. x.exit_after \in BOOLEAN
  BY OutputOfState DEF Output
<1>2. Obeys(s, begun) /\ begun \in State /\ UiIsChanging(begun.outputs[o])
  <2>1. Follows(x, y) /\ UiIsChanging(y)
    <3>1. x \in Output /\ UiSettled(x)
      BY OutputOfState
    <3> HIDE DEF x
    <3>2. y \in Output /\ AllConsumers(y) = AllConsumers(x) /\ UiIsChanging(y)
      BY <3>1 DEF Output, AllConsumers, UiIsChanging
    <3>3. UiIsGone(x) => UiIsGone(y)
      <4>1. /\ y.ui = x.ui
            /\ y.surface = x.surface
            /\ y.active = AllConsumers(x)
        BY <3>1 DEF Output, AllConsumers
      <4>2. AllConsumers(x) \cap {"IMAGE", "FREEZEFRAME"} # {} => x.ui = "HIDDEN"
        BY <3>1 DEF UiSettled, UiShouldBeHidden, ConsumersAllowUi
      <4> HIDE DEF y
      <4> QED BY <4>1, <4>2 DEF UiIsGone
    <3> QED BY <3>2, <3>3 DEF Follows
  <2> HIDE DEF y
  <2>2. Obeys(s, begun) /\ begun.outputs[o] = y
    BY <2>1, PutFollows, PutValues DEF Follows
  <2> QED BY <2>1, <2>2 DEF Obeys
<1> HIDE DEF begun, x
<1>3. Obeys(begun, imaged) /\ imaged \in State
  BY <1>1, <1>2, ImageStartObeys, ObeysReflexive DEF Obeys
<1>4. Obeys(begun, filmed) /\ filmed \in State
  <2> HIDE DEF imaged
  <2>1. Obeys(imaged, VideoCancelPending(imaged, o))
    BY <1>3, VideoCancelPendingObeys
  <2>2. Obeys(imaged, VideoStart(imaged, o, ok))
    BY <1>3, VideoStartObeys
  <2>3. Obeys(imaged, VideoCancelPending(VideoStart(imaged, o, ok), o))
    <3> DEFINE started == VideoStart(imaged, o, ok)
    <3> HIDE DEF started
    <3>1. Obeys(imaged, started)
      BY <2>2 DEF started
    <3>2. Obeys(started, VideoCancelPending(started, o))
      BY <3>1, VideoCancelPendingObeys DEF Obeys
    <3>3. Obeys(imaged, VideoCancelPending(started, o))
      BY <3>1, <3>2, ObeysTransitive
    <3> QED BY <3>3 DEF started
  <2>4. filmed \in {imaged, VideoCancelPending(imaged, o), VideoStart(imaged, o, ok),
                    VideoCancelPending(VideoStart(imaged, o, ok), o)}
    OBVIOUS
  <2> HIDE DEF filmed
  <2>5. Obeys(imaged, filmed)
    BY <1>3, <2>1, <2>2, <2>3, <2>4, ObeysReflexive
  <2>6. Obeys(begun, filmed)
    BY <1>3, <2>5, ObeysTransitive
  <2> QED BY <2>6 DEF Obeys
<1>5. Obeys(begun, frozen) /\ frozen \in State
  <2> HIDE DEF filmed
  <2>1. Follows(filmed.outputs[o], FreezeframeCaptureStart(filmed.outputs[o]))
    BY <1>4, OutputOfState, FreezeframeFollows
  <2>2. Obeys(filmed, Put(filmed, o, FreezeframeCaptureStart(filmed.outputs[o])))
    BY <1>4, <2>1, PutFollows
  <2>3. Obeys(filmed, frozen)
    BY <1>4, <2>2, ObeysReflexive
  <2> HIDE DEF frozen
  <2>4. Obeys(begun, frozen)
    BY <1>4, <2>3, ObeysTransitive
  <2> QED BY <2>4 DEF Obeys
<1>6. Obeys(begun, ended)
  <2> HIDE DEF frozen, failed
  <2>1. Follows(frozen.outputs[o], EndWithNoneAwaiting(frozen.outputs[o], failed))
    BY <1>5, OutputOfState, EndFollows
  <2>2. Obeys(frozen, ended)
    BY <1>5, <2>1, PutFollows
  <2> HIDE DEF ended
  <2> QED BY <1>5, <2>2, ObeysTransitive
<1> DEFINE t == DispatchAwaiting(s, o, ok)
<1>7. t \in {frozen, ended}
  BY DEF DispatchAwaiting, begun, x
<1> HIDE DEF frozen, ended, t
<1>8. Obeys(begun, t)
  BY <1>5, <1>6, <1>7
<1>9. UiIsChanging(t.outputs[o])
  BY <1>2, <1>8 DEF Obeys, ChangingObeyed
<1>10. Obeys(s, t)
  BY <1>2, <1>8, ObeysTransitive
<1> QED BY <1>9, <1>10 DEF t

\* After the sync, a consumer that still awaits the UI awaits one that changes.
LEMMA SyncUiAndDispatchObeys ==
  ASSUME NEW s \in State, NEW o \in Outputs, NEW ok \in BOOLEAN
  PROVE  /\ Obeys(s, SyncUiAndDispatch(s, o, ok))
         /\ UiIsChanging(SyncUiAndDispatch(s, o, ok).outputs[o])
<1> DEFINE x == s.outputs[o]
           y == SyncUi(x)
<1>1. CASE UiSettled(x) /\ x.awaiting_ui # {}
  BY <1>1, DispatchAwaitingObeys DEF SyncUiAndDispatch
<1>2. CASE ~(UiSettled(x) /\ x.awaiting_ui # {})
  <2>1. SyncUiAndDispatch(s, o, ok) = Put(s, o, y)
    BY <1>2 DEF SyncUiAndDispatch
  <2>2. Follows(x, y) /\ UiIsChanging(y)
    <3>1. x \in Output
      BY OutputOfState
    <3> HIDE DEF x
    <3>2. Follows(x, y) /\ (~UiSettled(x) => UiIsChanging(y))
      BY <3>1, SyncUiFollows
    <3>3. x.awaiting_ui = {} => UiIsChanging(x)
      BY DEF UiIsChanging
    <3> QED BY <1>2, <3>2, <3>3 DEF Follows
  <2> HIDE DEF y
  <2>3. Obeys(s, Put(s, o, y)) /\ Put(s, o, y).outputs[o] = y
    BY <2>2, PutFollows, PutValues DEF Follows
  <2> QED BY <2>1, <2>2, <2>3
<1> QED BY <1>1, <1>2

LEMMA SyncUiAndDispatchRepairs ==
  ASSUME NEW s \in State, NEW o \in Outputs, NEW ok \in BOOLEAN, NEW t, ObeysBut(s, t, o)
  PROVE  Obeys(s, SyncUiAndDispatch(t, o, ok))
  BY SyncUiAndDispatchObeys, ObeysButThenObeys DEF ObeysBut

LEMMA FullscreenStartObeys ==
  ASSUME NEW s \in State, NEW o \in Outputs, NEW consumer \in Consumers, NEW ok \in BOOLEAN
  PROVE  Obeys(s, FullscreenStart(s, o, consumer, ok))
<1> DEFINE x == s.outputs[o]
           n == IF AllConsumers(x) = {} THEN x.captures + 1 ELSE x.captures
           y == [x EXCEPT !.captures = n, !.awaiting_ui = @ \cup {consumer}]
           t == Put(s, o, y)
<1>1. CASE s.exit_requested
  BY <1>1, ObeysReflexive DEF FullscreenStart
<1>2. CASE ~s.exit_requested
  <2>1. y \in Output /\ (UiIsGone(x) => UiIsGone(y))
    <3>1. x \in Output
      BY OutputOfState
    <3>2. n \in Int
      BY <3>1 DEF Output
    <3> HIDE DEF x, n
    <3> QED BY <3>1, <3>2 DEF Output, UiIsGone
  <2>2. ObeysBut(s, t, o)
    <3> HIDE DEF y
    <3> QED BY <1>2, <2>1, PutObeysBut
  <2>3. FullscreenStart(s, o, consumer, ok) \in {s, SyncUiAndDispatch(t, o, ok)}
    BY DEF FullscreenStart
  <2> HIDE DEF t
  <2>4. Obeys(s, SyncUiAndDispatch(t, o, ok))
    BY <2>2, SyncUiAndDispatchRepairs
  <2> QED BY <2>3, <2>4, ObeysReflexive
<1> QED BY <1>1, <1>2

LEMMA FullscreenEndObeys ==
  ASSUME NEW s \in State, NEW o \in Outputs, NEW consumer \in Consumers, NEW ok \in BOOLEAN
  PROVE  Obeys(s, FullscreenEnd(s, o, consumer, ok))
<1> DEFINE t == Put(s, o, EndConsumers(s.outputs[o], {consumer}))
<1>1. Obeys(s, t)
  BY OutputOfState, EndConsumersFollows, PutFollows
<1>2. FullscreenEnd(s, o, consumer, ok) = SyncUiAndDispatch(t, o, ok)
  BY DEF FullscreenEnd
<1> HIDE DEF t
<1>3. Obeys(t, SyncUiAndDispatch(t, o, ok))
  BY <1>1, SyncUiAndDispatchObeys DEF Obeys
<1> QED BY <1>1, <1>2, <1>3, ObeysTransitive

LEMMA ImageStartFullscreenObeys ==
  ASSUME NEW s \in State, NEW o \in Outputs, NEW exit_after \in BOOLEAN, NEW ok \in BOOLEAN
  PROVE  Obeys(s, ImageStartFullscreen(s, o, exit_after, ok))
<1> DEFINE asked  == [s EXCEPT !.outputs[o].exit_after = exit_after]
           begun  == FullscreenStart(asked, o, "IMAGE", ok)
           undone == [begun EXCEPT !.outputs[o].exit_after = s.outputs[o].exit_after]
<1>1. Obeys(s, asked)
  BY FieldsObey
<1>2. Obeys(s, begun)
  <2> HIDE DEF asked
  <2>1. Obeys(asked, begun)
    BY <1>1, FullscreenStartObeys DEF Obeys, Consumers
  <2> QED BY <1>1, <2>1, ObeysTransitive
<1>3. Obeys(s, undone)
  <2>1. s.outputs[o].exit_after \in BOOLEAN
    BY OutputOfState DEF Output
  <2> HIDE DEF begun
  <2>2. Obeys(begun, undone)
    BY <1>2, <2>1, FieldsObey DEF Obeys
  <2> QED BY <1>2, <2>2, ObeysTransitive
<1>4. ImageStartFullscreen(s, o, exit_after, ok) \in {s, RequestExit(s), begun, undone}
  BY DEF ImageStartFullscreen
<1> HIDE DEF begun, undone
<1> QED BY <1>2, <1>3, <1>4, ObeysReflexive, RequestExitObeys

LEMMA VideoStartFullscreenObeys ==
  ASSUME NEW s \in State, NEW o \in Outputs, NEW ok \in BOOLEAN
  PROVE  Obeys(s, VideoStartFullscreen(s, o, ok))
<1> DEFINE pending == [s EXCEPT !.outputs[o].video_stage = "FULLSCREEN_START_PENDING"]
           begun   == FullscreenStart(pending, o, "VIDEO", ok)
           undone  == [begun EXCEPT !.outputs[o].video_stage = "NONE"]
<1>1. Obeys(s, pending)
  BY FieldsObey DEF VideoStages
<1>2. Obeys(s, begun)
  <2> HIDE DEF pending
  <2>1. Obeys(pending, begun)
    BY <1>1, FullscreenStartObeys DEF Obeys, Consumers
  <2> QED BY <1>1, <2>1, ObeysTransitive
<1>3. VideoStartFullscreen(s, o, ok) \in {s, SelectionFreezeSize(begun, o), undone}
  BY DEF VideoStartFullscreen
<1> HIDE DEF begun
<1>4. Obeys(begun, SelectionFreezeSize(begun, o))
  BY <1>2, SelectionSizeObeys DEF Obeys
<1>5. Obeys(begun, undone)
  BY <1>2, FieldsObey DEF Obeys, VideoStages
<1> HIDE DEF undone
<1> QED BY <1>2, <1>3, <1>4, <1>5, ObeysReflexive, ObeysTransitive

LEMMA ImageFinishObeys ==
  ASSUME NEW s \in State, NEW o \in Outputs, NEW ok \in BOOLEAN
  PROVE  Obeys(s, ImageFinish(s, o, ok))
<1> DEFINE ended    == IF "IMAGE" \in s.outputs[o].active
                         THEN FullscreenEnd(s, o, "IMAGE", ok) ELSE s
           y        == ended.outputs[o]
           x        == Check(y, OutputToStdout => ReservedFor(ended, o, "IMAGE"), "capture.c:620")
           z        == [x EXCEPT !.captures = @ - 1]
           released == StdoutRelease(ended, o, "IMAGE")
<1>1. Obeys(s, ended)
  BY FullscreenEndObeys, ObeysReflexive DEF Consumers
<1>2. ImageFinish(s, o, ok) = Put(released, o, z)
  BY DEF ImageFinish
<1> HIDE DEF ended
<1>3. Follows(y, z)
  <2>1. Follows(y, x)
    BY <1>1, OutputOfState, CheckFollows DEF Obeys, Assertions
  <2> HIDE DEF y, x
  <2>2. Follows(x, z)
    BY <2>1, CapturesFollow DEF Follows
  <2> QED BY <2>1, <2>2, FollowsTransitive
<1>4. Obeys(ended, released) /\ released.outputs[o] = y
  BY <1>1, StdoutObeys DEF Obeys
<1> HIDE DEF released, y, z
<1>5. Obeys(released, Put(released, o, z))
  BY <1>3, <1>4, PutFollows DEF Obeys
<1> QED BY <1>1, <1>2, <1>4, <1>5, ObeysTransitive

LEMMA VideoFinishObeys ==
  ASSUME NEW s \in State, NEW o \in Outputs, NEW ok \in BOOLEAN
  PROVE  Obeys(s, VideoFinish(s, o, ok))
<1> DEFINE released == StdoutRelease(s, o, "VIDEO")
           armed    == Put(released, o, RequestFrameCallback(s.outputs[o]))
           thawed   == SelectionUnfreezeSize(armed, o)
           ended    == IF "VIDEO" \in s.outputs[o].active
                         THEN FullscreenEnd(thawed, o, "VIDEO", ok) ELSE thawed
           y        == [ended.outputs[o] EXCEPT !.captures = @ - 1]
           z        == [y EXCEPT !.video_stage = "NONE"]
<1>1. Obeys(s, armed)
  <2>1. Obeys(s, released) /\ released.outputs[o] = s.outputs[o]
    BY StdoutObeys
  <2>2. Follows(s.outputs[o], RequestFrameCallback(s.outputs[o]))
    BY OutputOfState, DrawingFollows
  <2> HIDE DEF released
  <2>3. Obeys(released, armed)
    BY <2>1, <2>2, PutFollows DEF Obeys
  <2> QED BY <2>1, <2>3, ObeysTransitive
<1>2. Obeys(s, thawed)
  <2> HIDE DEF armed
  <2>1. Obeys(armed, thawed)
    BY <1>1, SelectionSizeObeys DEF Obeys
  <2> QED BY <1>1, <2>1, ObeysTransitive
<1>3. Obeys(s, ended)
  <2> HIDE DEF thawed
  <2>1. Obeys(thawed, FullscreenEnd(thawed, o, "VIDEO", ok))
    BY <1>2, FullscreenEndObeys DEF Obeys, Consumers
  <2> QED BY <1>2, <2>1, ObeysTransitive
<1>4. VideoFinish(s, o, ok) = Put(ended, o, z)
  BY DEF VideoFinish
<1> HIDE DEF ended
<1>5. Follows(ended.outputs[o], z)
  <2>1. Follows(ended.outputs[o], y)
    BY <1>3, OutputOfState, CapturesFollow DEF Obeys
  <2> HIDE DEF y
  <2>2. Follows(y, z)
    BY <2>1, FieldsFollow DEF Follows, VideoStages
  <2> QED BY <2>1, <2>2, FollowsTransitive
<1> HIDE DEF z
<1>6. Obeys(ended, Put(ended, o, z))
  BY <1>3, <1>5, PutFollows DEF Obeys
<1> QED BY <1>3, <1>4, <1>6, ObeysTransitive

LEMMA SelectionSetInitializedObeys ==
  ASSUME NEW s \in State, NEW o \in Outputs
  PROVE  Obeys(s, SelectionSetInitialized(s, o))
<1> DEFINE x == s.outputs[o]
           y == Check(x, \/ x.selection = "INITIALIZING"
                         \/ InitialSelection # {} /\ x.selection = "NONE", "selection.c:25")
           z == [y EXCEPT !.selection = "COMPLETE"]
           t == Put(s, o, z)
           done == [t EXCEPT !.active_button = "NONE"]
<1>1. Obeys(s, t)
  <2>1. Follows(x, y)
    BY OutputOfState, CheckFollows DEF Assertions
  <2> HIDE DEF x, y
  <2>2. Follows(y, z)
    BY <2>1, FieldsFollow DEF Follows, SelectionStates
  <2> HIDE DEF z
  <2>3. Follows(x, z)
    BY <2>1, <2>2, FollowsTransitive
  <2> QED BY <2>3, PutFollows DEF x
<1>2. Obeys(s, done)
  <2> HIDE DEF t
  <2>1. Obeys(t, done)
    BY <1>1, ActiveButtonObeys DEF Obeys
  <2> QED BY <1>1, <2>1, ObeysTransitive
<1> DEFINE imaged == ImageStart(done, o, TRUE)
           exited == RequestExit(imaged)
<1>3. SelectionSetInitialized(s, o) \in {done, exited}
  BY DEF SelectionSetInitialized
<1> HIDE DEF done
<1>4. Obeys(done, imaged)
  BY <1>2, ImageStartObeys DEF Obeys
<1> HIDE DEF imaged
<1>5. Obeys(imaged, exited)
  BY <1>4, RequestExitObeys DEF Obeys
<1> HIDE DEF exited
<1> QED BY <1>2, <1>3, <1>4, <1>5, ObeysTransitive

LEMMA InitSelectionSurfaceContentObeys ==
  ASSUME NEW s \in State, NEW o \in Outputs
  PROVE  Obeys(s, InitSelectionSurfaceContent(s, o))
<1> DEFINE selected == IF o \in InitialSelection THEN SelectionSetInitialized(s, o) ELSE s
           y == selected.outputs[o]
           x == Check(y, \A b \in Buffers : selected.outputs[o].surface.buffers[b].busy,
                      "selection-surface.c:1377")
           z == [x EXCEPT !.surface = InitContent(@)]
<1>1. Obeys(s, selected)
  BY SelectionSetInitializedObeys, ObeysReflexive
<1>2. InitSelectionSurfaceContent(s, o) = Put(selected, o, z)
  BY DEF InitSelectionSurfaceContent
<1> HIDE DEF selected
<1>3. Follows(y, z)
  <2>1. Follows(y, x)
    BY <1>1, OutputOfState, CheckFollows DEF Obeys, Assertions
  <2> HIDE DEF y, x
  <2>2. x \in Output /\ x.surface \in Surface
    BY <2>1 DEF Follows, Output
  <2>3. Keeps(x.surface, InitContent(x.surface))
    BY <2>2, InitContentKeeps
  <2>4. Follows(x, z)
    BY <2>2, <2>3, SurfaceFollows
  <2> QED BY <2>1, <2>4, FollowsTransitive
<1> HIDE DEF z
<1>4. Obeys(selected, Put(selected, o, z))
  BY <1>1, <1>3, PutFollows DEF Obeys
<1> QED BY <1>1, <1>2, <1>4, ObeysTransitive

LEMMA FreezeframeFinishObeys ==
  ASSUME NEW s \in State, NEW o \in Outputs, NEW ok \in BOOLEAN
  PROVE  Obeys(s, FreezeframeFinish(s, o, ok))
<1> DEFINE x     == s.outputs[o]
           y     == Check(x, x.freezeframe.stage = "CAPTURING", "freezeframe.c:122")
           z     == [y EXCEPT !.freezeframe.stage = "IDLE"]
           idle  == Put(s, o, z)
           ended == IF "FREEZEFRAME" \in x.active THEN FullscreenEnd(idle, o, "FREEZEFRAME", ok)
                    ELSE idle
           mapped == [ended EXCEPT !.outputs[o].freezeframe.startup = FALSE]
           drawn  == InitSelectionSurfaceContent(mapped, o)
<1>1. Obeys(s, idle)
  <2>1. Follows(x, y)
    BY OutputOfState, CheckFollows DEF Assertions
  <2> HIDE DEF x, y
  <2>2. Follows(y, z)
    BY <2>1 DEF Follows, Output, Freezeframe, FreezeframeStages, AllConsumers, UiIsGone, UiIsChanging
  <2> HIDE DEF z
  <2>3. Follows(x, z)
    BY <2>1, <2>2, FollowsTransitive
  <2> QED BY <2>3, PutFollows DEF x
<1>2. Obeys(s, ended)
  <2> HIDE DEF idle
  <2>1. Obeys(idle, FullscreenEnd(idle, o, "FREEZEFRAME", ok))
    BY <1>1, FullscreenEndObeys DEF Obeys, Consumers
  <2> QED BY <1>1, <2>1, ObeysTransitive
<1>3. FreezeframeFinish(s, o, ok) \in {ended, drawn}
  BY DEF FreezeframeFinish
<1> HIDE DEF ended
<1>4. Obeys(ended, mapped)
  BY <1>2, MappedObeys DEF Obeys
<1> HIDE DEF mapped
<1>5. Obeys(mapped, drawn)
  BY <1>4, InitSelectionSurfaceContentObeys DEF Obeys
<1> HIDE DEF drawn
<1> QED BY <1>2, <1>3, <1>4, <1>5, ObeysTransitive

LEMMA FreezeframeShowObeys ==
  ASSUME NEW s \in State, NEW o \in Outputs, NEW needs_rotation \in BOOLEAN,
         NEW rotated \in BOOLEAN, NEW ok \in BOOLEAN
  PROVE  Obeys(s, FreezeframeShow(s, o, needs_rotation, rotated, ok))
<1> DEFINE x == s.outputs[o]
           w == Check(x, x.freezeframe.stage = "CAPTURING", "freezeframe.c:155")
           y == Check(w, ~x.freezeframe.capture_busy, "freezeframe.c:156")
           waiting == [y EXCEPT !.freezeframe.surface_waiting = TRUE]
           shown   == [y EXCEPT !.freezeframe.capture_busy = @ \/ ~rotated,
                                !.freezeframe.surface_busy = @ \/ rotated,
                                !.freezeframe.showing = TRUE]
           put     == Put(s, o, shown)
<1>1. Follows(x, y)
  <2>1. Follows(x, w)
    BY OutputOfState, CheckFollows DEF Assertions
  <2>2. Follows(w, y)
    <3> HIDE DEF w
    <3> QED BY <2>1, CheckFollows DEF Follows, Assertions
  <2> HIDE DEF x, w, y
  <2> QED BY <2>1, <2>2, FollowsTransitive
<1>2. FreezeframeShow(s, o, needs_rotation, rotated, ok)
        \in {Put(s, o, waiting), FreezeframeFinish(put, o, ok)}
  BY DEF FreezeframeShow
<1> HIDE DEF y
<1>3. Follows(y, waiting) /\ Follows(y, shown)
  <2> DEFINE f == y.freezeframe
             h == [f EXCEPT !.capture_busy = @ \/ ~rotated, !.surface_busy = @ \/ rotated,
                            !.showing = TRUE]
  <2>1. f \in Freezeframe /\ y \in Output
    BY <1>1 DEF Follows, Output
  <2>2. h \in Freezeframe
    <3> HIDE DEF f
    <3> QED BY <2>1 DEF Freezeframe
  <2>3. Follows(y, shown)
    <3> HIDE DEF h
    <3>1. Follows(y, [y EXCEPT !.freezeframe = h])
      BY <2>1, <2>2 DEF Follows, Output, AllConsumers, UiIsGone, UiIsChanging
    <3> QED BY <3>1 DEF h
  <2>4. Follows(y, waiting)
    BY <2>1 DEF Follows, Output, Freezeframe, AllConsumers, UiIsGone, UiIsChanging
  <2> QED BY <2>3, <2>4
<1> HIDE DEF x, waiting, shown
<1>4. Obeys(s, Put(s, o, waiting)) /\ Obeys(s, put)
  BY <1>1, <1>3, FollowsTransitive, PutFollows DEF x
<1> HIDE DEF put
<1>5. Obeys(put, FreezeframeFinish(put, o, ok))
  BY <1>4, FreezeframeFinishObeys DEF Obeys
<1> QED BY <1>2, <1>4, <1>5, ObeysTransitive

(* What holds of a state                                                   *)

LEMMA QuietTransitive ==
  ASSUME NEW s, NEW t, NEW u, Quiet(s, t), Quiet(t, u)
  PROVE  Quiet(s, u)
  BY DEF Quiet

LEMMA QuietReflexive ==
  ASSUME NEW s
  PROVE  Quiet(s, s)
  BY DEF Quiet

LEMMA CalmOnReflexive ==
  ASSUME NEW s, NEW outputs
  PROVE  CalmOn(s, s, outputs)
  BY CalmReflexive DEF CalmOn, StaysBusy

LEMMA CalmOnTransitive ==
  ASSUME NEW s, NEW t, NEW u, NEW outputs, CalmOn(s, t, outputs), CalmOn(t, u, outputs)
  PROVE  CalmOn(s, u, outputs)
  BY CalmTransitive DEF CalmOn, StaysBusy

LEMMA GoesOnReflexive ==
  ASSUME NEW x \in Output, Balanced(x)
  PROVE  GoesOn(x, x)
  BY DEF GoesOn, StaysBusy

LEMMA GoesOnTransitive ==
  ASSUME NEW x, NEW y, NEW z, GoesOn(x, y), GoesOn(y, z)
  PROVE  GoesOn(x, z)
  BY DEF GoesOn, StaysBusy

\* Calm on the others, and going on here, is quiet.
LEMMA CalmAndGoingOnIsQuiet ==
  ASSUME NEW s, NEW t, NEW o \in Outputs,
         CalmOn(s, t, Outputs \ {o}), GoesOn(s.outputs[o], t.outputs[o])
  PROVE  Quiet(s, t)
  BY DEF Quiet, CalmOn, Calm, GoesOn

(* Stdout                                                                  *)

LEMMA ReservationsDiffer ==
  ASSUME NEW o, NEW p, NEW purpose \in {"IMAGE", "VIDEO"}, NEW q \in {"IMAGE", "VIDEO"}
  PROVE  /\ [output |-> o, purpose |-> purpose] # Unreserved
         /\ [output |-> o, purpose |-> purpose] = [output |-> p, purpose |-> q]
              <=> p = o /\ q = purpose
<1> DEFINE a == [output |-> o, purpose |-> purpose]
           b == [output |-> p, purpose |-> q]
<1>1. a.output = o /\ a.purpose = purpose /\ b.output = p /\ b.purpose = q
  OBVIOUS
<1>2. Unreserved.purpose = "NONE"
  BY DEF Unreserved
<1> QED BY <1>1, <1>2

LEMMA PutStdout ==
  ASSUME NEW s \in State, NEW o \in Outputs, NEW x \in Output
  PROVE  Put(s, o, x).stdout = s.stdout /\ Put(s, o, x).active_button = s.active_button
  BY DEF Put, State

LEMMA StdoutKept ==
  ASSUME NEW s \in State, NEW t \in State, StdoutIsOwned(s), t.stdout = s.stdout,
         \A p \in Outputs, purpose \in {"IMAGE", "VIDEO"} :
           Capturing(t.outputs[p], purpose) <=> Capturing(s.outputs[p], purpose)
  PROVE  StdoutIsOwned(t)
  BY DEF StdoutIsOwned, StdoutIsFree, ReservedFor

\* A capture that begins where stdout is free becomes its owner.
LEMMA StdoutTaken ==
  ASSUME NEW s \in State, NEW o \in Outputs, NEW purpose \in {"IMAGE", "VIDEO"},
         NEW y \in Output, StdoutIsOwned(s), OutputToStdout => StdoutIsFree(s),
         Capturing(y, purpose),
         \A q \in {"IMAGE", "VIDEO"} \ {purpose} :
           Capturing(y, q) <=> Capturing(s.outputs[o], q)
  PROVE  LET t == Put(StdoutReserve(s, o, purpose), o, y)
         IN /\ t \in State
            /\ StdoutIsOwned(t)
            /\ t.exit_requested = s.exit_requested
            /\ t.outputs[o] = y
            /\ \A p \in Outputs \ {o} : t.outputs[p] = s.outputs[p]
<1> DEFINE r == StdoutReserve(s, o, purpose)
           t == Put(r, o, y)
<1>1. /\ r \in State /\ r.outputs = s.outputs /\ r.exit_requested = s.exit_requested
      /\ r.stdout = IF OutputToStdout THEN [output |-> o, purpose |-> purpose] ELSE s.stdout
  BY DEF StdoutReserve, State, Reservation
<1> HIDE DEF r
<1>2. /\ t \in State /\ t.stdout = r.stdout /\ t.exit_requested = s.exit_requested
      /\ t.outputs[o] = y
      /\ \A p \in Outputs \ {o} : t.outputs[p] = s.outputs[p]
  BY <1>1, PutValues, PutStdout
<1> HIDE DEF t
<1>3. ASSUME ~OutputToStdout PROVE StdoutIsOwned(t)
  BY <1>1, <1>2, <1>3 DEF StdoutIsOwned, StdoutIsFree
<1>4. ASSUME OutputToStdout PROVE StdoutIsOwned(t)
  <2>1. \A p \in Outputs, q \in {"IMAGE", "VIDEO"} : ~Capturing(s.outputs[p], q)
    <3> TAKE p \in Outputs, q \in {"IMAGE", "VIDEO"}
    <3>1. [output |-> p, purpose |-> q] # Unreserved
      BY ReservationsDiffer
    <3> QED BY <1>4, <3>1 DEF StdoutIsOwned, StdoutIsFree, ReservedFor
  <2>2. \A p \in Outputs, q \in {"IMAGE", "VIDEO"} :
          Capturing(t.outputs[p], q) <=> p = o /\ q = purpose
    BY <1>2, <2>1
  <2>3. \A p \in Outputs, q \in {"IMAGE", "VIDEO"} :
          ReservedFor(t, p, q) <=> p = o /\ q = purpose
    BY <1>1, <1>2, <1>4, ReservationsDiffer DEF ReservedFor
  <2>4. StdoutIsOwned(t)
    BY <1>4, <2>2, <2>3 DEF StdoutIsOwned
  <2> QED BY <2>4
<1> QED BY <1>2, <1>3, <1>4 DEF t, r

(* Steps on one output, and exit                                           *)

\* A calm change of one output.
LEMMA PutCalm ==
  ASSUME NEW s \in State, NEW o \in Outputs, NEW x \in Output, StdoutIsOwned(s),
         Calm(s.outputs[o], x)
  PROVE  LET t == Put(s, o, x)
         IN /\ t \in State
            /\ StdoutIsOwned(t)
            /\ Quiet(s, t)
<1> DEFINE t == Put(s, o, x)
<1>1. /\ t \in State /\ t.stdout = s.stdout
      /\ t.outputs[o] = x
      /\ \A p \in Outputs \ {o} : t.outputs[p] = s.outputs[p]
  BY PutValues, PutStdout
<1> HIDE DEF t
<1>2. \A p \in Outputs, purpose \in {"IMAGE", "VIDEO"} :
        Capturing(t.outputs[p], purpose) <=> Capturing(s.outputs[p], purpose)
  BY <1>1 DEF Calm, Capturing
<1>3. Quiet(s, t)
  BY <1>1 DEF Quiet, Calm
<1> QED BY <1>1, <1>2, <1>3, StdoutKept DEF t

LEMMA PutSound ==
  ASSUME NEW s \in State, NEW o \in Outputs, NEW x \in Output,
         OthersSound(s, Outputs \ {o}),
         SlurpIsNoCapture(s.outputs[o]) \/ SlurpIsNoCapture(x),
         Sound(x), Calm(s.outputs[o], x)
  PROVE  SoundState(Put(s, o, x)) /\ Quiet(s, Put(s, o, x))
<1> DEFINE t == Put(s, o, x)
<1>1. t \in State /\ StdoutIsOwned(t) /\ Quiet(s, t)
  BY PutCalm DEF OthersSound
<1>2. t.outputs[o] = x /\ \A p \in Outputs \ {o} : t.outputs[p] = s.outputs[p]
  BY PutValues
<1> HIDE DEF t
<1>3. SlurpIsNoCapture(x)
  BY DEF SlurpIsNoCapture, Calm
<1>4. SoundState(t)
  BY <1>1, <1>2, <1>3 DEF SoundState, OthersSound
<1> QED BY <1>1, <1>4 DEF t

\* scran_request_exit() where one output is in the midst of a dispatch.
LEMMA RequestExitGoesOn ==
  ASSUME NEW s \in State, NEW o \in Outputs, OthersSound(s, Outputs \ {o}),
         Balanced(s.outputs[o]), s.outputs[o].active \cap s.outputs[o].awaiting_ui = {}
  PROVE  LET t == RequestExit(s)
         IN /\ t \in State
            /\ OthersSound(t, Outputs \ {o})
            /\ CalmOn(s, t, Outputs)
            /\ GoesOn(s.outputs[o], t.outputs[o])
            /\ t.outputs[o].frame.consumers = s.outputs[o].frame.consumers
            /\ t.outputs[o].awaiting_ui = {}
<1> DEFINE t == RequestExit(s)
           y(p) == RequestExitOnOutput(s.outputs[p])
<1>1. Obeys(s, t)
  BY RequestExitObeys
<1>2. t.outputs = [p \in Outputs |-> y(p)] /\ t.stdout = s.stdout
  BY DEF RequestExit, State
<1>3. \A p \in Outputs : s.outputs[p] \in Output
  BY OutputOfState
<1> HIDE DEF t
<1>4. \A p \in Outputs \ {o} :
        /\ Sound(y(p)) /\ Calm(s.outputs[p], y(p))
        /\ StaysBusy(s.outputs[p].surface, y(p).surface)
  BY <1>3, RequestExitOnOutputSound DEF OthersSound
<1> DEFINE x == s.outputs[o]
           z == RequestExitOnOutput(x)
<1>5. /\ Balanced(z) /\ Calm(x, z) /\ Follows(x, z)
      /\ StaysBusy(x.surface, z.surface)
      /\ z.active = x.active /\ z.awaiting_ui = {}
      /\ z.freezeframe = x.freezeframe
      /\ z.size_is_frozen = x.size_is_frozen
      /\ z.frame.consumers = x.frame.consumers
      /\ z.video_stage = IF x.video_stage = "CAPTURING" THEN "STOP_REQUESTED"
                         ELSE x.video_stage
  <2>1. x \in Output /\ Balanced(x) /\ x.active \cap x.awaiting_ui = {}
    BY <1>3
  <2> HIDE DEF x
  <2> QED BY <2>1, RequestExitOnOutputBooks
<1>6. t.outputs[o] = z /\ \A p \in Outputs \ {o} : t.outputs[p] = y(p)
  BY <1>2
<1> HIDE DEF y, z, x
<1>7. GoesOn(x, z)
  BY <1>5 DEF GoesOn, Follows, Calm
<1>8. CalmOn(s, t, Outputs)
  BY <1>4, <1>5, <1>6 DEF CalmOn, x
<1>9. StdoutIsOwned(t)
  BY <1>1, <1>2, <1>8, StdoutKept DEF CalmOn, Calm, Capturing, Obeys, OthersSound
<1>10. \A p \in Outputs \ {o} : SlurpIsNoCapture(t.outputs[p])
  BY <1>8 DEF CalmOn, Calm, SlurpIsNoCapture, OthersSound
<1>11. OthersSound(t, Outputs \ {o})
  BY <1>4, <1>6, <1>9, <1>10 DEF OthersSound
<1> QED BY <1>1, <1>5, <1>6, <1>7, <1>8, <1>11 DEF t, x, Obeys

LEMMA RequestExitSound ==
  ASSUME NEW s \in State, SoundState(s)
  PROVE  /\ SoundState(RequestExit(s))
         /\ CalmOn(s, RequestExit(s), Outputs)
         /\ Quiet(s, RequestExit(s))
<1> DEFINE t == RequestExit(s)
<1>1. Obeys(s, t)
  BY RequestExitObeys
<1>2. t.outputs = [p \in Outputs |-> RequestExitOnOutput(s.outputs[p])] /\ t.stdout = s.stdout
  BY DEF RequestExit, State
<1>3. \A p \in Outputs : s.outputs[p] \in Output
  BY OutputOfState
<1> HIDE DEF t
<1>4. CalmOn(s, t, Outputs) /\ \A p \in Outputs : Sound(t.outputs[p])
  BY <1>2, <1>3, RequestExitOnOutputSound DEF SoundState, OthersSound, CalmOn
<1>5. \A p \in Outputs, purpose \in {"IMAGE", "VIDEO"} :
        Capturing(t.outputs[p], purpose) <=> Capturing(s.outputs[p], purpose)
  BY <1>4 DEF CalmOn, Calm, Capturing
<1>6. StdoutIsOwned(t)
  BY <1>1, <1>2, <1>5, StdoutKept DEF Obeys, SoundState, OthersSound
<1>7. \A p \in Outputs : SlurpIsNoCapture(t.outputs[p])
  BY <1>4 DEF CalmOn, Calm, SlurpIsNoCapture, SoundState, OthersSound
<1>8. Quiet(s, t)
  BY <1>4 DEF Quiet, CalmOn, Calm
<1> QED BY <1>4, <1>6, <1>7, <1>8 DEF SoundState, OthersSound, t

LEMMA ContinuesTransitive ==
  ASSUME NEW s, NEW t, NEW u, NEW o, Continues(s, t, o), Continues(t, u, o)
  PROVE  Continues(s, u, o)
  BY CalmOnTransitive, GoesOnTransitive DEF Continues

LEMMA PutSame ==
  ASSUME NEW s \in State, NEW o \in Outputs
  PROVE  Put(s, o, s.outputs[o]) = s
  BY DEF State, Put

(* Images                                                                  *)

\* The frame of an image that starts, and the capture it counts as.
LEMMA ImageFrameBooks ==
  ASSUME NEW x \in Output, Balanced(x), "IMAGE" \notin x.frame.consumers
  PROVE  LET y == [RequestFrameForced(x, {"IMAGE"}) EXCEPT !.captures = @ + 1]
         IN /\ GoesOn(x, y)
            /\ y.awaiting_ui = x.awaiting_ui
            /\ y.frame.consumers = x.frame.consumers \cup {"IMAGE"}
            /\ y.video_stage = x.video_stage
<1> DEFINE f == RequestFrameForced(x, {"IMAGE"})
           n == f.captures + 1
           y == [f EXCEPT !.captures = n]
<1>1. /\ SameButFrame(x, f)
      /\ f.frame.in_flight /\ f.frame.consumers = x.frame.consumers \cup {"IMAGE"}
  BY RequestFrameBooks
<1> HIDE DEF f
<1>2. f \in Output /\ n \in Int /\ n = x.captures + 1 /\ x.captures \in Int
  BY <1>1 DEF SameButFrame, Output
<1> HIDE DEF n
<1>3. /\ y \in Output
      /\ y.frame = f.frame /\ y.captures = x.captures + 1
      /\ y.surface = x.surface /\ y.ui = x.ui /\ y.freezeframe = x.freezeframe
      /\ y.active = x.active /\ y.awaiting_ui = x.awaiting_ui
      /\ y.video_stage = x.video_stage
      /\ y.selection = x.selection /\ y.size_is_frozen = x.size_is_frozen
      /\ y.failed_asserts = x.failed_asserts
  BY <1>1, <1>2 DEF SameButFrame, Output
<1> HIDE DEF y
<1>4. UiIsGone(y) /\ HideIsAnswered(y) /\ StartsEmpty(y)
  BY <1>3 DEF Balanced, UiIsGone, HideIsAnswered, StartsEmpty
<1>5. Counted(y)
  <2>1. AllConsumers(y) = AllConsumers(x) /\ VideoIsLive(y) = VideoIsLive(x)
    BY <1>3 DEF AllConsumers, VideoIsLive
  <2>2. x.captures = Count(AllConsumers(x) # {}) + 0 + Count(VideoIsLive(x))
    BY DEF Balanced, Counted, Count
  <2>3. y.captures = Count(AllConsumers(x) # {}) + 1 + Count(VideoIsLive(x))
    BY <1>2, <1>3, <2>2 DEF Count
  <2>4. "IMAGE" \in y.frame.consumers
    BY <1>1, <1>3
  <2> QED BY <2>1, <2>3, <2>4 DEF Counted, Count
<1>6. FrameIsShared(y)
  BY <1>1, <1>3 DEF Balanced, FrameIsShared, VideoIsLive
<1>7. GoesOn(x, y)
  BY <1>3, <1>4, <1>5, <1>6 DEF GoesOn, Balanced, UiIsChanging, StaysBusy
<1> QED BY <1>1, <1>3, <1>7 DEF y, n, f

\* An image starts, is in progress, or is refused because of stdout; and exit may be
\* requested with it.
LEMMA ImageStartContinues ==
  ASSUME NEW s \in State, NEW o \in Outputs, NEW exit_after \in BOOLEAN,
         OthersSound(s, Outputs \ {o}), Balanced(s.outputs[o]),
         s.outputs[o].active \cap s.outputs[o].awaiting_ui = {}
  PROVE  LET t == ImageStart(s, o, exit_after)
         IN /\ Continues(s, t, o)
            /\ t.outputs[o].frame.consumers =
                 IF ImageStarts(s, o) /\ ~ProduceSlurp
                   THEN s.outputs[o].frame.consumers \cup {"IMAGE"}
                   ELSE s.outputs[o].frame.consumers
<1> DEFINE x         == s.outputs[o]
           y         == [RequestFrameForced(x, {"IMAGE"}) EXCEPT !.captures = @ + 1]
           capturing == ImageStarts(s, o) /\ ~ProduceSlurp
           busy      == /\ ~ImageStarts(s, o)
                        /\ ProduceSlurp \/ "IMAGE" \notin x.frame.consumers
           begun     == Put(StdoutReserve(s, o, "IMAGE"), o, y)
           refused   == Put(s, o, Check(x, ~ReservedFor(s, o, "IMAGE"), "capture.c:596"))
           core      == IF capturing THEN begun
                        ELSE IF busy /\ ~ProduceSlurp THEN refused ELSE s
           t         == ImageStart(s, o, exit_after)
<1>1. x \in Output
  BY OutputOfState
<1>2. ASSUME capturing
      PROVE  /\ Continues(s, begun, o)
             /\ begun.outputs[o].awaiting_ui = x.awaiting_ui
             /\ begun.outputs[o].frame.consumers = x.frame.consumers \cup {"IMAGE"}
  <2>1. "IMAGE" \notin x.frame.consumers /\ (OutputToStdout => StdoutIsFree(s))
    BY <1>2 DEF ImageStarts
  <2>2. /\ GoesOn(x, y)
        /\ y.awaiting_ui = x.awaiting_ui
        /\ y.frame.consumers = x.frame.consumers \cup {"IMAGE"}
        /\ y.video_stage = x.video_stage
    <3> HIDE DEF x
    <3> QED BY <1>1, <2>1, ImageFrameBooks DEF x
  <2> HIDE DEF y, x
  <2>3. /\ y \in Output /\ Capturing(y, "IMAGE")
        /\ \A q \in {"IMAGE", "VIDEO"} \ {"IMAGE"} : Capturing(y, q) <=> Capturing(s.outputs[o], q)
    BY <2>2 DEF GoesOn, Capturing, VideoIsLive, x
  <2>4. /\ begun \in State
        /\ StdoutIsOwned(begun)
        /\ begun.outputs[o] = y
        /\ \A p \in Outputs \ {o} : begun.outputs[p] = s.outputs[p]
    BY <2>1, <2>3, StdoutTaken DEF OthersSound
  <2> HIDE DEF begun
  <2>5. OthersSound(begun, Outputs \ {o}) /\ CalmOn(s, begun, Outputs \ {o})
    BY <2>4, CalmReflexive DEF OthersSound, CalmOn, StaysBusy
  <2> QED BY <2>2, <2>4, <2>5 DEF Continues, x
<1>3. Continues(s, s, o)
  BY <1>1, CalmOnReflexive, GoesOnReflexive DEF Continues
<1>4. ASSUME busy, ~ProduceSlurp
      PROVE  refused = s
  <2>1. "IMAGE" \notin x.frame.consumers
    BY <1>4
  <2>2. ~ReservedFor(s, o, "IMAGE")
    <3>1. CASE OutputToStdout
      BY <2>1, <3>1 DEF OthersSound, StdoutIsOwned, Capturing
    <3>2. CASE ~OutputToStdout
      BY <3>2, ReservationsDiffer DEF OthersSound, StdoutIsOwned, StdoutIsFree, ReservedFor
    <3> QED BY <3>1, <3>2
  <2>3. refused = Put(s, o, x)
    BY <2>2 DEF Check
  <2> QED BY <2>3, PutSame
<1>5. /\ Continues(s, core, o)
      /\ core.outputs[o].awaiting_ui = x.awaiting_ui
      /\ core.outputs[o].frame.consumers =
           IF capturing THEN x.frame.consumers \cup {"IMAGE"} ELSE x.frame.consumers
  <2> HIDE DEF begun, refused
  <2> QED BY <1>2, <1>3, <1>4
<1>6. t \in {core, RequestExit(core)}
  BY DEF ImageStart
<1> HIDE DEF core
<1>7. /\ Continues(core, RequestExit(core), o)
      /\ RequestExit(core).outputs[o].frame.consumers = core.outputs[o].frame.consumers
  <2>1. /\ core \in State /\ OthersSound(core, Outputs \ {o})
        /\ Balanced(core.outputs[o])
        /\ core.outputs[o].active \cap core.outputs[o].awaiting_ui = {}
    BY <1>5 DEF Continues, GoesOn
  <2> DEFINE u == RequestExit(core)
  <2>2. /\ u \in State
        /\ OthersSound(u, Outputs \ {o})
        /\ CalmOn(core, u, Outputs)
        /\ GoesOn(core.outputs[o], u.outputs[o])
        /\ u.outputs[o].frame.consumers = core.outputs[o].frame.consumers
    BY <2>1, RequestExitGoesOn
  <2> HIDE DEF u
  <2>3. CalmOn(core, u, Outputs \ {o})
    BY <2>2 DEF CalmOn
  <2> QED BY <2>2, <2>3 DEF Continues, u
<1>8. Continues(s, RequestExit(core), o)
  BY <1>5, <1>7, ContinuesTransitive
<1> QED BY <1>5, <1>6, <1>7, <1>8 DEF t

\* An output that goes on from a sound one, with its selection and its video as they
\* are, is sound.
LEMMA GoingOnSound ==
  ASSUME NEW x \in Output, NEW y, Sound(x), GoesOn(x, y),
         x.frame.consumers \cap {"IMAGE"} \subseteq y.frame.consumers
  PROVE  Sound(y) /\ (SlurpIsNoCapture(x) => SlurpIsNoCapture(y))
<1>1. ConsumersAreReal(y)
  BY DEF Sound, Steady, ConsumersAreReal, GoesOn, VideoIsLive
<1>2. FreezeframeIsServed(y.freezeframe) /\ UiIsChanging(y)
  BY DEF Sound, Steady, GoesOn
<1>3. SizeIsFixed(y)
  BY DEF Sound, SizeIsFixed, GoesOn
<1>4. SlurpIsNoCapture(x) => SlurpIsNoCapture(y)
  BY DEF SlurpIsNoCapture, GoesOn, AllConsumers
<1> QED BY <1>1, <1>2, <1>3, <1>4 DEF Sound, Steady, GoesOn

\* An image starts on a sound state.
LEMMA ImageStartSound ==
  ASSUME NEW s \in State, NEW o \in Outputs, NEW exit_after \in BOOLEAN, SoundState(s)
  PROVE  LET t == ImageStart(s, o, exit_after)
         IN /\ SoundState(t)
            /\ Quiet(s, t)
            /\ Continues(s, t, o)
<1> DEFINE t == ImageStart(s, o, exit_after)
<1>1. s.outputs[o] \in Output /\ Sound(s.outputs[o]) /\ SlurpIsNoCapture(s.outputs[o])
  BY OutputOfState DEF SoundState, OthersSound
<1>2. /\ Continues(s, t, o)
      /\ t.outputs[o].frame.consumers =
           IF ImageStarts(s, o) /\ ~ProduceSlurp
             THEN s.outputs[o].frame.consumers \cup {"IMAGE"}
             ELSE s.outputs[o].frame.consumers
  BY <1>1, ImageStartContinues
     DEF SoundState, OthersSound, Sound, Steady, ConsumersAreReal
<1> HIDE DEF t
<1>3. s.outputs[o].frame.consumers \cap {"IMAGE"} \subseteq t.outputs[o].frame.consumers
  BY <1>2
<1>4. Sound(t.outputs[o]) /\ SlurpIsNoCapture(t.outputs[o])
  BY <1>1, <1>2, <1>3, GoingOnSound DEF Continues
<1>5. SoundState(t)
  BY <1>2, <1>4 DEF Continues, SoundState, OthersSound
<1>6. Quiet(s, t)
  BY <1>2, CalmAndGoingOnIsQuiet DEF Continues
<1> QED BY <1>2, <1>5, <1>6 DEF t

(* The size of the selection                                               *)

LEMMA SelectionFreezeSizeBooks ==
  ASSUME NEW s \in State, NEW o \in Outputs,
         s.outputs[o].selection = "NONE" => AllConsumers(s.outputs[o]) # {}
  PROVE  LET t == SelectionFreezeSize(s, o)
             x == s.outputs[o]
             y == t.outputs[o]
         IN /\ SameButOn(s, t, o)
            /\ SameButSelection(x, y)
            /\ y.video_stage = x.video_stage
            /\ y.size_is_frozen
            /\ y.selection = IF x.selection = "RESIZING" THEN "COMPLETE" ELSE x.selection
<1> DEFINE x        == s.outputs[o]
           resizing == x.selection = "RESIZING"
           state    == IF resizing THEN "COMPLETE" ELSE x.selection
           y        == [x EXCEPT !.size_is_frozen = TRUE, !.selection = state]
           put      == Put(s, o, y)
           t        == [put EXCEPT !.active_button = IF resizing THEN "NONE" ELSE @]
<1>1. SelectionFreezeSize(s, o) = t
  BY DEF SelectionFreezeSize, Check
<1>2. x \in Output
  BY OutputOfState
<1>3. /\ y.video_stage = x.video_stage
      /\ y.size_is_frozen
      /\ y.selection = state
      /\ SameButSelection(x, y)
  <2> HIDE DEF x
  <2> QED BY <1>2 DEF Output, SelectionStates, SameButSelection
<1>4. /\ put \in State
      /\ put.stdout = s.stdout
      /\ put.exit_requested = s.exit_requested
      /\ put.outputs[o] = y
      /\ \A p \in Outputs \ {o} : put.outputs[p] = s.outputs[p]
  <2> HIDE DEF y
  <2> QED BY <1>3, PutValues, PutStdout DEF SameButSelection
<1> HIDE DEF put, y
<1>5. SameButOn(s, t, o) /\ t.outputs[o] = y
  BY <1>4 DEF SameButOn, State
<1> HIDE DEF t
<1> QED BY <1>1, <1>3, <1>5

LEMMA SelectionUnfreezeSizeBooks ==
  ASSUME NEW s \in State, NEW o \in Outputs
  PROVE  LET t == SelectionUnfreezeSize(s, o)
             x == s.outputs[o]
             y == t.outputs[o]
         IN /\ SameButOn(s, t, o)
            /\ SameButSelection(x, y)
            /\ y.video_stage = x.video_stage
            /\ y.size_is_frozen = FALSE
            /\ y.selection = x.selection
<1> DEFINE x == s.outputs[o]
           y == [x EXCEPT !.size_is_frozen = FALSE]
<1>1. SelectionUnfreezeSize(s, o) = Put(s, o, y)
  BY DEF SelectionUnfreezeSize, Put
<1>2. x \in Output
  BY OutputOfState
<1>3. /\ y.video_stage = x.video_stage
      /\ y.size_is_frozen = FALSE
      /\ y.selection = x.selection
      /\ SameButSelection(x, y)
  <2> HIDE DEF x
  <2> QED BY <1>2 DEF Output, SameButSelection
<1>4. SameButOn(s, Put(s, o, y), o) /\ Put(s, o, y).outputs[o] = y
  <2> HIDE DEF y
  <2> QED BY <1>3, PutValues, PutStdout DEF SameButSelection, SameButOn
<1> HIDE DEF y
<1> QED BY <1>1, <1>3, <1>4

LEMMA SameOthersSound ==
  ASSUME NEW s, NEW t, NEW o, SameButOn(s, t, o), OthersSound(s, Outputs \ {o}),
         StdoutIsOwned(t)
  PROVE  OthersSound(t, Outputs \ {o}) /\ CalmOn(s, t, Outputs \ {o})
  BY CalmReflexive DEF SameButOn, OthersSound, CalmOn, StaysBusy

(* Videos                                                                  *)

LEMMA SameButSelectionFilmsOn ==
  ASSUME NEW x \in Output, NEW y, SameButSelection(x, y), Balanced(x),
         VideoIsLive(y) <=> VideoIsLive(x),
         x.selection = "NONE" => y.selection = "NONE"
  PROVE  FilmsOn(x, y)
<1>1. UiIsChanging(x) => UiIsChanging(y)
  BY DEF SameButSelection, UiIsChanging
<1>2. UiIsGone(y) /\ HideIsAnswered(y) /\ StartsEmpty(y)
  BY DEF Balanced, SameButSelection, UiIsGone, HideIsAnswered, StartsEmpty
<1>3. Counted(y) /\ FrameIsShared(y)
  BY DEF Balanced, SameButSelection, Counted, Count, FrameIsShared, AllConsumers, VideoIsLive
<1> QED BY <1>1, <1>2, <1>3 DEF FilmsOn, Balanced, SameButSelection, StaysBusy

\* A recording that begins asks for its first frame.
LEMMA VideoFrameBooks ==
  ASSUME NEW x \in Output, Balanced(x), ~VideoIsLive(x)
  PROVE  LET y == [RequestFrameForced(RequestFrameCallback(x), {"VIDEO"}) EXCEPT
                     !.video_stage = "CAPTURING", !.captures = @ + 1]
         IN /\ FilmsOn(x, y)
            /\ y.frame.consumers = x.frame.consumers \cup {"VIDEO"}
            /\ y.video_stage = "CAPTURING"
            /\ y.selection = x.selection /\ y.size_is_frozen = x.size_is_frozen
<1> DEFINE a == RequestFrameCallback(x)
           f == RequestFrameForced(a, {"VIDEO"})
           n == f.captures + 1
           y == [f EXCEPT !.video_stage = "CAPTURING", !.captures = n]
<1>1. UiMoves(x, a) /\ a \in Output
  BY DrawingUiMoves DEF UiMoves, Follows
<1>2. Balanced(a)
  BY <1>1, UiMovesSound
<1> HIDE DEF a
<1>3. /\ SameButFrame(a, f)
      /\ f.frame.in_flight /\ f.frame.consumers = a.frame.consumers \cup {"VIDEO"}
  BY <1>1, RequestFrameBooks
<1> HIDE DEF f
<1>4. f \in Output /\ n \in Int /\ n = x.captures + 1 /\ x.captures \in Int
  BY <1>1, <1>3 DEF SameButFrame, Output, UiMoves, SameBooks
<1> HIDE DEF n
<1>5. /\ y \in Output
      /\ y.frame = f.frame /\ y.captures = n
      /\ y.surface = a.surface /\ y.ui = a.ui /\ y.freezeframe = x.freezeframe
      /\ y.active = x.active /\ y.awaiting_ui = x.awaiting_ui
      /\ y.video_stage = "CAPTURING"
      /\ y.selection = x.selection /\ y.size_is_frozen = x.size_is_frozen
      /\ y.failed_asserts = x.failed_asserts
  BY <1>1, <1>3, <1>4, ZenonT(30) DEF SameButFrame, Output, VideoStages, UiMoves, SameBooks
<1>6. y.frame.consumers = x.frame.consumers \cup {"VIDEO"}
  BY <1>1, <1>3, <1>5 DEF UiMoves, SameBooks
<1> HIDE DEF y
<1>7. UiIsGone(y) /\ HideIsAnswered(y) /\ StartsEmpty(y) /\ (UiIsChanging(x) => UiIsChanging(y))
  <2>1. UiIsGone(y) /\ HideIsAnswered(y)
    BY <1>1, <1>2, <1>5 DEF Balanced, UiIsGone, HideIsAnswered, UiMoves, SameBooks
  <2>2. StartsEmpty(y)
    BY <1>1, <1>2, <1>5 DEF Balanced, StartsEmpty, UiMoves, SameBooks
  <2>3. UiIsChanging(x) => UiIsChanging(y)
    BY <1>1, <1>5 DEF UiMoves, SameBooks, Follows, UiIsChanging
  <2> QED BY <2>1, <2>2, <2>3
<1>8. Counted(y)
  BY <1>4, <1>5, <1>6 DEF AllConsumers, VideoIsLive, Balanced, Counted, Count
<1>9. FrameIsShared(y)
  BY <1>3, <1>5, <1>6 DEF FrameIsShared, VideoIsLive
<1>10. StaysBusy(x.surface, y.surface)
  BY <1>1, <1>5 DEF UiMoves
<1>11. FilmsOn(x, y)
  BY <1>5, <1>6, <1>7, <1>8, <1>9, <1>10 DEF FilmsOn, Balanced
<1> QED BY <1>5, <1>6, <1>11 DEF y, n, f, a

LEMMA FilmsOnTransitive ==
  ASSUME NEW x, NEW y, NEW z, FilmsOn(x, y), FilmsOn(y, z)
  PROVE  FilmsOn(x, z)
  BY DEF FilmsOn, StaysBusy

\* A recording starts, with its size fixed and stdout its own, or fails to, with the
\* size thawed and stdout as it was.
LEMMA VideoStartFilmsOn ==
  ASSUME NEW s \in State, NEW o \in Outputs, NEW ok \in BOOLEAN,
         OthersSound(s, Outputs \ {o}), Balanced(s.outputs[o]), ~VideoIsLive(s.outputs[o]),
         s.outputs[o].selection = "NONE" => AllConsumers(s.outputs[o]) # {}
  PROVE  LET t == VideoStart(s, o, ok)
             x == s.outputs[o]
             y == t.outputs[o]
         IN /\ t \in State
            /\ OthersSound(t, Outputs \ {o})
            /\ CalmOn(s, t, Outputs \ {o})
            /\ t.exit_requested = s.exit_requested
            /\ FilmsOn(x, y)
            /\ y.selection = IF x.selection = "RESIZING" THEN "COMPLETE" ELSE x.selection
            /\ IF VideoStarts(s, o, ok)
                 THEN y.video_stage = "CAPTURING" /\ y.size_is_frozen
                 ELSE y.video_stage = x.video_stage /\ y.size_is_frozen = FALSE
<1> DEFINE x        == s.outputs[o]
           frozen   == SelectionFreezeSize(s, o)
           z        == frozen.outputs[o]
           y        == [RequestFrameForced(RequestFrameCallback(z), {"VIDEO"}) EXCEPT
                          !.video_stage = "CAPTURING", !.captures = @ + 1]
           begun    == Put(StdoutReserve(frozen, o, "VIDEO"), o, y)
           refused  == SelectionUnfreezeSize(StdoutRelease(frozen, o, "VIDEO"), o)
           t        == VideoStart(s, o, ok)
<1>1. x \in Output
  BY OutputOfState
<1>2. /\ SameButOn(s, frozen, o)
      /\ SameButSelection(x, z)
      /\ z.video_stage = x.video_stage
      /\ z.size_is_frozen
      /\ z.selection = IF x.selection = "RESIZING" THEN "COMPLETE" ELSE x.selection
  BY SelectionFreezeSizeBooks
<1>3. t = IF VideoStarts(s, o, ok) THEN begun ELSE refused
  BY DEF VideoStart
<1> HIDE DEF frozen, t
<1>4. FilmsOn(x, z) /\ (VideoIsLive(z) <=> VideoIsLive(x))
  <2> HIDE DEF x, z
  <2>1. VideoIsLive(z) <=> VideoIsLive(x)
    BY <1>2 DEF VideoIsLive
  <2>2. x.selection = "NONE" => z.selection = "NONE"
    BY <1>2
  <2>3. Balanced(x)
    BY DEF x
  <2> QED BY <1>1, <1>2, <2>1, <2>2, <2>3, SameButSelectionFilmsOn
<1>5. \A p \in Outputs, purpose \in {"IMAGE", "VIDEO"} :
        Capturing(frozen.outputs[p], purpose) <=> Capturing(s.outputs[p], purpose)
  BY <1>2, <1>4 DEF SameButOn, Capturing, FilmsOn
<1>6. StdoutIsOwned(frozen)
  BY <1>2, <1>5, StdoutKept DEF SameButOn, OthersSound
<1>7. OthersSound(frozen, Outputs \ {o}) /\ CalmOn(s, frozen, Outputs \ {o})
  BY <1>2, <1>6, SameOthersSound
<1>8. ASSUME VideoStarts(s, o, ok)
      PROVE  LET v == begun.outputs[o]
             IN /\ begun \in State
                /\ OthersSound(begun, Outputs \ {o})
                /\ CalmOn(s, begun, Outputs \ {o})
                /\ begun.exit_requested = s.exit_requested
                /\ FilmsOn(x, v)
                /\ v.selection = z.selection
                /\ v.video_stage = "CAPTURING" /\ v.size_is_frozen
  <2>1. OutputToStdout => StdoutIsFree(frozen)
    BY <1>2, <1>8 DEF VideoStarts, StdoutIsFree, SameButOn
  <2>2. /\ FilmsOn(z, y)
        /\ y.frame.consumers = z.frame.consumers \cup {"VIDEO"}
        /\ y.video_stage = "CAPTURING"
        /\ y.selection = z.selection /\ y.size_is_frozen = z.size_is_frozen
    <3>1. z \in Output /\ Balanced(z) /\ ~VideoIsLive(z)
      BY <1>4 DEF FilmsOn
    <3> HIDE DEF z
    <3> QED BY <3>1, VideoFrameBooks
  <2> HIDE DEF y
  <2>3. /\ y \in Output /\ Capturing(y, "VIDEO")
        /\ \A q \in {"IMAGE", "VIDEO"} \ {"VIDEO"} :
             Capturing(y, q) <=> Capturing(frozen.outputs[o], q)
    BY <2>2 DEF FilmsOn, Capturing, VideoIsLive
  <2>4. /\ begun \in State
        /\ StdoutIsOwned(begun)
        /\ begun.exit_requested = frozen.exit_requested
        /\ begun.outputs[o] = y
        /\ \A p \in Outputs \ {o} : begun.outputs[p] = frozen.outputs[p]
    BY <1>2, <1>6, <2>1, <2>3, StdoutTaken DEF SameButOn
  <2> HIDE DEF begun
  <2>5. OthersSound(begun, Outputs \ {o}) /\ CalmOn(frozen, begun, Outputs \ {o})
    BY <1>7, <2>4, CalmReflexive DEF OthersSound, CalmOn, StaysBusy
  <2>6. CalmOn(s, begun, Outputs \ {o})
    BY <1>7, <2>5, CalmOnTransitive
  <2>7. FilmsOn(x, y)
    BY <1>4, <2>2, FilmsOnTransitive
  <2> QED BY <1>2, <2>2, <2>4, <2>5, <2>6, <2>7 DEF SameButOn
<1>9. LET v == refused.outputs[o]
      IN /\ refused \in State
         /\ OthersSound(refused, Outputs \ {o})
         /\ CalmOn(s, refused, Outputs \ {o})
         /\ refused.exit_requested = s.exit_requested
         /\ FilmsOn(x, v)
         /\ v.selection = z.selection
         /\ v.video_stage = x.video_stage /\ v.size_is_frozen = FALSE
  <2>1. ~ReservedFor(frozen, o, "VIDEO")
    <3>1. ~Capturing(frozen.outputs[o], "VIDEO")
      BY <1>4 DEF Capturing
    <3>2. CASE OutputToStdout
      BY <1>6, <3>1, <3>2 DEF StdoutIsOwned
    <3>3. CASE ~OutputToStdout
      BY <1>6, <3>3, ReservationsDiffer DEF StdoutIsOwned, StdoutIsFree, ReservedFor
    <3> QED BY <3>2, <3>3
  <2>2. StdoutRelease(frozen, o, "VIDEO") = frozen
    BY <2>1 DEF StdoutRelease
  <2>3. refused = SelectionUnfreezeSize(frozen, o)
    BY <2>2
  <2> DEFINE v == refused.outputs[o]
  <2>4. /\ SameButOn(frozen, refused, o)
        /\ SameButSelection(z, v)
        /\ v.video_stage = z.video_stage
        /\ v.size_is_frozen = FALSE
        /\ v.selection = z.selection
    <3>1. frozen \in State
      BY <1>2 DEF SameButOn
    <3> HIDE DEF frozen, refused
    <3>2. LET t2 == SelectionUnfreezeSize(frozen, o)
          IN /\ SameButOn(frozen, t2, o)
             /\ SameButSelection(frozen.outputs[o], t2.outputs[o])
             /\ t2.outputs[o].video_stage = frozen.outputs[o].video_stage
             /\ t2.outputs[o].size_is_frozen = FALSE
             /\ t2.outputs[o].selection = frozen.outputs[o].selection
      BY <3>1, SelectionUnfreezeSizeBooks
    <3> QED BY <3>2, <2>3
  <2> HIDE DEF refused
  <2>5. FilmsOn(z, v) /\ (VideoIsLive(v) <=> VideoIsLive(z))
    <3>1. z \in Output /\ Balanced(z)
      BY <1>4 DEF FilmsOn
    <3>2. VideoIsLive(v) <=> VideoIsLive(z)
      BY <2>4 DEF VideoIsLive
    <3> HIDE DEF z, v
    <3> QED BY <2>4, <3>1, <3>2, SameButSelectionFilmsOn
  <2>6. \A p \in Outputs, purpose \in {"IMAGE", "VIDEO"} :
          Capturing(refused.outputs[p], purpose) <=> Capturing(frozen.outputs[p], purpose)
    BY <2>4, <2>5 DEF SameButOn, Capturing, FilmsOn
  <2>7. StdoutIsOwned(refused)
    BY <1>2, <1>6, <2>4, <2>6, StdoutKept DEF SameButOn
  <2>8. OthersSound(refused, Outputs \ {o}) /\ CalmOn(frozen, refused, Outputs \ {o})
    BY <1>7, <2>4, <2>7, SameOthersSound
  <2>9. CalmOn(s, refused, Outputs \ {o})
    BY <1>7, <2>8, CalmOnTransitive
  <2>10. FilmsOn(x, v)
    BY <1>4, <2>5, FilmsOnTransitive
  <2> QED BY <1>2, <2>4, <2>8, <2>9, <2>10 DEF SameButOn
<1> HIDE DEF begun, refused
<1> QED BY <1>2, <1>3, <1>8, <1>9 DEF t

\* A recording that was pending is called off.
LEMMA VideoCancelPendingBooks ==
  ASSUME NEW s \in State, NEW o \in Outputs,
         OthersSound(s, Outputs \ {o}), Balanced(s.outputs[o]),
         s.outputs[o].video_stage = "FULLSCREEN_START_PENDING"
  PROVE  LET t == VideoCancelPending(s, o)
             x == s.outputs[o]
             y == t.outputs[o]
         IN /\ t \in State
            /\ OthersSound(t, Outputs \ {o})
            /\ CalmOn(s, t, Outputs \ {o})
            /\ t.exit_requested = s.exit_requested
            /\ FilmsOn(x, y)
            /\ y.selection = x.selection
            /\ y.video_stage = "NONE" /\ y.size_is_frozen = FALSE
<1> DEFINE x   == s.outputs[o]
           z   == [x EXCEPT !.video_stage = "NONE"]
           put == Put(s, o, z)
           t   == SelectionUnfreezeSize(put, o)
           y   == t.outputs[o]
<1>1. x \in Output
  BY OutputOfState
<1>2. VideoCancelPending(s, o) = t
  BY DEF VideoCancelPending, Check
<1>3. SameButSelection(x, z) /\ z.video_stage = "NONE" /\ z.selection = x.selection
  <2> HIDE DEF x
  <2> QED BY <1>1 DEF SameButSelection, Output, VideoStages
<1>4. SameButOn(s, put, o) /\ put.outputs[o] = z
  <2> HIDE DEF z
  <2> QED BY <1>3, PutValues, PutStdout DEF SameButSelection, SameButOn
<1> HIDE DEF put, z
<1>5. /\ SameButOn(put, t, o)
      /\ SameButSelection(z, y)
      /\ y.video_stage = z.video_stage
      /\ y.size_is_frozen = FALSE
      /\ y.selection = z.selection
  BY <1>4, SelectionUnfreezeSizeBooks DEF SameButOn
<1> HIDE DEF t
<1>6. SameButOn(s, t, o) /\ SameButSelection(x, y)
  BY <1>3, <1>4, <1>5 DEF SameButOn, SameButSelection
<1>7. FilmsOn(x, y) /\ (VideoIsLive(y) <=> VideoIsLive(x))
  <2>1. VideoIsLive(y) <=> VideoIsLive(x)
    BY <1>3, <1>5 DEF VideoIsLive
  <2>2. x \in Output /\ Balanced(x) /\ y.selection = x.selection
    BY <1>1, <1>3, <1>5
  <2> HIDE DEF x, y
  <2> QED BY <1>6, <2>1, <2>2, SameButSelectionFilmsOn
<1>8. \A p \in Outputs, purpose \in {"IMAGE", "VIDEO"} :
        Capturing(t.outputs[p], purpose) <=> Capturing(s.outputs[p], purpose)
  BY <1>6, <1>7 DEF SameButOn, Capturing, FilmsOn
<1>9. StdoutIsOwned(t)
  BY <1>6, <1>8, StdoutKept DEF SameButOn, OthersSound
<1>10. OthersSound(t, Outputs \ {o}) /\ CalmOn(s, t, Outputs \ {o})
  BY <1>6, <1>9, SameOthersSound
<1> QED BY <1>2, <1>3, <1>5, <1>6, <1>7, <1>10 DEF SameButOn

(* Dispatching what awaited the UI                                         *)

\* What awaited the UI becomes active; an image or a freezeframe has no UI in it.
LEMMA BecomeActive ==
  ASSUME NEW x \in Output, MayDispatch(x)
  PROVE  LET b == [x EXCEPT !.active = @ \cup x.awaiting_ui, !.awaiting_ui = {}]
         IN /\ b \in Output /\ Balanced(b) /\ Calm(x, b)
            /\ b.active = x.active \cup x.awaiting_ui /\ b.awaiting_ui = {}
            /\ b.surface = x.surface /\ b.frame = x.frame
            /\ b.freezeframe = x.freezeframe
            /\ b.video_stage = x.video_stage /\ b.size_is_frozen = x.size_is_frozen
            /\ b.selection = x.selection /\ b.failed_asserts = x.failed_asserts
<1> DEFINE b == [x EXCEPT !.active = @ \cup x.awaiting_ui, !.awaiting_ui = {}]
<1>1. /\ b \in Output
      /\ b.active = x.active \cup x.awaiting_ui /\ b.awaiting_ui = {}
      /\ b.surface = x.surface /\ b.frame = x.frame /\ b.ui = x.ui
      /\ b.freezeframe = x.freezeframe /\ b.captures = x.captures
      /\ b.video_stage = x.video_stage /\ b.size_is_frozen = x.size_is_frozen
      /\ b.selection = x.selection /\ b.failed_asserts = x.failed_asserts
  BY DEF Output
<1> HIDE DEF b
<1>2. AllConsumers(b) = AllConsumers(x) /\ b.active = AllConsumers(x)
  BY <1>1 DEF AllConsumers
<1>3. UiIsGone(b)
  BY <1>1, <1>2
     DEF MayDispatch, UiSettled, UiShouldBeHidden, ConsumersAllowUi, UiIsGone, Steady,
         Balanced
<1>4. HideIsAnswered(b) /\ FrameIsShared(b) /\ StartsEmpty(b)
  BY <1>1 DEF MayDispatch, Steady, Balanced, HideIsAnswered, FrameIsShared, StartsEmpty,
     VideoIsLive
<1>5. Counted(b)
  BY <1>1, <1>2 DEF MayDispatch, Steady, Balanced, Counted, VideoIsLive, Count
<1>6. Calm(x, b)
  BY <1>1, <1>2 DEF Calm, VideoIsLive
<1> QED BY <1>1, <1>3, <1>4, <1>5, <1>6 DEF Balanced, b

\* What a dispatch from x comes to: z after each consumer was begun, of which `failed`
\* were not.
LEMMA DispatchedIsSound ==
  ASSUME NEW x \in Output, MayDispatch(x),
         NEW b \in Output, NEW i \in Output, NEW f \in Output, NEW z \in Output,
         NEW failed \in SUBSET x.awaiting_ui,
         b.active = x.active \cup x.awaiting_ui, b.awaiting_ui = {},
         b.freezeframe = x.freezeframe, b.video_stage = x.video_stage,
         b.size_is_frozen = x.size_is_frozen, b.selection = x.selection,
         b.failed_asserts = x.failed_asserts, b.surface = x.surface,
         b.frame = x.frame,
         GoesOn(b, i),
         "IMAGE" \in b.frame.consumers => "IMAGE" \in i.frame.consumers,
         "IMAGE" \in x.awaiting_ui /\ "IMAGE" \notin failed => "IMAGE" \in i.frame.consumers,
         FilmsOn(i, f), f.selection = i.selection,
         IF "VIDEO" \in x.awaiting_ui
           THEN IF "VIDEO" \in failed THEN f.video_stage = "NONE" /\ f.size_is_frozen = FALSE
                ELSE f.video_stage = "CAPTURING" /\ f.size_is_frozen
           ELSE f.video_stage = i.video_stage /\ f.size_is_frozen = i.size_is_frozen,
         SameButFreezeframe(f, z),
         IF "FREEZEFRAME" \in x.awaiting_ui
           THEN z.freezeframe.stage = "CAPTURING" /\ FreezeframeIsServed(z.freezeframe)
           ELSE z.freezeframe = f.freezeframe,
         "FREEZEFRAME" \notin failed
  PROVE  LET y == IF failed = {} THEN z ELSE EndWithNoneAwaiting(z, failed)
         IN /\ Sound(y) /\ SlurpIsNoCapture(y)
            /\ y \in Output
            /\ y.selection = x.selection
            /\ y.failed_asserts = x.failed_asserts
            /\ y.freezeframe.startup => x.freezeframe.startup
            /\ Calm(z, y)
            /\ "VIDEO" \in x.awaiting_ui /\ "VIDEO" \notin AllConsumers(y)
                 => y.video_stage = "NONE"
<1> DEFINE y == IF failed = {} THEN z ELSE EndWithNoneAwaiting(z, failed)
<1>1. /\ z.active = x.active \cup x.awaiting_ui /\ z.awaiting_ui = {}
      /\ z.selection = x.selection /\ z.failed_asserts = x.failed_asserts
      /\ z.freezeframe.startup => x.freezeframe.startup
      /\ StaysBusy(x.surface, z.surface)
  BY DEF GoesOn, FilmsOn, SameButFreezeframe, StaysBusy
<1>2. Balanced(z)
  <2>1. Balanced(f) /\ f.freezeframe = x.freezeframe
    BY DEF FilmsOn, GoesOn
  <2>2. UiIsGone(f) /\ HideIsAnswered(f) /\ FrameIsShared(f)
    BY <2>1 DEF Balanced
  <2>3. UiIsGone(z)
    BY <2>2 DEF SameButFreezeframe, UiIsGone
  <2>4. HideIsAnswered(z)
    BY <2>2 DEF SameButFreezeframe, HideIsAnswered
  <2>5. FrameIsShared(z)
    BY <2>2 DEF SameButFreezeframe, FrameIsShared, VideoIsLive
  <2>6. Counted(z)
    BY <2>1 DEF Balanced, SameButFreezeframe, Counted, VideoIsLive, AllConsumers, Count
  <2>7. StartsEmpty(z)
    BY <2>1 DEF Balanced, SameButFreezeframe, StartsEmpty
  <2> QED BY <2>6, <2>7, <2>3, <2>4, <2>5 DEF Balanced
<1>3. /\ y.active = z.active \ failed /\ y.awaiting_ui = {}
      /\ y.captures = IF z.active \ failed = {} THEN z.captures - 1 ELSE z.captures
      /\ y.frame = z.frame /\ y.freezeframe = z.freezeframe
      /\ y.video_stage = z.video_stage
      /\ y.size_is_frozen = z.size_is_frozen
      /\ StaysBusy(z.surface, y.surface)
      /\ Calm(z, y)
      /\ y \in Output /\ UiIsGone(y)
      /\ HideIsAnswered(y)
  <2>1. ASSUME failed = {}
        PROVE  /\ y.active = z.active \ failed /\ y.awaiting_ui = {}
               /\ y.captures = IF z.active \ failed = {} THEN z.captures - 1 ELSE z.captures
               /\ y.frame = z.frame /\ y.freezeframe = z.freezeframe
               /\ y.video_stage = z.video_stage
               /\ y.size_is_frozen = z.size_is_frozen
               /\ StaysBusy(z.surface, y.surface)
               /\ Calm(z, y)
               /\ y \in Output /\ UiIsGone(y)
               /\ HideIsAnswered(y)
    <3>1. y = z
      BY <2>1
    <3>2. z.active # {} /\ z.active \ failed = z.active
      BY <1>1, <2>1 DEF MayDispatch
    <3> HIDE DEF y
    <3> QED BY <1>1, <1>2, <3>1, <3>2, CalmReflexive DEF StaysBusy, Balanced
  <2>2. ASSUME failed # {}
        PROVE  /\ y.active = z.active \ failed /\ y.awaiting_ui = {}
               /\ y.captures = IF z.active \ failed = {} THEN z.captures - 1 ELSE z.captures
               /\ y.frame = z.frame /\ y.freezeframe = z.freezeframe
               /\ y.video_stage = z.video_stage
               /\ y.size_is_frozen = z.size_is_frozen
               /\ StaysBusy(z.surface, y.surface)
               /\ Calm(z, y)
               /\ y \in Output /\ UiIsGone(y)
               /\ HideIsAnswered(y)
    <3>1. y = SyncUi(EndConsumers(z, failed))
      BY <2>2 DEF EndWithNoneAwaiting
    <3> HIDE DEF y
    <3>2. LET e == SyncUi(EndConsumers(z, failed))
          IN /\ e.active = z.active \ failed
             /\ e.captures = IF (z.active \ failed) \cup z.awaiting_ui = {}
                               THEN z.captures - 1 ELSE z.captures
             /\ e.frame = z.frame /\ e.freezeframe = z.freezeframe
             /\ e.awaiting_ui = z.awaiting_ui
             /\ e.video_stage = z.video_stage
             /\ e.size_is_frozen = z.size_is_frozen
             /\ StaysBusy(z.surface, e.surface)
             /\ Calm(z, e)
             /\ Follows(z, e)
             /\ HideIsAnswered(e)
      BY <1>2, EndBooks DEF Balanced
    <3>3. (z.active \ failed) \cup z.awaiting_ui = z.active \ failed
      BY <1>1
    <3> QED BY <1>1, <1>2, <3>1, <3>2, <3>3 DEF Balanced, Follows
  <2> QED BY <2>1, <2>2
<1> HIDE DEF y
<1>4. FrameIsShared(y) /\ StartsEmpty(y)
  BY <1>2, <1>3 DEF Balanced, FrameIsShared, StartsEmpty, StaysBusy, VideoIsLive, Calm
<1>5. Counted(y)
  <2>1. z.captures = Count(z.active # {}) + Count("IMAGE" \in z.frame.consumers)
                       + Count(VideoIsLive(z))
    BY <1>1, <1>2 DEF Balanced, Counted, AllConsumers
  <2>2. z.active # {}
    BY <1>1 DEF MayDispatch
  <2>3. y.captures = Count(y.active # {}) + Count("IMAGE" \in y.frame.consumers)
                       + Count(VideoIsLive(y))
    BY <1>3, <2>1, <2>2 DEF Count, VideoIsLive
  <2>4. AllConsumers(y) = y.active
    BY <1>3 DEF AllConsumers
  <2> QED BY <2>3, <2>4 DEF Counted
<1>6. /\ "VIDEO" \in y.active => VideoIsLive(y)
      /\ "VIDEO" \in x.awaiting_ui /\ "VIDEO" \notin y.active => y.video_stage = "NONE"
  BY <1>1, <1>3
     DEF SameButFreezeframe, MayDispatch, Steady, ConsumersAreReal, GoesOn, VideoIsLive
<1>7. "IMAGE" \in y.active => "IMAGE" \in y.frame.consumers
  BY <1>1, <1>3 DEF MayDispatch, Steady, ConsumersAreReal, SameButFreezeframe, FilmsOn
<1>8. /\ "FREEZEFRAME" \in y.active => y.freezeframe.stage = "CAPTURING"
      /\ FreezeframeIsServed(y.freezeframe)
  BY <1>1, <1>3 DEF MayDispatch, Steady, ConsumersAreReal, FilmsOn, GoesOn
<1>9. ConsumersAreReal(y)
  BY <1>3, <1>6, <1>7, <1>8 DEF ConsumersAreReal
<1>10. SizeIsFixed(y)
  <2>1. /\ y.selection = x.selection
        /\ y.video_stage = f.video_stage /\ y.size_is_frozen = f.size_is_frozen
    BY <1>1, <1>3 DEF SameButFreezeframe, Calm
  <2>2. CASE "VIDEO" \in x.awaiting_ui
    BY <2>1, <2>2 DEF MayDispatch, SizeMayBeFixed, SizeIsFixed
  <2>3. CASE "VIDEO" \notin x.awaiting_ui
    BY <2>1, <2>3 DEF MayDispatch, SizeMayBeFixed, SizeIsFixed, GoesOn
  <2> QED BY <2>2, <2>3
<1>11. Sound(y)
  <2>1. UiIsChanging(y)
    BY <1>3 DEF UiIsChanging
  <2> QED BY <1>3, <1>4, <1>5, <1>8, <1>9, <1>10, <2>1 DEF Sound, Steady, Balanced
<1>12. SlurpIsNoCapture(y) /\ AllConsumers(y) = y.active
  BY <1>1, <1>3 DEF SlurpIsNoCapture, MayDispatch, AllConsumers
<1> QED BY <1>1, <1>3, <1>6, <1>11, <1>12 DEF Calm, y

\* The recording that awaited the UI begins, is called off because exit was requested,
\* or fails to start.
LEMMA FilmAwaiting ==
  ASSUME NEW s \in State, NEW o \in Outputs, NEW ok \in BOOLEAN,
         OthersSound(s, Outputs \ {o}), Balanced(s.outputs[o]),
         s.outputs[o].video_stage = "FULLSCREEN_START_PENDING",
         s.outputs[o].selection # "RESIZING", AllConsumers(s.outputs[o]) # {}
  PROVE  LET recording == ~s.exit_requested /\ VideoStarts(s, o, ok)
             t == IF s.exit_requested THEN VideoCancelPending(s, o)
                  ELSE IF recording THEN VideoStart(s, o, ok)
                  ELSE VideoCancelPending(VideoStart(s, o, ok), o)
             x == s.outputs[o]
             y == t.outputs[o]
         IN /\ t \in State
            /\ OthersSound(t, Outputs \ {o})
            /\ CalmOn(s, t, Outputs \ {o})
            /\ FilmsOn(x, y) /\ y.selection = x.selection
            /\ IF recording THEN y.video_stage = "CAPTURING" /\ y.size_is_frozen
               ELSE y.video_stage = "NONE" /\ y.size_is_frozen = FALSE
<1> DEFINE recording == ~s.exit_requested /\ VideoStarts(s, o, ok)
           started == VideoStart(s, o, ok)
           x == s.outputs[o]
           v == started.outputs[o]
<1>1. ~VideoIsLive(x)
  BY DEF VideoIsLive
<1>2. /\ started \in State
      /\ OthersSound(started, Outputs \ {o})
      /\ CalmOn(s, started, Outputs \ {o})
      /\ FilmsOn(x, v)
      /\ v.selection = x.selection
      /\ IF VideoStarts(s, o, ok)
           THEN v.video_stage = "CAPTURING" /\ v.size_is_frozen
           ELSE v.video_stage = x.video_stage /\ v.size_is_frozen = FALSE
  BY <1>1, VideoStartFilmsOn
<1>3. CASE s.exit_requested
  BY <1>3, VideoCancelPendingBooks
<1>4. CASE ~s.exit_requested /\ VideoStarts(s, o, ok)
  BY <1>2, <1>4
<1>5. CASE ~s.exit_requested /\ ~VideoStarts(s, o, ok)
  <2> DEFINE called_off == VideoCancelPending(started, o)
             c == called_off.outputs[o]
  <2>1. Balanced(v) /\ v.video_stage = "FULLSCREEN_START_PENDING"
    BY <1>2, <1>5 DEF FilmsOn
  <2> HIDE DEF started
  <2>2. /\ called_off \in State
        /\ OthersSound(called_off, Outputs \ {o})
        /\ CalmOn(started, called_off, Outputs \ {o})
        /\ FilmsOn(v, c)
        /\ c.selection = v.selection
        /\ c.video_stage = "NONE" /\ c.size_is_frozen = FALSE
    BY <1>2, <2>1, VideoCancelPendingBooks
  <2> HIDE DEF called_off
  <2>3. CalmOn(s, called_off, Outputs \ {o}) /\ FilmsOn(x, c)
    BY <1>2, <2>2, CalmOnTransitive, FilmsOnTransitive
  <2> QED BY <1>2, <1>5, <2>2, <2>3 DEF called_off, started
<1> QED BY <1>3, <1>4, <1>5

LEMMA SameFilmsOn ==
  ASSUME NEW x \in Output, Balanced(x)
  PROVE  FilmsOn(x, x)
  BY DEF FilmsOn, StaysBusy

\* All that awaited the UI is begun, or ended where it could not be.
LEMMA DispatchAwaitingSound ==
  ASSUME NEW s \in State, NEW o \in Outputs, NEW ok \in BOOLEAN,
         OthersSound(s, Outputs \ {o}), MayDispatch(s.outputs[o])
  PROVE  LET t == DispatchAwaiting(s, o, ok)
             x == s.outputs[o]
             y == t.outputs[o]
         IN /\ t \in State /\ SoundState(t) /\ Quiet(s, t)
            /\ y.selection = x.selection
            /\ "VIDEO" \in x.awaiting_ui /\ "VIDEO" \notin AllConsumers(y)
                 => y.video_stage = "NONE"
<1> DEFINE x         == s.outputs[o]
           awaiting  == x.awaiting_ui
           begun     == Put(s, o, [x EXCEPT !.active = @ \cup awaiting, !.awaiting_ui = {}])
           b         == begun.outputs[o]
           imaged    == IF "IMAGE" \in awaiting THEN ImageStart(begun, o, x.exit_after)
                        ELSE begun
           i         == imaged.outputs[o]
           recording == ~imaged.exit_requested /\ VideoStarts(imaged, o, ok)
           filmed    == IF "VIDEO" \notin awaiting THEN imaged
                        ELSE IF imaged.exit_requested THEN VideoCancelPending(imaged, o)
                        ELSE IF recording THEN VideoStart(imaged, o, ok)
                        ELSE VideoCancelPending(VideoStart(imaged, o, ok), o)
           f         == filmed.outputs[o]
           frozen    == IF "FREEZEFRAME" \in awaiting
                          THEN Put(filmed, o, FreezeframeCaptureStart(f))
                          ELSE filmed
           z         == frozen.outputs[o]
           failed    == {c \in awaiting : \/ c = "IMAGE" /\ ~ImageStarts(begun, o)
                                          \/ c = "VIDEO" /\ ~recording}
           y         == IF failed = {} THEN z ELSE EndWithNoneAwaiting(z, failed)
           t         == IF failed = {} THEN frozen ELSE Put(frozen, o, y)
<1>1. x \in Output /\ awaiting \subseteq Consumers /\ awaiting # {}
  BY OutputOfState DEF Output, MayDispatch
<1>2. DispatchAwaiting(s, o, ok) = t
  BY ZenonT(30) DEF DispatchAwaiting
<1>3. /\ begun \in State
      /\ OthersSound(begun, Outputs \ {o})
      /\ CalmOn(s, begun, Outputs \ {o})
      /\ b \in Output /\ Balanced(b) /\ Calm(x, b)
      /\ b.active = x.active \cup x.awaiting_ui /\ b.awaiting_ui = {}
      /\ b.surface = x.surface /\ b.frame = x.frame
      /\ b.freezeframe = x.freezeframe
      /\ b.video_stage = x.video_stage /\ b.size_is_frozen = x.size_is_frozen
      /\ b.selection = x.selection /\ b.failed_asserts = x.failed_asserts
  <2> DEFINE a == [x EXCEPT !.active = @ \cup awaiting, !.awaiting_ui = {}]
  <2>1. /\ a \in Output /\ Balanced(a) /\ Calm(x, a)
        /\ a.active = x.active \cup x.awaiting_ui /\ a.awaiting_ui = {}
        /\ a.surface = x.surface /\ a.frame = x.frame
        /\ a.freezeframe = x.freezeframe
        /\ a.video_stage = x.video_stage /\ a.size_is_frozen = x.size_is_frozen
        /\ a.selection = x.selection /\ a.failed_asserts = x.failed_asserts
    <3>1. MayDispatch(x)
      OBVIOUS
    <3> HIDE DEF x
    <3> QED BY <1>1, <3>1, BecomeActive
  <2> HIDE DEF a
  <2>2. b = a /\ begun \in State /\ \A p \in Outputs \ {o} : begun.outputs[p] = s.outputs[p]
    BY <2>1, PutValues DEF a
  <2>3. begun = Put(s, o, a)
    BY DEF a
  <2> HIDE DEF begun
  <2>4. StdoutIsOwned(begun)
    BY <2>1, <2>3, PutCalm DEF OthersSound
  <2>5. OthersSound(begun, Outputs \ {o}) /\ CalmOn(s, begun, Outputs \ {o})
    BY <2>2, <2>4, CalmReflexive DEF OthersSound, CalmOn, StaysBusy
  <2> QED BY <2>1, <2>2, <2>5
<1> HIDE DEF begun
<1>4. /\ Continues(begun, imaged, o)
      /\ "IMAGE" \in b.frame.consumers => "IMAGE" \in i.frame.consumers
      /\ "IMAGE" \in awaiting /\ ImageStarts(begun, o) => "IMAGE" \in i.frame.consumers
  <2>1. ASSUME "IMAGE" \in awaiting
        PROVE  /\ Continues(begun, imaged, o)
               /\ "IMAGE" \in b.frame.consumers => "IMAGE" \in i.frame.consumers
               /\ ImageStarts(begun, o) => "IMAGE" \in i.frame.consumers
    <3>1. x.exit_after \in BOOLEAN
      BY <1>1 DEF Output
    <3>2. ~ProduceSlurp
      BY <2>1 DEF MayDispatch, SlurpIsNoCapture, AllConsumers
    <3>3. imaged = ImageStart(begun, o, x.exit_after)
      BY <2>1
    <3>4. b.active \cap b.awaiting_ui = {}
      BY <1>3
    <3> HIDE DEF imaged, x
    <3> QED BY <1>3, <3>1, <3>2, <3>3, <3>4, ImageStartContinues
  <2>2. ASSUME "IMAGE" \notin awaiting
        PROVE  /\ Continues(begun, imaged, o)
               /\ "IMAGE" \in b.frame.consumers => "IMAGE" \in i.frame.consumers
    <3>1. imaged = begun
      BY <2>2
    <3> HIDE DEF imaged
    <3> QED BY <1>3, <3>1, GoesOnReflexive, CalmOnReflexive DEF Continues
  <2> QED BY <2>1, <2>2
<1> HIDE DEF imaged
<1>5. imaged \in State /\ OthersSound(imaged, Outputs \ {o}) /\ GoesOn(b, i)
      /\ CalmOn(begun, imaged, Outputs \ {o}) /\ i \in Output /\ Balanced(i)
  BY <1>4 DEF Continues, GoesOn
<1>6. /\ filmed \in State
      /\ OthersSound(filmed, Outputs \ {o})
      /\ CalmOn(imaged, filmed, Outputs \ {o})
      /\ FilmsOn(i, f) /\ f.selection = i.selection
      /\ IF "VIDEO" \in awaiting
           THEN IF recording THEN f.video_stage = "CAPTURING" /\ f.size_is_frozen
                ELSE f.video_stage = "NONE" /\ f.size_is_frozen = FALSE
           ELSE f.video_stage = i.video_stage /\ f.size_is_frozen = i.size_is_frozen
  <2>1. ASSUME "VIDEO" \in awaiting
        PROVE  /\ filmed \in State
               /\ OthersSound(filmed, Outputs \ {o})
               /\ CalmOn(imaged, filmed, Outputs \ {o})
               /\ FilmsOn(i, f) /\ f.selection = i.selection
               /\ IF recording THEN f.video_stage = "CAPTURING" /\ f.size_is_frozen
                  ELSE f.video_stage = "NONE" /\ f.size_is_frozen = FALSE
    <3>1. x.video_stage = "FULLSCREEN_START_PENDING" /\ x.selection # "RESIZING"
      BY <2>1 DEF MayDispatch, Steady, ConsumersAreReal, SizeMayBeFixed
    <3>2. /\ i.video_stage = "FULLSCREEN_START_PENDING"
          /\ i.selection # "RESIZING"
          /\ AllConsumers(i) # {}
      <4> HIDE DEF x, i
      <4> QED BY <1>1, <1>3, <1>5, <3>1 DEF GoesOn, AllConsumers
    <3>3. filmed = IF imaged.exit_requested THEN VideoCancelPending(imaged, o)
                   ELSE IF recording THEN VideoStart(imaged, o, ok)
                   ELSE VideoCancelPending(VideoStart(imaged, o, ok), o)
      BY <2>1
    <3> HIDE DEF filmed
    <3> QED BY <1>5, <3>2, <3>3, FilmAwaiting, ZenonT(30)
  <2>2. ASSUME "VIDEO" \notin awaiting
        PROVE  /\ filmed \in State
               /\ OthersSound(filmed, Outputs \ {o})
               /\ CalmOn(imaged, filmed, Outputs \ {o})
               /\ FilmsOn(i, f) /\ f = i
    <3>1. filmed = imaged
      BY <2>2
    <3> HIDE DEF filmed
    <3> QED BY <1>5, <3>1, SameFilmsOn, CalmOnReflexive
  <2> HIDE DEF filmed
  <2> QED BY <2>1, <2>2
<1> HIDE DEF filmed
<1>7. /\ SameButFreezeframe(f, z)
      /\ IF "FREEZEFRAME" \in awaiting
           THEN z.freezeframe.stage = "CAPTURING" /\ FreezeframeIsServed(z.freezeframe)
           ELSE z.freezeframe = f.freezeframe
      /\ frozen \in State
      /\ frozen.stdout = filmed.stdout
      /\ \A p \in Outputs \ {o} : frozen.outputs[p] = filmed.outputs[p]
  <2>1. f \in Output
    BY <1>6 DEF FilmsOn
  <2>2. ASSUME "FREEZEFRAME" \in awaiting
        PROVE  /\ SameButFreezeframe(f, z)
               /\ z.freezeframe.stage = "CAPTURING" /\ FreezeframeIsServed(z.freezeframe)
               /\ frozen \in State
               /\ frozen.stdout = filmed.stdout
               /\ \A p \in Outputs \ {o} : frozen.outputs[p] = filmed.outputs[p]
    <3>1. x.freezeframe.stage = "REFRESHING" /\ FreezeframeIsServed(x.freezeframe)
      BY <2>2 DEF MayDispatch, Steady, ConsumersAreReal
    <3>2. f.freezeframe = x.freezeframe
      BY <1>3, <1>5, <1>6 DEF FilmsOn, GoesOn
    <3> HIDE DEF x
    <3>3. /\ ~f.freezeframe.in_flight /\ ~f.freezeframe.capture_waiting
          /\ ~f.freezeframe.surface_waiting /\ ~f.freezeframe.showing
      BY <3>1, <3>2 DEF FreezeframeIsServed
    <3> DEFINE w == FreezeframeCaptureStart(f)
    <3> HIDE DEF f
    <3>4. /\ SameButFreezeframe(f, w)
          /\ w.freezeframe.stage = "CAPTURING"
          /\ FreezeframeIsServed(w.freezeframe)
      BY <2>1, <3>3, FreezeframeCaptureStartBooks
    <3>5. frozen = Put(filmed, o, w)
      BY <2>2 DEF f
    <3> HIDE DEF w, frozen
    <3>6. w \in Output
      BY <3>4 DEF SameButFreezeframe
    <3>7. /\ Put(filmed, o, w) \in State /\ Put(filmed, o, w).stdout = filmed.stdout
          /\ Put(filmed, o, w).outputs[o] = w
          /\ \A p \in Outputs \ {o} : Put(filmed, o, w).outputs[p] = filmed.outputs[p]
      BY <1>6, <3>6, PutValues, PutStdout
    <3> QED BY <3>4, <3>5, <3>7
  <2>3. ASSUME "FREEZEFRAME" \notin awaiting
        PROVE  /\ SameButFreezeframe(f, z)
               /\ frozen = filmed
    <3>1. frozen = filmed
      BY <2>3
    <3> HIDE DEF frozen
    <3> QED BY <2>1, <3>1 DEF SameButFreezeframe
  <2> HIDE DEF frozen, filmed
  <2> QED BY <1>6, <2>2, <2>3
<1> HIDE DEF frozen
<1>8. failed \subseteq awaiting /\ "FREEZEFRAME" \notin failed
  OBVIOUS
<1>9. /\ Sound(y) /\ SlurpIsNoCapture(y)
      /\ y \in Output
      /\ y.selection = x.selection
      /\ y.failed_asserts = x.failed_asserts
      /\ y.freezeframe.startup => x.freezeframe.startup
      /\ Calm(z, y)
      /\ "VIDEO" \in x.awaiting_ui /\ "VIDEO" \notin AllConsumers(y)
           => y.video_stage = "NONE"
  <2>1. "IMAGE" \in x.awaiting_ui /\ "IMAGE" \notin failed => "IMAGE" \in i.frame.consumers
    BY <1>4
  <2>2. IF "VIDEO" \in x.awaiting_ui
          THEN IF "VIDEO" \in failed THEN f.video_stage = "NONE" /\ f.size_is_frozen = FALSE
               ELSE f.video_stage = "CAPTURING" /\ f.size_is_frozen
          ELSE f.video_stage = i.video_stage /\ f.size_is_frozen = i.size_is_frozen
    BY <1>6
  <2>3. z \in Output /\ f \in Output /\ MayDispatch(x)
    BY <1>6, <1>7 DEF SameButFreezeframe, FilmsOn
  <2>4. failed \in SUBSET x.awaiting_ui
    BY <1>8
  <2>5. /\ SameButFreezeframe(f, z)
        /\ IF "FREEZEFRAME" \in x.awaiting_ui
             THEN z.freezeframe.stage = "CAPTURING" /\ FreezeframeIsServed(z.freezeframe)
             ELSE z.freezeframe = f.freezeframe
        /\ FilmsOn(i, f) /\ f.selection = i.selection
        /\ GoesOn(b, i)
    BY <1>5, <1>6, <1>7
  <2>6. "IMAGE" \in b.frame.consumers => "IMAGE" \in i.frame.consumers
    BY <1>4
  <2> HIDE DEF failed, z, f, i, b, x
  <2>7. LET e == IF failed = {} THEN z ELSE EndWithNoneAwaiting(z, failed)
        IN /\ Sound(e) /\ SlurpIsNoCapture(e)
           /\ e \in Output
           /\ e.selection = x.selection
           /\ e.failed_asserts = x.failed_asserts
           /\ e.freezeframe.startup => x.freezeframe.startup
           /\ Calm(z, e)
           /\ "VIDEO" \in x.awaiting_ui /\ "VIDEO" \notin AllConsumers(e)
                => e.video_stage = "NONE"
    BY <1>1, <1>3, <1>5, <1>8, <2>1, <2>2, <2>3, <2>4, <2>5, <2>6, DispatchedIsSound
  <2> QED BY <2>7
<1>10. /\ t \in State /\ t.outputs[o] = y
       /\ t.stdout = frozen.stdout
       /\ \A p \in Outputs \ {o} : t.outputs[p] = frozen.outputs[p]
  <2>1. /\ Put(frozen, o, y) \in State /\ Put(frozen, o, y).outputs[o] = y
        /\ Put(frozen, o, y).stdout = frozen.stdout
        /\ \A p \in Outputs \ {o} : Put(frozen, o, y).outputs[p] = frozen.outputs[p]
    <3> HIDE DEF y
    <3> QED BY <1>7, <1>9, PutValues, PutStdout
  <2> HIDE DEF failed
  <2> QED BY <1>7, <2>1
<1> HIDE DEF t, y
<1>11. StdoutIsOwned(t)
  <2>1. \A p \in Outputs, purpose \in {"IMAGE", "VIDEO"} :
          Capturing(t.outputs[p], purpose) <=> Capturing(filmed.outputs[p], purpose)
    BY <1>7, <1>9, <1>10 DEF SameButFreezeframe, Capturing, Calm, VideoIsLive
  <2>2. t.stdout = filmed.stdout /\ StdoutIsOwned(filmed)
    BY <1>6, <1>7, <1>10 DEF OthersSound
  <2> QED BY <1>6, <1>10, <2>1, <2>2, StdoutKept
<1>12. SoundState(t)
  BY <1>6, <1>7, <1>9, <1>10, <1>11 DEF SoundState, OthersSound
<1>13. Quiet(s, t)
  <2>1. CalmOn(s, filmed, Outputs \ {o})
    BY <1>3, <1>5, <1>6, CalmOnTransitive
  <2>2. \A p \in Outputs \ {o} : t.outputs[p] = filmed.outputs[p]
    BY <1>7, <1>10
  <2> HIDE DEF x
  <2> QED BY <1>9, <1>10, <2>1, <2>2 DEF Quiet, CalmOn, Calm, x
<1> QED BY <1>2, <1>9, <1>10, <1>12, <1>13

(* One output replaced                                                     *)

LEMMA PutOthersSound ==
  ASSUME NEW s \in State, NEW o \in Outputs, NEW x \in Output,
         OthersSound(s, Outputs \ {o}), SameCaptures(s.outputs[o], x)
  PROVE  LET t == Put(s, o, x)
         IN /\ t \in State
            /\ t.outputs[o] = x
            /\ OthersSound(t, Outputs \ {o})
            /\ Quiet(s, t)
<1> DEFINE t == Put(s, o, x)
<1>1. /\ t \in State /\ t.stdout = s.stdout /\ t.outputs[o] = x
      /\ \A p \in Outputs \ {o} : t.outputs[p] = s.outputs[p]
  BY PutValues, PutStdout
<1> HIDE DEF t
<1>2. \A p \in Outputs, purpose \in {"IMAGE", "VIDEO"} :
        Capturing(t.outputs[p], purpose) <=> Capturing(s.outputs[p], purpose)
  BY <1>1 DEF Capturing, SameCaptures
<1>3. StdoutIsOwned(t)
  BY <1>1, <1>2, StdoutKept DEF OthersSound
<1>4. OthersSound(t, Outputs \ {o})
  BY <1>1, <1>3 DEF OthersSound
<1>5. Quiet(s, t)
  BY <1>1 DEF Quiet, SameCaptures
<1> QED BY <1>1, <1>4, <1>5 DEF t

LEMMA PutReplacesSound ==
  ASSUME NEW s \in State, NEW o \in Outputs, NEW x \in Output,
         OthersSound(s, Outputs \ {o}), SameCaptures(s.outputs[o], x),
         Sound(x), SlurpIsNoCapture(x)
  PROVE  SoundState(Put(s, o, x)) /\ Quiet(s, Put(s, o, x))
<1> DEFINE t == Put(s, o, x)
<1>1. t.outputs[o] = x /\ OthersSound(t, Outputs \ {o}) /\ Quiet(s, t)
  BY PutOthersSound
<1> HIDE DEF t
<1>2. SoundState(t)
  BY <1>1 DEF SoundState, OthersSound
<1> QED BY <1>1, <1>2 DEF t

\* What is sound of the outputs and stdout does not depend on the rest.
LEMMA RestIsFree ==
  ASSUME NEW s, NEW t, SoundState(s), t.outputs = s.outputs, t.stdout = s.stdout
  PROVE  SoundState(t) /\ Quiet(s, t)
  BY DEF SoundState, OthersSound, StdoutIsOwned, StdoutIsFree, ReservedFor, Quiet

\* A selection may become what its size allows.
LEMMA SelectionReplaced ==
  ASSUME NEW x \in Output, NEW state \in SelectionStates, Sound(x),
         ~x.freezeframe.startup,
         x.size_is_frozen => state # "INITIALIZING" /\ state # "RESIZING"
  PROVE  LET y == [x EXCEPT !.selection = state]
         IN /\ y \in Output /\ Sound(y) /\ SameCaptures(x, y)
            /\ SlurpIsNoCapture(x) => SlurpIsNoCapture(y)
            /\ y.selection = state /\ y.size_is_frozen = x.size_is_frozen
            /\ y.video_stage = x.video_stage /\ y.freezeframe = x.freezeframe
            /\ y.surface = x.surface
<1> DEFINE y == [x EXCEPT !.selection = state]
<1>1. /\ y \in Output
      /\ y.surface = x.surface /\ y.frame = x.frame /\ y.freezeframe = x.freezeframe
      /\ y.active = x.active /\ y.awaiting_ui = x.awaiting_ui /\ y.ui = x.ui
      /\ y.video_stage = x.video_stage /\ y.captures = x.captures
      /\ y.selection = state /\ y.size_is_frozen = x.size_is_frozen
      /\ y.failed_asserts = x.failed_asserts
  BY DEF Output
<1> HIDE DEF y
<1>2. UiIsGone(y) /\ HideIsAnswered(y) /\ UiIsChanging(y)
  BY <1>1 DEF Sound, Steady, Balanced, UiIsGone, HideIsAnswered, UiIsChanging
<1>3. Counted(y) /\ FrameIsShared(y)
  BY <1>1 DEF Sound, Steady, Balanced, Counted, FrameIsShared, AllConsumers, VideoIsLive
<1>4. StartsEmpty(y) /\ SizeIsFixed(y)
  BY <1>1 DEF Sound, Steady, Balanced, StartsEmpty, SizeIsFixed
<1>5. ConsumersAreReal(y) /\ FreezeframeIsServed(y.freezeframe)
  BY <1>1 DEF Sound, Steady, ConsumersAreReal, VideoIsLive
<1>6. SameCaptures(x, y) /\ (SlurpIsNoCapture(x) => SlurpIsNoCapture(y))
  BY <1>1 DEF SameCaptures, VideoIsLive, SlurpIsNoCapture, AllConsumers
<1> QED BY <1>1, <1>2, <1>3, <1>4, <1>5, <1>6 DEF Sound, Steady, Balanced, y

\* A surface in use may change in any way that keeps it covered and its hides pending.
LEMMA SurfaceReplaced ==
  ASSUME NEW x \in Output, NEW surface, Keeps(x.surface, surface),
         SameHides(x.surface, surface), Sound(x), ~x.freezeframe.startup
  PROVE  LET y == [x EXCEPT !.surface = surface]
         IN Sound(y) /\ Calm(x, y) /\ y \in Output
<1> DEFINE y == [x EXCEPT !.surface = surface]
<1>1. /\ y \in Output
      /\ y.surface = surface /\ y.frame = x.frame /\ y.freezeframe = x.freezeframe
      /\ y.active = x.active /\ y.awaiting_ui = x.awaiting_ui /\ y.ui = x.ui
      /\ y.video_stage = x.video_stage /\ y.captures = x.captures
      /\ y.selection = x.selection /\ y.size_is_frozen = x.size_is_frozen
      /\ y.failed_asserts = x.failed_asserts
  BY DEF Output, Keeps
<1> HIDE DEF y
<1>2. UiIsGone(y) /\ HideIsAnswered(y) /\ UiIsChanging(y)
  BY <1>1 DEF Sound, Steady, Balanced, UiIsGone, HideIsAnswered, UiIsChanging, Keeps, SameHides
<1>3. Counted(y) /\ FrameIsShared(y)
  BY <1>1 DEF Sound, Steady, Balanced, Counted, FrameIsShared, AllConsumers, VideoIsLive
<1>4. StartsEmpty(y) /\ SizeIsFixed(y)
  BY <1>1 DEF Sound, Steady, Balanced, StartsEmpty, SizeIsFixed
<1>5. ConsumersAreReal(y) /\ FreezeframeIsServed(y.freezeframe)
  BY <1>1 DEF Sound, Steady, ConsumersAreReal, VideoIsLive
<1>6. Calm(x, y)
  BY <1>1 DEF Calm, VideoIsLive, AllConsumers
<1> QED BY <1>1, <1>2, <1>3, <1>4, <1>5, <1>6 DEF Sound, Steady, Balanced, y

LEMMA CalmSameCaptures ==
  ASSUME NEW x, NEW y, Calm(x, y)
  PROVE  /\ SameCaptures(x, y)
         /\ SlurpIsNoCapture(x) => SlurpIsNoCapture(y)
  BY DEF Calm, SameCaptures, SlurpIsNoCapture

(* The sync of the capture UI                                              *)

LEMMA SyncedSound ==
  ASSUME NEW s, NEW t, NEW o, Synced(s, t, o), SizeIsFixed(t.outputs[o])
  PROVE  SoundState(t) /\ Quiet(s, t)
  BY DEF Synced, SoundState, OthersSound, Sound

LEMMA SyncUiAndDispatchSyncs ==
  ASSUME NEW s \in State, NEW o \in Outputs, NEW ok \in BOOLEAN,
         OthersSound(s, Outputs \ {o}), Steady(s.outputs[o]),
         SlurpIsNoCapture(s.outputs[o]), SizeMayBeFixed(s.outputs[o])
  PROVE  LET t == SyncUiAndDispatch(s, o, ok)
             x == s.outputs[o]
             y == t.outputs[o]
         IN /\ Synced(s, t, o)
            /\ SizeIsFixed(x) => SizeIsFixed(y)
            /\ "VIDEO" \in x.awaiting_ui /\ "VIDEO" \notin AllConsumers(y)
                 => SizeIsFixed(y) /\ y.video_stage = "NONE"
<1> DEFINE x == s.outputs[o]
           t == SyncUiAndDispatch(s, o, ok)
           y == t.outputs[o]
<1>1. ASSUME UiSettled(x), x.awaiting_ui # {}
      PROVE  /\ Synced(s, t, o) /\ SizeIsFixed(y)
             /\ "VIDEO" \in x.awaiting_ui /\ "VIDEO" \notin AllConsumers(y)
                  => y.video_stage = "NONE"
  <2>1. MayDispatch(x)
    BY <1>1 DEF MayDispatch
  <2>2. t = DispatchAwaiting(s, o, ok)
    BY <1>1 DEF SyncUiAndDispatch
  <2> HIDE DEF t
  <2>3. /\ t \in State /\ SoundState(t) /\ Quiet(s, t)
        /\ y.selection = x.selection
        /\ "VIDEO" \in x.awaiting_ui /\ "VIDEO" \notin AllConsumers(y)
             => y.video_stage = "NONE"
    BY <2>1, <2>2, DispatchAwaitingSound
  <2>4. Sound(y) /\ SlurpIsNoCapture(y) /\ OthersSound(t, Outputs \ {o})
    BY <2>3 DEF SoundState, OthersSound
  <2> QED BY <2>3, <2>4 DEF Synced, Sound
<1>2. ASSUME ~(UiSettled(x) /\ x.awaiting_ui # {})
      PROVE  /\ Synced(s, t, o)
             /\ SizeIsFixed(x) => SizeIsFixed(y)
             /\ y.awaiting_ui = x.awaiting_ui
  <2>1. t = Put(s, o, SyncUi(x))
    BY <1>2 DEF SyncUiAndDispatch
  <2> HIDE DEF t
  <2>2. x \in Output
    BY OutputOfState
  <2> DEFINE z == SyncUi(x)
  <2>3. UiMoves(x, z) /\ UiIsChanging(z)
    <3>1. Steady(x)
      OBVIOUS
    <3> HIDE DEF x
    <3>2. UiMoves(x, z) /\ (~UiSettled(x) => UiIsChanging(z))
      BY <2>2, <3>1, SyncUiMoves, SyncUiFollows DEF Steady, Balanced
    <3>3. x.awaiting_ui = {} => UiIsChanging(z)
      BY <3>2 DEF UiMoves, SameBooks, UiIsChanging
    <3> QED BY <1>2, <3>2, <3>3
  <2> HIDE DEF z, x
  <2>4. Calm(x, z) /\ (Steady(x) => Steady(z)) /\ (SizeIsFixed(x) => SizeIsFixed(z))
    BY <2>2, <2>3, UiMovesSound
  <2>5. SameCaptures(x, z) /\ (SlurpIsNoCapture(x) => SlurpIsNoCapture(z))
    BY <2>4, CalmSameCaptures
  <2>6. /\ z \in Output /\ z.selection = x.selection
        /\ z.awaiting_ui = x.awaiting_ui
    BY <2>3 DEF UiMoves, Follows, SameBooks
  <2>7. /\ t \in State
        /\ t.outputs[o] = z
        /\ OthersSound(t, Outputs \ {o})
        /\ Quiet(s, t)
    BY <2>1, <2>5, <2>6, PutOthersSound DEF x, z
  <2> QED BY <2>3, <2>4, <2>5, <2>6, <2>7 DEF Synced, x
<1>3. x.awaiting_ui \subseteq AllConsumers(x) /\ y.awaiting_ui \subseteq AllConsumers(y)
  BY DEF AllConsumers
<1> HIDE DEF t, x
<1> QED BY <1>1, <1>2, <1>3 DEF t, x

\* A handler that changes an output soundly, but for its UI, and syncs it.
LEMMA ChangedAndSyncedSound ==
  ASSUME NEW s \in State, NEW o \in Outputs, NEW ok \in BOOLEAN, NEW x \in Output,
         OthersSound(s, Outputs \ {o}), SameCaptures(s.outputs[o], x),
         Steady(x), SlurpIsNoCapture(x), SizeIsFixed(x)
  PROVE  LET t == SyncUiAndDispatch(Put(s, o, x), o, ok)
         IN SoundState(t) /\ Quiet(s, t)
<1> DEFINE u == Put(s, o, x)
           t == SyncUiAndDispatch(u, o, ok)
<1>1. u \in State /\ u.outputs[o] = x /\ OthersSound(u, Outputs \ {o}) /\ Quiet(s, u)
  BY PutOthersSound
<1> HIDE DEF u
<1>2. SizeMayBeFixed(x)
  BY DEF SizeMayBeFixed, SizeIsFixed, Steady, ConsumersAreReal
<1>3. Synced(u, t, o) /\ SizeIsFixed(t.outputs[o])
  BY <1>1, <1>2, SyncUiAndDispatchSyncs
<1> HIDE DEF t
<1>4. SoundState(t) /\ Quiet(u, t)
  BY <1>3, SyncedSound
<1>5. Quiet(s, t)
  BY <1>1, <1>4, QuietTransitive
<1> QED BY <1>4, <1>5 DEF t, u

(* Fullscreen captures                                                     *)

\* A consumer that joins awaits the UI, and the first is counted.
LEMMA JoiningIsSteady ==
  ASSUME NEW x \in Output, NEW consumer \in {"IMAGE", "VIDEO"},
         Steady(x), SlurpIsNoCapture(x), consumer \notin AllConsumers(x),
         consumer = "IMAGE" => ~ProduceSlurp,
         consumer = "VIDEO" => x.video_stage = "FULLSCREEN_START_PENDING"
  PROVE  LET w == [x EXCEPT !.captures = IF AllConsumers(x) = {} THEN @ + 1 ELSE @,
                            !.awaiting_ui = @ \cup {consumer}]
         IN /\ w \in Output /\ Steady(w) /\ SlurpIsNoCapture(w) /\ SameCaptures(x, w)
            /\ w.awaiting_ui = x.awaiting_ui \cup {consumer}
            /\ w.video_stage = x.video_stage
            /\ w.selection = x.selection /\ w.size_is_frozen = x.size_is_frozen
<1> DEFINE n == IF AllConsumers(x) = {} THEN x.captures + 1 ELSE x.captures
           w == [x EXCEPT !.captures = n, !.awaiting_ui = @ \cup {consumer}]
<1>1. n \in Int
  BY DEF Output
<1> HIDE DEF n
<1>2. /\ w \in Output
      /\ w.surface = x.surface /\ w.frame = x.frame /\ w.freezeframe = x.freezeframe
      /\ w.active = x.active /\ w.awaiting_ui = x.awaiting_ui \cup {consumer}
      /\ w.ui = x.ui
      /\ w.video_stage = x.video_stage /\ w.captures = n
      /\ w.selection = x.selection /\ w.size_is_frozen = x.size_is_frozen
      /\ w.failed_asserts = x.failed_asserts
  BY <1>1 DEF Output, Consumers
<1> HIDE DEF w
<1>3. UiIsGone(w) /\ HideIsAnswered(w) /\ FrameIsShared(w) /\ StartsEmpty(w)
  BY <1>2 DEF Steady, Balanced, UiIsGone, HideIsAnswered, FrameIsShared, StartsEmpty,
     VideoIsLive
<1>4. AllConsumers(w) = AllConsumers(x) \cup {consumer}
  BY <1>2 DEF AllConsumers
<1>5. Counted(w)
  BY <1>2, <1>4 DEF Steady, Balanced, Counted, Output, Count, VideoIsLive, n
<1>6. ConsumersAreReal(w) /\ FreezeframeIsServed(w.freezeframe)
  BY <1>2 DEF Steady, ConsumersAreReal, VideoIsLive, AllConsumers
<1>7. SlurpIsNoCapture(w)
  BY <1>4 DEF SlurpIsNoCapture
<1>8. SameCaptures(x, w)
  BY <1>2 DEF SameCaptures, VideoIsLive
<1> QED BY <1>2, <1>3, <1>5, <1>6, <1>7, <1>8 DEF Steady, Balanced, w, n

\* A fullscreen capture is refused, awaits the UI, or is dispatched.
LEMMA FullscreenStartSyncs ==
  ASSUME NEW s \in State, NEW o \in Outputs, NEW consumer \in {"IMAGE", "VIDEO"},
         NEW ok \in BOOLEAN,
         OthersSound(s, Outputs \ {o}), Steady(s.outputs[o]), UiIsChanging(s.outputs[o]),
         SlurpIsNoCapture(s.outputs[o]),
         consumer = "IMAGE" => ~ProduceSlurp /\ SizeIsFixed(s.outputs[o]),
         consumer = "VIDEO" => /\ s.outputs[o].video_stage = "FULLSCREEN_START_PENDING"
                               /\ s.outputs[o].selection = "NONE"
                               /\ s.outputs[o].size_is_frozen = FALSE
  PROVE  LET t == FullscreenStart(s, o, consumer, ok)
             y == t.outputs[o]
         IN /\ Synced(s, t, o)
            /\ consumer = "IMAGE" => SizeIsFixed(y)
            /\ consumer = "VIDEO" /\ "VIDEO" \notin AllConsumers(y)
                 => y.size_is_frozen = FALSE /\ ~VideoIsLive(y)
<1> DEFINE x == s.outputs[o]
           w == [x EXCEPT !.captures = IF AllConsumers(x) = {} THEN @ + 1 ELSE @,
                          !.awaiting_ui = @ \cup {consumer}]
           u == Put(s, o, w)
           t == FullscreenStart(s, o, consumer, ok)
           y == t.outputs[o]
<1>1. x \in Output
  BY OutputOfState
<1>2. ASSUME consumer \in AllConsumers(x) \/ s.exit_requested
      PROVE  /\ Synced(s, t, o)
             /\ consumer = "IMAGE" => SizeIsFixed(y)
             /\ consumer = "VIDEO" /\ "VIDEO" \notin AllConsumers(y)
                  => y.size_is_frozen = FALSE /\ ~VideoIsLive(y)
  <2>1. t = s
    BY <1>2 DEF FullscreenStart
  <2> HIDE DEF t
  <2> QED BY <2>1, QuietReflexive DEF Synced, VideoIsLive
<1>3. ASSUME consumer \notin AllConsumers(x), ~s.exit_requested
      PROVE  /\ Synced(s, t, o)
             /\ consumer = "IMAGE" => SizeIsFixed(y)
             /\ consumer = "VIDEO" /\ "VIDEO" \notin AllConsumers(y)
                  => y.size_is_frozen = FALSE /\ ~VideoIsLive(y)
  <2>1. t = SyncUiAndDispatch(u, o, ok)
    BY <1>3 DEF FullscreenStart
  <2>2. /\ w \in Output /\ Steady(w) /\ SlurpIsNoCapture(w) /\ SameCaptures(x, w)
        /\ w.awaiting_ui = x.awaiting_ui \cup {consumer}
        /\ w.video_stage = x.video_stage
        /\ w.selection = x.selection /\ w.size_is_frozen = x.size_is_frozen
    <3>1. Steady(x) /\ SlurpIsNoCapture(x)
      OBVIOUS
    <3>2. consumer = "VIDEO" => x.video_stage = "FULLSCREEN_START_PENDING"
      OBVIOUS
    <3> HIDE DEF x
    <3> QED BY <1>1, <1>3, <3>1, <3>2, JoiningIsSteady
  <2> HIDE DEF w, t
  <2>3. /\ u \in State /\ u.outputs[o] = w
        /\ OthersSound(u, Outputs \ {o}) /\ Quiet(s, u)
    BY <2>2, PutOthersSound
  <2>4. SizeMayBeFixed(w) /\ (consumer = "IMAGE" => SizeIsFixed(w))
    BY <2>2 DEF SizeMayBeFixed, SizeIsFixed, Steady, ConsumersAreReal
  <2> HIDE DEF u
  <2>5. /\ Synced(u, t, o)
        /\ SizeIsFixed(w) => SizeIsFixed(y)
        /\ "VIDEO" \in w.awaiting_ui /\ "VIDEO" \notin AllConsumers(y)
             => SizeIsFixed(y) /\ y.video_stage = "NONE"
    BY <2>1, <2>2, <2>3, <2>4, SyncUiAndDispatchSyncs
  <2>6. Quiet(s, t)
    BY <2>3, <2>5, QuietTransitive DEF Synced
  <2>7. consumer = "VIDEO" /\ "VIDEO" \notin AllConsumers(y)
             => y.size_is_frozen = FALSE /\ ~VideoIsLive(y)
    <3>1. y \in Output
      BY <2>5, OutputOfState DEF Synced
    <3> HIDE DEF y
    <3> QED BY <2>2, <2>5, <3>1 DEF SizeIsFixed, VideoIsLive, Output
  <2> QED BY <2>2, <2>3, <2>4, <2>5, <2>6, <2>7 DEF Synced
<1> HIDE DEF t
<1> QED BY <1>2, <1>3 DEF t

\* A change that nothing sound depends on.
LEMMA ExitAfterReplaced ==
  ASSUME NEW x \in Output, NEW after \in BOOLEAN
  PROVE  LET y == [x EXCEPT !.exit_after = after]
         IN /\ y \in Output /\ Calm(x, y)
            /\ Sound(x) => Sound(y)
<1> DEFINE y == [x EXCEPT !.exit_after = after]
<1>1. /\ y \in Output
      /\ y.surface = x.surface /\ y.frame = x.frame /\ y.freezeframe = x.freezeframe
      /\ y.active = x.active /\ y.awaiting_ui = x.awaiting_ui /\ y.ui = x.ui
      /\ y.video_stage = x.video_stage /\ y.captures = x.captures
      /\ y.selection = x.selection /\ y.size_is_frozen = x.size_is_frozen
      /\ y.failed_asserts = x.failed_asserts
  BY DEF Output
<1> HIDE DEF y
<1>2. UiMoves(x, y)
  BY <1>1 DEF UiMoves, Follows, SameBooks, StaysBusy, HideIsAnswered, UiIsGone,
     UiIsChanging, AllConsumers
<1> QED BY <1>1, <1>2, UiMovesSound DEF y

LEMMA PutExitAfterSound ==
  ASSUME NEW s \in State, NEW o \in Outputs, NEW after \in BOOLEAN, SoundState(s)
  PROVE  LET t == [s EXCEPT !.outputs[o].exit_after = after]
         IN SoundState(t) /\ Quiet(s, t) /\ t \in State
<1> DEFINE x == s.outputs[o]
           y == [x EXCEPT !.exit_after = after]
<1>1. [s EXCEPT !.outputs[o].exit_after = after] = Put(s, o, y)
  BY DEF Put, State
<1>2. x \in Output /\ Sound(x) /\ SlurpIsNoCapture(x) /\ OthersSound(s, Outputs \ {o})
  BY OutputOfState DEF SoundState, OthersSound
<1>3. y \in Output /\ Calm(x, y) /\ Sound(y)
  <2> HIDE DEF x
  <2> QED BY <1>2, ExitAfterReplaced
<1> HIDE DEF y
<1>4. SoundState(Put(s, o, y)) /\ Quiet(s, Put(s, o, y)) /\ Put(s, o, y) \in State
  BY <1>2, <1>3, PutSound, PutValues
<1> QED BY <1>1, <1>4 DEF y

LEMMA ImageStartFullscreenSound ==
  ASSUME NEW s \in State, NEW o \in Outputs, NEW exit_after \in BOOLEAN, NEW ok \in BOOLEAN,
         SoundState(s)
  PROVE  LET t == ImageStartFullscreen(s, o, exit_after, ok)
         IN SoundState(t) /\ Quiet(s, t)
<1> DEFINE asked  == [s EXCEPT !.outputs[o].exit_after = exit_after]
           begun  == FullscreenStart(asked, o, "IMAGE", ok)
           undone == [begun EXCEPT !.outputs[o].exit_after = s.outputs[o].exit_after]
           t      == ImageStartFullscreen(s, o, exit_after, ok)
<1>1. ASSUME ProduceSlurp PROVE SoundState(t) /\ Quiet(s, t)
  <2>1. t = s \/ t = RequestExit(s)
    BY <1>1 DEF ImageStartFullscreen
  <2> HIDE DEF t
  <2> QED BY <2>1, RequestExitSound, QuietReflexive
<1>2. ASSUME ~ProduceSlurp PROVE SoundState(t) /\ Quiet(s, t)
  <2>1. SoundState(asked) /\ Quiet(s, asked) /\ asked \in State
    BY PutExitAfterSound
  <2>2. t = begun \/ t = undone
    BY <1>2 DEF ImageStartFullscreen
  <2> HIDE DEF asked, t
  <2>3. Sound(asked.outputs[o]) /\ SlurpIsNoCapture(asked.outputs[o])
        /\ OthersSound(asked, Outputs \ {o})
    BY <2>1 DEF SoundState, OthersSound
  <2>4. Synced(asked, begun, o) /\ SizeIsFixed(begun.outputs[o])
    BY <1>2, <2>1, <2>3, FullscreenStartSyncs DEF Sound
  <2> HIDE DEF begun
  <2>5. SoundState(begun) /\ Quiet(asked, begun) /\ begun \in State
    BY <2>4, SyncedSound DEF Synced
  <2>6. s.outputs[o].exit_after \in BOOLEAN
    BY OutputOfState DEF Output
  <2>7. SoundState(undone) /\ Quiet(begun, undone)
    BY <2>5, <2>6, PutExitAfterSound
  <2> HIDE DEF undone
  <2> QED BY <2>1, <2>2, <2>5, <2>7, QuietTransitive
<1> QED BY <1>1, <1>2

(* Fullscreen videos                                                       *)

LEMMA SameButSelectionSteady ==
  ASSUME NEW x \in Output, NEW y, SameButSelection(x, y), Steady(x), UiIsChanging(x),
         VideoIsLive(y) <=> VideoIsLive(x),
         x.selection = "NONE" => y.selection = "NONE",
         "VIDEO" \in y.awaiting_ui => y.video_stage = "FULLSCREEN_START_PENDING"
  PROVE  /\ Steady(y) /\ UiIsChanging(y) /\ SameCaptures(x, y)
         /\ SlurpIsNoCapture(x) => SlurpIsNoCapture(y)
  BY SameButSelectionFilmsOn
     DEF Steady, ConsumersAreReal, SameButSelection, FilmsOn, SameCaptures,
         SlurpIsNoCapture, AllConsumers

\* An output whose recording is pending, or is not any more.
LEMMA StageReplaced ==
  ASSUME NEW s \in State, NEW o \in Outputs,
         NEW stage \in {"NONE", "FULLSCREEN_START_PENDING"},
         OthersSound(s, Outputs \ {o}), Steady(s.outputs[o]), UiIsChanging(s.outputs[o]),
         SlurpIsNoCapture(s.outputs[o]), ~VideoIsLive(s.outputs[o]),
         "VIDEO" \notin s.outputs[o].awaiting_ui
  PROVE  LET t == [s EXCEPT !.outputs[o].video_stage = stage]
             x == s.outputs[o]
             y == t.outputs[o]
         IN /\ Synced(s, t, o)
            /\ y.video_stage = stage /\ y.size_is_frozen = x.size_is_frozen
            /\ y.active = x.active /\ y.awaiting_ui = x.awaiting_ui
<1> DEFINE x == s.outputs[o]
           y == [x EXCEPT !.video_stage = stage]
           t == [s EXCEPT !.outputs[o].video_stage = stage]
<1>1. t = Put(s, o, y)
  BY DEF Put, State
<1>2. x \in Output
  BY OutputOfState
<1>3. /\ SameButSelection(x, y) /\ y.video_stage = stage /\ y.selection = x.selection
      /\ y.size_is_frozen = x.size_is_frozen
  <2> HIDE DEF x
  <2> QED BY <1>2 DEF SameButSelection, Output, VideoStages
<1> HIDE DEF y, t
<1>4. ~VideoIsLive(y) /\ y.awaiting_ui = x.awaiting_ui /\ y.active = x.active
  BY <1>3 DEF VideoIsLive, SameButSelection
<1>5. /\ Steady(y) /\ UiIsChanging(y) /\ SameCaptures(x, y) /\ SlurpIsNoCapture(y)
  <2>1. Steady(x) /\ UiIsChanging(x) /\ SlurpIsNoCapture(x) /\ ~VideoIsLive(x)
        /\ "VIDEO" \notin x.awaiting_ui
    OBVIOUS
  <2> HIDE DEF x
  <2> QED BY <1>2, <1>3, <1>4, <2>1, SameButSelectionSteady
<1>6. y \in Output
  BY <1>3 DEF SameButSelection
<1>7. /\ t \in State
      /\ t.outputs[o] = y
      /\ OthersSound(t, Outputs \ {o})
      /\ Quiet(s, t)
  BY <1>1, <1>5, <1>6, PutOthersSound
<1> QED BY <1>3, <1>4, <1>5, <1>7 DEF Synced, t

\* The size of an output that is to be recorded is fixed.
LEMMA FreezeSizeSound ==
  ASSUME NEW s \in State, NEW o \in Outputs,
         OthersSound(s, Outputs \ {o}), Steady(s.outputs[o]), UiIsChanging(s.outputs[o]),
         SlurpIsNoCapture(s.outputs[o]),
         s.outputs[o].selection = "NONE", "VIDEO" \in AllConsumers(s.outputs[o])
  PROVE  LET t == SelectionFreezeSize(s, o)
         IN SoundState(t) /\ Quiet(s, t)
<1> DEFINE x == s.outputs[o]
           t == SelectionFreezeSize(s, o)
           y == t.outputs[o]
<1>1. x \in Output
  BY OutputOfState
<1>2. /\ SameButOn(s, t, o)
      /\ SameButSelection(x, y)
      /\ y.video_stage = x.video_stage
      /\ y.size_is_frozen
      /\ y.selection = IF x.selection = "RESIZING" THEN "COMPLETE" ELSE x.selection
  BY SelectionFreezeSizeBooks
<1> HIDE DEF t
<1>3. y.selection = "NONE" /\ (VideoIsLive(y) <=> VideoIsLive(x))
  BY <1>2 DEF VideoIsLive
<1>4. x.video_stage # "NONE" /\ ("VIDEO" \in y.awaiting_ui => y.video_stage = "FULLSCREEN_START_PENDING")
  BY <1>2 DEF Steady, ConsumersAreReal, AllConsumers, VideoIsLive, SameButSelection
<1>5. Steady(y) /\ UiIsChanging(y) /\ SameCaptures(x, y) /\ SlurpIsNoCapture(y)
  <2>1. Steady(x) /\ UiIsChanging(x) /\ SlurpIsNoCapture(x)
    OBVIOUS
  <2> HIDE DEF x, y
  <2> QED BY <1>1, <1>2, <1>3, <1>4, <2>1, SameButSelectionSteady
<1>6. SizeIsFixed(y)
  BY <1>2, <1>3, <1>4 DEF SizeIsFixed
<1>7. \A p \in Outputs, purpose \in {"IMAGE", "VIDEO"} :
        Capturing(t.outputs[p], purpose) <=> Capturing(s.outputs[p], purpose)
  BY <1>2, <1>5 DEF SameButOn, Capturing, SameCaptures
<1>8. StdoutIsOwned(t)
  BY <1>2, <1>7, StdoutKept DEF SameButOn, OthersSound
<1>9. SoundState(t)
  BY <1>2, <1>5, <1>6, <1>8 DEF SoundState, OthersSound, SameButOn, Sound
<1>10. Quiet(s, t)
  BY <1>2, <1>5 DEF Quiet, SameButOn, SameCaptures
<1> QED BY <1>9, <1>10 DEF t

LEMMA VideoStartFullscreenSound ==
  ASSUME NEW s \in State, NEW o \in Outputs, NEW ok \in BOOLEAN, SoundState(s),
         s.outputs[o].video_stage = "NONE", s.outputs[o].selection = "NONE"
  PROVE  LET t == VideoStartFullscreen(s, o, ok)
         IN SoundState(t) /\ Quiet(s, t)
<1> DEFINE x       == s.outputs[o]
           pending == [s EXCEPT !.outputs[o].video_stage = "FULLSCREEN_START_PENDING"]
           begun   == FullscreenStart(pending, o, "VIDEO", ok)
           fixed   == SelectionFreezeSize(begun, o)
           undone  == [begun EXCEPT !.outputs[o].video_stage = "NONE"]
           t       == VideoStartFullscreen(s, o, ok)
           p       == pending.outputs[o]
           b       == begun.outputs[o]
<1>1. /\ OthersSound(s, Outputs \ {o}) /\ Steady(x) /\ UiIsChanging(x) /\ SlurpIsNoCapture(x)
      /\ ~VideoIsLive(x) /\ x.size_is_frozen = FALSE
      /\ "VIDEO" \notin AllConsumers(x)
  <2>1. Sound(x) /\ SlurpIsNoCapture(x) /\ OthersSound(s, Outputs \ {o})
    BY DEF SoundState, OthersSound
  <2>2. x \in Output /\ ~VideoIsLive(x)
    BY OutputOfState DEF VideoIsLive
  <2>3. x.video_stage = "NONE"
    OBVIOUS
  <2> HIDE DEF x
  <2> QED BY <2>1, <2>2, <2>3 DEF Sound, Steady, ConsumersAreReal, SizeIsFixed, AllConsumers,
             Output
<1>2. /\ Synced(s, pending, o)
      /\ p.video_stage = "FULLSCREEN_START_PENDING" /\ p.size_is_frozen = FALSE
      /\ p.active = x.active /\ p.awaiting_ui = x.awaiting_ui
  BY <1>1, StageReplaced DEF AllConsumers
<1>3. t = IF FullscreenStarted(pending, begun, o, "VIDEO") THEN fixed ELSE undone
  BY <1>1 DEF VideoStartFullscreen
<1> HIDE DEF pending, t
<1>4. p.selection = "NONE" /\ "VIDEO" \notin AllConsumers(p)
  BY <1>1, <1>2 DEF Synced, AllConsumers
<1>5. /\ Synced(pending, begun, o)
      /\ "VIDEO" \notin AllConsumers(b) => b.size_is_frozen = FALSE /\ ~VideoIsLive(b)
  BY <1>2, <1>4, FullscreenStartSyncs DEF Synced
<1> HIDE DEF begun
<1>6. b.selection = "NONE"
  BY <1>4, <1>5 DEF Synced
<1>7. ASSUME "VIDEO" \in AllConsumers(b) PROVE SoundState(t) /\ Quiet(begun, t)
  BY <1>3, <1>4, <1>5, <1>6, <1>7, FreezeSizeSound DEF FullscreenStarted, Synced
<1>8. ASSUME "VIDEO" \notin AllConsumers(b) PROVE SoundState(t) /\ Quiet(begun, t)
  <2>1. t = undone
    BY <1>3, <1>8 DEF FullscreenStarted
  <2>2. ~VideoIsLive(b) /\ "VIDEO" \notin b.awaiting_ui /\ b.size_is_frozen = FALSE
    BY <1>5, <1>8 DEF AllConsumers
  <2>3. /\ Synced(begun, undone, o)
        /\ undone.outputs[o].video_stage = "NONE"
        /\ undone.outputs[o].size_is_frozen = FALSE
    BY <1>5, <2>2, StageReplaced DEF Synced
  <2> HIDE DEF undone
  <2>4. SizeIsFixed(undone.outputs[o])
    BY <2>3 DEF SizeIsFixed
  <2> QED BY <2>1, <2>3, <2>4, SyncedSound
<1>9. Quiet(s, begun)
  BY <1>2, <1>5, QuietTransitive DEF Synced
<1> QED BY <1>7, <1>8, <1>9, QuietTransitive DEF t

\* A recording of a selection.
LEMMA VideoStartSound ==
  ASSUME NEW s \in State, NEW o \in Outputs, NEW ok \in BOOLEAN, SoundState(s),
         s.outputs[o].video_stage = "NONE",
         s.outputs[o].selection # "NONE", s.outputs[o].selection # "INITIALIZING"
  PROVE  LET t == VideoStart(s, o, ok)
         IN SoundState(t) /\ Quiet(s, t)
<1> DEFINE x == s.outputs[o]
           t == VideoStart(s, o, ok)
           y == t.outputs[o]
<1>1. x \in Output /\ Sound(x) /\ SlurpIsNoCapture(x) /\ OthersSound(s, Outputs \ {o})
      /\ ~VideoIsLive(x)
  BY OutputOfState DEF SoundState, OthersSound, VideoIsLive
<1>2. /\ t \in State
      /\ OthersSound(t, Outputs \ {o})
      /\ CalmOn(s, t, Outputs \ {o})
      /\ FilmsOn(x, y)
      /\ y.selection = IF x.selection = "RESIZING" THEN "COMPLETE" ELSE x.selection
      /\ IF VideoStarts(s, o, ok)
           THEN y.video_stage = "CAPTURING" /\ y.size_is_frozen
           ELSE y.video_stage = x.video_stage /\ y.size_is_frozen = FALSE
  BY <1>1, VideoStartFilmsOn DEF Sound, Steady
<1> HIDE DEF t
<1>3. "VIDEO" \notin AllConsumers(y) /\ SlurpIsNoCapture(y)
  BY <1>1, <1>2 DEF Sound, Steady, ConsumersAreReal, FilmsOn, AllConsumers, VideoIsLive,
     SlurpIsNoCapture
<1>4. ConsumersAreReal(y) /\ FreezeframeIsServed(y.freezeframe)
  BY <1>1, <1>2, <1>3 DEF Sound, Steady, ConsumersAreReal, FilmsOn, AllConsumers
<1>5. SizeIsFixed(y)
  BY <1>2 DEF SizeIsFixed
<1>6. Sound(y)
  BY <1>1, <1>2, <1>4, <1>5 DEF Sound, Steady, FilmsOn
<1>7. SoundState(t)
  BY <1>2, <1>3, <1>6 DEF SoundState, OthersSound
<1>8. Quiet(s, t)
  BY <1>2 DEF Quiet, CalmOn, Calm, FilmsOn
<1> QED BY <1>7, <1>8 DEF t

(* A selection that is made                                                *)

LEMMA ButtonDropped ==
  ASSUME NEW s \in State, NEW button \in PointerButtons \cup {"NONE"}
  PROVE  LET t == [s EXCEPT !.active_button = button]
         IN /\ t \in State
            /\ t.outputs = s.outputs /\ t.stdout = s.stdout
            /\ t.exit_requested = s.exit_requested /\ t.active_button = button
  BY DEF State

\* The selection of a surface that is shown may become what its size allows.
LEMMA SelectionReplacedSound ==
  ASSUME NEW s \in State, NEW o \in Outputs, NEW state \in SelectionStates, SoundState(s),
         ~s.outputs[o].freezeframe.startup,
         s.outputs[o].size_is_frozen => state # "INITIALIZING" /\ state # "RESIZING"
  PROVE  LET t == Put(s, o, [s.outputs[o] EXCEPT !.selection = state])
             x == s.outputs[o]
             y == t.outputs[o]
         IN /\ SoundState(t) /\ Quiet(s, t) /\ t \in State
            /\ y.selection = state /\ y.size_is_frozen = x.size_is_frozen
            /\ y.video_stage = x.video_stage /\ y.freezeframe = x.freezeframe
            /\ y.surface = x.surface
<1> DEFINE x == s.outputs[o]
           y == [x EXCEPT !.selection = state]
<1>1. x \in Output /\ Sound(x) /\ SlurpIsNoCapture(x) /\ OthersSound(s, Outputs \ {o})
      /\ ~x.freezeframe.startup
      /\ (x.size_is_frozen => state # "INITIALIZING" /\ state # "RESIZING")
  BY OutputOfState DEF SoundState, OthersSound
<1>2. /\ y \in Output /\ Sound(y) /\ SameCaptures(x, y)
      /\ SlurpIsNoCapture(x) => SlurpIsNoCapture(y)
      /\ y.selection = state /\ y.size_is_frozen = x.size_is_frozen
      /\ y.video_stage = x.video_stage /\ y.freezeframe = x.freezeframe
      /\ y.surface = x.surface
  <2> HIDE DEF x
  <2> QED BY <1>1, SelectionReplaced
<1> HIDE DEF y
<1>3. /\ SoundState(Put(s, o, y)) /\ Quiet(s, Put(s, o, y)) /\ Put(s, o, y) \in State
      /\ Put(s, o, y).outputs[o] = y
  BY <1>1, <1>2, PutReplacesSound, PutValues
<1> QED BY <1>2, <1>3 DEF y

LEMMA ImageStartButton ==
  ASSUME NEW s \in State, NEW o \in Outputs, NEW exit_after \in BOOLEAN
  PROVE  ImageStart(s, o, exit_after).active_button = s.active_button
<1> DEFINE capturing == ImageStarts(s, o) /\ ~ProduceSlurp
           busy      == /\ ~ImageStarts(s, o)
                        /\ ProduceSlurp \/ "IMAGE" \notin s.outputs[o].frame.consumers
           x         == [RequestFrameForced(s.outputs[o], {"IMAGE"}) EXCEPT !.captures = @ + 1]
           r         == StdoutReserve(s, o, "IMAGE")
           a         == Put(r, o, x)
           c         == Put(s, o, Check(s.outputs[o], ~ReservedFor(s, o, "IMAGE"),
                                        "capture.c:596"))
           started   == IF capturing THEN a ELSE IF busy /\ ~ProduceSlurp THEN c ELSE s
<1>1. ImageStart(s, o, exit_after) =
        IF exit_after /\ ~busy THEN RequestExit(started) ELSE started
  BY DEF ImageStart
<1>2. r \in State /\ r.active_button = s.active_button
  BY StdoutObeys DEF Obeys, StdoutReserve, State
<1> HIDE DEF r, x
<1>3. a.active_button = s.active_button
  BY <1>2 DEF Put, State
<1>4. c.active_button = s.active_button
  BY DEF Put, State
<1> HIDE DEF a, c, busy, capturing
<1>5. started.active_button = s.active_button
  BY <1>3, <1>4
<1> HIDE DEF started
<1>6. RequestExit(started).active_button = started.active_button
  BY DEF RequestExit
<1> QED BY <1>1, <1>5, <1>6

\* A selection is complete, and with -x an image of it is captured and scran exits.
LEMMA SelectionSetInitializedSound ==
  ASSUME NEW s \in State, NEW o \in Outputs, SoundState(s),
         ~s.outputs[o].freezeframe.startup,
         \/ s.outputs[o].selection = "INITIALIZING"
         \/ InitialSelection # {} /\ s.outputs[o].selection = "NONE"
  PROVE  LET t == SelectionSetInitialized(s, o)
             x == s.outputs[o]
             y == t.outputs[o]
         IN /\ SoundState(t) /\ Quiet(s, t) /\ t \in State
            /\ y.selection = "COMPLETE"
            /\ x.video_stage = "NONE" => y.video_stage = "NONE"
            /\ StaysBusy(x.surface, y.surface)
            /\ t.active_button = "NONE"
            /\ \A p \in Outputs \ {o} : t.outputs[p].selection = s.outputs[p].selection
<1> DEFINE x      == s.outputs[o]
           put    == Put(s, o, [x EXCEPT !.selection = "COMPLETE"])
           done   == [put EXCEPT !.active_button = "NONE"]
           imaged == ImageStart(done, o, TRUE)
           exited == RequestExit(imaged)
           t      == SelectionSetInitialized(s, o)
           b      == done.outputs[o]
<1>1. t = IF ExitAfterSelection THEN exited ELSE done
  BY DEF SelectionSetInitialized, Check
<1>2. /\ SoundState(put) /\ Quiet(s, put) /\ put \in State
      /\ put.outputs[o].selection = "COMPLETE"
      /\ put.outputs[o].video_stage = x.video_stage
      /\ put.outputs[o].surface = x.surface
      /\ \A p \in Outputs \ {o} : put.outputs[p].selection = s.outputs[p].selection
  <2>1. "COMPLETE" \in SelectionStates
    BY DEF SelectionStates
  <2>2. [x EXCEPT !.selection = "COMPLETE"] \in Output
    BY OutputOfState, <2>1 DEF Output
  <2>3. /\ SoundState(put) /\ Quiet(s, put) /\ put \in State
        /\ put.outputs[o].selection = "COMPLETE"
        /\ put.outputs[o].video_stage = x.video_stage
        /\ put.outputs[o].surface = x.surface
    BY <2>1, SelectionReplacedSound
  <2>4. \A p \in Outputs \ {o} : put.outputs[p] = s.outputs[p]
    <3> DEFINE y == [x EXCEPT !.selection = "COMPLETE"]
    <3> HIDE DEF y
    <3>1. y \in Output
      BY <2>2 DEF y
    <3>2. \A p \in Outputs \ {o} : Put(s, o, y).outputs[p] = s.outputs[p]
      BY <3>1, PutValues
    <3> QED BY <3>2 DEF y
  <2> HIDE DEF put
  <2> QED BY <2>3, <2>4
<1> HIDE DEF put
<1>3. /\ done \in State /\ done.active_button = "NONE"
      /\ done.outputs = put.outputs /\ done.stdout = put.stdout
  BY <1>2, ButtonDropped
<1> HIDE DEF done
<1>4. SoundState(done) /\ Quiet(s, done)
  BY <1>2, <1>3, RestIsFree, QuietTransitive
<1>5. /\ SoundState(imaged) /\ Quiet(done, imaged) /\ Continues(done, imaged, o)
      /\ imaged.active_button = "NONE"
  BY <1>3, <1>4, ImageStartButton, ImageStartSound
<1> HIDE DEF imaged, t
<1>6. /\ SoundState(exited) /\ CalmOn(imaged, exited, Outputs) /\ Quiet(imaged, exited)
      /\ exited \in State
      /\ exited.outputs[o].video_stage = RequestExitOnOutput(imaged.outputs[o]).video_stage
      /\ exited.active_button = imaged.active_button
  BY <1>5, RequestExitObeys, RequestExitSound DEF Continues, Obeys, RequestExit, State
<1>7. /\ imaged.outputs[o].selection = "COMPLETE"
      /\ x.video_stage = "NONE" => imaged.outputs[o].video_stage = "NONE"
      /\ StaysBusy(x.surface, imaged.outputs[o].surface)
      /\ \A p \in Outputs \ {o} : imaged.outputs[p].selection = s.outputs[p].selection
  BY <1>2, <1>3, <1>5 DEF Continues, GoesOn, CalmOn, Calm
<1>8. x.video_stage = "NONE" => exited.outputs[o].video_stage = "NONE"
  <2> DEFINE i == imaged.outputs[o]
  <2>1. i \in Output /\ Balanced(i) /\ i.active \cap i.awaiting_ui = {}
    BY <1>5 DEF Continues, GoesOn, SoundState, OthersSound, Sound, Steady, ConsumersAreReal
  <2> HIDE DEF i
  <2>2. RequestExitOnOutput(i).video_stage = IF i.video_stage = "CAPTURING"
          THEN "STOP_REQUESTED" ELSE i.video_stage
    BY <2>1, RequestExitOnOutputBooks
  <2> QED BY <1>6, <1>7, <2>2 DEF i
<1> HIDE DEF exited
<1>9. /\ SoundState(exited) /\ Quiet(s, exited)
      /\ exited.outputs[o].selection = "COMPLETE"
      /\ StaysBusy(x.surface, exited.outputs[o].surface)
      /\ exited.active_button = "NONE"
      /\ \A p \in Outputs \ {o} : exited.outputs[p].selection = s.outputs[p].selection
  BY <1>4, <1>5, <1>6, <1>7, QuietTransitive DEF CalmOn, Calm, StaysBusy
<1> QED BY <1>1, <1>2, <1>3, <1>4, <1>6, <1>8, <1>9 DEF StaysBusy, t

\* The surface gets its first content; no buffer was used before.
LEMMA InitSelectionSurfaceContentSound ==
  ASSUME NEW s \in State, NEW o \in Outputs, SoundState(s),
         ~s.outputs[o].freezeframe.startup, s.outputs[o].selection = "NONE",
         BothBusy(s.outputs[o].surface)
  PROVE  LET t == InitSelectionSurfaceContent(s, o)
         IN SoundState(t) /\ Quiet(s, t)
<1> DEFINE u == IF o \in InitialSelection THEN SelectionSetInitialized(s, o) ELSE s
           x == u.outputs[o]
           y == [x EXCEPT !.surface = InitContent(x.surface)]
           t == InitSelectionSurfaceContent(s, o)
<1>1. SoundState(u) /\ Quiet(s, u) /\ u \in State /\ BothBusy(x.surface)
      /\ ~x.freezeframe.startup
  <2>1. ASSUME o \in InitialSelection
        PROVE  SoundState(u) /\ Quiet(s, u) /\ u \in State /\ BothBusy(x.surface)
               /\ ~x.freezeframe.startup
    <3>1. u = SelectionSetInitialized(s, o) /\ InitialSelection # {}
      BY <2>1
    <3> HIDE DEF u
    <3>2. /\ SoundState(u) /\ Quiet(s, u) /\ u \in State
          /\ StaysBusy(s.outputs[o].surface, x.surface)
      BY <3>1, SelectionSetInitializedSound
    <3> QED BY <3>2 DEF StaysBusy, Quiet
  <2>2. ASSUME o \notin InitialSelection
        PROVE  SoundState(u) /\ Quiet(s, u) /\ u \in State /\ BothBusy(x.surface)
               /\ ~x.freezeframe.startup
    <3>1. u = s
      BY <2>2
    <3> HIDE DEF u
    <3> QED BY <3>1, QuietReflexive
  <2> QED BY <2>1, <2>2
<1>2. t = Put(u, o, y)
  <2>1. \A b \in Buffers : x.surface.buffers[b].busy
    BY <1>1 DEF BothBusy
  <2>2. InitSelectionSurfaceContent(s, o) =
          LET c == Check(x, \A b \in Buffers : x.surface.buffers[b].busy,
                         "selection-surface.c:1377")
          IN Put(u, o, [c EXCEPT !.surface = InitContent(@)])
    BY DEF InitSelectionSurfaceContent
  <2> HIDE DEF u, t
  <2> QED BY <2>1, <2>2 DEF Check, t
<1> HIDE DEF u, t
<1>3. x \in Output /\ Sound(x) /\ SlurpIsNoCapture(x) /\ OthersSound(u, Outputs \ {o})
  BY <1>1, OutputOfState DEF SoundState, OthersSound
<1>4. y \in Output /\ Sound(y) /\ Calm(x, y)
  <2>1. x.surface \in Surface
    BY <1>3 DEF Output
  <2>2. Keeps(x.surface, InitContent(x.surface)) /\ SameHides(x.surface, InitContent(x.surface))
    BY <2>1, InitContentKeeps, SurfaceEventHides
  <2> DEFINE surface == InitContent(x.surface)
  <2> HIDE DEF surface
  <2>3. Keeps(x.surface, surface) /\ SameHides(x.surface, surface)
    BY <2>2 DEF surface
  <2>4. ~x.freezeframe.startup
    BY <1>1
  <2>5. y = [x EXCEPT !.surface = surface]
    BY DEF surface
  <2> HIDE DEF x, y
  <2>6. Sound([x EXCEPT !.surface = surface]) /\ Calm(x, [x EXCEPT !.surface = surface])
        /\ [x EXCEPT !.surface = surface] \in Output
    BY <1>3, <2>3, <2>4, SurfaceReplaced
  <2> QED BY <2>5, <2>6
<1> HIDE DEF y
<1>5. SoundState(Put(u, o, y)) /\ Quiet(u, Put(u, o, y))
  BY <1>1, <1>3, <1>4, PutSound
<1> QED BY <1>1, <1>2, <1>5, QuietTransitive DEF t

(* The end of a consumer                                                   *)

\* The consumers that are left await a UI that changes, so nothing is dispatched.
LEMMA FullscreenEndSyncs ==
  ASSUME NEW s \in State, NEW o \in Outputs, NEW consumer \in Consumers, NEW ok \in BOOLEAN,
         UiIsChanging(s.outputs[o])
  PROVE  FullscreenEnd(s, o, consumer, ok)
           = Put(s, o, SyncUi(EndConsumers(s.outputs[o], {consumer})))
<1> DEFINE x == s.outputs[o]
           e == EndConsumers(x, {consumer})
           u == Put(s, o, e)
<1>1. x \in Output
  BY OutputOfState
<1>2. e \in Output /\ UiIsChanging(e)
  <2>1. UiIsChanging(x)
    OBVIOUS
  <2> HIDE DEF x
  <2> QED BY <1>1, <2>1, EndConsumersFollows DEF Follows
<1>3. FullscreenEnd(s, o, consumer, ok) = SyncUiAndDispatch(u, o, ok)
  BY DEF FullscreenEnd
<1> HIDE DEF e
<1>4. u.outputs[o] = e
  BY <1>2, PutValues
<1>5. ~(UiSettled(e) /\ e.awaiting_ui # {})
  BY <1>2 DEF UiSettled, UiIsChanging
<1>6. SyncUiAndDispatch(u, o, ok) = Put(u, o, SyncUi(e))
  <2> HIDE DEF u
  <2> QED BY <1>4, <1>5 DEF SyncUiAndDispatch
<1>7. Put(u, o, SyncUi(e)) = Put(s, o, SyncUi(e))
  BY DEF Put, State
<1> QED BY <1>3, <1>6, <1>7 DEF e

LEMMA ConsumerEnds ==
  ASSUME NEW s \in State, NEW o \in Outputs, NEW consumer \in Consumers, NEW ok \in BOOLEAN,
         UiIsGone(s.outputs[o]), HideIsAnswered(s.outputs[o]), UiIsChanging(s.outputs[o])
  PROVE  LET t == IF consumer \in s.outputs[o].active
                    THEN FullscreenEnd(s, o, consumer, ok) ELSE s
         IN /\ t \in State
            /\ t.stdout = s.stdout /\ t.exit_requested = s.exit_requested
            /\ \A p \in Outputs \ {o} : t.outputs[p] = s.outputs[p]
            /\ EndsConsumer(s.outputs[o], t.outputs[o], consumer)
<1> DEFINE x == s.outputs[o]
           y == SyncUi(EndConsumers(x, {consumer}))
           t == IF consumer \in x.active THEN FullscreenEnd(s, o, consumer, ok) ELSE s
<1>1. x \in Output /\ UiIsGone(x) /\ HideIsAnswered(x) /\ UiIsChanging(x)
  BY OutputOfState
<1>2. ASSUME consumer \in x.active
      PROVE  /\ t \in State
             /\ t.stdout = s.stdout /\ t.exit_requested = s.exit_requested
             /\ \A p \in Outputs \ {o} : t.outputs[p] = s.outputs[p]
             /\ EndsConsumer(x, t.outputs[o], consumer)
  <2>1. t = Put(s, o, y)
    BY <1>1, <1>2, FullscreenEndSyncs
  <2>2. /\ y.active = x.active \ {consumer}
        /\ y.captures = IF (x.active \ {consumer}) \cup x.awaiting_ui = {}
                          THEN x.captures - 1 ELSE x.captures
        /\ y.frame = x.frame /\ y.freezeframe = x.freezeframe
        /\ y.awaiting_ui = x.awaiting_ui
        /\ y.video_stage = x.video_stage
        /\ y.size_is_frozen = x.size_is_frozen
        /\ StaysBusy(x.surface, y.surface)
        /\ Calm(x, y)
        /\ Follows(x, y)
        /\ HideIsAnswered(y)
    <3> HIDE DEF x
    <3> QED BY <1>1, EndBooks
  <2> HIDE DEF y, t
  <2>3. x.captures \in Int
    <3> HIDE DEF x
    <3> QED BY <1>1 DEF Output
  <2>4. EndsConsumer(x, y, consumer)
    <3> HIDE DEF x
    <3> QED BY <1>1, <1>2, <2>2, <2>3 DEF EndsConsumer, Follows, Calm, Count, AllConsumers
  <2>5. y \in Output
    BY <2>2 DEF Follows
  <2> QED BY <2>1, <2>4, <2>5, PutValues, PutStdout
<1>3. ASSUME consumer \notin x.active
      PROVE  t = s /\ EndsConsumer(x, x, consumer)
  <2>1. t = s
    BY <1>3
  <2>2. x.captures \in Int
    <3> HIDE DEF x
    <3> QED BY <1>1 DEF Output
  <2> HIDE DEF x, t
  <2> QED BY <1>1, <1>3, <2>1, <2>2 DEF EndsConsumer, StaysBusy, Count
<1> HIDE DEF t
<1> QED BY <1>2, <1>3 DEF t

LEMMA ReleaseValues ==
  ASSUME NEW s \in State, NEW o \in Outputs, NEW purpose \in {"IMAGE", "VIDEO"}
  PROVE  Releases(s, StdoutRelease(s, o, purpose), o, purpose)
         /\ StdoutRelease(s, o, purpose).outputs = s.outputs
<1> DEFINE r == StdoutRelease(s, o, purpose)
<1>1. r \in State /\ r.outputs = s.outputs
  BY StdoutObeys DEF Obeys
<1>2. r.exit_requested = s.exit_requested
      /\ r.stdout = IF ReservedFor(s, o, purpose) THEN Unreserved ELSE s.stdout
  BY DEF StdoutRelease, State
<1> HIDE DEF r
<1> QED BY <1>1, <1>2 DEF Releases, r

\* An output that gives its capture back.
LEMMA CaptureGivenBack ==
  ASSUME NEW x \in Output, NEW y \in Output, NEW stage \in VideoStages, NEW consumer,
         EndsConsumer(x, y, consumer)
  PROVE  LET z == [y EXCEPT !.captures = @ - 1, !.video_stage = stage]
         IN /\ EndsCapture(x, z, consumer)
            /\ z.video_stage = stage /\ z.size_is_frozen = x.size_is_frozen
<1> DEFINE z == [y EXCEPT !.captures = @ - 1, !.video_stage = stage]
<1>1. y.captures \in Int /\ x.captures \in Int /\ y.captures - 1 \in Int
  BY DEF Output
<1>2. /\ z \in Output
      /\ z.surface = y.surface /\ z.frame = y.frame /\ z.freezeframe = y.freezeframe
      /\ z.active = y.active /\ z.awaiting_ui = y.awaiting_ui /\ z.ui = y.ui
      /\ z.captures = y.captures - 1 /\ z.video_stage = stage
      /\ z.selection = y.selection /\ z.size_is_frozen = y.size_is_frozen
      /\ z.failed_asserts = y.failed_asserts
  BY <1>1 DEF Output
<1> HIDE DEF z
<1>3. UiIsGone(z) /\ HideIsAnswered(z) /\ UiIsChanging(z)
  BY <1>2 DEF EndsConsumer, UiIsGone, HideIsAnswered, UiIsChanging
<1>4. AllConsumers(z) = AllConsumers(y)
  BY <1>2 DEF AllConsumers
<1>5. z.captures = x.captures - 1 - Count(consumer \in x.active /\ AllConsumers(z) = {})
  BY <1>1, <1>2, <1>4 DEF EndsConsumer, Count
<1> QED BY <1>2, <1>3, <1>5 DEF EndsConsumer, EndsCapture, z

LEMMA ImageFinishBooks ==
  ASSUME NEW s \in State, NEW o \in Outputs, NEW ok \in BOOLEAN,
         UiIsGone(s.outputs[o]), HideIsAnswered(s.outputs[o]), UiIsChanging(s.outputs[o]),
         OutputToStdout => ReservedFor(s, o, "IMAGE")
  PROVE  LET t == ImageFinish(s, o, ok)
             x == s.outputs[o]
             y == t.outputs[o]
         IN /\ Releases(s, t, o, "IMAGE")
            /\ EndsCapture(x, y, "IMAGE")
            /\ y.video_stage = x.video_stage /\ y.size_is_frozen = x.size_is_frozen
<1> DEFINE x == s.outputs[o]
           u == IF "IMAGE" \in x.active THEN FullscreenEnd(s, o, "IMAGE", ok) ELSE s
           v == u.outputs[o]
           r == StdoutRelease(u, o, "IMAGE")
           y == [v EXCEPT !.captures = @ - 1]
           t == ImageFinish(s, o, ok)
<1>1. /\ u \in State
      /\ u.stdout = s.stdout /\ u.exit_requested = s.exit_requested
      /\ \A p \in Outputs \ {o} : u.outputs[p] = s.outputs[p]
      /\ EndsConsumer(x, v, "IMAGE")
  BY ConsumerEnds DEF Consumers
<1>2. x \in Output
  BY OutputOfState
<1>3. OutputToStdout => ReservedFor(u, o, "IMAGE")
  BY <1>1 DEF ReservedFor
<1>4. t = Put(r, o, y)
  <2>1. ImageFinish(s, o, ok) =
          LET c == Check(v, OutputToStdout => ReservedFor(u, o, "IMAGE"), "capture.c:620")
          IN Put(r, o, [c EXCEPT !.captures = @ - 1])
    BY DEF ImageFinish
  <2> HIDE DEF u, r, t
  <2> QED BY <1>3, <2>1 DEF Check, t
<1> HIDE DEF u, t
<1>5. /\ EndsCapture(x, y, "IMAGE")
      /\ y.video_stage = x.video_stage /\ y.size_is_frozen = x.size_is_frozen
  <2>1. v \in Output /\ v.video_stage = x.video_stage /\ x.video_stage \in VideoStages
    BY <1>1, <1>2 DEF EndsConsumer, Output
  <2> HIDE DEF x, v
  <2>2. [v EXCEPT !.captures = @ - 1]
          = [v EXCEPT !.captures = @ - 1, !.video_stage = x.video_stage]
    BY <2>1 DEF Output
  <2> DEFINE w == [v EXCEPT !.captures = @ - 1, !.video_stage = x.video_stage]
  <2>3. EndsCapture(x, w, "IMAGE")
        /\ w.video_stage = x.video_stage /\ w.size_is_frozen = x.size_is_frozen
    BY <1>1, <1>2, <2>1, CaptureGivenBack
  <2> QED BY <2>2, <2>3
<1> HIDE DEF y
<1>6. Releases(u, r, o, "IMAGE")
  BY <1>1, ReleaseValues
<1> HIDE DEF r
<1>7. /\ Put(r, o, y) \in State
      /\ Put(r, o, y).exit_requested = r.exit_requested
      /\ Put(r, o, y).stdout = r.stdout
      /\ Put(r, o, y).outputs[o] = y
      /\ \A p \in Outputs \ {o} : Put(r, o, y).outputs[p] = r.outputs[p]
  BY <1>5, <1>6, PutValues, PutStdout DEF Releases, EndsCapture
<1>8. Releases(s, t, o, "IMAGE")
  BY <1>1, <1>4, <1>6, <1>7 DEF Releases, ReservedFor
<1> QED BY <1>4, <1>5, <1>7, <1>8 DEF t

LEMMA VideoFinishBooks ==
  ASSUME NEW s \in State, NEW o \in Outputs, NEW ok \in BOOLEAN,
         UiIsGone(s.outputs[o]), HideIsAnswered(s.outputs[o]), UiIsChanging(s.outputs[o])
  PROVE  LET t == VideoFinish(s, o, ok)
             x == s.outputs[o]
             y == t.outputs[o]
         IN /\ Releases(s, t, o, "VIDEO")
            /\ EndsCapture(x, y, "VIDEO")
            /\ y.video_stage = "NONE" /\ y.size_is_frozen = FALSE
<1> DEFINE x      == s.outputs[o]
           r      == StdoutRelease(s, o, "VIDEO")
           put    == Put(r, o, RequestFrameCallback(x))
           thawed == SelectionUnfreezeSize(put, o)
           h      == thawed.outputs[o]
           u      == IF "VIDEO" \in x.active THEN FullscreenEnd(thawed, o, "VIDEO", ok)
                     ELSE thawed
           v      == u.outputs[o]
           y      == [v EXCEPT !.captures = @ - 1, !.video_stage = "NONE"]
           t      == VideoFinish(s, o, ok)
<1>1. x \in Output /\ UiIsGone(x) /\ HideIsAnswered(x) /\ UiIsChanging(x)
  BY OutputOfState
<1>2. t = Put(u, o, y)
  BY DEF VideoFinish
<1>3. Releases(s, r, o, "VIDEO")
  BY ReleaseValues
<1> HIDE DEF r, t
<1>4. UiMoves(x, RequestFrameCallback(x)) /\ RequestFrameCallback(x) \in Output
  <2> HIDE DEF x
  <2> QED BY <1>1, DrawingUiMoves DEF UiMoves, Follows
<1>5. /\ put \in State
      /\ put.exit_requested = r.exit_requested
      /\ put.stdout = r.stdout
      /\ put.outputs[o] = RequestFrameCallback(x)
      /\ \A p \in Outputs \ {o} : put.outputs[p] = r.outputs[p]
  BY <1>3, <1>4, PutValues, PutStdout DEF Releases
<1> HIDE DEF put
<1>6. /\ SameButOn(put, thawed, o)
      /\ SameButSelection(put.outputs[o], h)
      /\ h.video_stage = put.outputs[o].video_stage
      /\ h.size_is_frozen = FALSE
      /\ h.selection = put.outputs[o].selection
  BY <1>5, SelectionUnfreezeSizeBooks
<1> HIDE DEF thawed
<1>7. /\ h \in Output
      /\ h.active = x.active /\ h.awaiting_ui = x.awaiting_ui
      /\ h.captures = x.captures /\ h.freezeframe = x.freezeframe
      /\ h.selection = x.selection /\ h.failed_asserts = x.failed_asserts
      /\ h.frame = x.frame /\ h.size_is_frozen = FALSE
      /\ StaysBusy(x.surface, h.surface)
      /\ UiIsGone(h) /\ HideIsAnswered(h) /\ UiIsChanging(h)
  <2>1. /\ UiIsGone(RequestFrameCallback(x)) /\ HideIsAnswered(RequestFrameCallback(x))
        /\ UiIsChanging(RequestFrameCallback(x))
    BY <1>1, <1>4 DEF UiMoves, Follows
  <2>2. UiIsGone(h) /\ HideIsAnswered(h) /\ UiIsChanging(h)
    BY <1>5, <1>6, <2>1 DEF SameButSelection, UiIsGone, HideIsAnswered, UiIsChanging
  <2> HIDE DEF h, x
  <2> QED BY <1>4, <1>5, <1>6, <2>2 DEF UiMoves, SameBooks, SameButSelection
<1>8. /\ u \in State
      /\ u.stdout = thawed.stdout /\ u.exit_requested = thawed.exit_requested
      /\ \A p \in Outputs \ {o} : u.outputs[p] = thawed.outputs[p]
      /\ EndsConsumer(h, v, "VIDEO")
  <2>1. u = IF "VIDEO" \in h.active THEN FullscreenEnd(thawed, o, "VIDEO", ok) ELSE thawed
    BY <1>7
  <2>2. thawed \in State /\ "VIDEO" \in Consumers
    BY <1>6 DEF SameButOn, Consumers
  <2> HIDE DEF u
  <2> QED BY <1>7, <2>1, <2>2, ConsumerEnds
<1> HIDE DEF u
<1>9. EndsCapture(h, y, "VIDEO") /\ y.video_stage = "NONE" /\ y.size_is_frozen = FALSE
  <2>1. v \in Output /\ "NONE" \in VideoStages
    BY <1>8 DEF EndsConsumer, VideoStages
  <2> HIDE DEF v, h
  <2> QED BY <1>7, <1>8, <2>1, CaptureGivenBack
<1> HIDE DEF y
<1>10. EndsCapture(x, y, "VIDEO")
  BY <1>7, <1>9 DEF EndsCapture, StaysBusy
<1>11. /\ Put(u, o, y) \in State
       /\ Put(u, o, y).exit_requested = u.exit_requested
       /\ Put(u, o, y).stdout = u.stdout
       /\ Put(u, o, y).outputs[o] = y
       /\ \A p \in Outputs \ {o} : Put(u, o, y).outputs[p] = u.outputs[p]
  BY <1>8, <1>10, PutValues, PutStdout DEF EndsCapture
<1>12. Releases(s, t, o, "VIDEO")
  BY <1>2, <1>3, <1>5, <1>6, <1>8, <1>11 DEF Releases, SameButOn
<1> QED BY <1>2, <1>9, <1>10, <1>11, <1>12 DEF t

(* The end of a freezeframe capture                                        *)

LEMMA FreezeframeReplaced ==
  ASSUME NEW x \in Output, NEW freezeframe \in Freezeframe,
         freezeframe.startup => x.freezeframe.startup
  PROVE  LET y == [x EXCEPT !.freezeframe = freezeframe]
         IN SameButFreezeframe(x, y) /\ y.freezeframe = freezeframe
  BY DEF SameButFreezeframe, Output

\* A surface that is about to get its first content was not used before.
LEMMA MappedSound ==
  ASSUME NEW s \in State, NEW o \in Outputs, SoundState(s), s.outputs[o].freezeframe.startup
  PROVE  LET t == [s EXCEPT !.outputs[o].freezeframe.startup = FALSE]
             y == t.outputs[o]
         IN /\ t \in State /\ SoundState(t) /\ Quiet(s, t)
            /\ ~y.freezeframe.startup /\ y.selection = "NONE" /\ BothBusy(y.surface)
<1> DEFINE x == s.outputs[o]
           f == [x.freezeframe EXCEPT !.startup = FALSE]
           y == [x EXCEPT !.freezeframe = f]
           t == [s EXCEPT !.outputs[o].freezeframe.startup = FALSE]
<1>1. x \in Output /\ Sound(x) /\ SlurpIsNoCapture(x) /\ OthersSound(s, Outputs \ {o})
      /\ x.freezeframe.startup
  BY OutputOfState DEF SoundState, OthersSound
<1>2. t = Put(s, o, y)
  BY DEF Put, State
<1>3. /\ f \in Freezeframe /\ f.startup = FALSE
      /\ f.stage = x.freezeframe.stage
      /\ FreezeframeIsServed(x.freezeframe) => FreezeframeIsServed(f)
  <2> HIDE DEF x
  <2> QED BY <1>1 DEF Output, Freezeframe, FreezeframeIsServed
<1> HIDE DEF f, t
<1>4. SameButFreezeframe(x, y) /\ y.freezeframe = f
  <2> HIDE DEF x
  <2> QED BY <1>1, <1>3, FreezeframeReplaced
<1> HIDE DEF y
<1>5. Sound(y) /\ Calm(x, y) /\ y \in Output
  <2> HIDE DEF x
  <2>1. /\ FreezeframeIsServed(y.freezeframe)
        /\ "FREEZEFRAME" \in x.awaiting_ui => y.freezeframe.stage = "REFRESHING"
        /\ "FREEZEFRAME" \in x.active => y.freezeframe.stage = "CAPTURING"
    BY <1>1, <1>3, <1>4 DEF Sound, Steady, ConsumersAreReal
  <2> QED BY <1>1, <1>4, <2>1, FreezeframeMovesSound DEF SameButFreezeframe
<1>6. /\ Put(s, o, y) \in State /\ Put(s, o, y).outputs[o] = y
      /\ SoundState(Put(s, o, y)) /\ Quiet(s, Put(s, o, y))
  BY <1>1, <1>5, PutSound, PutValues
<1>7. x.selection = "NONE" /\ BothBusy(x.surface)
  BY <1>1 DEF Sound, Steady, Balanced, StartsEmpty
<1> QED BY <1>2, <1>3, <1>4, <1>6, <1>7 DEF SameButFreezeframe, t

\* The freezeframe may be shown, and its consumer ends.
LEMMA FreezeframeEnds ==
  ASSUME NEW x \in Output, NEW y, NEW z, IsAnswered(x), SameButFreezeframe(x, y),
         y.freezeframe.stage = "IDLE",
         ~y.freezeframe.in_flight, ~y.freezeframe.capture_waiting,
         ~y.freezeframe.surface_waiting,
         EndsConsumer(y, z, "FREEZEFRAME")
  PROVE  Sound(z) /\ SlurpIsNoCapture(z) /\ SameCaptures(x, z)
<1>1. /\ z.frame = x.frame /\ z.freezeframe = y.freezeframe
      /\ z.active = x.active \ {"FREEZEFRAME"} /\ z.awaiting_ui = x.awaiting_ui
      /\ z.captures = x.captures - Count("FREEZEFRAME" \in x.active /\ AllConsumers(z) = {})
      /\ z.video_stage = x.video_stage /\ z.size_is_frozen = x.size_is_frozen
      /\ z.selection = x.selection /\ z.failed_asserts = x.failed_asserts
      /\ StaysBusy(x.surface, z.surface)
      /\ UiIsGone(z) /\ HideIsAnswered(z) /\ UiIsChanging(z)
      /\ z.freezeframe.startup => x.freezeframe.startup
  BY DEF EndsConsumer, SameButFreezeframe
<1>2. Counted(z)
  BY <1>1 DEF IsAnswered, Balanced, Counted, AllConsumers, Count, VideoIsLive
<1>3. FrameIsShared(z) /\ StartsEmpty(z) /\ SizeIsFixed(z)
  BY <1>1 DEF IsAnswered, Balanced, FrameIsShared, StartsEmpty, SizeIsFixed, VideoIsLive,
     StaysBusy
<1>4. ConsumersAreReal(z) /\ FreezeframeIsServed(z.freezeframe)
  BY <1>1 DEF IsAnswered, ConsumersAreReal, FreezeframeIsServed, VideoIsLive
<1>5. SameCaptures(x, z) /\ SlurpIsNoCapture(z)
  BY <1>1 DEF SameCaptures, VideoIsLive, SlurpIsNoCapture, IsAnswered, AllConsumers
<1> QED BY <1>1, <1>2, <1>3, <1>4, <1>5 DEF Sound, Steady, Balanced

LEMMA FreezeframeFinishSound ==
  ASSUME NEW s \in State, NEW o \in Outputs, NEW ok \in BOOLEAN,
         OthersSound(s, Outputs \ {o}), IsAnswered(s.outputs[o])
  PROVE  LET t == FreezeframeFinish(s, o, ok)
         IN SoundState(t) /\ Quiet(s, t)
<1> DEFINE x    == s.outputs[o]
           f    == [x.freezeframe EXCEPT !.stage = "IDLE"]
           y    == [x EXCEPT !.freezeframe = f]
           idle == Put(s, o, y)
           u    == IF "FREEZEFRAME" \in x.active THEN FullscreenEnd(idle, o, "FREEZEFRAME", ok)
                   ELSE idle
           z    == u.outputs[o]
           m    == [u EXCEPT !.outputs[o].freezeframe.startup = FALSE]
           t    == FreezeframeFinish(s, o, ok)
<1>1. x \in Output /\ IsAnswered(x)
  BY OutputOfState
<1>2. t = IF x.freezeframe.startup THEN InitSelectionSurfaceContent(m, o) ELSE u
  <2>1. x.freezeframe.stage = "CAPTURING"
    BY <1>1 DEF IsAnswered
  <2>2. [x EXCEPT !.freezeframe.stage = "IDLE"] = y
    OBVIOUS
  <2> QED BY <2>1, <2>2 DEF FreezeframeFinish, Check
<1>3. /\ f \in Freezeframe /\ f.startup = x.freezeframe.startup
      /\ f.stage = "IDLE"
      /\ ~f.in_flight /\ ~f.capture_waiting /\ ~f.surface_waiting
  <2> HIDE DEF x
  <2> QED BY <1>1 DEF Output, Freezeframe, FreezeframeStages, IsAnswered
<1> HIDE DEF f, t
<1>4. SameButFreezeframe(x, y) /\ y.freezeframe = f
  <2> HIDE DEF x
  <2> QED BY <1>1, <1>3, FreezeframeReplaced
<1> HIDE DEF y
<1>5. y \in Output /\ UiIsGone(y) /\ HideIsAnswered(y) /\ UiIsChanging(y) /\ y.active = x.active
  BY <1>1, <1>4 DEF IsAnswered, Balanced, SameButFreezeframe, UiIsGone, HideIsAnswered,
     UiIsChanging
<1>6. /\ idle \in State /\ idle.stdout = s.stdout /\ idle.exit_requested = s.exit_requested
      /\ \A p \in Outputs \ {o} : idle.outputs[p] = s.outputs[p]
      /\ idle.outputs[o] = y
  BY <1>5, PutValues, PutStdout
<1> HIDE DEF idle
<1>7. /\ u \in State
      /\ u.stdout = idle.stdout /\ u.exit_requested = idle.exit_requested
      /\ \A p \in Outputs \ {o} : u.outputs[p] = idle.outputs[p]
      /\ EndsConsumer(y, z, "FREEZEFRAME")
  <2>1. u = IF "FREEZEFRAME" \in idle.outputs[o].active
              THEN FullscreenEnd(idle, o, "FREEZEFRAME", ok) ELSE idle
    BY <1>5, <1>6
  <2> HIDE DEF u
  <2> QED BY <1>5, <1>6, <2>1, ConsumerEnds DEF Consumers
<1> HIDE DEF u
<1>8. Sound(z) /\ SlurpIsNoCapture(z) /\ SameCaptures(x, z)
  <2> HIDE DEF x, z
  <2> QED BY <1>1, <1>3, <1>4, <1>7, FreezeframeEnds
<1>9. SoundState(u) /\ Quiet(s, u)
  BY <1>6, <1>7, <1>8, StdoutKept
     DEF Capturing, SameCaptures, OthersSound, SoundState, Quiet
<1>10. ASSUME x.freezeframe.startup PROVE SoundState(t) /\ Quiet(u, t)
  <2>1. z.freezeframe.startup
    BY <1>3, <1>4, <1>7, <1>10 DEF EndsConsumer
  <2>2. /\ m \in State /\ SoundState(m) /\ Quiet(u, m)
        /\ ~m.outputs[o].freezeframe.startup /\ m.outputs[o].selection = "NONE"
        /\ BothBusy(m.outputs[o].surface)
    BY <1>7, <1>9, <2>1, MappedSound
  <2>3. t = InitSelectionSurfaceContent(m, o)
    BY <1>2, <1>10
  <2> HIDE DEF m
  <2>4. SoundState(t) /\ Quiet(m, t)
    BY <2>2, <2>3, InitSelectionSurfaceContentSound
  <2> QED BY <2>2, <2>4, QuietTransitive
<1>11. ASSUME ~x.freezeframe.startup PROVE SoundState(t) /\ Quiet(u, t)
  BY <1>2, <1>9, <1>11, QuietReflexive
<1> QED BY <1>9, <1>10, <1>11, QuietTransitive DEF t

\* While the freezeframe of an output goes on, the rest of it stays as sound as it was.
LEMMA StaysAnswered ==
  ASSUME NEW x \in Output, NEW y, IsAnswered(x), SameButFreezeframe(x, y),
         y.freezeframe.stage = "CAPTURING",
         ~y.freezeframe.in_flight, ~y.freezeframe.capture_waiting,
         ~y.freezeframe.surface_waiting
  PROVE  IsAnswered(y) /\ SameCaptures(x, y) /\ y \in Output
<1>1. UiIsGone(y) /\ HideIsAnswered(y) /\ UiIsChanging(y)
  BY DEF IsAnswered, Balanced, SameButFreezeframe, UiIsGone, HideIsAnswered, UiIsChanging
<1>2. Counted(y) /\ FrameIsShared(y) /\ StartsEmpty(y) /\ SizeIsFixed(y)
  BY DEF IsAnswered, Balanced, SameButFreezeframe, Counted, FrameIsShared, StartsEmpty,
     SizeIsFixed, AllConsumers, VideoIsLive, Count
<1>3. ConsumersAreReal(y) /\ SlurpIsNoCapture(y) /\ SameCaptures(x, y)
  BY DEF IsAnswered, SameButFreezeframe, ConsumersAreReal, SlurpIsNoCapture, SameCaptures,
     AllConsumers, VideoIsLive
<1> QED BY <1>1, <1>2, <1>3 DEF IsAnswered, Balanced, SameButFreezeframe

LEMMA WaitingIsSound ==
  ASSUME NEW x \in Output, NEW y, IsAnswered(x), SameButFreezeframe(x, y),
         y.freezeframe.stage = "CAPTURING", FreezeframeIsServed(y.freezeframe)
  PROVE  Sound(y) /\ SlurpIsNoCapture(y) /\ SameCaptures(x, y)
<1>1. UiIsGone(y) /\ HideIsAnswered(y) /\ UiIsChanging(y)
  BY DEF IsAnswered, Balanced, SameButFreezeframe, UiIsGone, HideIsAnswered, UiIsChanging
<1>2. Counted(y) /\ FrameIsShared(y) /\ StartsEmpty(y) /\ SizeIsFixed(y)
  BY DEF IsAnswered, Balanced, SameButFreezeframe, Counted, FrameIsShared, StartsEmpty,
     SizeIsFixed, AllConsumers, VideoIsLive, Count
<1>3. ConsumersAreReal(y) /\ SlurpIsNoCapture(y) /\ SameCaptures(x, y)
  BY DEF IsAnswered, SameButFreezeframe, ConsumersAreReal, SlurpIsNoCapture, SameCaptures,
     AllConsumers, VideoIsLive
<1> QED BY <1>1, <1>2, <1>3 DEF Sound, Steady, Balanced

\* A frame is shown, or waits for the buffer it is to be rotated into.
LEMMA FreezeframeShowSound ==
  ASSUME NEW s \in State, NEW o \in Outputs, NEW needs_rotation \in BOOLEAN,
         NEW rotated \in BOOLEAN, NEW ok \in BOOLEAN,
         OthersSound(s, Outputs \ {o}), IsAnswered(s.outputs[o]),
         ~s.outputs[o].freezeframe.capture_busy, ~s.outputs[o].freezeframe.showing
  PROVE  LET t == FreezeframeShow(s, o, needs_rotation, rotated, ok)
         IN SoundState(t) /\ Quiet(s, t)
<1> DEFINE x == s.outputs[o]
           f == x.freezeframe
           w == [f EXCEPT !.surface_waiting = TRUE]
           h == [f EXCEPT !.capture_busy = @ \/ ~rotated, !.surface_busy = @ \/ rotated,
                          !.showing = TRUE]
           waiting == [x EXCEPT !.freezeframe = w]
           shown   == [x EXCEPT !.freezeframe = h]
           t == FreezeframeShow(s, o, needs_rotation, rotated, ok)
<1>1. /\ x \in Output /\ IsAnswered(x) /\ f.stage = "CAPTURING"
      /\ ~f.capture_busy /\ ~f.showing
  BY OutputOfState DEF IsAnswered
<1>2. t = IF needs_rotation /\ f.surface_busy THEN Put(s, o, waiting)
          ELSE FreezeframeFinish(Put(s, o, shown), o, ok)
  <2> DEFINE y == Check(Check(x, f.stage = "CAPTURING", "freezeframe.c:155"),
                        ~f.capture_busy, "freezeframe.c:156")
  <2>1. y = x
    BY <1>1 DEF Check
  <2>2. FreezeframeShow(s, o, needs_rotation, rotated, ok) =
          IF needs_rotation /\ f.surface_busy
            THEN Put(s, o, [y EXCEPT !.freezeframe.surface_waiting = TRUE])
            ELSE FreezeframeFinish(
                   Put(s, o, [y EXCEPT !.freezeframe.capture_busy = @ \/ ~rotated,
                                       !.freezeframe.surface_busy = @ \/ rotated,
                                       !.freezeframe.showing = TRUE]), o, ok)
    BY DEF FreezeframeShow
  <2>3. /\ [x EXCEPT !.freezeframe.surface_waiting = TRUE] = waiting
        /\ [x EXCEPT !.freezeframe.capture_busy = @ \/ ~rotated,
                     !.freezeframe.surface_busy = @ \/ rotated,
                     !.freezeframe.showing = TRUE] = shown
    <3>1. x \in Output
      BY <1>1
    <3> HIDE DEF x
    <3> QED BY <3>1 DEF Output, Freezeframe
  <2> HIDE DEF y
  <2> QED BY <2>1, <2>2, <2>3
<1> HIDE DEF t
<1>3. ASSUME needs_rotation, f.surface_busy PROVE SoundState(t) /\ Quiet(s, t)
  <2>1. w \in Freezeframe /\ w.startup = f.startup /\ w.stage = "CAPTURING"
        /\ FreezeframeIsServed(w)
    <3> HIDE DEF x
    <3> QED BY <1>1, <1>3 DEF Output, Freezeframe, FreezeframeIsServed, IsAnswered
  <2> HIDE DEF w
  <2>2. SameButFreezeframe(x, waiting) /\ waiting.freezeframe = w
    <3> HIDE DEF x
    <3> QED BY <1>1, <2>1, FreezeframeReplaced
  <2> HIDE DEF waiting
  <2>3. Sound(waiting) /\ SlurpIsNoCapture(waiting) /\ SameCaptures(x, waiting)
    <3> HIDE DEF x
    <3> QED BY <1>1, <2>1, <2>2, WaitingIsSound
  <2>4. waiting \in Output
    BY <2>2 DEF SameButFreezeframe
  <2>5. SoundState(Put(s, o, waiting)) /\ Quiet(s, Put(s, o, waiting))
    BY <2>3, <2>4, PutReplacesSound
  <2> QED BY <1>2, <1>3, <2>5
<1>4. ASSUME ~(needs_rotation /\ f.surface_busy) PROVE SoundState(t) /\ Quiet(s, t)
  <2>1. /\ h \in Freezeframe /\ h.startup = f.startup /\ h.stage = "CAPTURING"
        /\ ~h.in_flight /\ ~h.capture_waiting /\ ~h.surface_waiting
    <3> HIDE DEF x
    <3> QED BY <1>1 DEF Output, Freezeframe, IsAnswered
  <2> HIDE DEF h
  <2>2. SameButFreezeframe(x, shown) /\ shown.freezeframe = h
    <3> HIDE DEF x
    <3> QED BY <1>1, <2>1, FreezeframeReplaced
  <2>3. t = FreezeframeFinish(Put(s, o, shown), o, ok)
    BY <1>2, <1>4
  <2> HIDE DEF shown
  <2>4. IsAnswered(shown) /\ SameCaptures(x, shown) /\ shown \in Output
    <3> HIDE DEF x
    <3> QED BY <1>1, <2>1, <2>2, StaysAnswered
  <2> DEFINE u == Put(s, o, shown)
  <2>5. /\ u \in State /\ u.outputs[o] = shown
        /\ OthersSound(u, Outputs \ {o}) /\ Quiet(s, u)
    BY <2>4, PutOthersSound
  <2> HIDE DEF u
  <2>6. SoundState(FreezeframeFinish(u, o, ok)) /\ Quiet(u, FreezeframeFinish(u, o, ok))
    BY <2>4, <2>5, FreezeframeFinishSound
  <2> QED BY <2>3, <2>5, <2>6, QuietTransitive DEF u
<1> QED BY <1>3, <1>4 DEF t

(* The steps                                                               *)

LEMMA KeyPressedSteps ==
  ASSUME TypeOK, NEW key, NEW o, NEW next, Obeys(g, next), KeyPressed(key, o, next)
  PROVE  StepObeys
  BY DEF KeyPressed, StepObeys, TypeOK, Seat

LEMMA EventSteps ==
  ASSUME TypeOK, NEW next, Obeys(g, next), Event(next)
  PROVE  StepObeys
  BY DEF Event, StepObeys, TypeOK

LEMMA HiddenFreezeframesObey ==
  ASSUME g \in State
  PROVE  Obeys(g, [g EXCEPT !.outputs = [p \in Outputs |-> FreezeframeHide(out(p))]])
<1> DEFINE hidden == [p \in Outputs |-> FreezeframeHide(out(p))]
<1>1. \A p \in Outputs : Follows(g.outputs[p], FreezeframeHide(out(p)))
  BY OutputOfState, FreezeframeFollows DEF out
<1>2. hidden \in [Outputs -> Output] /\ \A p \in Outputs : Follows(g.outputs[p], hidden[p])
  BY <1>1 DEF Follows
<1>3. g.exit_requested \in BOOLEAN
  BY DEF State
<1> HIDE DEF hidden
<1>4. Obeys(g, [g EXCEPT !.exit_requested = g.exit_requested, !.outputs = hidden])
  BY <1>2, <1>3, OutputsObey
<1>5. [g EXCEPT !.exit_requested = g.exit_requested, !.outputs = hidden]
        = [g EXCEPT !.outputs = hidden]
  BY DEF State
<1> QED BY <1>4, <1>5 DEF hidden

LEMMA KeyHideUiSteps ==
  ASSUME TypeOK, NEW o \in Outputs, NEW ok \in BOOLEAN, KeyHideUi(o, ok)
  PROVE  StepObeys
<1> DEFINE x == g.outputs[o]
           y == [x EXCEPT !.ui_inside = ~@]
           toggled == Put(g, o, y)
           next == SyncUiAndDispatch(toggled, o, ok)
<1>1. g \in State
  BY DEF TypeOK
<1>2. Obeys(g, toggled)
  <2>1. x \in Output
    BY <1>1, OutputOfState
  <2>2. Follows(x, y)
    <3> HIDE DEF x
    <3> QED BY <2>1 DEF Follows, Output, AllConsumers, UiIsGone, UiIsChanging
  <2> HIDE DEF y
  <2> QED BY <1>1, <2>2, PutFollows
<1>3. Obeys(g, next)
  <2> HIDE DEF toggled
  <2>1. Obeys(toggled, next)
    BY <1>2, SyncUiAndDispatchObeys DEF Obeys
  <2> QED BY <1>2, <2>1, ObeysTransitive
<1>4. KeyPressed("hide_ui", o, next)
  BY DEF KeyHideUi, Put
<1> HIDE DEF next
<1> QED BY <1>3, <1>4, KeyPressedSteps

LEMMA KeyArrowSteps ==
  ASSUME TypeOK, NEW o \in Outputs, KeyArrow(o)
  PROVE  StepObeys
  BY OutputOfState, DrawingFollows, PutFollows, KeyPressedSteps DEF TypeOK, out, KeyArrow

LEMMA KeyFreezeframeSteps ==
  ASSUME TypeOK, NEW o \in Outputs, KeyFreezeframe(o)
  PROVE  StepObeys
<1> DEFINE hidden    == [p \in Outputs |-> FreezeframeHide(out(p))]
           refreshed == [p \in Outputs |-> FreezeframeRefresh(out(p), g.exit_requested)]
<1>1. g \in State /\ g.exit_requested \in BOOLEAN
  BY DEF TypeOK, State
<1>2. \A p \in Outputs : out(p) \in Output /\ out(p) = g.outputs[p]
  BY <1>1, OutputOfState DEF out
<1>3. Obeys(g, g) /\ g = [g EXCEPT !.outputs = g.outputs]
  BY <1>1, ObeysReflexive DEF State
<1>4. Obeys(g, [g EXCEPT !.outputs = hidden])
  BY <1>1, HiddenFreezeframesObey
<1>5. Obeys(g, [g EXCEPT !.outputs = refreshed])
  <2> DEFINE y(p) == FreezeframeRefresh(out(p), g.exit_requested)
             t == [g EXCEPT !.outputs = refreshed]
  <2>1. \A p \in Outputs :
          /\ y(p) \in Output
          /\ g.exit_requested => /\ AllConsumers(y(p)) \subseteq AllConsumers(g.outputs[p])
                                 /\ y(p).awaiting_ui \subseteq g.outputs[p].awaiting_ui
          /\ UiIsGone(g.outputs[p]) => UiIsGone(y(p))
          /\ UiIsChanging(g.outputs[p]) => UiIsChanging(y(p))
    BY <1>1, <1>2, FreezeframeRefreshFollows DEF Follows
  <2> HIDE DEF y
  <2>2. refreshed = [p \in Outputs |-> y(p)]
    BY DEF y
  <2> HIDE DEF refreshed
  <2>3. t \in State /\ t.exit_requested = g.exit_requested /\ t.outputs = refreshed
    BY <1>1, <2>1, <2>2 DEF State
  <2> HIDE DEF t
  <2>4. ExitObeyed(g, t)
    BY <2>1, <2>2, <2>3 DEF ExitObeyed, GivenUp
  <2>5. GoneObeyed(g, t)
    BY <2>1, <2>2, <2>3 DEF GoneObeyed
  <2>6. ChangingObeyed(g, t, Outputs)
    BY <2>1, <2>2, <2>3 DEF ChangingObeyed
  <2> QED BY <2>3, <2>4, <2>5, <2>6 DEF Obeys, t
<1>6. \E outputs \in {g.outputs, hidden, refreshed} :
        KeyPressed("freezeframe", o, [g EXCEPT !.outputs = outputs])
  BY DEF KeyFreezeframe
<1> HIDE DEF hidden, refreshed
<1> QED BY <1>3, <1>4, <1>5, <1>6, KeyPressedSteps

LEMMA KeyImageSteps ==
  ASSUME TypeOK, NEW o \in Outputs, NEW shift \in BOOLEAN, NEW ok \in BOOLEAN,
         KeyImage(o, shift, ok)
  PROVE  StepObeys
<1> DEFINE recording  == out(o).video_stage \in {"CAPTURING", "FULLSCREEN_START_PENDING"}
           exit_after == ~recording /\ ~shift
<1>1. exit_after \in BOOLEAN
  OBVIOUS
<1>2. \E next \in {ImageStartFullscreen(g, o, exit_after, ok), ImageStart(g, o, exit_after)} :
        KeyPressed("image", o, next)
  BY DEF KeyImage
<1> HIDE DEF exit_after
<1>3. /\ Obeys(g, ImageStartFullscreen(g, o, exit_after, ok))
      /\ Obeys(g, ImageStart(g, o, exit_after))
  BY <1>1, ImageStartFullscreenObeys, ImageStartObeys DEF TypeOK
<1> QED BY <1>2, <1>3, KeyPressedSteps

LEMMA KeyVideoSteps ==
  ASSUME TypeOK, NEW o \in Outputs, NEW ok \in BOOLEAN, KeyVideo(o, ok)
  PROVE  StepObeys
<1> DEFINE selected == IF out(o).selection = "INITIALIZING" THEN SelectionSetInitialized(g, o)
                       ELSE g
<1>1. g \in State
  BY DEF TypeOK
<1>2. Obeys(g, VideoStartFullscreen(g, o, ok))
  BY <1>1, VideoStartFullscreenObeys
<1>3. Obeys(g, Put(g, o, VideoRequestStop(out(o))))
  BY <1>1, OutputOfState, VideoRequestStopFollows, PutFollows DEF out
<1>4. Obeys(g, selected)
  BY <1>1, SelectionSetInitializedObeys, ObeysReflexive
<1>5. \E next \in {VideoStartFullscreen(g, o, ok), VideoStart(selected, o, ok),
                    Put(g, o, VideoRequestStop(out(o))), g} : KeyPressed("video", o, next)
  BY DEF KeyVideo
<1> HIDE DEF selected
<1>6. Obeys(selected, VideoStart(selected, o, ok))
  BY <1>4, VideoStartObeys DEF Obeys
<1>7. Obeys(g, VideoStart(selected, o, ok))
  BY <1>4, <1>6, ObeysTransitive
<1>8. Obeys(g, g)
  BY <1>1, ObeysReflexive
<1> QED BY <1>2, <1>3, <1>5, <1>7, <1>8, KeyPressedSteps

LEMMA KeyEscapeSteps ==
  ASSUME TypeOK, NEW o \in Outputs \cup {NoOutput}, KeyEscape(o)
  PROVE  StepObeys
<1>1. g \in State /\ seat \in Seat /\ running \in BOOLEAN
  BY DEF TypeOK
<1>2. o \in Outputs => Obeys(g, Put(g, o, VideoRequestStop(out(o))))
  BY <1>1, OutputOfState, VideoRequestStopFollows, PutFollows DEF out
<1>3. Obeys(g, g) /\ Obeys(g, RequestExit(g))
  BY <1>1, ObeysReflexive, RequestExitObeys
<1>4. Obeys(g, g')
  BY <1>2, <1>3 DEF KeyEscape
<1>5. seat' \in Seat /\ running' \in BOOLEAN
  BY <1>1 DEF KeyEscape, Seat
<1> QED BY <1>4, <1>5 DEF StepObeys

LEMMA KeyTabSteps ==
  ASSUME TypeOK, KeyTab
  PROVE  StepObeys
  BY HiddenFreezeframesObey DEF KeyTab, TypeOK, Seat, StepObeys

LEMMA PointerFocusSteps ==
  ASSUME TypeOK, NEW o \in Outputs \cup {NoOutput}, PointerFocus(o)
  PROVE  StepObeys
  BY ObeysReflexive DEF PointerFocus, TypeOK, Seat, StepObeys

LEMMA PointerMotionSteps ==
  ASSUME TypeOK, PointerMotion
  PROVE  StepObeys
<1> DEFINE o == seat.focus
           x == Check(out(o), out(o).selection # "REBASING" => ~out(o).size_is_frozen,
                      "pointer.c:75,135")
<1>1. g \in State /\ o \in Outputs
  BY DEF TypeOK, Seat, PointerMotion
<1>2. out(o) \in Output /\ out(o) = g.outputs[o]
  BY <1>1, OutputOfState DEF out
<1>3. g' = Put(g, o, RequestFrameCallback(x))
  BY DEF PointerMotion
<1>4. Follows(out(o), x)
  BY <1>2, CheckFollows DEF Assertions
<1> HIDE DEF o, x
<1>5. Follows(x, RequestFrameCallback(x))
  BY <1>4, DrawingFollows DEF Follows
<1>6. Follows(g.outputs[o], RequestFrameCallback(x))
  BY <1>2, <1>4, <1>5, FollowsTransitive
<1>7. Obeys(g, g')
  BY <1>1, <1>3, <1>6, PutFollows
<1>8. seat' \in Seat /\ running' \in BOOLEAN
  BY DEF PointerMotion, TypeOK
<1> QED BY <1>7, <1>8 DEF StepObeys

LEMMA ButtonLeftObeys ==
  ASSUME NEW s \in State, NEW o \in Outputs
  PROVE  Obeys(s, ButtonLeft(s, o))
<1> DEFINE x == s.outputs[o]
           y == Check(x, ~x.size_is_frozen, "pointer.c:274,305")
           become(state) == [x EXCEPT !.selection = state]
           checked == Put(s, o, y)
<1>1. x \in Output
  BY OutputOfState
<1>2. \A state \in SelectionStates :
        /\ Obeys(s, Put(s, o, become(state)))
        /\ Obeys(s, Put(s, o, RequestFrameCallback(become(state))))
  <2> TAKE state \in SelectionStates
  <2>1. Follows(x, become(state))
    BY <1>1, FieldsFollow
  <2> HIDE DEF become
  <2>2. Follows(become(state), RequestFrameCallback(become(state)))
    BY <2>1, DrawingFollows DEF Follows
  <2>3. Follows(x, RequestFrameCallback(become(state)))
    BY <2>1, <2>2, FollowsTransitive
  <2> QED BY <2>1, <2>3, PutFollows
<1>3. Obeys(s, checked)
  <2>1. Follows(x, y)
    BY <1>1, CheckFollows DEF Assertions
  <2> HIDE DEF y
  <2> QED BY <2>1, PutFollows
<1>4. Obeys(s, SelectionSetInitialized(checked, o))
  <2> HIDE DEF checked
  <2>1. Obeys(checked, SelectionSetInitialized(checked, o))
    BY <1>3, SelectionSetInitializedObeys DEF Obeys
  <2> QED BY <1>3, <2>1, ObeysTransitive
<1>5. x.selection \in SelectionStates
  BY <1>1 DEF Output
<1>6. ButtonLeft(s, o) \in
        {s, Put(s, o, RequestFrameCallback(become("INITIALIZING"))),
         SelectionSetInitialized(checked, o),
         Put(s, o, become("REBASING")), Put(s, o, become("COMPLETE")), checked}
  BY <1>5 DEF ButtonLeft, SelectionStates
<1> HIDE DEF x, become, checked
<1>7. {"INITIALIZING", "REBASING", "COMPLETE"} \subseteq SelectionStates
  BY DEF SelectionStates
<1> QED BY <1>2, <1>3, <1>4, <1>6, <1>7, ObeysReflexive

LEMMA ButtonRightObeys ==
  ASSUME NEW s \in State, NEW o \in Outputs
  PROVE  Obeys(s, ButtonRight(s, o))
<1> DEFINE x == s.outputs[o]
           y == Check(x, ~x.size_is_frozen, "pointer.c:340")
           resized == [x EXCEPT !.selection = "RESIZING"]
           completed == [y EXCEPT !.selection = "COMPLETE"]
           dropped == [s EXCEPT !.active_button = "NONE"]
<1>1. x \in Output
  BY OutputOfState
<1>2. Follows(x, resized)
  BY <1>1, FieldsFollow DEF SelectionStates
<1>3. Follows(x, completed)
  <2>1. Follows(x, y)
    BY <1>1, CheckFollows DEF Assertions
  <2> HIDE DEF x, y
  <2>2. Follows(y, completed)
    BY <2>1, FieldsFollow DEF Follows, SelectionStates
  <2> HIDE DEF completed
  <2> QED BY <2>1, <2>2, FollowsTransitive
<1>4. Obeys(s, dropped)
  BY ActiveButtonObeys
<1>5. ButtonRight(s, o) \in {Put(s, o, resized), Put(s, o, completed), dropped}
  BY DEF ButtonRight
<1> HIDE DEF resized, completed, dropped
<1> QED BY <1>2, <1>3, <1>4, <1>5, PutFollows

LEMMA PointerButtonSteps ==
  ASSUME TypeOK, NEW button \in PointerButtons, NEW pressed \in BOOLEAN,
         PointerButton(button, pressed)
  PROVE  StepObeys
<1> DEFINE o == seat.focus
           y == Check(out(o), UsePressesOnly => g.active_button = "NONE", "pointer.c:218")
           checked == Put(g, o, y)
           taken == [checked EXCEPT !.active_button = IF @ = "NONE" THEN button ELSE "NONE"]
<1>1. g \in State /\ o \in Outputs
  BY DEF TypeOK, Seat, PointerButton
<1>2. Obeys(g, checked)
  <2>1. Follows(g.outputs[o], y)
    <3>1. out(o) \in Output /\ out(o) = g.outputs[o]
      BY <1>1, OutputOfState DEF out
    <3>2. Follows(out(o), y)
      BY <3>1, CheckFollows DEF Assertions
    <3> HIDE DEF o, y
    <3> QED BY <3>1, <3>2
  <2> HIDE DEF o, y
  <2> QED BY <1>1, <2>1, PutFollows
<1>3. g' \in {checked, ButtonLeft(taken, o), ButtonRight(taken, o)}
  BY DEF PointerButton
<1> HIDE DEF checked, o
<1>4. Obeys(checked, taken)
  <2>1. (IF checked.active_button = "NONE" THEN button ELSE "NONE") \in PointerButtons \cup {"NONE"}
    OBVIOUS
  <2> QED BY <1>2, <2>1, ActiveButtonObeys DEF Obeys
<1> HIDE DEF taken
<1>5. Obeys(taken, ButtonLeft(taken, o)) /\ Obeys(taken, ButtonRight(taken, o))
  BY <1>1, <1>4, ButtonLeftObeys, ButtonRightObeys DEF Obeys
<1>6. Obeys(g, g')
  BY <1>2, <1>3, <1>4, <1>5, ObeysTransitive
<1>7. seat' \in Seat /\ running' \in BOOLEAN
  BY DEF PointerButton, TypeOK, Seat
<1> QED BY <1>6, <1>7 DEF StepObeys

LEMMA InitSelectionSteps ==
  ASSUME TypeOK, NEW o \in Outputs, InitSelection(o)
  PROVE  StepObeys
<1> DEFINE mapped == [g EXCEPT !.outputs[o].freezeframe.startup = FALSE]
<1>1. Obeys(g, mapped)
  BY MappedObeys DEF TypeOK
<1>2. g' = InitSelectionSurfaceContent(mapped, o) /\ seat' \in Seat /\ running' \in BOOLEAN
  BY DEF InitSelection, TypeOK
<1> HIDE DEF mapped
<1>3. Obeys(mapped, InitSelectionSurfaceContent(mapped, o))
  BY <1>1, InitSelectionSurfaceContentObeys DEF Obeys
<1> QED BY <1>1, <1>2, <1>3, ObeysTransitive DEF StepObeys

LEMMA SurfaceEventSteps ==
  ASSUME TypeOK, NEW o \in Outputs
  PROVE  /\ FrameCallback(o) => StepObeys
         /\ \A b \in Buffers : SurfaceBufferRelease(o, b) => StepObeys
         /\ out(o).surface.feedback # << >> => Obeys(g, Answered(o))
         /\ SelectionDiscarded(o) => StepObeys
<1>1. out(o) \in Output /\ out(o) = g.outputs[o] /\ out(o).surface \in Surface /\ g \in State
  BY OutputOfState DEF out, TypeOK, Output
<1>2. ASSUME FrameCallback(o) PROVE StepObeys
  BY <1>1, <1>2, FrameCallbackDoneKeeps, DrawsFullscreenCaptureType, SurfaceFollows,
     PutFollows, EventSteps
     DEF FrameCallback
<1>3. ASSUME NEW b \in Buffers, SurfaceBufferRelease(o, b) PROVE StepObeys
  BY <1>1, <1>3, BufferReleasedKeeps, SurfaceFollows, PutFollows, EventSteps
     DEF SurfaceBufferRelease
<1>4. ASSUME out(o).surface.feedback # << >> PROVE Obeys(g, Answered(o))
  BY <1>1, <1>4, FeedbackDoneKeeps, SurfaceFollows, PutFollows DEF Answered
<1>5. ASSUME SelectionDiscarded(o) PROVE StepObeys
  BY <1>4, <1>5, EventSteps DEF SelectionDiscarded
<1> QED BY <1>2, <1>3, <1>4, <1>5

LEMMA SelectionPresentedSteps ==
  ASSUME TypeOK, NEW o \in Outputs, NEW ok \in BOOLEAN, SelectionPresented(o, ok)
  PROVE  StepObeys
<1> DEFINE answered == Answered(o)
           x == answered.outputs[o]
           y == [x EXCEPT !.ui = "SHOWN"]
           shown == [answered EXCEPT !.outputs[o].ui = "SHOWN"]
           next == SyncUiAndDispatch(shown, o, ok)
<1>1. Obeys(g, answered)
  BY SurfaceEventSteps DEF SelectionPresented
<1>2. x.ui = out(o).ui
  BY OutputOfState DEF TypeOK, out, Answered, Put, State, Output
<1>3. Event(answered) \/ (out(o).ui = "SHOW_PENDING" /\ Event(next))
  BY DEF SelectionPresented
<1> HIDE DEF answered
<1>4. ASSUME out(o).ui = "SHOW_PENDING" PROVE Obeys(g, next)
  <2>1. answered \in State /\ x \in Output
    BY <1>1, OutputOfState DEF Obeys
  <2>2. /\ y \in Output
        /\ AllConsumers(y) = AllConsumers(x) /\ y.awaiting_ui = x.awaiting_ui
        /\ UiIsGone(x) => UiIsGone(y)
    <3> HIDE DEF x
    <3> QED BY <1>2, <1>4, <2>1 DEF Output, FullscreenUiStates, AllConsumers, UiIsGone
  <2> HIDE DEF y
  <2>3. ObeysBut(answered, Put(answered, o, y), o)
    BY <2>1, <2>2, PutObeysBut
  <2>4. Put(answered, o, y) = shown
    BY DEF Put, y
  <2> HIDE DEF shown
  <2>5. Obeys(answered, next)
    BY <2>1, <2>3, <2>4, SyncUiAndDispatchRepairs
  <2> HIDE DEF next
  <2> QED BY <1>1, <2>5, ObeysTransitive
<1> HIDE DEF next
<1> QED BY <1>1, <1>3, <1>4, EventSteps

LEMMA HidePresentedSteps ==
  ASSUME TypeOK, NEW o \in Outputs, NEW ok \in BOOLEAN, HidePresented(o, ok)
  PROVE  StepObeys
<1> DEFINE w == Check(out(o), "FULLSCREEN_HIDE" \in out(o).surface.disabled,
                      "transparent-selection-capture.c:15")
           x == Check(w, out(o).ui = "HIDE_PENDING", "transparent-selection-capture.c:26")
           surface == FeedbackDone(x.surface)
           hidden == [x EXCEPT !.surface = FeedbackDone(@),
                               !.ui = IF @ = "HIDE_PENDING" THEN "HIDDEN" ELSE @]
           put == Put(g, o, hidden)
           next == SyncUiAndDispatch(put, o, ok)
<1>1. out(o) \in Output /\ out(o) = g.outputs[o] /\ g \in State
  BY OutputOfState DEF out, TypeOK
<1>2. Follows(out(o), w) /\ w.surface = out(o).surface
  BY <1>1, CheckFollows DEF Assertions, Check, Output
<1>3. Follows(w, x)
  <2> HIDE DEF w
  <2> QED BY <1>2, CheckFollows DEF Follows, Assertions
<1>4. x.surface = out(o).surface
  <2> HIDE DEF w
  <2> QED BY <1>2 DEF Follows, Check, Output
<1>5. Event(next) /\ out(o).surface.feedback # << >>
  BY DEF HidePresented
<1>6. Follows(out(o), x)
  <2> HIDE DEF w, x
  <2> QED BY <1>2, <1>3, FollowsTransitive
<1> HIDE DEF w, x
<1>7. /\ hidden \in Output
      /\ AllConsumers(hidden) = AllConsumers(x) /\ hidden.awaiting_ui = x.awaiting_ui
      /\ UiIsGone(x) => UiIsGone(hidden)
  <2>1. x \in Output /\ x.surface \in Surface /\ x.surface.feedback # << >>
    BY <1>4, <1>5, <1>6 DEF Follows, Output
  <2>2. Keeps(x.surface, surface)
    BY <2>1, FeedbackDoneKeeps
  <2>3. hidden = [x EXCEPT !.surface = surface,
                           !.ui = IF @ = "HIDE_PENDING" THEN "HIDDEN" ELSE @]
    OBVIOUS
  <2> HIDE DEF surface, hidden
  <2>4. /\ hidden \in Output
        /\ AllConsumers(hidden) = AllConsumers(x) /\ hidden.awaiting_ui = x.awaiting_ui
    BY <2>1, <2>2, <2>3 DEF Keeps, Output, FullscreenUiStates, AllConsumers
  <2>5. UiIsGone(x) => UiIsGone(hidden)
    BY <2>1, <2>2, <2>3 DEF Keeps, Output, UiIsGone
  <2> QED BY <2>4, <2>5
<1> HIDE DEF hidden
<1>8. ObeysBut(g, put, o)
  BY <1>1, <1>6, <1>7, PutObeysBut DEF Follows
<1> HIDE DEF put
<1>9. Obeys(g, next)
  BY <1>1, <1>8, SyncUiAndDispatchRepairs
<1> HIDE DEF next
<1> QED BY <1>5, <1>9, EventSteps

LEMMA FrameReadySteps ==
  ASSUME TypeOK, NEW o \in Outputs, NEW stale \in BOOLEAN, NEW written \in BOOLEAN,
         NEW ok \in BOOLEAN, FrameReady(o, stale, written, ok)
  PROVE  StepObeys
<1> DEFINE x         == out(o)
           consumers == x.frame.consumers
           y         == Check(x, consumers # {}, "image-copy-capture-frame.c:83")
           z         == [y EXCEPT !.frame.in_flight = FALSE,
                                  !.frame.consumers = {},
                                  !.frame.forced = @ /\ stale,
                                  !.frame.switched = @ /\ stale]
           taken     == Put(g, o, z)
           imaged    == IF "IMAGE" \in consumers THEN ImageFinish(taken, o, ok) ELSE taken
           stopped   == [imaged EXCEPT !.outputs[o].video_stage = "STOP_REQUESTED"]
           wrote     == IF written THEN imaged ELSE stopped
           again(s)  == Put(s, o, RequestFrame(s.outputs[o], {"VIDEO"}))
           finished  == VideoFinish(wrote, o, ok)
<1>1. x \in Output /\ x = g.outputs[o] /\ g \in State
  BY OutputOfState DEF out, TypeOK
<1>2. Obeys(g, taken)
  <2>1. Follows(x, y)
    BY <1>1, CheckFollows DEF Assertions
  <2> HIDE DEF y
  <2>2. Follows(y, z)
    <3> DEFINE f == y.frame
               h == [f EXCEPT !.in_flight = FALSE, !.consumers = {},
                              !.forced = @ /\ stale, !.switched = @ /\ stale]
    <3>1. f \in FrameContext /\ y \in Output
      BY <2>1 DEF Follows, Output
    <3>2. h \in FrameContext
      <4> HIDE DEF f
      <4> QED BY <3>1 DEF FrameContext
    <3>3. Follows(y, [y EXCEPT !.frame = h])
      <4> HIDE DEF h
      <4> QED BY <3>1, <3>2 DEF Follows, Output, AllConsumers, UiIsGone, UiIsChanging
    <3> QED BY <3>3
  <2> HIDE DEF x, z
  <2>3. Follows(x, z)
    BY <2>1, <2>2, FollowsTransitive
  <2> QED BY <1>1, <2>3, PutFollows
<1>3. Event(imaged) \/ Event(again(imaged)) \/ Event(finished) \/ Event(again(wrote))
  BY DEF FrameReady
<1> HIDE DEF taken
<1>4. Obeys(g, imaged)
  BY <1>2, ImageFinishObeys, ObeysTransitive DEF Obeys
<1> HIDE DEF imaged
<1>5. Obeys(g, wrote)
  <2>1. Obeys(imaged, stopped)
    BY <1>4, FieldsObey DEF Obeys, VideoStages
  <2> HIDE DEF stopped
  <2> QED BY <1>4, <2>1, ObeysTransitive
<1> HIDE DEF wrote
<1>6. \A s : Obeys(g, s) => Obeys(g, again(s))
  <2> SUFFICES ASSUME NEW s, Obeys(g, s) PROVE Obeys(g, again(s))
    OBVIOUS
  <2>1. Follows(s.outputs[o], RequestFrame(s.outputs[o], {"VIDEO"}))
    BY OutputOfState, RequestFrameFollows DEF Obeys
  <2>2. Obeys(s, again(s))
    BY <2>1, PutFollows DEF Obeys
  <2> HIDE DEF again
  <2> QED BY <2>2, ObeysTransitive
<1>7. Obeys(wrote, finished)
  BY <1>5, VideoFinishObeys DEF Obeys
<1> HIDE DEF again, finished
<1>8. Obeys(g, finished)
  BY <1>5, <1>7, ObeysTransitive
<1> QED BY <1>3, <1>4, <1>5, <1>6, <1>8, EventSteps

LEMMA FrameFailedSteps ==
  ASSUME TypeOK, NEW o \in Outputs, NEW ok \in BOOLEAN, FrameFailed(o, ok)
  PROVE  StepObeys
<1> DEFINE x      == g.outputs[o]
           y      == [x EXCEPT !.frame.in_flight = FALSE, !.frame.forced = FALSE]
           taken  == Put(g, o, y)
           imaged == IF "IMAGE" \in x.frame.consumers
                       THEN ImageFinish(taken, o, ok) ELSE taken
           filmed == IF "VIDEO" \in imaged.outputs[o].frame.consumers
                       THEN VideoFinish(imaged, o, ok) ELSE imaged
           next   == [filmed EXCEPT !.outputs[o].frame.consumers = {}]
<1>1. x \in Output /\ g \in State
  BY OutputOfState DEF TypeOK
<1>2. Obeys(g, taken)
  <2>1. Follows(x, y)
    <3> HIDE DEF x
    <3> QED BY <1>1 DEF Follows, Output, FrameContext, AllConsumers, UiIsGone, UiIsChanging
  <2> HIDE DEF y
  <2> QED BY <1>1, <2>1, PutFollows
<1>3. Event(next)
  BY DEF FrameFailed, out
<1> HIDE DEF taken
<1>4. Obeys(g, imaged)
  BY <1>2, ImageFinishObeys, ObeysTransitive DEF Obeys
<1> HIDE DEF imaged
<1>5. Obeys(g, filmed)
  BY <1>4, VideoFinishObeys, ObeysTransitive DEF Obeys
<1> HIDE DEF filmed
<1>6. Obeys(filmed, next)
  <2> DEFINE f == filmed.outputs[o]
             h == [f EXCEPT !.frame.consumers = {}]
  <2>1. f \in Output
    BY <1>5, OutputOfState DEF Obeys
  <2>2. Follows(f, h)
    <3> HIDE DEF f
    <3> QED BY <2>1 DEF Follows, Output, FrameContext, AllConsumers, UiIsGone, UiIsChanging
  <2>3. Obeys(filmed, Put(filmed, o, h))
    BY <1>5, <2>2, PutFollows DEF Obeys
  <2> QED BY <2>3 DEF Put
<1> HIDE DEF next
<1>7. Obeys(g, next)
  BY <1>5, <1>6, ObeysTransitive
<1> QED BY <1>3, <1>7, EventSteps

LEMMA AudioFailedSteps ==
  ASSUME TypeOK, NEW o \in Outputs, AudioFailed(o)
  PROVE  StepObeys
  BY OutputOfState, VideoRequestStopFollows, PutFollows, EventSteps
     DEF out, TypeOK, AudioFailed

LEMMA FreezeframeEventSteps ==
  ASSUME TypeOK, NEW o \in Outputs, NEW rotated \in BOOLEAN, NEW ok \in BOOLEAN
  PROVE  /\ FreezeframeReady(o, rotated, ok) => StepObeys
         /\ FreezeframeFailed(o, ok) => StepObeys
<1> DEFINE x        == g.outputs[o]
           y        == [x EXCEPT !.freezeframe.in_flight = FALSE]
           taken    == [g EXCEPT !.outputs[o].freezeframe.in_flight = FALSE]
           rotation == o \in Rotated
           shown    == FreezeframeShow(taken, o, rotation, rotated, ok)
           finished == FreezeframeFinish(taken, o, ok)
<1>1. Obeys(g, taken)
  <2>1. x \in Output /\ g \in State
    BY OutputOfState DEF TypeOK
  <2>2. Follows(x, y)
    <3> HIDE DEF x
    <3> QED BY <2>1 DEF Follows, Output, Freezeframe, AllConsumers, UiIsGone, UiIsChanging
  <2>3. Obeys(g, Put(g, o, y))
    BY <2>1, <2>2, PutFollows
  <2> QED BY <2>3 DEF Put
<1>2. rotation \in BOOLEAN
  OBVIOUS
<1>3. /\ FreezeframeReady(o, rotated, ok) => Event(shown)
      /\ FreezeframeFailed(o, ok) => Event(finished)
  BY DEF FreezeframeReady, FreezeframeFailed
<1> HIDE DEF taken, rotation
<1>4. Obeys(taken, shown) /\ Obeys(taken, finished)
  BY <1>1, <1>2, FreezeframeShowObeys, FreezeframeFinishObeys DEF Obeys
<1> HIDE DEF shown, finished
<1>5. Obeys(g, shown) /\ Obeys(g, finished)
  BY <1>1, <1>4, ObeysTransitive
<1> QED BY <1>3, <1>5, EventSteps

LEMMA FreezeframeReleaseSteps ==
  ASSUME TypeOK, NEW o \in Outputs, NEW rotated \in BOOLEAN, NEW ok \in BOOLEAN
  PROVE  /\ CaptureBufferRelease(o) => StepObeys
         /\ RotatedBufferRelease(o, rotated, ok) => StepObeys
<1> DEFINE x     == out(o)
           cfreed == [x EXCEPT !.freezeframe.capture_busy = FALSE,
                               !.freezeframe.capture_waiting = FALSE]
           rfreed == [x EXCEPT !.freezeframe.surface_busy = FALSE,
                               !.freezeframe.surface_waiting = FALSE]
           started == FreezeframeCaptureStart(cfreed)
           put     == Put(g, o, rfreed)
           shown   == FreezeframeShow(put, o, TRUE, rotated, ok)
<1>1. x \in Output /\ x = g.outputs[o] /\ g \in State
  BY OutputOfState DEF out, TypeOK
<1>2. Follows(x, cfreed) /\ Follows(x, rfreed)
  <2> HIDE DEF x
  <2> QED BY <1>1, ZenonT(30) DEF Follows, Output, Freezeframe, AllConsumers, UiIsGone, UiIsChanging
<1>3. CaptureBufferRelease(o) =>
        Event(Put(g, o, IF out(o).freezeframe.capture_waiting THEN started ELSE cfreed))
  BY DEF CaptureBufferRelease
<1>4. RotatedBufferRelease(o, rotated, ok) => Event(shown) \/ Event(put)
  BY DEF RotatedBufferRelease
<1> HIDE DEF x, cfreed, rfreed
<1>5. Follows(x, started)
  <2>1. Follows(cfreed, started)
    BY <1>2, FreezeframeFollows DEF Follows
  <2> HIDE DEF started
  <2> QED BY <1>2, <2>1, FollowsTransitive
<1>6. Obeys(g, Put(g, o, started)) /\ Obeys(g, Put(g, o, cfreed)) /\ Obeys(g, put)
  <2> HIDE DEF started
  <2> QED BY <1>1, <1>2, <1>5, PutFollows
<1> HIDE DEF put, started
<1>7. Obeys(put, shown)
  BY <1>6, FreezeframeShowObeys DEF Obeys
<1> HIDE DEF shown
<1>8. Obeys(g, shown)
  BY <1>6, <1>7, ObeysTransitive
<1> QED BY <1>3, <1>4, <1>6, <1>8, EventSteps

LEMMA LoopIterationSteps ==
  ASSUME TypeOK, NEW outdated \in SUBSET Outputs, LoopIteration(outdated)
  PROVE  StepObeys
<1> DEFINE shows == seat.focus # NoOutput
           synced(o) == SyncCursorCapture(out(o), shows)
           next(o) == IF o \in outdated THEN RequestFrameCallback(synced(o)) ELSE synced(o)
           outputs == [o \in Outputs |-> next(o)]
<1>1. g \in State
  BY DEF TypeOK
<1>2. \A o \in Outputs : Follows(g.outputs[o], next(o))
  <2> TAKE o \in Outputs
  <2>1. out(o) \in Output /\ out(o) = g.outputs[o]
    BY <1>1, OutputOfState DEF out
  <2>2. shows \in BOOLEAN
    OBVIOUS
  <2> HIDE DEF shows
  <2>3. Follows(out(o), synced(o))
    BY <2>1, <2>2, SyncCursorCaptureFollows
  <2> HIDE DEF synced
  <2>4. Follows(synced(o), RequestFrameCallback(synced(o)))
    BY <2>3, DrawingFollows DEF Follows
  <2>5. Follows(out(o), RequestFrameCallback(synced(o)))
    BY <2>3, <2>4, FollowsTransitive
  <2> QED BY <2>1, <2>3, <2>5
<1>3. g' = [g EXCEPT !.outputs = outputs]
  BY DEF LoopIteration
<1> HIDE DEF next
<1>4. outputs \in [Outputs -> Output] /\ \A o \in Outputs : Follows(g.outputs[o], outputs[o])
  BY <1>2 DEF Follows
<1> HIDE DEF outputs
<1>5. Obeys(g, [g EXCEPT !.exit_requested = g.exit_requested, !.outputs = outputs])
  BY <1>1, <1>4, OutputsObey DEF State
<1>6. Obeys(g, g')
  BY <1>1, <1>3, <1>5 DEF State
<1>7. seat' \in Seat /\ running' \in BOOLEAN
  BY DEF LoopIteration, TypeOK
<1> QED BY <1>6, <1>7 DEF StepObeys

LEMMA NextSteps ==
  ASSUME TypeOK, [Next]_vars
  PROVE  StepObeys
<1>1. ASSUME UserStep PROVE StepObeys
  BY <1>1, KeyHideUiSteps, KeyVideoSteps, KeyImageSteps, KeyArrowSteps, KeyFreezeframeSteps,
     KeyEscapeSteps, PointerFocusSteps, KeyTabSteps, PointerMotionSteps, PointerButtonSteps
     DEF UserStep
<1>2. ASSUME CompositorStep PROVE StepObeys
  <2>1. ASSUME NEW o \in Outputs, FrameCallback(o) \/ SelectionDiscarded(o) \/ CaptureBufferRelease(o)
        PROVE  StepObeys
    BY <2>1, SurfaceEventSteps, FreezeframeReleaseSteps
  <2>2. ASSUME NEW o \in Outputs, NEW ok \in BOOLEAN, FreezeframeFailed(o, ok)
        PROVE  StepObeys
    BY <2>2, FreezeframeEventSteps
  <2> QED BY <1>2, <2>1, <2>2, SurfaceEventSteps, SelectionPresentedSteps, HidePresentedSteps,
             FrameFailedSteps, FrameReadySteps, FreezeframeEventSteps, FreezeframeReleaseSteps
             DEF CompositorStep
<1>3. ASSUME NEW o \in Outputs, InitSelection(o) \/ AudioFailed(o) PROVE StepObeys
  BY <1>3, InitSelectionSteps, AudioFailedSteps
<1>4. ASSUME NEW outdated \in SUBSET Outputs, LoopIteration(outdated) PROVE StepObeys
  BY <1>4, LoopIterationSteps
<1>5. ASSUME Exited \/ UNCHANGED vars PROVE StepObeys
  BY <1>5, ObeysReflexive DEF Exited, vars, StepObeys, TypeOK
<1> QED BY <1>1, <1>2, <1>3, <1>4, <1>5 DEF Next

(* The types and the capture UI                                            *)

LEMMA InitialOutputType == InitialOutput \in Output
<1>1. SurfacePremem \in Surface
  <2>1. << >> \in Seq(Feedback)
    OBVIOUS
  <2> QED BY <2>1 DEF SurfacePremem, Surface
<1>2. InitialOutput.frame \in FrameContext
  BY DEF InitialOutput, FrameContext
<1>3. InitialOutput.freezeframe \in Freezeframe
  BY ScranOptions DEF InitialOutput, Freezeframe, FreezeframeStages
<1> QED BY <1>1, <1>2, <1>3
     DEF InitialOutput, Output, FullscreenUiStates, VideoStages, SelectionStates

\* The state never leaves State, whatever is pressed and whatever the compositor
\* answers: what fails is counted and recorded, and no record loses its shape.
THEOREM TypeCorrect == Spec => []TypeOK
<1>1. Init => TypeOK
  BY InitialOutputType DEF Init, TypeOK, State, Seat
<1>2. TypeOK /\ [Next]_vars => TypeOK'
  BY NextSteps DEF StepObeys, Obeys, TypeOK
<1> QED BY <1>1, <1>2, PTL DEF Spec

(***************************************************************************)
(* The invariant of the capture UI.  UiIsGoneFromCaptures is not inductive *)
(* alone: that the surface is covered where a capture is dispatched has to *)
(* hold from the moment its hide is pending (UiIsGone).                    *)
(***************************************************************************)

LEMMA UiInvHolds == Spec => []UiInv
<1>1. Init => UiInv
  <2>1. ASSUME Init, NEW o \in Outputs PROVE UiIsGone(out(o)) /\ UiIsChanging(out(o))
    BY <2>1 DEF Init, out, InitialOutput, UiIsGone, UiIsChanging
  <2>2. Init => TypeOK
    BY InitialOutputType DEF Init, TypeOK, State, Seat
  <2> QED BY <2>1, <2>2 DEF UiInv
<1>2. UiInv /\ [Next]_vars => UiInv'
  <2> SUFFICES ASSUME UiInv, [Next]_vars PROVE UiInv'
    OBVIOUS
  <2>1. StepObeys
    BY NextSteps DEF UiInv
  <2>2. \A o \in Outputs : UiIsGone(out(o)')
    BY <2>1 DEF StepObeys, Obeys, GoneObeyed, UiInv, out
  <2>3. \A o \in Outputs : UiIsChanging(out(o)')
    BY <2>1 DEF StepObeys, Obeys, ChangingObeyed, UiInv, out
  <2>4. TypeOK'
    BY <2>1 DEF StepObeys, Obeys, TypeOK
  <2> QED BY <2>2, <2>3, <2>4 DEF UiInv, UiIsGone, UiIsChanging, Covered
<1> QED BY <1>1, <1>2, PTL DEF Spec

\* No fullscreen image and no freezeframe is ever captured with the capture UI on the
\* surface, whichever order the hides, shows, toggles and exits come in.
THEOREM UiIsNeverCaptured == Spec => []UiIsGoneFromCaptures
<1>1. UiInv => UiIsGoneFromCaptures
  BY DEF UiInv, UiIsGone, Covered, UiIsGoneFromCaptures
<1> QED BY <1>1, UiInvHolds, PTL

\* No capture waits for a UI that has stopped changing, where nothing would call
\* capture_fullscreen_sync_ui_and_dispatch() for it any more.
THEOREM AwaitingIsAnswerable == Spec => []AwaitedUiIsChanging
<1>1. UiInv => AwaitedUiIsChanging
  BY DEF UiInv, UiIsChanging, AwaitedUiIsChanging
<1> QED BY <1>1, UiInvHolds, PTL

(* The invariant of the capture pipeline                                   *)

LEMMA QuietIsAlmostQuiet ==
  ASSUME NEW s, NEW t, Quiet(s, t)
  PROVE  AlmostQuiet(s, t)
  BY DEF Quiet, AlmostQuiet

LEMMA OutIsSound ==
  ASSUME SoundInv, NEW o \in Outputs
  PROVE  /\ g \in State /\ SoundState(g) /\ OthersSound(g, Outputs \ {o})
         /\ out(o) = g.outputs[o]
         /\ out(o) \in Output /\ Sound(out(o)) /\ SlurpIsNoCapture(out(o))
  BY OutputOfState DEF SoundInv, TypeOK, out, SoundState, OthersSound

\* Every output may be replaced by one that is as sound.
LEMMA OutputsSound ==
  ASSUME NEW s \in State, SoundState(s), NEW outputs \in [Outputs -> Output],
         \A p \in Outputs : Sound(outputs[p]) /\ Calm(s.outputs[p], outputs[p])
  PROVE  LET t == [s EXCEPT !.outputs = outputs]
         IN SoundState(t) /\ Quiet(s, t)
<1> DEFINE t == [s EXCEPT !.outputs = outputs]
<1>1. t \in State /\ t.outputs = outputs /\ t.stdout = s.stdout
  BY DEF State
<1> HIDE DEF t
<1>2. \A p \in Outputs, purpose \in {"IMAGE", "VIDEO"} :
        Capturing(t.outputs[p], purpose) <=> Capturing(s.outputs[p], purpose)
  BY <1>1 DEF Capturing, Calm
<1>3. StdoutIsOwned(t)
  BY <1>1, <1>2, StdoutKept DEF SoundState, OthersSound
<1>4. \A p \in Outputs : SlurpIsNoCapture(t.outputs[p])
  BY <1>1, CalmSameCaptures DEF SoundState, OthersSound
<1>5. SoundState(t)
  BY <1>1, <1>3, <1>4 DEF SoundState, OthersSound
<1>6. Quiet(s, t)
  BY <1>1 DEF Quiet, Calm
<1> QED BY <1>5, <1>6 DEF t

\* One output is replaced by one that is as sound.
LEMMA OutReplaced ==
  ASSUME SoundInv, NEW o \in Outputs, NEW x \in Output, Sound(x), Calm(out(o), x)
  PROVE  SoundState(Put(g, o, x)) /\ Quiet(g, Put(g, o, x))
  BY OutIsSound, PutSound

(* The keyboard                                                            *)

LEMMA KeyHideUiSound ==
  ASSUME SoundInv, NEW o \in Outputs, NEW ok \in BOOLEAN, KeyHideUi(o, ok)
  PROVE  StepIsSound
<1> DEFINE x == out(o)
           y == [x EXCEPT !.ui_inside = ~@]
<1>1. /\ g \in State /\ OthersSound(g, Outputs \ {o})
      /\ x = g.outputs[o] /\ x \in Output /\ Sound(x) /\ SlurpIsNoCapture(x)
  BY OutIsSound
<1>2. g' = SyncUiAndDispatch(Put(g, o, y), o, ok)
  BY <1>1 DEF KeyHideUi, KeyPressed, Put, State
<1> HIDE DEF x
<1>3. UiMoves(x, y)
  <2>1. /\ y \in Output
        /\ y.surface = x.surface /\ y.frame = x.frame /\ y.freezeframe = x.freezeframe
        /\ y.active = x.active /\ y.awaiting_ui = x.awaiting_ui /\ y.ui = x.ui
        /\ y.video_stage = x.video_stage /\ y.captures = x.captures
        /\ y.selection = x.selection /\ y.size_is_frozen = x.size_is_frozen
        /\ y.failed_asserts = x.failed_asserts
    BY <1>1 DEF Output
  <2> HIDE DEF y
  <2> QED BY <2>1 DEF UiMoves, Follows, SameBooks, StaysBusy, HideIsAnswered, UiIsGone,
             UiIsChanging, AllConsumers
<1> HIDE DEF y
<1>4. /\ y \in Output /\ Steady(y) /\ SizeIsFixed(y)
      /\ SameCaptures(x, y) /\ SlurpIsNoCapture(y)
  BY <1>1, <1>3, UiMovesSound, CalmSameCaptures DEF UiMoves, Follows, Sound
<1>5. SoundState(g') /\ Quiet(g, g')
  BY <1>1, <1>2, <1>4, ChangedAndSyncedSound
<1> QED BY <1>5, QuietIsAlmostQuiet DEF StepIsSound

\* A frame callback that is asked for changes nothing else.
LEMMA FrameCallbackSound ==
  ASSUME SoundInv, NEW o \in Outputs
  PROVE  LET t == Put(g, o, RequestFrameCallback(out(o)))
         IN SoundState(t) /\ Quiet(g, t)
<1> DEFINE x == out(o)
           y == RequestFrameCallback(x)
<1>1. x \in Output /\ Sound(x)
  BY OutIsSound
<1>2. Sound(y) /\ Calm(x, y) /\ y \in Output
  <2> HIDE DEF x
  <2> QED BY <1>1, DrawingUiMoves, UiMovesSound DEF UiMoves, Follows
<1> HIDE DEF y
<1>3. SoundState(Put(g, o, y)) /\ Quiet(g, Put(g, o, y))
  BY <1>2, OutReplaced
<1> QED BY <1>3 DEF y

LEMMA KeyArrowSound ==
  ASSUME SoundInv, NEW o \in Outputs, KeyArrow(o)
  PROVE  StepIsSound
  BY FrameCallbackSound, QuietIsAlmostQuiet DEF KeyArrow, KeyPressed, StepIsSound

LEMMA FreezeframesHiddenSound ==
  ASSUME SoundInv
  PROVE  LET t == [g EXCEPT !.outputs = [p \in Outputs |-> FreezeframeHide(out(p))]]
         IN SoundState(t) /\ Quiet(g, t)
<1> DEFINE outputs == [p \in Outputs |-> FreezeframeHide(out(p))]
<1>1. \A p \in Outputs : /\ Sound(FreezeframeHide(out(p))) /\ FreezeframeHide(out(p)) \in Output
                         /\ Calm(g.outputs[p], FreezeframeHide(out(p)))
  BY OutIsSound, FreezeframeHideSound
<1>2. /\ outputs \in [Outputs -> Output]
      /\ \A p \in Outputs : Sound(outputs[p]) /\ Calm(g.outputs[p], outputs[p])
  BY <1>1
<1> HIDE DEF outputs
<1>3. g \in State /\ SoundState(g)
  BY DEF SoundInv, TypeOK
<1>4. SoundState([g EXCEPT !.outputs = outputs]) /\ Quiet(g, [g EXCEPT !.outputs = outputs])
  BY <1>2, <1>3, OutputsSound
<1> QED BY <1>4 DEF outputs

LEMMA KeyFreezeframeSound ==
  ASSUME SoundInv, NEW o \in Outputs, KeyFreezeframe(o)
  PROVE  StepIsSound
<1> DEFINE hidden    == [g EXCEPT !.outputs = [p \in Outputs |-> FreezeframeHide(out(p))]]
           refresh(p) == FreezeframeRefresh(out(p), g.exit_requested)
           outputs   == [p \in Outputs |-> refresh(p)]
           refreshed == [g EXCEPT !.outputs = outputs]
<1>1. g \in State /\ SoundState(g)
  BY DEF SoundInv, TypeOK
<1>2. ASSUME \E p \in Outputs : out(p).freezeframe.stage # "IDLE"
      PROVE  g' = g
  BY <1>1, <1>2 DEF KeyFreezeframe, KeyPressed, State
<1>3. ASSUME \A p \in Outputs : out(p).freezeframe.stage = "IDLE"
      PROVE  g' = hidden \/ g' = refreshed
  BY <1>3 DEF KeyFreezeframe, KeyPressed
<1>4. SoundState(hidden) /\ Quiet(g, hidden)
  BY FreezeframesHiddenSound
<1>5. ASSUME \A p \in Outputs : out(p).freezeframe.stage = "IDLE"
      PROVE  SoundState(refreshed) /\ Quiet(g, refreshed)
  <2>1. \A p \in Outputs : /\ Sound(refresh(p)) /\ Calm(g.outputs[p], refresh(p))
                           /\ refresh(p) \in Output
    <3> TAKE p \in Outputs
    <3>1. out(p) \in Output /\ Sound(out(p)) /\ out(p) = g.outputs[p]
      BY OutIsSound
    <3>2. g.exit_requested \in BOOLEAN
      BY <1>1 DEF State
    <3> QED BY <1>5, <3>1, <3>2, FreezeframeRefreshSound, FreezeframeRefreshFollows
  <2> HIDE DEF refresh
  <2>2. /\ outputs \in [Outputs -> Output]
        /\ \A p \in Outputs : Sound(outputs[p]) /\ Calm(g.outputs[p], outputs[p])
    BY <2>1
  <2> HIDE DEF outputs
  <2> QED BY <1>1, <2>2, OutputsSound
<1> HIDE DEF hidden, refreshed
<1> QED BY <1>1, <1>2, <1>3, <1>4, <1>5, QuietReflexive, QuietIsAlmostQuiet DEF StepIsSound

LEMMA KeyImageSound ==
  ASSUME SoundInv, NEW o \in Outputs, NEW shift \in BOOLEAN, NEW ok \in BOOLEAN,
         KeyImage(o, shift, ok)
  PROVE  StepIsSound
<1>1. g \in State /\ SoundState(g)
  BY DEF SoundInv, TypeOK
<1>2. \E after \in BOOLEAN : \/ g' = ImageStartFullscreen(g, o, after, ok)
                             \/ g' = ImageStart(g, o, after)
  <2> DEFINE recording == out(o).video_stage = "CAPTURING"
                            \/ out(o).video_stage = "FULLSCREEN_START_PENDING"
             after == ~recording /\ ~shift
  <2>1. after \in BOOLEAN
    OBVIOUS
  <2>2. g' = ImageStartFullscreen(g, o, after, ok) \/ g' = ImageStart(g, o, after)
    BY DEF KeyImage, KeyPressed
  <2> QED BY <2>1, <2>2
<1>3. SoundState(g') /\ Quiet(g, g')
  BY <1>1, <1>2, ImageStartFullscreenSound, ImageStartSound
<1> QED BY <1>3, QuietIsAlmostQuiet DEF StepIsSound

\* A surface whose selection is made, moved or resized has had its first content.
LEMMA SelectedIsMapped ==
  ASSUME SoundInv, NEW o \in Outputs, out(o).selection # "NONE"
  PROVE  ~g.outputs[o].freezeframe.startup
  BY OutIsSound DEF Sound, Steady, Balanced, StartsEmpty

LEMMA StopRequestedSound ==
  ASSUME SoundInv, NEW o \in Outputs, VideoIsLive(out(o))
  PROVE  LET t == Put(g, o, VideoRequestStop(out(o)))
         IN SoundState(t) /\ Quiet(g, t)
<1>1. out(o) \in Output /\ Sound(out(o))
  BY OutIsSound
<1>2. /\ Sound(VideoRequestStop(out(o))) /\ Calm(out(o), VideoRequestStop(out(o)))
      /\ VideoRequestStop(out(o)) \in Output
  <2> DEFINE x == out(o)
  <2> HIDE DEF x
  <2> SUFFICES ASSUME x \in Output, Sound(x), VideoIsLive(x)
               PROVE  /\ Sound(VideoRequestStop(x)) /\ Calm(x, VideoRequestStop(x))
                      /\ VideoRequestStop(x) \in Output
    BY <1>1 DEF x
  <2> QED BY VideoRequestStopSound, VideoRequestStopFollows DEF Follows
<1> QED BY <1>2, OutReplaced

LEMMA VideoOfSelectionSound ==
  ASSUME SoundInv, NEW o \in Outputs, NEW ok \in BOOLEAN,
         out(o).video_stage = "NONE", out(o).selection # "NONE"
  PROVE  LET selected == IF out(o).selection = "INITIALIZING"
                           THEN SelectionSetInitialized(g, o) ELSE g
             t == VideoStart(selected, o, ok)
         IN SoundState(t) /\ Quiet(g, t)
<1> DEFINE t == SelectionSetInitialized(g, o)
<1>1. g \in State /\ SoundState(g) /\ out(o) = g.outputs[o]
  BY OutIsSound
<1>2. CASE out(o).selection = "INITIALIZING"
  <2>1. ~g.outputs[o].freezeframe.startup
    BY <1>2, SelectedIsMapped
  <2>2. g.outputs[o].selection = "INITIALIZING" /\ g.outputs[o].video_stage = "NONE"
    BY <1>1, <1>2
  <2>3. /\ SoundState(t) /\ Quiet(g, t) /\ t \in State
        /\ t.outputs[o].selection = "COMPLETE" /\ t.outputs[o].video_stage = "NONE"
    BY <1>1, <2>1, <2>2, SelectionSetInitializedSound
  <2> HIDE DEF t
  <2>4. SoundState(VideoStart(t, o, ok)) /\ Quiet(t, VideoStart(t, o, ok))
    BY <2>3, VideoStartSound
  <2>5. SoundState(VideoStart(t, o, ok)) /\ Quiet(g, VideoStart(t, o, ok))
    BY <2>3, <2>4, QuietTransitive
  <2> QED BY <1>2, <2>5 DEF t
<1>3. CASE out(o).selection # "INITIALIZING"
  BY <1>1, <1>3, VideoStartSound
<1> QED BY <1>2, <1>3

LEMMA KeyVideoSound ==
  ASSUME SoundInv, NEW o \in Outputs, NEW ok \in BOOLEAN, KeyVideo(o, ok)
  PROVE  StepIsSound
<1> DEFINE x == out(o)
           selected == IF x.selection = "INITIALIZING" THEN SelectionSetInitialized(g, o) ELSE g
<1>1. g \in State /\ SoundState(g) /\ out(o) = g.outputs[o]
  BY OutIsSound
<1>2. g' = CASE x.video_stage = "NONE" /\ x.selection = "NONE" -> VideoStartFullscreen(g, o, ok)
              [] x.video_stage = "NONE" /\ x.selection # "NONE" -> VideoStart(selected, o, ok)
              [] x.video_stage = "CAPTURING" -> Put(g, o, VideoRequestStop(x))
              [] OTHER -> g
  BY DEF KeyVideo, KeyPressed
<1>3. ASSUME x.video_stage = "NONE", x.selection = "NONE"
      PROVE  SoundState(g') /\ Quiet(g, g')
  BY <1>1, <1>2, <1>3, VideoStartFullscreenSound
<1>4. ASSUME x.video_stage = "NONE", x.selection # "NONE"
      PROVE  SoundState(g') /\ Quiet(g, g')
  BY <1>2, <1>4, VideoOfSelectionSound
<1>5. ASSUME x.video_stage = "CAPTURING"
      PROVE  SoundState(g') /\ Quiet(g, g')
  BY <1>2, <1>5, StopRequestedSound DEF VideoIsLive
<1>6. ASSUME x.video_stage # "NONE", x.video_stage # "CAPTURING"
      PROVE  SoundState(g') /\ Quiet(g, g')
  <2>1. g' = g
    BY <1>2, <1>6
  <2> QED BY <1>1, <2>1, QuietReflexive
<1>7. SoundState(g') /\ Quiet(g, g')
  BY <1>3, <1>4, <1>5, <1>6
<1> QED BY <1>7, QuietIsAlmostQuiet DEF StepIsSound

LEMMA KeyEscapeSound ==
  ASSUME SoundInv, NEW o \in Outputs \cup {NoOutput}, KeyEscape(o)
  PROVE  StepIsSound
<1>1. g \in State /\ SoundState(g)
  BY DEF SoundInv, TypeOK
<1>2. o = NoOutput <=> o \notin Outputs
  BY ScranOptions
<1>3. \/ g' = g
      \/ o \in Outputs /\ out(o).video_stage = "CAPTURING" /\ g' = Put(g, o, VideoRequestStop(out(o)))
      \/ g' = RequestExit(g)
  BY <1>2 DEF KeyEscape
<1>4. SoundState(g') /\ Quiet(g, g')
  BY <1>1, <1>3, QuietReflexive, StopRequestedSound, RequestExitSound DEF VideoIsLive
<1> QED BY <1>4, QuietIsAlmostQuiet DEF StepIsSound

LEMMA KeyTabSound ==
  ASSUME SoundInv, KeyTab
  PROVE  StepIsSound
  BY FreezeframesHiddenSound, QuietIsAlmostQuiet DEF KeyTab, StepIsSound

(* The pointer                                                             *)

LEMMA PointerFocusSound ==
  ASSUME SoundInv, NEW o \in Outputs \cup {NoOutput}, PointerFocus(o)
  PROVE  StepIsSound
  BY QuietReflexive, QuietIsAlmostQuiet DEF SoundInv, PointerFocus, StepIsSound

\* A size that is frozen is that of no selection that follows the pointer.
LEMMA PointerMotionSound ==
  ASSUME SoundInv, PointerMotion
  PROVE  StepIsSound
<1> DEFINE o == seat.focus
           holds == out(o).selection # "REBASING" => ~out(o).size_is_frozen
           x == Check(out(o), holds, "pointer.c:75,135")
<1>1. o \in Outputs
  BY DEF SoundInv, TypeOK, Seat, PointerMotion
<1>2. /\ g' = Put(g, o, RequestFrameCallback(x))
      /\ \/ out(o).selection = "INITIALIZING" \/ out(o).selection = "REBASING"
         \/ out(o).selection = "RESIZING"
  BY DEF PointerMotion
<1>3. Sound(out(o)) /\ out(o) \in Output
  BY <1>1, OutIsSound
<1>4. holds
  BY <1>2, <1>3 DEF Sound, SizeIsFixed, Output
<1>5. x = out(o)
  BY <1>4 DEF Check
<1> HIDE DEF x
<1> QED BY <1>1, <1>2, <1>5, FrameCallbackSound, QuietIsAlmostQuiet DEF StepIsSound

\* Nothing that is sound of an output depends on the assertions that failed.
LEMMA AssertsReplaced ==
  ASSUME NEW x \in Output, NEW asserts \in SUBSET Assertions, Sound(x)
  PROVE  LET y == [x EXCEPT !.failed_asserts = asserts]
         IN /\ y \in Output /\ Sound(y)
            /\ y.failed_asserts = asserts
            /\ y.frame = x.frame /\ y.video_stage = x.video_stage
            /\ y.freezeframe = x.freezeframe
            /\ SlurpIsNoCapture(x) => SlurpIsNoCapture(y)
            /\ y.selection = x.selection
<1> DEFINE y == [x EXCEPT !.failed_asserts = asserts]
<1>1. /\ y \in Output
      /\ y.surface = x.surface /\ y.frame = x.frame /\ y.freezeframe = x.freezeframe
      /\ y.active = x.active /\ y.awaiting_ui = x.awaiting_ui /\ y.ui = x.ui
      /\ y.video_stage = x.video_stage /\ y.captures = x.captures
      /\ y.selection = x.selection /\ y.size_is_frozen = x.size_is_frozen
      /\ y.failed_asserts = asserts
  BY DEF Output
<1> HIDE DEF y
<1>2. Steady(y)
  BY ZenonT(30), <1>1 DEF Sound, Steady, Balanced, UiIsGone, HideIsAnswered, Counted, FrameIsShared,
     StartsEmpty, ConsumersAreReal, AllConsumers, VideoIsLive
<1>3. UiIsChanging(y) /\ SizeIsFixed(y)
  BY <1>1 DEF Sound, UiIsChanging, SizeIsFixed, AllConsumers
<1>4. SlurpIsNoCapture(x) => SlurpIsNoCapture(y)
  BY <1>1 DEF SlurpIsNoCapture, AllConsumers
<1> QED BY <1>1, <1>2, <1>3, <1>4 DEF Sound, y

\* A second button that is pressed with -p makes an assertion fail, and nothing else.
LEMMA ButtonChecked ==
  ASSUME SoundInv, NEW o \in Outputs
  PROVE  LET t == Put(g, o, Check(out(o), UsePressesOnly => g.active_button = "NONE",
                                  "pointer.c:218"))
         IN /\ t \in State /\ SoundState(t) /\ AlmostQuiet(g, t)
            /\ t.outputs[o].freezeframe = out(o).freezeframe
            /\ t.active_button = g.active_button
<1> DEFINE x == out(o)
           holds == UsePressesOnly => g.active_button = "NONE"
           asserts == IF holds THEN x.failed_asserts ELSE x.failed_asserts \cup {"pointer.c:218"}
           y == [x EXCEPT !.failed_asserts = asserts]
           t == Put(g, o, y)
<1>1. g \in State /\ x = g.outputs[o] /\ x \in Output /\ Sound(x) /\ SlurpIsNoCapture(x)
  BY OutIsSound
<1>a. SoundState(g)
  BY DEF SoundInv
<1> HIDE DEF x
<1>2. asserts \in SUBSET Assertions /\ asserts \subseteq x.failed_asserts \cup MayFail
  BY <1>1, ScranOptions DEF Output, Assertions, MayFail
<1>3. y = Check(x, holds, "pointer.c:218")
  BY <1>1 DEF Check, Output
<1> HIDE DEF asserts
<1>4. /\ y \in Output /\ Sound(y) /\ SlurpIsNoCapture(y)
      /\ y.failed_asserts = asserts /\ y.frame = x.frame /\ y.video_stage = x.video_stage
      /\ y.freezeframe = x.freezeframe
  BY <1>1, <1>2, AssertsReplaced
<1> HIDE DEF y, holds
<1>5. /\ t \in State /\ t.outputs[o] = y
      /\ \A p \in Outputs \ {o} : t.outputs[p] = g.outputs[p]
      /\ t.stdout = g.stdout /\ t.active_button = g.active_button
  BY <1>1, <1>4, PutValues, PutStdout
<1> HIDE DEF t
<1>6. \A p \in Outputs, purpose \in {"IMAGE", "VIDEO"} :
        Capturing(t.outputs[p], purpose) <=> Capturing(g.outputs[p], purpose)
  BY <1>1, <1>4, <1>5 DEF Capturing, VideoIsLive
<1>7. StdoutIsOwned(t)
  BY <1>a, <1>1, <1>5, <1>6, StdoutKept DEF SoundState, OthersSound
<1>8. SoundState(t)
  BY <1>a, <1>4, <1>5, <1>7 DEF SoundState, OthersSound
<1>9. AlmostQuiet(g, t)
  BY <1>1, <1>2, <1>4, <1>5 DEF AlmostQuiet
<1>10. t.outputs[o].freezeframe = x.freezeframe
  BY <1>4, <1>5
<1>11. t = Put(g, o, Check(x, holds, "pointer.c:218"))
  BY <1>3 DEF t
<1> QED BY <1>5, <1>8, <1>9, <1>10, <1>11 DEF x, holds

LEMMA ButtonLeftSound ==
  ASSUME NEW s \in State, NEW o \in Outputs, SoundState(s), ~s.outputs[o].freezeframe.startup
  PROVE  LET t == ButtonLeft(s, o)
         IN SoundState(t) /\ Quiet(s, t)
<1> DEFINE x == s.outputs[o]
           y == Check(x, ~x.size_is_frozen, "pointer.c:274,305")
           become(state) == Put(s, o, [x EXCEPT !.selection = state])
           begun == [x EXCEPT !.selection = "INITIALIZING"]
           t == ButtonLeft(s, o)
<1>1. /\ x \in Output /\ Sound(x) /\ SlurpIsNoCapture(x) /\ x.selection \in SelectionStates
      /\ OthersSound(s, Outputs \ {o})
  BY OutputOfState DEF SoundState, OthersSound, Output
<1>2. ASSUME NEW state \in SelectionStates,
             x.size_is_frozen => state # "INITIALIZING" /\ state # "RESIZING"
      PROVE  SoundState(become(state)) /\ Quiet(s, become(state))
  BY <1>2, SelectionReplacedSound
<1>3. x.selection = "INITIALIZING" \/ x.selection = "RESIZING"
        => ~x.size_is_frozen /\ y = x /\ Put(s, o, y) = s
  BY <1>1, PutSame DEF Sound, SizeIsFixed, Check
<1>4. ASSUME x.selection = "NONE", x.size_is_frozen
      PROVE  t = s
  BY <1>4 DEF ButtonLeft
<1>5. ASSUME x.selection = "NONE", ~x.size_is_frozen
      PROVE  SoundState(t) /\ Quiet(s, t)
  <2>1. t = Put(s, o, RequestFrameCallback(begun))
    BY <1>5 DEF ButtonLeft
  <2> HIDE DEF t, x
  <2>2. /\ begun \in Output /\ Sound(begun) /\ SlurpIsNoCapture(begun)
        /\ SameCaptures(x, begun)
    BY <1>1, <1>5, SelectionReplaced DEF SelectionStates, x
  <2> HIDE DEF begun
  <2> DEFINE z == RequestFrameCallback(begun)
  <2>3. z \in Output /\ Sound(z) /\ Calm(begun, z)
    BY <2>2, DrawingUiMoves, UiMovesSound DEF UiMoves, Follows
  <2> HIDE DEF z
  <2>4. SameCaptures(begun, z) /\ SlurpIsNoCapture(z)
    BY <2>2, <2>3, CalmSameCaptures
  <2>5. SameCaptures(x, z)
    BY <2>2, <2>4 DEF SameCaptures
  <2>6. SoundState(Put(s, o, z)) /\ Quiet(s, Put(s, o, z))
    BY <1>1, <2>3, <2>4, <2>5, PutReplacesSound DEF x
  <2> QED BY <2>1, <2>6 DEF z
<1>6. ASSUME x.selection = "INITIALIZING"
      PROVE  SoundState(t) /\ Quiet(s, t)
  BY <1>3, <1>6, SelectionSetInitializedSound DEF ButtonLeft
<1>7. ASSUME x.selection = "COMPLETE"
      PROVE  t = become("REBASING")
  BY <1>7 DEF ButtonLeft
<1>8. ASSUME x.selection = "REBASING"
      PROVE  t = become("COMPLETE")
  BY <1>8 DEF ButtonLeft
<1>9. ASSUME x.selection = "RESIZING"
      PROVE  t = s
  BY <1>3, <1>9 DEF ButtonLeft
<1>10. /\ SoundState(become("REBASING")) /\ Quiet(s, become("REBASING"))
       /\ SoundState(become("COMPLETE")) /\ Quiet(s, become("COMPLETE"))
  BY <1>2 DEF SelectionStates
<1>11. \/ x.selection = "NONE" \/ x.selection = "INITIALIZING" \/ x.selection = "COMPLETE"
       \/ x.selection = "REBASING" \/ x.selection = "RESIZING"
  BY <1>1 DEF SelectionStates
<1> HIDE DEF t, become, x
<1>12. SoundState(t) /\ Quiet(s, t)
  BY <1>4, <1>5, <1>6, <1>7, <1>8, <1>9, <1>10, <1>11, QuietReflexive
<1> QED BY <1>12 DEF t

LEMMA ButtonRightSound ==
  ASSUME NEW s \in State, NEW o \in Outputs, SoundState(s), ~s.outputs[o].freezeframe.startup
  PROVE  LET t == ButtonRight(s, o)
         IN SoundState(t) /\ Quiet(s, t)
<1> DEFINE x == s.outputs[o]
           y == Check(x, ~x.size_is_frozen, "pointer.c:340")
           become(state) == Put(s, o, [x EXCEPT !.selection = state])
           dropped == [s EXCEPT !.active_button = "NONE"]
           t == ButtonRight(s, o)
<1>1. x \in Output /\ Sound(x)
  BY OutputOfState DEF SoundState, OthersSound
<1>2. ASSUME NEW state \in SelectionStates,
             x.size_is_frozen => state # "INITIALIZING" /\ state # "RESIZING"
      PROVE  SoundState(become(state)) /\ Quiet(s, become(state))
  BY <1>2, SelectionReplacedSound
<1>3. ASSUME x.selection = "COMPLETE", ~x.size_is_frozen
      PROVE  t = become("RESIZING") /\ SoundState(become("RESIZING")) /\ Quiet(s, become("RESIZING"))
  BY <1>2, <1>3 DEF ButtonRight, SelectionStates
<1>4. ASSUME x.selection = "RESIZING"
      PROVE  t = become("COMPLETE") /\ SoundState(become("COMPLETE")) /\ Quiet(s, become("COMPLETE"))
  BY <1>1, <1>2, <1>4 DEF Sound, SizeIsFixed, Check, ButtonRight, SelectionStates
<1>5. ASSUME x.selection # "RESIZING", ~(x.selection = "COMPLETE" /\ ~x.size_is_frozen)
      PROVE  t = dropped
  BY <1>5 DEF ButtonRight
<1>6. SoundState(dropped) /\ Quiet(s, dropped)
  BY ButtonDropped, RestIsFree
<1> HIDE DEF t, become, x, dropped
<1>7. SoundState(t) /\ Quiet(s, t)
  BY <1>3, <1>4, <1>5, <1>6
<1> QED BY <1>7 DEF t

LEMMA AlmostQuietThenQuiet ==
  ASSUME NEW s, NEW t, NEW u, AlmostQuiet(s, t), Quiet(t, u)
  PROVE  AlmostQuiet(s, u)
  BY DEF AlmostQuiet, Quiet

LEMMA PointerButtonSound ==
  ASSUME SoundInv, NEW button \in PointerButtons, NEW pressed \in BOOLEAN,
         PointerButton(button, pressed)
  PROVE  StepIsSound
<1> DEFINE o == seat.focus
           checked == Put(g, o, Check(out(o), UsePressesOnly => g.active_button = "NONE",
                                      "pointer.c:218"))
           holding == IF checked.active_button = "NONE" THEN button ELSE "NONE"
           taken == [checked EXCEPT !.active_button = holding]
<1>1. o \in Outputs /\ ~g.outputs[o].freezeframe.startup
  BY DEF SoundInv, TypeOK, Seat, PointerButton, FocusIsMapped, Mapped, out
<1>2. /\ checked \in State /\ SoundState(checked) /\ AlmostQuiet(g, checked)
      /\ checked.outputs[o].freezeframe = out(o).freezeframe
      /\ checked.active_button = g.active_button
  BY <1>1, ButtonChecked
<1>3. \/ g' = checked
      \/ g' = ButtonLeft(taken, o)
      \/ g' = ButtonRight(taken, o)
  BY <1>2 DEF State, PointerButton
<1> HIDE DEF checked
<1>a. holding \in PointerButtons \cup {"NONE"}
  OBVIOUS
<1> HIDE DEF holding
<1>4. /\ taken \in State /\ taken.outputs = checked.outputs /\ taken.stdout = checked.stdout
  BY <1>2, <1>a, ButtonDropped
<1> HIDE DEF taken
<1>5. SoundState(taken) /\ Quiet(checked, taken)
  BY <1>2, <1>4, RestIsFree
<1>6. ~taken.outputs[o].freezeframe.startup
  BY <1>1, <1>2, <1>4 DEF out
<1>7. AlmostQuiet(g, taken)
  BY <1>2, <1>5, AlmostQuietThenQuiet
<1>8. /\ SoundState(ButtonLeft(taken, o)) /\ Quiet(taken, ButtonLeft(taken, o))
      /\ SoundState(ButtonRight(taken, o)) /\ Quiet(taken, ButtonRight(taken, o))
  BY <1>1, <1>4, <1>5, <1>6, ButtonLeftSound, ButtonRightSound
<1>9. /\ AlmostQuiet(g, ButtonLeft(taken, o)) /\ AlmostQuiet(g, ButtonRight(taken, o))
  BY <1>7, <1>8, AlmostQuietThenQuiet
<1> QED BY <1>2, <1>3, <1>8, <1>9 DEF StepIsSound

(* The compositor                                                          *)

LEMMA InitSelectionSound ==
  ASSUME SoundInv, NEW o \in Outputs, InitSelection(o)
  PROVE  StepIsSound
<1> DEFINE t == [g EXCEPT !.outputs[o].freezeframe.startup = FALSE]
<1>1. g \in State /\ SoundState(g) /\ g.outputs[o].freezeframe.startup
  BY OutIsSound DEF InitSelection, Mapped
<1>2. g' = InitSelectionSurfaceContent(t, o)
  BY DEF InitSelection
<1>3. /\ t \in State /\ SoundState(t) /\ Quiet(g, t)
      /\ ~t.outputs[o].freezeframe.startup /\ t.outputs[o].selection = "NONE"
      /\ BothBusy(t.outputs[o].surface)
  BY <1>1, MappedSound
<1> HIDE DEF t
<1>4. SoundState(g') /\ Quiet(t, g')
  BY <1>2, <1>3, InitSelectionSurfaceContentSound
<1> QED BY <1>3, <1>4, QuietTransitive, QuietIsAlmostQuiet DEF StepIsSound

LEMMA FrameCallbackEventSound ==
  ASSUME SoundInv, NEW o \in Outputs, FrameCallback(o)
  PROVE  StepIsSound
<1> DEFINE x == out(o)
           surface == FrameCallbackDone(x.surface, DrawsFullscreenCapture(x))
           y == [x EXCEPT !.surface = surface]
<1>1. x \in Output /\ Sound(x)
  BY OutIsSound
<1>2. g' = Put(g, o, y)
  BY DEF FrameCallback, Event
<1> HIDE DEF x
<1>3. x.surface \in Surface /\ DrawsFullscreenCapture(x) \in BOOLEAN
  BY <1>1, DrawsFullscreenCaptureType DEF Output
<1>4. /\ Keeps(x.surface, surface) /\ SameHides(x.surface, surface)
      /\ StaysBusy(x.surface, surface)
  BY <1>3, FrameCallbackDoneKeeps, SurfaceEventHides
<1> HIDE DEF surface
<1>5. UiMoves(x, y)
  BY <1>1, <1>4, SurfaceUiMoves
<1> HIDE DEF y
<1>6. Sound(y) /\ Calm(x, y) /\ y \in Output
  BY <1>1, <1>5, UiMovesSound DEF UiMoves, Follows
<1>7. SoundState(g') /\ Quiet(g, g')
  BY <1>2, <1>6, OutReplaced DEF x
<1> QED BY <1>7, QuietIsAlmostQuiet DEF StepIsSound

LEMMA SurfaceBufferReleaseSound ==
  ASSUME SoundInv, NEW o \in Outputs, NEW b \in Buffers, SurfaceBufferRelease(o, b)
  PROVE  StepIsSound
<1> DEFINE x == out(o)
           surface == BufferReleased(x.surface, b)
           y == [x EXCEPT !.surface = surface]
<1>1. x \in Output /\ Sound(x) /\ ~x.freezeframe.startup
  BY OutIsSound DEF SurfaceBufferRelease, Mapped
<1>2. g' = Put(g, o, y)
  BY DEF SurfaceBufferRelease, Event
<1> HIDE DEF x
<1>3. x.surface \in Surface
  BY <1>1 DEF Output
<1>4. Keeps(x.surface, surface) /\ SameHides(x.surface, surface)
  BY <1>3, BufferReleasedKeeps, SurfaceEventHides
<1> HIDE DEF surface
<1>5. Sound(y) /\ Calm(x, y) /\ y \in Output
  BY <1>1, <1>4, SurfaceReplaced
<1> HIDE DEF y
<1>6. SoundState(g') /\ Quiet(g, g')
  BY <1>2, <1>5, OutReplaced DEF x
<1> QED BY <1>6, QuietIsAlmostQuiet DEF StepIsSound

\* What the answer to a commit or a hide makes of the UI.
LEMMA UiAnswered ==
  ASSUME NEW x \in Output, NEW surface, NEW ui \in FullscreenUiStates, Sound(x),
         SlurpIsNoCapture(x), Keeps(x.surface, surface), StaysBusy(x.surface, surface),
         HideIsAnswered([x EXCEPT !.surface = surface, !.ui = ui]),
         ui = x.ui \/ (ui = "SHOWN" /\ x.ui = "SHOW_PENDING")
           \/ (ui = "HIDDEN" /\ x.ui = "HIDE_PENDING")
  PROVE  LET y == [x EXCEPT !.surface = surface, !.ui = ui]
         IN /\ y \in Output /\ Steady(y) /\ SizeIsFixed(y) /\ SlurpIsNoCapture(y)
            /\ SameCaptures(x, y)
            /\ ui = x.ui => Sound(y) /\ Calm(x, y)
<1> DEFINE y == [x EXCEPT !.surface = surface, !.ui = ui]
<1>1. /\ y \in Output
      /\ y.surface = surface /\ y.ui = ui
      /\ y.frame = x.frame /\ y.freezeframe = x.freezeframe
      /\ y.active = x.active /\ y.awaiting_ui = x.awaiting_ui
      /\ y.video_stage = x.video_stage /\ y.captures = x.captures
      /\ y.selection = x.selection /\ y.size_is_frozen = x.size_is_frozen
      /\ y.failed_asserts = x.failed_asserts
  BY DEF Output, Keeps
<1>2. HideIsAnswered(y)
  OBVIOUS
<1> HIDE DEF y
<1>3. UiIsGone(y)
  BY <1>1 DEF Sound, Steady, Balanced, UiIsGone, Keeps
<1>4. Balanced(y)
  BY <1>1, <1>2, <1>3 DEF Sound, Steady, Balanced, Counted, FrameIsShared,
     StartsEmpty, AllConsumers, VideoIsLive, StaysBusy
<1>5. Steady(y) /\ SizeIsFixed(y) /\ SlurpIsNoCapture(y)
  BY <1>1, <1>4 DEF Sound, Steady, ConsumersAreReal, SizeIsFixed, SlurpIsNoCapture,
     AllConsumers, VideoIsLive
<1>6. SameCaptures(x, y) /\ Calm(x, y)
  BY <1>1 DEF SameCaptures, Calm, AllConsumers, VideoIsLive
<1>7. ui = x.ui => UiIsChanging(y)
  BY <1>1 DEF Sound, UiIsChanging
<1> QED BY <1>1, <1>5, <1>6, <1>7 DEF Sound, y

LEMMA FeedbackValues ==
  ASSUME NEW x \in Output, x.surface.feedback # << >>, Sound(x)
  PROVE  /\ Keeps(x.surface, FeedbackDone(x.surface))
         /\ StaysBusy(x.surface, FeedbackDone(x.surface))
         /\ HideIsAnswered(x)
  BY FeedbackDoneKeeps, FeedbackDoneHides DEF Output, Sound, Steady, Balanced

LEMMA AnsweredSound ==
  ASSUME SoundInv, NEW o \in Outputs, out(o).surface.feedback # << >>,
         Oldest(o) # HideFeedback
  PROVE  SoundState(Answered(o)) /\ Quiet(g, Answered(o))
<1> DEFINE x == out(o)
           surface == FeedbackDone(x.surface)
           y == [x EXCEPT !.surface = surface]
           z == [x EXCEPT !.surface = surface, !.ui = x.ui]
<1>1. /\ x \in Output /\ Sound(x) /\ SlurpIsNoCapture(x)
      /\ x.surface.feedback # << >> /\ Head(x.surface.feedback) # HideFeedback
  BY OutIsSound DEF Oldest
<1> HIDE DEF x
<1>2. HideIsAnswered(y)
  BY <1>1, FeedbackDoneHides, FeedbackValues
<1>3. y = z /\ x.ui \in FullscreenUiStates
  BY <1>1 DEF Output
<1>4. Keeps(x.surface, surface) /\ StaysBusy(x.surface, surface)
  BY <1>1, FeedbackValues
<1> HIDE DEF surface
<1>5. z \in Output /\ Sound(z) /\ Calm(x, z)
  BY <1>1, <1>2, <1>3, <1>4, UiAnswered
<1>6. y \in Output /\ Sound(y) /\ Calm(x, y)
  BY <1>3, <1>5
<1> HIDE DEF y
<1>7. SoundState(Put(g, o, y)) /\ Quiet(g, Put(g, o, y))
  BY <1>6, OutReplaced DEF x
<1> QED BY <1>7 DEF Answered, y, x, surface

LEMMA SelectionDiscardedSound ==
  ASSUME SoundInv, NEW o \in Outputs, SelectionDiscarded(o)
  PROVE  StepIsSound
  BY AnsweredSound, QuietIsAlmostQuiet DEF SelectionDiscarded, Event, StepIsSound

LEMMA SelectionPresentedSound ==
  ASSUME SoundInv, NEW o \in Outputs, NEW ok \in BOOLEAN, SelectionPresented(o, ok)
  PROVE  StepIsSound
<1> DEFINE x == out(o)
           surface == FeedbackDone(x.surface)
           y == [x EXCEPT !.surface = surface]
           z == [x EXCEPT !.surface = surface, !.ui = "SHOWN"]
<1>1. /\ g \in State /\ OthersSound(g, Outputs \ {o}) /\ x = g.outputs[o]
      /\ x \in Output /\ Sound(x) /\ SlurpIsNoCapture(x)
      /\ x.surface.feedback # << >> /\ Head(x.surface.feedback) # HideFeedback
  BY OutIsSound DEF SelectionPresented, Oldest
<1>2. Oldest(o) # HideFeedback /\ out(o).surface.feedback # << >>
  BY DEF SelectionPresented
<1>3. \/ g' = Answered(o)
      \/ /\ x.ui = "SHOW_PENDING"
         /\ g' = SyncUiAndDispatch([Answered(o) EXCEPT !.outputs[o].ui = "SHOWN"], o, ok)
  BY DEF SelectionPresented, Event
<1>4. ASSUME g' = Answered(o)
      PROVE  StepIsSound
  BY <1>2, <1>4, AnsweredSound, QuietIsAlmostQuiet DEF StepIsSound
<1>5. ASSUME x.ui = "SHOW_PENDING",
             g' = SyncUiAndDispatch([Answered(o) EXCEPT !.outputs[o].ui = "SHOWN"], o, ok)
      PROVE  StepIsSound
  <2>1. [Answered(o) EXCEPT !.outputs[o].ui = "SHOWN"] = Put(g, o, z)
    BY <1>1 DEF Answered, Put, State, Output
  <2>2. g' = SyncUiAndDispatch(Put(g, o, z), o, ok)
    BY <1>5, <2>1
  <2> HIDE DEF x
  <2>3. Keeps(x.surface, surface) /\ StaysBusy(x.surface, surface) /\ HideIsAnswered(y)
    BY <1>1, FeedbackValues, FeedbackDoneHides
  <2> HIDE DEF surface
  <2>4. HideIsAnswered(z)
    <3>1. y.surface = surface /\ y.ui = x.ui /\ z.surface = surface /\ z.ui = "SHOWN"
      BY <1>1 DEF Output
    <3> HIDE DEF y, z
    <3> QED BY <1>5, <2>3, <3>1 DEF HideIsAnswered
  <2>5. /\ z \in Output /\ Steady(z) /\ SizeIsFixed(z) /\ SlurpIsNoCapture(z)
        /\ SameCaptures(x, z)
    BY <1>1, <1>5, <2>3, <2>4, UiAnswered DEF FullscreenUiStates
  <2> HIDE DEF z
  <2>6. SoundState(g') /\ Quiet(g, g')
    BY <1>1, <2>2, <2>5, ChangedAndSyncedSound
  <2> QED BY <2>6, QuietIsAlmostQuiet DEF StepIsSound
<1> QED BY <1>3, <1>4, <1>5

\* The answer to a hide finds the output hiding, so no assertion fails.
LEMMA HidePresentedSound ==
  ASSUME SoundInv, NEW o \in Outputs, NEW ok \in BOOLEAN, HidePresented(o, ok)
  PROVE  StepIsSound
<1> DEFINE x == out(o)
           c == Check(x, "FULLSCREEN_HIDE" \in x.surface.disabled,
                      "transparent-selection-capture.c:15")
           d == Check(c, x.ui = "HIDE_PENDING", "transparent-selection-capture.c:26")
           surface == FeedbackDone(x.surface)
           y == [x EXCEPT !.surface = surface]
           z == [x EXCEPT !.surface = surface, !.ui = "HIDDEN"]
           hidden == [d EXCEPT !.surface = FeedbackDone(@),
                               !.ui = IF @ = "HIDE_PENDING" THEN "HIDDEN" ELSE @]
<1>1. /\ g \in State /\ OthersSound(g, Outputs \ {o}) /\ x = g.outputs[o]
      /\ x \in Output /\ Sound(x) /\ SlurpIsNoCapture(x)
      /\ x.surface.feedback # << >> /\ Head(x.surface.feedback) = HideFeedback
  BY OutIsSound DEF HidePresented, Oldest
<1>2. g' = SyncUiAndDispatch(Put(g, o, hidden), o, ok)
  BY DEF HidePresented, Event
<1> HIDE DEF x
<1>3. /\ x.ui = "HIDE_PENDING" /\ HideIsAnswered([y EXCEPT !.ui = "HIDDEN"])
      /\ HideIsAnswered(x)
      /\ Keeps(x.surface, surface) /\ StaysBusy(x.surface, surface)
  BY <1>1, FeedbackDoneHides, FeedbackValues
<1>4. d = x
  BY <1>3 DEF HideIsAnswered, Check
<1>5. hidden = z /\ [y EXCEPT !.ui = "HIDDEN"] = z
  <2> HIDE DEF d
  <2> QED BY <1>1, <1>3, <1>4 DEF Output
<1> HIDE DEF hidden, surface
<1>6. /\ z \in Output /\ Steady(z) /\ SizeIsFixed(z) /\ SlurpIsNoCapture(z)
      /\ SameCaptures(x, z)
  BY <1>1, <1>3, <1>5, UiAnswered DEF FullscreenUiStates
<1> HIDE DEF z
<1>7. SoundState(g') /\ Quiet(g, g')
  BY <1>1, <1>2, <1>5, <1>6, ChangedAndSyncedSound
<1> QED BY <1>7, QuietIsAlmostQuiet DEF StepIsSound

(* A frame that is answered                                                *)

LEMMA FrameTaken ==
  ASSUME NEW x \in Output, NEW y, Sound(x), SlurpIsNoCapture(x), SameButFrame(x, y)
  PROVE  SoundButFrame(y, x.frame.consumers)
<1>1. /\ UiIsGone(y) /\ HideIsAnswered(y) /\ UiIsChanging(y)
      /\ StartsEmpty(y) /\ FreezeframeIsServed(y.freezeframe)
      /\ SizeIsFixed(y) /\ SlurpIsNoCapture(y)
  BY DEF SameButFrame, Sound, Steady, Balanced, UiIsGone, HideIsAnswered, UiIsChanging,
     StartsEmpty, SizeIsFixed, SlurpIsNoCapture, AllConsumers
<1>2. y.captures = Count(AllConsumers(y) # {}) + Count("IMAGE" \in x.frame.consumers)
                     + Count("VIDEO" \in x.frame.consumers)
  BY DEF SameButFrame, Sound, Steady, Balanced, Counted, FrameIsShared, AllConsumers, Count,
     VideoIsLive
<1> QED BY <1>1, <1>2 DEF SoundButFrame, SameButFrame, Sound, Steady, Balanced,
           FrameIsShared, ConsumersAreReal, VideoIsLive

\* A frame for what is still being captured makes the output sound again.
LEMMA FrameServes ==
  ASSUME NEW x, NEW y, NEW captured \in SUBSET {"IMAGE", "VIDEO"},
         SoundButFrame(x, captured), SameButFrame(x, y),
         y.frame.consumers = captured, y.frame.in_flight <=> captured # {}
  PROVE  Sound(y) /\ SlurpIsNoCapture(y)
<1>1. /\ UiIsGone(y) /\ HideIsAnswered(y) /\ UiIsChanging(y)
      /\ StartsEmpty(y) /\ FreezeframeIsServed(y.freezeframe)
      /\ SizeIsFixed(y) /\ SlurpIsNoCapture(y)
  BY DEF SameButFrame, SoundButFrame, UiIsGone, HideIsAnswered, UiIsChanging,
     StartsEmpty, SizeIsFixed, SlurpIsNoCapture, AllConsumers
<1>2. Counted(y)
  BY DEF SameButFrame, SoundButFrame, Counted, AllConsumers, Count, VideoIsLive
<1>3. FrameIsShared(y) /\ ConsumersAreReal(y)
  BY DEF SameButFrame, SoundButFrame, FrameIsShared, ConsumersAreReal, VideoIsLive
<1> QED BY <1>1, <1>2, <1>3 DEF Sound, Steady, Balanced

\* A capture that ends is in progress no more.
LEMMA CaptureEnds ==
  ASSUME NEW x, NEW y, NEW captured \in SUBSET {"IMAGE", "VIDEO"},
         NEW consumer \in captured,
         SoundButFrame(x, captured), EndsCapture(x, y, consumer), StageEnds(x, y, consumer)
  PROVE  SoundButFrame(y, captured \ {consumer})
<1>1. consumer = "IMAGE" \/ consumer = "VIDEO"
  OBVIOUS
<1>2. /\ UiIsGone(y) /\ HideIsAnswered(y) /\ UiIsChanging(y)
      /\ StartsEmpty(y) /\ FreezeframeIsServed(y.freezeframe)
      /\ SlurpIsNoCapture(y)
  BY DEF EndsCapture, SoundButFrame, StartsEmpty, StaysBusy, SlurpIsNoCapture, AllConsumers
<1>3. SizeIsFixed(y)
  BY <1>1 DEF EndsCapture, StageEnds, SoundButFrame, SizeIsFixed
<1>4. y.captures = Count(AllConsumers(y) # {}) + Count("IMAGE" \in captured \ {consumer})
                     + Count("VIDEO" \in captured \ {consumer})
  BY <1>1 DEF EndsCapture, AllConsumers, SoundButFrame, Count
<1>5. VideoIsLive(y) <=> "VIDEO" \in captured \ {consumer}
  BY <1>1 DEF EndsCapture, StageEnds, SoundButFrame, VideoIsLive
<1>6. /\ y \in Output
      /\ y.active \cap y.awaiting_ui = {}
      /\ "VIDEO" \in y.active => "VIDEO" \in captured \ {consumer}
      /\ "IMAGE" \in y.active => "IMAGE" \in captured \ {consumer}
      /\ "FREEZEFRAME" \in y.awaiting_ui => y.freezeframe.stage = "REFRESHING"
      /\ "FREEZEFRAME" \in y.active => y.freezeframe.stage = "CAPTURING"
  BY <1>1 DEF EndsCapture, SoundButFrame
<1>7. "VIDEO" \in y.awaiting_ui => y.video_stage = "FULLSCREEN_START_PENDING"
  <2>1. ASSUME "VIDEO" \in y.awaiting_ui PROVE consumer # "VIDEO"
    BY <2>1 DEF EndsCapture, SoundButFrame, VideoIsLive
  <2> QED BY <1>1, <2>1 DEF EndsCapture, StageEnds, SoundButFrame
<1> QED BY <1>2, <1>3, <1>4, <1>5, <1>6, <1>7 DEF SoundButFrame

\* A frame that could not be written asks the recording to stop.
LEMMA WriteFailed ==
  ASSUME NEW x, NEW captured \in SUBSET {"IMAGE", "VIDEO"}, SoundButFrame(x, captured),
         "VIDEO" \in captured
  PROVE  LET y == [x EXCEPT !.video_stage = "STOP_REQUESTED"]
         IN /\ SoundButFrame(y, captured)
            /\ y.frame = x.frame /\ y.failed_asserts = x.failed_asserts
            /\ y.freezeframe = x.freezeframe
<1> DEFINE y == [x EXCEPT !.video_stage = "STOP_REQUESTED"]
<1>1. /\ y \in Output
      /\ y.surface = x.surface /\ y.frame = x.frame /\ y.freezeframe = x.freezeframe
      /\ y.active = x.active /\ y.awaiting_ui = x.awaiting_ui /\ y.ui = x.ui
      /\ y.video_stage = "STOP_REQUESTED" /\ y.captures = x.captures
      /\ y.selection = x.selection /\ y.size_is_frozen = x.size_is_frozen
      /\ y.failed_asserts = x.failed_asserts
  BY DEF SoundButFrame, Output, VideoStages
<1> HIDE DEF y
<1>2. /\ UiIsGone(y) /\ HideIsAnswered(y) /\ UiIsChanging(y)
      /\ StartsEmpty(y) /\ FreezeframeIsServed(y.freezeframe)
      /\ SlurpIsNoCapture(y)
  BY <1>1 DEF SoundButFrame, UiIsGone, HideIsAnswered, UiIsChanging, StartsEmpty,
     SlurpIsNoCapture, AllConsumers
<1>3. SizeIsFixed(y) /\ VideoIsLive(y) /\ "VIDEO" \notin x.awaiting_ui
  BY <1>1 DEF SoundButFrame, SizeIsFixed, VideoIsLive
<1>4. y.captures = Count(AllConsumers(y) # {}) + Count("IMAGE" \in captured)
                     + Count("VIDEO" \in captured)
  BY <1>1 DEF SoundButFrame, AllConsumers
<1>5. SoundButFrame(y, captured)
  BY <1>1, <1>2, <1>3, <1>4 DEF SoundButFrame
<1> QED BY <1>1, <1>5 DEF y

(* The state while a frame is answered                                     *)

LEMMA TakenIsSound ==
  ASSUME NEW s \in State, NEW o \in Outputs, NEW y, SoundState(s),
         SameButFrame(s.outputs[o], y)
  PROVE  SoundBut(Put(s, o, y), o, s.outputs[o].frame.consumers) /\ Quiet(s, Put(s, o, y))
<1> DEFINE t == Put(s, o, y)
           x == s.outputs[o]
<1>1. x \in Output /\ Sound(x) /\ SlurpIsNoCapture(x) /\ y \in Output
  BY OutputOfState DEF SoundState, OthersSound, SameButFrame
<1>2. /\ t \in State /\ t.outputs[o] = y /\ t.stdout = s.stdout
      /\ \A p \in Outputs \ {o} : t.outputs[p] = s.outputs[p]
  BY <1>1, PutValues, PutStdout
<1> HIDE DEF t
<1>3. SoundButFrame(y, x.frame.consumers)
  BY <1>1, FrameTaken
<1>4. \A purpose \in {"IMAGE", "VIDEO"} : purpose \in x.frame.consumers <=> Capturing(x, purpose)
  BY <1>1 DEF Capturing, Sound, Steady, Balanced, FrameIsShared
<1>5. \A p \in Outputs, purpose \in {"IMAGE", "VIDEO"} :
        ReservedFor(t, p, purpose) <=> ReservedFor(s, p, purpose)
  BY <1>2 DEF ReservedFor
<1>6. StdoutIsFree(t) <=> StdoutIsFree(s)
  BY <1>2 DEF StdoutIsFree
<1>7. SoundBut(t, o, x.frame.consumers)
  BY <1>2, <1>3, <1>4, <1>5, <1>6 DEF SoundBut, SoundState, OthersSound, StdoutIsOwned
<1>8. Quiet(s, t)
  BY <1>2 DEF Quiet, SameButFrame
<1> QED BY <1>7, <1>8 DEF t

LEMMA ServedIsSound ==
  ASSUME NEW s, NEW o \in Outputs, NEW y, NEW captured \in SUBSET {"IMAGE", "VIDEO"},
         SoundBut(s, o, captured), SameButFrame(s.outputs[o], y),
         y.frame.consumers = captured, y.frame.in_flight <=> captured # {}
  PROVE  SoundState(Put(s, o, y)) /\ Quiet(s, Put(s, o, y))
<1> DEFINE t == Put(s, o, y)
<1>1. /\ s \in State /\ y \in Output /\ Sound(y) /\ SlurpIsNoCapture(y)
  BY FrameServes DEF SoundBut, SameButFrame
<1>2. /\ t \in State /\ t.outputs[o] = y /\ t.stdout = s.stdout
      /\ \A p \in Outputs \ {o} : t.outputs[p] = s.outputs[p]
  BY <1>1, PutValues, PutStdout
<1> HIDE DEF t
<1>3. \A purpose \in {"IMAGE", "VIDEO"} : purpose \in captured <=> Capturing(y, purpose)
  BY <1>1 DEF Capturing, Sound, Steady, Balanced, FrameIsShared
<1>4. \A p \in Outputs, purpose \in {"IMAGE", "VIDEO"} :
        ReservedFor(t, p, purpose) <=> ReservedFor(s, p, purpose)
  BY <1>2 DEF ReservedFor
<1>5. StdoutIsFree(t) <=> StdoutIsFree(s)
  BY <1>2 DEF StdoutIsFree
<1>6. StdoutIsOwned(t)
  <2>1. ASSUME OutputToStdout, NEW p \in Outputs, NEW purpose \in {"IMAGE", "VIDEO"}
        PROVE  Capturing(t.outputs[p], purpose) <=> ReservedFor(t, p, purpose)
    <3>1. CASE p = o
      BY <1>2, <1>3, <1>4, <2>1, <3>1 DEF SoundBut
    <3>2. CASE p # o
      BY <1>2, <1>4, <2>1, <3>2 DEF SoundBut
    <3> QED BY <3>1, <3>2
  <2> QED BY <1>5, <2>1 DEF SoundBut, StdoutIsOwned
<1>7. SoundState(t)
  BY <1>1, <1>2, <1>6 DEF SoundBut, SoundState, OthersSound
<1>8. Quiet(s, t)
  BY <1>2 DEF Quiet, SameButFrame
<1> QED BY <1>7, <1>8 DEF t

\* A capture of o that ends gives back its stdout.
LEMMA FinishedIsSound ==
  ASSUME NEW s, NEW t, NEW o \in Outputs, NEW captured \in SUBSET {"IMAGE", "VIDEO"},
         NEW left \in SUBSET {"IMAGE", "VIDEO"}, NEW consumer \in captured,
         LeftOf(captured, left, consumer),
         SoundBut(s, o, captured), Releases(s, t, o, consumer),
         EndsCapture(s.outputs[o], t.outputs[o], consumer),
         StageEnds(s.outputs[o], t.outputs[o], consumer)
  PROVE  /\ SoundBut(t, o, left) /\ Quiet(s, t)
         /\ t.outputs[o].frame = s.outputs[o].frame
<1>1. left = captured \ {consumer}
  BY DEF LeftOf
<1>2. SoundButFrame(t.outputs[o], left)
  BY <1>1, CaptureEnds DEF SoundBut
<1>3. /\ t \in State
      /\ t.stdout = IF ReservedFor(s, o, consumer) THEN Unreserved ELSE s.stdout
      /\ \A p \in Outputs \ {o} : t.outputs[p] = s.outputs[p]
  BY DEF Releases
<1>4. ~OutputToStdout => StdoutIsFree(t)
  BY <1>3 DEF SoundBut, StdoutIsFree
<1>5. consumer \in {"IMAGE", "VIDEO"}
  OBVIOUS
<1>6. ASSUME OutputToStdout
      PROVE  t.stdout = Unreserved /\ s.stdout = [output |-> o, purpose |-> consumer]
  BY <1>3, <1>5, <1>6 DEF SoundBut, ReservedFor
<1>7. ASSUME OutputToStdout, NEW purpose \in {"IMAGE", "VIDEO"}
      PROVE  /\ purpose \in left <=> ReservedFor(t, o, purpose)
             /\ \A p \in Outputs \ {o} :
                  Capturing(t.outputs[p], purpose) <=> ReservedFor(t, p, purpose)
  <2>1. \A p : ~ReservedFor(t, p, purpose)
    BY <1>6, <1>7, ReservationsDiffer DEF ReservedFor
  <2>2. \A p : ReservedFor(s, p, purpose) => p = o /\ purpose = consumer
    BY <1>5, <1>6, <1>7, ReservationsDiffer DEF ReservedFor
  <2>3. purpose \in captured => purpose = consumer
    BY <1>7, <2>2 DEF SoundBut
  <2>4. \A p \in Outputs \ {o} : ~Capturing(t.outputs[p], purpose)
    BY <1>3, <1>7, <2>2 DEF SoundBut
  <2> QED BY <1>1, <2>1, <2>3, <2>4
<1>8. SoundBut(t, o, left)
  BY <1>2, <1>3, <1>4, <1>7 DEF SoundBut
<1>9. Quiet(s, t) /\ t.outputs[o].frame = s.outputs[o].frame
  BY <1>3 DEF Quiet, EndsCapture
<1> QED BY <1>8, <1>9

LEMMA ImageFinishSound ==
  ASSUME NEW s, NEW o \in Outputs, NEW ok \in BOOLEAN,
         NEW captured \in SUBSET {"IMAGE", "VIDEO"},
         NEW left \in SUBSET {"IMAGE", "VIDEO"}, LeftOf(captured, left, "IMAGE"),
         SoundBut(s, o, captured)
  PROVE  LET t == IF "IMAGE" \in captured THEN ImageFinish(s, o, ok) ELSE s
         IN /\ SoundBut(t, o, left) /\ Quiet(s, t)
            /\ t.outputs[o].frame = s.outputs[o].frame
<1>1. ASSUME "IMAGE" \in captured
      PROVE  LET t == ImageFinish(s, o, ok)
             IN /\ SoundBut(t, o, left) /\ Quiet(s, t)
                /\ t.outputs[o].frame = s.outputs[o].frame
  <2> DEFINE t == ImageFinish(s, o, ok)
  <2>1. /\ s \in State
        /\ UiIsGone(s.outputs[o]) /\ HideIsAnswered(s.outputs[o]) /\ UiIsChanging(s.outputs[o])
        /\ OutputToStdout => ReservedFor(s, o, "IMAGE")
    BY <1>1 DEF SoundBut, SoundButFrame
  <2>2. /\ Releases(s, t, o, "IMAGE")
        /\ EndsCapture(s.outputs[o], t.outputs[o], "IMAGE")
        /\ StageEnds(s.outputs[o], t.outputs[o], "IMAGE")
    BY <2>1, ImageFinishBooks DEF StageEnds
  <2> HIDE DEF t
  <2>3. /\ SoundBut(t, o, left) /\ Quiet(s, t)
        /\ t.outputs[o].frame = s.outputs[o].frame
    BY <1>1, <2>2, FinishedIsSound
  <2> QED BY <2>3 DEF t
<1>2. ASSUME "IMAGE" \notin captured
      PROVE  SoundBut(s, o, left)
  BY <1>2 DEF LeftOf, SoundBut, SoundButFrame
<1> QED BY <1>1, <1>2, QuietReflexive

LEMMA VideoFinishSound ==
  ASSUME NEW s, NEW o \in Outputs, NEW ok \in BOOLEAN,
         NEW captured \in SUBSET {"IMAGE", "VIDEO"},
         NEW left \in SUBSET {"IMAGE", "VIDEO"}, LeftOf(captured, left, "VIDEO"),
         SoundBut(s, o, captured), "VIDEO" \in captured
  PROVE  LET t == VideoFinish(s, o, ok)
         IN /\ SoundBut(t, o, left) /\ Quiet(s, t)
            /\ t.outputs[o].frame = s.outputs[o].frame
<1> DEFINE t == VideoFinish(s, o, ok)
<1>1. /\ s \in State
      /\ UiIsGone(s.outputs[o]) /\ HideIsAnswered(s.outputs[o]) /\ UiIsChanging(s.outputs[o])
  BY DEF SoundBut, SoundButFrame
<1>2. /\ Releases(s, t, o, "VIDEO")
      /\ EndsCapture(s.outputs[o], t.outputs[o], "VIDEO")
      /\ StageEnds(s.outputs[o], t.outputs[o], "VIDEO")
  BY <1>1, VideoFinishBooks DEF StageEnds
<1> HIDE DEF t
<1>3. /\ SoundBut(t, o, left) /\ Quiet(s, t)
      /\ t.outputs[o].frame = s.outputs[o].frame
  BY <1>2, FinishedIsSound, ZenonT(30)
<1> QED BY <1>3 DEF t

\* The image of a frame that was taken is finished.
LEMMA ImageEnds ==
  ASSUME NEW s \in State, NEW o \in Outputs, NEW ok \in BOOLEAN, NEW y, SoundState(s),
         SameButFrame(s.outputs[o], y),
         NEW left \in SUBSET {"IMAGE", "VIDEO"},
         LeftOf(s.outputs[o].frame.consumers, left, "IMAGE")
  PROVE  LET consumers == s.outputs[o].frame.consumers
             taken == Put(s, o, y)
             t == IF "IMAGE" \in consumers THEN ImageFinish(taken, o, ok) ELSE taken
         IN /\ SoundBut(t, o, left) /\ Quiet(s, t)
            /\ t.outputs[o].frame = y.frame
<1> DEFINE consumers == s.outputs[o].frame.consumers
           taken == Put(s, o, y)
           t == IF "IMAGE" \in consumers THEN ImageFinish(taken, o, ok) ELSE taken
<1>1. SoundBut(taken, o, consumers) /\ Quiet(s, taken) /\ taken.outputs[o].frame = y.frame
  BY TakenIsSound, PutValues DEF SameButFrame
<1>2. consumers \in SUBSET {"IMAGE", "VIDEO"} /\ LeftOf(consumers, left, "IMAGE")
  BY OutputOfState DEF Output, FrameContext
<1> HIDE DEF taken, consumers
<1>3. /\ SoundBut(t, o, left) /\ Quiet(taken, t)
      /\ t.outputs[o].frame = taken.outputs[o].frame
  BY <1>1, <1>2, ImageFinishSound
<1> HIDE DEF t
<1>4. Quiet(s, t)
  BY <1>1, <1>3, QuietTransitive
<1> QED BY <1>1, <1>3, <1>4 DEF t, taken, consumers

\* The frame of a video that goes on is followed by another, the last one ends it.
LEMMA FilmSound ==
  ASSUME NEW s, NEW o \in Outputs, NEW ok \in BOOLEAN, NEW written \in BOOLEAN,
         NEW stale \in BOOLEAN, SoundBut(s, o, {"VIDEO"}),
         s.outputs[o].frame.consumers = {}, ~s.outputs[o].frame.in_flight
  PROVE  LET wrote == IF written THEN s
                      ELSE [s EXCEPT !.outputs[o].video_stage = "STOP_REQUESTED"]
             Again(t) == Put(t, o, RequestFrame(t.outputs[o], {"VIDEO"}))
             ends == wrote.outputs[o].video_stage = "STOP_REQUESTED" \/ wrote.exit_requested
             t == IF stale THEN Again(s)
                  ELSE IF ends THEN VideoFinish(wrote, o, ok)
                  ELSE Again(wrote)
         IN SoundState(t) /\ Quiet(s, t)
<1> DEFINE Again(t) == Put(t, o, RequestFrame(t.outputs[o], {"VIDEO"}))
           y == [s.outputs[o] EXCEPT !.video_stage = "STOP_REQUESTED"]
           stopping == Put(s, o, y)
           wrote == IF written THEN s ELSE stopping
<1>1. ASSUME NEW t, SoundBut(t, o, {"VIDEO"}), t.outputs[o].frame.consumers = {}
      PROVE  SoundState(Again(t)) /\ Quiet(t, Again(t))
  <2> DEFINE z == RequestFrame(t.outputs[o], {"VIDEO"})
  <2>1. t.outputs[o] \in Output
    BY <1>1 DEF SoundBut, SoundButFrame
  <2>2. /\ SameButFrame(t.outputs[o], z) /\ z.frame.in_flight
        /\ z.frame.consumers = t.outputs[o].frame.consumers \cup {"VIDEO"}
    BY <2>1, RequestFrameBooks
  <2> HIDE DEF z
  <2>3. z.frame.consumers = {"VIDEO"} /\ (z.frame.in_flight <=> {"VIDEO"} # {})
    BY <1>1, <2>2
  <2>4. {"VIDEO"} \in SUBSET {"IMAGE", "VIDEO"}
    OBVIOUS
  <2>5. SoundState(Put(t, o, z)) /\ Quiet(t, Put(t, o, z))
    BY <1>1, <2>2, <2>3, <2>4, ServedIsSound
  <2> QED BY <2>5 DEF z
<1>2. ASSUME NEW t, SoundBut(t, o, {"VIDEO"}), t.outputs[o].frame.consumers = {},
             ~t.outputs[o].frame.in_flight
      PROVE  LET u == VideoFinish(t, o, ok)
             IN SoundState(u) /\ Quiet(t, u)
  <2> DEFINE u == VideoFinish(t, o, ok)
  <2>1. /\ {"VIDEO"} \in SUBSET {"IMAGE", "VIDEO"} /\ "VIDEO" \in {"VIDEO"}
        /\ {} \in SUBSET {"IMAGE", "VIDEO"}
        /\ LeftOf({"VIDEO"}, {}, "VIDEO")
    BY DEF LeftOf
  <2>2. /\ SoundBut(u, o, {}) /\ Quiet(t, u)
        /\ u.outputs[o].frame = t.outputs[o].frame
    BY <1>2, <2>1, VideoFinishSound
  <2> HIDE DEF u
  <2>3. SoundBut(u, o, {})
    BY <2>2
  <2>4. u \in State /\ u.outputs[o] \in Output
    BY <2>3 DEF SoundBut, SoundButFrame
  <2>5. SameButFrame(u.outputs[o], u.outputs[o])
    BY <2>4 DEF SameButFrame
  <2>6. u.outputs[o].frame.consumers = {} /\ (u.outputs[o].frame.in_flight <=> {} # {})
    BY <1>2, <2>2
  <2>7. {} \in SUBSET {"IMAGE", "VIDEO"}
    OBVIOUS
  <2>8. SoundState(Put(u, o, u.outputs[o]))
    BY <2>3, <2>5, <2>6, <2>7, ServedIsSound
  <2>9. SoundState(u)
    BY <2>4, <2>8, PutSame
  <2> QED BY <2>2, <2>9 DEF u
<1>3. s \in State /\ s.outputs[o] \in Output
  BY DEF SoundBut, SoundButFrame
<1>4. stopping = [s EXCEPT !.outputs[o].video_stage = "STOP_REQUESTED"]
  BY <1>3 DEF Put, State, Output
<1>5. /\ SoundButFrame(y, {"VIDEO"})
      /\ y.frame = s.outputs[o].frame /\ y.failed_asserts = s.outputs[o].failed_asserts
      /\ y.freezeframe = s.outputs[o].freezeframe
  <2>1. {"VIDEO"} \in SUBSET {"IMAGE", "VIDEO"} /\ "VIDEO" \in {"VIDEO"}
    OBVIOUS
  <2>2. SoundButFrame(s.outputs[o], {"VIDEO"})
    BY DEF SoundBut
  <2> QED BY <2>1, <2>2, WriteFailed
<1> HIDE DEF y
<1>6. /\ stopping \in State /\ stopping.outputs[o] = y /\ stopping.stdout = s.stdout
      /\ \A p \in Outputs \ {o} : stopping.outputs[p] = s.outputs[p]
  BY <1>3, <1>5, PutValues, PutStdout DEF SoundButFrame
<1> HIDE DEF stopping
<1>7. SoundBut(stopping, o, {"VIDEO"}) /\ Quiet(s, stopping)
  BY <1>5, <1>6 DEF SoundBut, StdoutIsFree, ReservedFor, Quiet
<1>8. /\ SoundBut(wrote, o, {"VIDEO"}) /\ Quiet(s, wrote)
      /\ wrote.outputs[o].frame.consumers = {} /\ ~wrote.outputs[o].frame.in_flight
  BY <1>5, <1>6, <1>7, QuietReflexive
<1>9. wrote = IF written THEN s ELSE [s EXCEPT !.outputs[o].video_stage = "STOP_REQUESTED"]
  BY <1>4
<1> HIDE DEF wrote, Again
<1>10. SoundState(Again(s)) /\ Quiet(s, Again(s))
  BY <1>1
<1>11. SoundState(Again(wrote)) /\ Quiet(s, Again(wrote))
  BY <1>1, <1>8, QuietTransitive
<1>12. SoundState(VideoFinish(wrote, o, ok)) /\ Quiet(s, VideoFinish(wrote, o, ok))
  BY <1>2, <1>8, QuietTransitive
<1>13. LET ends == wrote.outputs[o].video_stage = "STOP_REQUESTED" \/ wrote.exit_requested
           t == IF stale THEN Again(s)
                ELSE IF ends THEN VideoFinish(wrote, o, ok)
                ELSE Again(wrote)
       IN SoundState(t) /\ Quiet(s, t)
  BY <1>10, <1>11, <1>12
<1> QED BY <1>9, <1>13 DEF Again

LEMMA FrameReadySound ==
  ASSUME SoundInv, NEW o \in Outputs, NEW stale \in BOOLEAN, NEW written \in BOOLEAN,
         NEW ok \in BOOLEAN, FrameReady(o, stale, written, ok)
  PROVE  StepIsSound
<1> DEFINE x == out(o)
           consumers == g.outputs[o].frame.consumers
           left == consumers \ {"IMAGE"}
           c == Check(x, consumers # {}, "image-copy-capture-frame.c:83")
           frame == [x.frame EXCEPT !.in_flight = FALSE, !.consumers = {},
                                    !.forced = @ /\ stale, !.switched = @ /\ stale]
           y == [x EXCEPT !.frame = frame]
           z == [c EXCEPT !.frame.in_flight = FALSE,
                          !.frame.consumers = {},
                          !.frame.forced = @ /\ stale,
                          !.frame.switched = @ /\ stale]
           taken == Put(g, o, z)
           imaged == IF "IMAGE" \in consumers THEN ImageFinish(taken, o, ok) ELSE taken
           wrote == IF written THEN imaged
                    ELSE [imaged EXCEPT !.outputs[o].video_stage = "STOP_REQUESTED"]
           Again(t) == Put(t, o, RequestFrame(t.outputs[o], {"VIDEO"}))
           ends == wrote.outputs[o].video_stage = "STOP_REQUESTED" \/ wrote.exit_requested
           filmed == IF stale THEN Again(imaged)
                     ELSE IF ends THEN VideoFinish(wrote, o, ok)
                     ELSE Again(wrote)
<1>1. /\ g \in State /\ SoundState(g) /\ x = g.outputs[o]
      /\ x \in Output /\ Sound(x) /\ x.frame.in_flight
  BY OutIsSound DEF FrameReady
<1>2. consumers # {} /\ consumers \in SUBSET {"IMAGE", "VIDEO"} /\ x.frame \in FrameContext
  BY <1>1 DEF Sound, Steady, Balanced, FrameIsShared, Output, FrameContext
<1>3. c = x
  BY <1>2 DEF Check
<1>4. z = y
  <2>1. y = [x EXCEPT !.frame.in_flight = FALSE, !.frame.consumers = {},
                      !.frame.forced = @ /\ stale, !.frame.switched = @ /\ stale]
    <3> HIDE DEF x
    <3> QED BY <1>1, <1>2 DEF Output, FrameContext
  <2> HIDE DEF c, y
  <2> QED BY <1>3, <2>1
<1>5. g' = IF "VIDEO" \notin consumers THEN imaged ELSE filmed
  BY DEF FrameReady, Event, out
<1> HIDE DEF x, c
<1>6. frame \in FrameContext /\ frame.consumers = {} /\ ~frame.in_flight
  BY <1>2 DEF FrameContext
<1> HIDE DEF frame
<1>7. SameButFrame(x, y) /\ y.frame = frame
  BY <1>1, <1>6, FrameReplaced
<1> HIDE DEF y, z
<1>a. SameButFrame(g.outputs[o], z) /\ z.frame = frame
  BY <1>1, <1>4, <1>7
<1>b. left \in SUBSET {"IMAGE", "VIDEO"} /\ LeftOf(consumers, left, "IMAGE")
  BY <1>2 DEF LeftOf
<1> HIDE DEF left
<1>8. /\ SoundBut(imaged, o, left) /\ Quiet(g, imaged)
      /\ imaged.outputs[o].frame = frame
  <2>1. /\ SoundBut(imaged, o, left) /\ Quiet(g, imaged)
        /\ imaged.outputs[o].frame = z.frame
    BY <1>1, <1>a, <1>b, ImageEnds
  <2> HIDE DEF imaged
  <2> QED BY <1>a, <2>1
<1> HIDE DEF consumers
<1> HIDE DEF imaged
<1>9. ASSUME "VIDEO" \in consumers
       PROVE  SoundState(g') /\ Quiet(g, g')
  <2>1. left = {"VIDEO"}
    BY <1>2, <1>9 DEF left
  <2>2. SoundBut(imaged, o, {"VIDEO"})
    BY <1>8, <2>1
  <2>3. SoundState(filmed) /\ Quiet(imaged, filmed)
    BY <1>6, <1>8, <2>2, FilmSound
  <2> QED BY <1>5, <1>8, <1>9, <2>3, QuietTransitive
<1>10. ASSUME "VIDEO" \notin consumers
       PROVE  SoundState(g') /\ Quiet(g, g')
  <2>1. left = {}
    BY <1>2, <1>10 DEF left
  <2>2. SoundBut(imaged, o, {})
    BY <1>8, <2>1
  <2>3. imaged \in State /\ imaged.outputs[o] \in Output
    BY <2>2 DEF SoundBut, SoundButFrame
  <2>4. SameButFrame(imaged.outputs[o], imaged.outputs[o])
    BY <2>3 DEF SameButFrame
  <2>5. /\ imaged.outputs[o].frame.consumers = {}
        /\ imaged.outputs[o].frame.in_flight <=> {} # {}
    BY <1>6, <1>8
  <2>6. {} \in SUBSET {"IMAGE", "VIDEO"}
    OBVIOUS
  <2>7. SoundState(Put(imaged, o, imaged.outputs[o]))
    BY <2>2, <2>4, <2>5, <2>6, ServedIsSound
  <2>8. SoundState(imaged)
    BY <2>3, <2>7, PutSame
  <2> QED BY <1>5, <1>8, <1>10, <2>8
<1> QED BY <1>9, <1>10, QuietIsAlmostQuiet DEF StepIsSound

LEMMA FrameFailedSound ==
  ASSUME SoundInv, NEW o \in Outputs, NEW ok \in BOOLEAN, FrameFailed(o, ok)
  PROVE  StepIsSound
<1> DEFINE x == out(o)
           consumers == g.outputs[o].frame.consumers
           left == consumers \ {"IMAGE"}
           frame == [x.frame EXCEPT !.in_flight = FALSE, !.forced = FALSE]
           y == [x EXCEPT !.frame = frame]
           w == [x EXCEPT !.frame.in_flight = FALSE, !.frame.forced = FALSE]
           taken == Put(g, o, w)
           imaged == IF "IMAGE" \in consumers THEN ImageFinish(taken, o, ok) ELSE taken
           filmed == IF "VIDEO" \in imaged.outputs[o].frame.consumers
                       THEN VideoFinish(imaged, o, ok) ELSE imaged
           emptied == [filmed.outputs[o].frame EXCEPT !.consumers = {}]
           z == [filmed.outputs[o] EXCEPT !.frame = emptied]
<1>1. /\ g \in State /\ SoundState(g) /\ x = g.outputs[o]
      /\ x \in Output /\ Sound(x) /\ x.frame.in_flight
  BY OutIsSound DEF FrameFailed
<1>2. consumers \in SUBSET {"IMAGE", "VIDEO"} /\ x.frame \in FrameContext
  BY <1>1 DEF Output, FrameContext
<1>3. w = y
  <2> HIDE DEF x
  <2> QED BY <1>1, <1>2 DEF Output, FrameContext
<1>4. g' = [filmed EXCEPT !.outputs[o].frame.consumers = {}]
  BY DEF FrameFailed, Event, out
<1> HIDE DEF x
<1>5. frame \in FrameContext /\ frame.consumers = consumers /\ ~frame.in_flight
  BY <1>1, <1>2 DEF FrameContext
<1> HIDE DEF frame
<1>6. SameButFrame(x, y) /\ y.frame = frame
  BY <1>1, <1>5, FrameReplaced
<1> HIDE DEF y, w
<1>a. SameButFrame(g.outputs[o], w) /\ w.frame = frame
  BY <1>1, <1>3, <1>6
<1>b. left \in SUBSET {"IMAGE", "VIDEO"} /\ LeftOf(consumers, left, "IMAGE")
  BY <1>2 DEF LeftOf
<1> HIDE DEF left
<1>7. /\ SoundBut(imaged, o, left) /\ Quiet(g, imaged)
      /\ imaged.outputs[o].frame = frame
  <2>1. /\ SoundBut(imaged, o, left) /\ Quiet(g, imaged)
        /\ imaged.outputs[o].frame = w.frame
    BY <1>1, <1>a, <1>b, ImageEnds
  <2> HIDE DEF imaged
  <2> QED BY <1>a, <2>1
<1> HIDE DEF consumers
<1> HIDE DEF imaged
<1>8. /\ SoundBut(filmed, o, {}) /\ Quiet(imaged, filmed)
      /\ filmed.outputs[o].frame = frame
  <2>1. imaged.outputs[o].frame.consumers = consumers
    BY <1>5, <1>7
  <2>2. "VIDEO" \in left <=> "VIDEO" \in consumers
    BY DEF left
  <2>3. CASE "VIDEO" \in consumers
    <3> DEFINE finished == VideoFinish(imaged, o, ok)
    <3>1. {} \in SUBSET {"IMAGE", "VIDEO"} /\ LeftOf(left, {}, "VIDEO")
      BY <1>b DEF LeftOf
    <3>2. /\ SoundBut(finished, o, {}) /\ Quiet(imaged, finished)
          /\ finished.outputs[o].frame = imaged.outputs[o].frame
      BY <1>7, <1>b, <2>2, <2>3, <3>1, VideoFinishSound
    <3>3. filmed = finished
      BY <2>1, <2>3
    <3> HIDE DEF finished, filmed
    <3> QED BY <1>7, <3>2, <3>3
  <2>4. CASE "VIDEO" \notin consumers
    <3>1. left = {} /\ filmed = imaged
      BY <1>2, <2>1, <2>4 DEF left
    <3> HIDE DEF filmed
    <3> QED BY <1>7, <3>1, QuietReflexive
  <2> QED BY <2>3, <2>4
<1> HIDE DEF filmed
<1>9. filmed \in State /\ filmed.outputs[o] \in Output
  BY <1>8 DEF SoundBut, SoundButFrame
<1>10. g' = Put(filmed, o, z)
  BY <1>4, <1>9 DEF Put, State, Output
<1>11. emptied \in FrameContext /\ emptied.consumers = {} /\ ~emptied.in_flight
  BY <1>5, <1>8 DEF FrameContext
<1> HIDE DEF emptied
<1>12. SameButFrame(filmed.outputs[o], z) /\ z.frame = emptied
  BY <1>9, <1>11, FrameReplaced
<1> HIDE DEF z
<1>13. z.frame.consumers = {} /\ (z.frame.in_flight <=> {} # {})
  BY <1>11, <1>12
<1>14. {} \in SUBSET {"IMAGE", "VIDEO"}
  OBVIOUS
<1>15. SoundState(g') /\ Quiet(filmed, g')
  BY <1>8, <1>10, <1>12, <1>13, <1>14, ServedIsSound
<1> QED BY <1>7, <1>8, <1>15, QuietTransitive, QuietIsAlmostQuiet DEF StepIsSound

LEMMA AudioFailedSound ==
  ASSUME SoundInv, NEW o \in Outputs, AudioFailed(o)
  PROVE  StepIsSound
  BY StopRequestedSound, QuietIsAlmostQuiet DEF AudioFailed, Event, StepIsSound

(* The events of a freezeframe                                             *)

\* A freezeframe whose one wait is over.
LEMMA WaitIsOver ==
  ASSUME NEW x \in Output, NEW y, Sound(x), SlurpIsNoCapture(x), SameButFreezeframe(x, y),
         x.freezeframe.stage = "CAPTURING", y.freezeframe.stage = "CAPTURING",
         ~y.freezeframe.in_flight, ~y.freezeframe.capture_waiting,
         ~y.freezeframe.surface_waiting
  PROVE  IsAnswered(y) /\ SameCaptures(x, y) /\ y \in Output
<1>1. Balanced(y)
  BY DEF Sound, Steady, SameButFreezeframe, Balanced, UiIsGone, HideIsAnswered, Counted,
     FrameIsShared, StartsEmpty, AllConsumers, VideoIsLive, Count
<1>2. ConsumersAreReal(y) /\ UiIsChanging(y) /\ SizeIsFixed(y) /\ SlurpIsNoCapture(y)
  BY DEF Sound, Steady, SameButFreezeframe, ConsumersAreReal, UiIsChanging, SizeIsFixed,
     SlurpIsNoCapture, AllConsumers, VideoIsLive
<1> QED BY <1>1, <1>2 DEF IsAnswered, SameCaptures, SameButFreezeframe, VideoIsLive

\* What the state is once the frame of a freezeframe has been answered.
LEMMA FrameIsAnswered ==
  ASSUME SoundInv, NEW o \in Outputs, out(o).freezeframe.in_flight
  PROVE  LET t == [g EXCEPT !.outputs[o].freezeframe.in_flight = FALSE]
         IN /\ t \in State /\ OthersSound(t, Outputs \ {o}) /\ IsAnswered(t.outputs[o])
            /\ ~t.outputs[o].freezeframe.capture_busy /\ ~t.outputs[o].freezeframe.showing
            /\ Quiet(g, t)
<1> DEFINE x == g.outputs[o]
           f == [x.freezeframe EXCEPT !.in_flight = FALSE]
           y == [x EXCEPT !.freezeframe = f]
           t == Put(g, o, y)
<1>1. /\ g \in State /\ OthersSound(g, Outputs \ {o})
      /\ x \in Output /\ Sound(x) /\ SlurpIsNoCapture(x) /\ x.freezeframe.in_flight
  BY OutIsSound
<1>2. t = [g EXCEPT !.outputs[o].freezeframe.in_flight = FALSE]
  BY <1>1 DEF Put, State, Output
<1>3. x.freezeframe \in Freezeframe /\ FreezeframeIsServed(x.freezeframe)
  BY <1>1 DEF Sound, Steady, Output
<1> HIDE DEF x
<1>4. /\ f \in Freezeframe /\ ~f.in_flight
      /\ f.stage = x.freezeframe.stage /\ f.startup = x.freezeframe.startup
      /\ f.capture_busy = x.freezeframe.capture_busy
      /\ f.capture_waiting = x.freezeframe.capture_waiting
      /\ f.surface_waiting = x.freezeframe.surface_waiting
      /\ f.showing = x.freezeframe.showing
  BY <1>3 DEF Freezeframe
<1> HIDE DEF f
<1>5. /\ f.stage = "CAPTURING" /\ ~f.capture_waiting /\ ~f.surface_waiting
      /\ ~f.capture_busy /\ ~f.showing
  BY <1>1, <1>3, <1>4 DEF FreezeframeIsServed, Freezeframe
<1>6. SameButFreezeframe(x, y) /\ y.freezeframe = f
  BY <1>1, <1>4, FreezeframeReplaced
<1> HIDE DEF y
<1>7. IsAnswered(y) /\ SameCaptures(x, y) /\ y \in Output
  BY <1>1, <1>4, <1>5, <1>6, WaitIsOver
<1>8. t \in State /\ t.outputs[o] = y /\ OthersSound(t, Outputs \ {o}) /\ Quiet(g, t)
  BY <1>1, <1>7, PutOthersSound DEF x
<1> HIDE DEF t
<1> QED BY <1>2, <1>5, <1>6, <1>7, <1>8

LEMMA FreezeframeReadySound ==
  ASSUME SoundInv, NEW o \in Outputs, NEW rotated \in BOOLEAN, NEW ok \in BOOLEAN,
         FreezeframeReady(o, rotated, ok)
  PROVE  StepIsSound
<1> DEFINE t == [g EXCEPT !.outputs[o].freezeframe.in_flight = FALSE]
           needs_rotation == o \in Rotated
<1>1. out(o).freezeframe.in_flight /\ g' = FreezeframeShow(t, o, needs_rotation, rotated, ok)
  BY DEF FreezeframeReady, Event
<1>2. /\ t \in State /\ OthersSound(t, Outputs \ {o}) /\ IsAnswered(t.outputs[o])
      /\ ~t.outputs[o].freezeframe.capture_busy /\ ~t.outputs[o].freezeframe.showing
      /\ Quiet(g, t)
  BY <1>1, FrameIsAnswered
<1>3. needs_rotation \in BOOLEAN
  OBVIOUS
<1> HIDE DEF t, needs_rotation
<1>4. SoundState(g') /\ Quiet(t, g')
  BY <1>1, <1>2, <1>3, FreezeframeShowSound
<1> QED BY <1>2, <1>4, QuietTransitive, QuietIsAlmostQuiet DEF StepIsSound

LEMMA FreezeframeFailedSound ==
  ASSUME SoundInv, NEW o \in Outputs, NEW ok \in BOOLEAN, FreezeframeFailed(o, ok)
  PROVE  StepIsSound
<1> DEFINE t == [g EXCEPT !.outputs[o].freezeframe.in_flight = FALSE]
<1>1. out(o).freezeframe.in_flight /\ g' = FreezeframeFinish(t, o, ok)
  BY DEF FreezeframeFailed, Event
<1>2. /\ t \in State /\ OthersSound(t, Outputs \ {o}) /\ IsAnswered(t.outputs[o])
      /\ Quiet(g, t)
  BY <1>1, FrameIsAnswered
<1> HIDE DEF t
<1>3. SoundState(g') /\ Quiet(t, g')
  BY <1>1, <1>2, FreezeframeFinishSound
<1> QED BY <1>2, <1>3, QuietTransitive, QuietIsAlmostQuiet DEF StepIsSound

LEMMA CaptureBufferReleaseSound ==
  ASSUME SoundInv, NEW o \in Outputs, CaptureBufferRelease(o)
  PROVE  StepIsSound
<1> DEFINE x == out(o)
           f == [x.freezeframe EXCEPT !.capture_busy = FALSE, !.capture_waiting = FALSE]
           y == [x EXCEPT !.freezeframe = f]
           freed == [x EXCEPT !.freezeframe.capture_busy = FALSE,
                              !.freezeframe.capture_waiting = FALSE]
           z == IF x.freezeframe.capture_waiting THEN FreezeframeCaptureStart(freed) ELSE freed
<1>1. /\ g' = Put(g, o, z)
      /\ x \in Output /\ Sound(x)
  BY OutIsSound DEF CaptureBufferRelease, Event
<1> HIDE DEF x
<1>2. freed = y
  BY <1>1 DEF Output
<1>3. /\ x.freezeframe \in Freezeframe /\ FreezeframeIsServed(x.freezeframe)
      /\ "FREEZEFRAME" \in x.awaiting_ui => x.freezeframe.stage = "REFRESHING"
      /\ "FREEZEFRAME" \in x.active => x.freezeframe.stage = "CAPTURING"
  BY <1>1 DEF Sound, Steady, ConsumersAreReal, Output
<1>4. /\ f \in Freezeframe
      /\ f.stage = x.freezeframe.stage /\ f.startup = x.freezeframe.startup
      /\ ~f.capture_busy /\ ~f.capture_waiting
      /\ f.in_flight = x.freezeframe.in_flight
      /\ f.surface_waiting = x.freezeframe.surface_waiting
      /\ f.surface_busy = x.freezeframe.surface_busy
      /\ f.showing = x.freezeframe.showing
  BY <1>3 DEF Freezeframe
<1> HIDE DEF f, freed
<1>5. SameButFreezeframe(x, y) /\ y.freezeframe = f /\ y \in Output
  BY <1>1, <1>4, FreezeframeReplaced DEF SameButFreezeframe
<1> HIDE DEF y
<1>6. ASSUME x.freezeframe.capture_waiting
      PROVE  Sound(z) /\ Calm(x, z) /\ z \in Output
  <2> DEFINE c == FreezeframeCaptureStart(y)
  <2>1. z = c
    BY <1>2, <1>6
  <2>2. /\ ~f.in_flight /\ ~f.surface_waiting /\ ~f.showing /\ f.stage = "CAPTURING"
    BY <1>3, <1>4, <1>6 DEF FreezeframeIsServed, Freezeframe
  <2>3. /\ SameButFreezeframe(y, c) /\ c.freezeframe.stage = "CAPTURING"
        /\ FreezeframeIsServed(c.freezeframe)
    BY <1>4, <1>5, <2>2, FreezeframeCaptureStartBooks
  <2> HIDE DEF c
  <2>4. SameButFreezeframe(x, c)
    BY <1>5, <2>3 DEF SameButFreezeframe
  <2>5. "FREEZEFRAME" \notin x.awaiting_ui
    BY <1>3, <1>4, <2>2
  <2>6. Sound(c) /\ Calm(x, c)
    BY <1>1, <2>3, <2>4, <2>5, FreezeframeMovesSound
  <2> QED BY <2>1, <2>4, <2>6 DEF SameButFreezeframe
<1>7. ASSUME ~x.freezeframe.capture_waiting
      PROVE  Sound(z) /\ Calm(x, z) /\ z \in Output
  BY <1>1, <1>2, <1>3, <1>4, <1>5, <1>7, FreezeframeMovesSound
     DEF FreezeframeIsServed, Freezeframe
<1> HIDE DEF z
<1>8. SoundState(g') /\ Quiet(g, g')
  BY <1>1, <1>6, <1>7, OutReplaced DEF x
<1> QED BY <1>8, QuietIsAlmostQuiet DEF StepIsSound

LEMMA RotatedBufferReleaseSound ==
  ASSUME SoundInv, NEW o \in Outputs, NEW rotated \in BOOLEAN, NEW ok \in BOOLEAN,
         RotatedBufferRelease(o, rotated, ok)
  PROVE  StepIsSound
<1> DEFINE x == out(o)
           f == [x.freezeframe EXCEPT !.surface_busy = FALSE, !.surface_waiting = FALSE]
           y == [x EXCEPT !.freezeframe = f]
           w == [x EXCEPT !.freezeframe.surface_busy = FALSE,
                          !.freezeframe.surface_waiting = FALSE]
           freed == Put(g, o, w)
<1>1. /\ g' = IF x.freezeframe.surface_waiting
                THEN FreezeframeShow(freed, o, TRUE, rotated, ok) ELSE freed
      /\ g \in State /\ OthersSound(g, Outputs \ {o}) /\ x = g.outputs[o]
      /\ x \in Output /\ Sound(x) /\ SlurpIsNoCapture(x)
  BY OutIsSound DEF RotatedBufferRelease, Event
<1> HIDE DEF x
<1>2. w = y
  BY <1>1 DEF Output
<1>3. /\ x.freezeframe \in Freezeframe /\ FreezeframeIsServed(x.freezeframe)
      /\ "FREEZEFRAME" \in x.awaiting_ui => x.freezeframe.stage = "REFRESHING"
      /\ "FREEZEFRAME" \in x.active => x.freezeframe.stage = "CAPTURING"
  BY <1>1 DEF Sound, Steady, ConsumersAreReal, Output
<1>4. /\ f \in Freezeframe
      /\ f.stage = x.freezeframe.stage /\ f.startup = x.freezeframe.startup
      /\ ~f.surface_busy /\ ~f.surface_waiting
      /\ f.in_flight = x.freezeframe.in_flight
      /\ f.capture_waiting = x.freezeframe.capture_waiting
      /\ f.capture_busy = x.freezeframe.capture_busy
      /\ f.showing = x.freezeframe.showing
  BY <1>3 DEF Freezeframe
<1> HIDE DEF f, w
<1>5. SameButFreezeframe(x, y) /\ y.freezeframe = f /\ y \in Output
  BY <1>1, <1>4, FreezeframeReplaced DEF SameButFreezeframe
<1> HIDE DEF y
<1>6. ASSUME x.freezeframe.surface_waiting
      PROVE  SoundState(g') /\ Quiet(g, g')
  <2> DEFINE t == Put(g, o, y)
  <2>1. /\ ~f.in_flight /\ ~f.capture_waiting /\ ~f.capture_busy /\ ~f.showing
        /\ f.stage = "CAPTURING"
    BY <1>3, <1>4, <1>6 DEF FreezeframeIsServed, Freezeframe
  <2>2. IsAnswered(y) /\ SameCaptures(x, y)
    BY <1>1, <1>4, <1>5, <2>1, WaitIsOver
  <2>3. /\ t \in State /\ t.outputs[o] = y /\ OthersSound(t, Outputs \ {o}) /\ Quiet(g, t)
    BY <1>1, <1>5, <2>2, PutOthersSound
  <2>4. g' = FreezeframeShow(t, o, TRUE, rotated, ok)
    BY <1>1, <1>2, <1>6
  <2> HIDE DEF t
  <2>5. SoundState(g') /\ Quiet(t, g')
    BY <1>5, <2>1, <2>2, <2>3, <2>4, FreezeframeShowSound
  <2> QED BY <2>3, <2>5, QuietTransitive
<1>7. ASSUME ~x.freezeframe.surface_waiting
      PROVE  SoundState(g') /\ Quiet(g, g')
  <2>1. g' = Put(g, o, y)
    BY <1>1, <1>2, <1>7
  <2>2. FreezeframeIsServed(f)
    BY <1>3, <1>4, <1>7 DEF FreezeframeIsServed, Freezeframe
  <2>3. Sound(y) /\ Calm(x, y)
    BY <1>1, <1>3, <1>4, <1>5, <2>2, FreezeframeMovesSound
  <2> QED BY <1>5, <2>1, <2>3, OutReplaced DEF x
<1> QED BY <1>6, <1>7, QuietIsAlmostQuiet DEF StepIsSound

(* The loop                                                                *)

LEMMA LoopIterationSound ==
  ASSUME SoundInv, NEW outdated \in SUBSET Outputs, LoopIteration(outdated)
  PROVE  StepIsSound
<1> DEFINE shows == seat.focus # NoOutput
           synced(o) == SyncCursorCapture(out(o), shows)
           next(o) == IF o \in outdated THEN RequestFrameCallback(synced(o)) ELSE synced(o)
           outputs == [o \in Outputs |-> next(o)]
<1>1. g \in State /\ SoundState(g)
  BY DEF SoundInv, TypeOK
<1>2. \A o \in Outputs : Sound(next(o)) /\ Calm(g.outputs[o], next(o)) /\ next(o) \in Output
  <2> TAKE o \in Outputs
  <2>1. out(o) \in Output /\ Sound(out(o)) /\ out(o) = g.outputs[o]
    BY OutIsSound
  <2>2. shows \in BOOLEAN
    OBVIOUS
  <2> HIDE DEF shows
  <2>3. Sound(synced(o)) /\ Calm(out(o), synced(o)) /\ synced(o) \in Output
    BY <2>1, <2>2, SyncCursorCaptureSound, SyncCursorCaptureFollows DEF Follows
  <2> HIDE DEF synced
  <2>4. /\ Sound(RequestFrameCallback(synced(o))) /\ Calm(synced(o), RequestFrameCallback(synced(o)))
        /\ RequestFrameCallback(synced(o)) \in Output
    BY <2>3, DrawingUiMoves, UiMovesSound DEF UiMoves, Follows
  <2>5. Calm(out(o), RequestFrameCallback(synced(o)))
    BY <2>3, <2>4, CalmTransitive
  <2> QED BY <2>1, <2>3, <2>4, <2>5
<1>3. g' = [g EXCEPT !.outputs = outputs]
  BY DEF LoopIteration
<1> HIDE DEF next
<1>4. /\ outputs \in [Outputs -> Output]
      /\ \A o \in Outputs : Sound(outputs[o]) /\ Calm(g.outputs[o], outputs[o])
  BY <1>2
<1> HIDE DEF outputs
<1>5. SoundState(g') /\ Quiet(g, g')
  BY <1>1, <1>3, <1>4, OutputsSound
<1> QED BY <1>5, QuietIsAlmostQuiet DEF StepIsSound

LEMMA NextIsSound ==
  ASSUME SoundInv, [Next]_vars
  PROVE  StepIsSound
<1>1. ASSUME UserStep PROVE StepIsSound
  BY <1>1, KeyHideUiSound, KeyVideoSound, KeyImageSound, KeyArrowSound, KeyFreezeframeSound,
     KeyEscapeSound, PointerFocusSound, KeyTabSound, PointerMotionSound, PointerButtonSound
     DEF UserStep
<1>2. ASSUME CompositorStep PROVE StepIsSound
  <2>1. ASSUME NEW o \in Outputs, FrameCallback(o) \/ SelectionDiscarded(o) \/ CaptureBufferRelease(o)
        PROVE  StepIsSound
    BY <2>1, FrameCallbackEventSound, SelectionDiscardedSound, CaptureBufferReleaseSound
  <2>2. ASSUME NEW o \in Outputs, NEW ok \in BOOLEAN,
               \/ SelectionPresented(o, ok) \/ HidePresented(o, ok)
               \/ FrameFailed(o, ok) \/ FreezeframeFailed(o, ok)
        PROVE  StepIsSound
    BY <2>2, SelectionPresentedSound, HidePresentedSound, FrameFailedSound,
       FreezeframeFailedSound
  <2>3. ASSUME NEW o \in Outputs, NEW rotated \in BOOLEAN, NEW ok \in BOOLEAN,
               FreezeframeReady(o, rotated, ok) \/ RotatedBufferRelease(o, rotated, ok)
        PROVE  StepIsSound
    BY <2>3, FreezeframeReadySound, RotatedBufferReleaseSound
  <2> QED BY <1>2, <2>1, <2>2, <2>3, SurfaceBufferReleaseSound, FrameReadySound
             DEF CompositorStep
<1>3. ASSUME NEW o \in Outputs, InitSelection(o) \/ AudioFailed(o) PROVE StepIsSound
  BY <1>3, InitSelectionSound, AudioFailedSound
<1>4. ASSUME NEW outdated \in SUBSET Outputs, LoopIteration(outdated) PROVE StepIsSound
  BY <1>4, LoopIterationSound
<1>5. ASSUME Exited \/ UNCHANGED vars PROVE StepIsSound
  BY <1>5, QuietReflexive, QuietIsAlmostQuiet DEF Exited, vars, StepIsSound, SoundInv
<1> QED BY <1>1, <1>2, <1>3, <1>4, <1>5 DEF Next

(* The invariant holds                                                     *)

LEMMA InitialOutputIsSound == Sound(InitialOutput) /\ SlurpIsNoCapture(InitialOutput)
<1> DEFINE x == InitialOutput
           f == x.freezeframe
<1>1. /\ x.surface = SurfacePremem /\ x.ui = "NONE" /\ x.active = {} /\ x.awaiting_ui = {}
      /\ x.video_stage = "NONE" /\ x.captures = 0 /\ x.selection = "NONE"
      /\ x.size_is_frozen = FALSE
      /\ x.frame.in_flight = FALSE /\ x.frame.consumers = {}
  BY DEF InitialOutput
<1>2. /\ f.stage = IF FreezeAtStartup THEN "CAPTURING" ELSE "IDLE"
      /\ f.in_flight = FreezeAtStartup
      /\ f.showing = FALSE /\ f.capture_busy = FALSE /\ f.capture_waiting = FALSE
      /\ f.surface_busy = FALSE /\ f.surface_waiting = FALSE
  BY DEF InitialOutput
<1>3. FreezeframeIsServed(f)
  <2> HIDE DEF x, f
  <2> QED BY <1>2 DEF FreezeframeIsServed
<1> HIDE DEF x
<1>4. BothBusy(x.surface) /\ HidesPending(x.surface) = {} /\ x.surface.disabled = {}
  BY <1>1 DEF SurfacePremem, BothBusy, HidesPending
<1>5. AllConsumers(x) = {} /\ ~VideoIsLive(x)
  BY <1>1 DEF AllConsumers, VideoIsLive
<1>6. Counted(x)
  BY <1>1, <1>5 DEF Counted, Count
<1>7. UiIsGone(x) /\ HideIsAnswered(x) /\ FrameIsShared(x) /\ StartsEmpty(x)
  BY <1>1, <1>4, <1>5 DEF UiIsGone, HideIsAnswered, FrameIsShared, StartsEmpty
<1>8. ConsumersAreReal(x) /\ UiIsChanging(x) /\ SizeIsFixed(x)
  BY <1>1, <1>5 DEF ConsumersAreReal, UiIsChanging, SizeIsFixed
<1>9. SlurpIsNoCapture(x)
  BY <1>5 DEF SlurpIsNoCapture
<1> QED BY <1>3, <1>6, <1>7, <1>8, <1>9 DEF Sound, Steady, Balanced, f, x

LEMMA InitIsSound ==
  ASSUME Init
  PROVE  SoundInv
<1>1. TypeOK
  BY InitialOutputType DEF Init, TypeOK, State, Seat
<1>2. \A o \in Outputs : g.outputs[o] = InitialOutput
  BY DEF Init
<1>3. g.stdout = Unreserved
  BY DEF Init
<1>4. StdoutIsOwned(g)
  <2>1. \A p \in Outputs, purpose \in {"IMAGE", "VIDEO"} :
          /\ ~Capturing(g.outputs[p], purpose)
          /\ ~ReservedFor(g, p, purpose)
    <3> TAKE p \in Outputs, purpose \in {"IMAGE", "VIDEO"}
    <3>1. ~Capturing(g.outputs[p], purpose)
      BY <1>2 DEF InitialOutput, Capturing, VideoIsLive
    <3>2. ~ReservedFor(g, p, purpose)
      BY <1>3, ReservationsDiffer DEF ReservedFor
    <3> QED BY <3>1, <3>2
  <2> QED BY <1>3, <2>1 DEF StdoutIsOwned, StdoutIsFree
<1>5. SoundState(g)
  BY <1>2, <1>4, InitialOutputIsSound DEF SoundState, OthersSound
<1>6. FocusIsMapped
  BY DEF Init, FocusIsMapped
<1>7. \A o \in Outputs : out(o).failed_asserts \subseteq MayFail
  BY <1>2 DEF out, InitialOutput
<1> QED BY <1>1, <1>5, <1>6, <1>7 DEF SoundInv

\* The pointer only ever enters a surface that is mapped.
LEMMA FocusMoves ==
  ASSUME TypeOK, [Next]_vars
  PROVE  \/ seat'.focus = seat.focus
         \/ g' = g /\ (seat'.focus # NoOutput => Mapped(seat'.focus))
<1> USE DEF TypeOK, Seat
<1>1. ASSUME UserStep PROVE \/ seat'.focus = seat.focus
                            \/ g' = g /\ (seat'.focus # NoOutput => Mapped(seat'.focus))
  BY <1>1 DEF UserStep, KeyHideUi, KeyVideo, KeyImage, KeyArrow, KeyFreezeframe, KeyEscape,
     PointerFocus, KeyTab, PointerMotion, PointerButton, KeyPressed
<1>2. ASSUME CompositorStep PROVE seat' = seat
  <2>1. ASSUME NEW o \in Outputs,
               \/ FrameCallback(o) \/ SelectionDiscarded(o) \/ CaptureBufferRelease(o)
               \/ \E b \in Buffers : SurfaceBufferRelease(o, b)
        PROVE  seat' = seat
    BY <2>1 DEF FrameCallback, SelectionDiscarded, CaptureBufferRelease, SurfaceBufferRelease,
       Event
  <2>2. ASSUME NEW o \in Outputs, NEW ok \in BOOLEAN,
               \/ SelectionPresented(o, ok) \/ HidePresented(o, ok)
               \/ FrameFailed(o, ok) \/ FreezeframeFailed(o, ok)
        PROVE  seat' = seat
    BY <2>2 DEF SelectionPresented, HidePresented, FrameFailed, FreezeframeFailed, Event
  <2>3. ASSUME NEW o \in Outputs, NEW stale \in BOOLEAN, NEW written \in BOOLEAN,
               NEW ok \in BOOLEAN, FrameReady(o, stale, written, ok)
        PROVE  seat' = seat
    BY <2>3 DEF FrameReady, Event
  <2>4. ASSUME NEW o \in Outputs, NEW rotated \in BOOLEAN, NEW ok \in BOOLEAN,
               FreezeframeReady(o, rotated, ok) \/ RotatedBufferRelease(o, rotated, ok)
        PROVE  seat' = seat
    BY <2>4 DEF FreezeframeReady, RotatedBufferRelease, Event
  <2> QED BY <1>2, <2>1, <2>2, <2>3, <2>4 DEF CompositorStep
<1>3. ASSUME NEW o \in Outputs, InitSelection(o) \/ AudioFailed(o) PROVE seat' = seat
  BY <1>3 DEF InitSelection, AudioFailed, Event
<1>4. ASSUME NEW outdated \in SUBSET Outputs, LoopIteration(outdated) PROVE seat' = seat
  BY <1>4 DEF LoopIteration
<1>5. ASSUME Exited \/ UNCHANGED vars PROVE seat' = seat
  BY <1>5 DEF Exited, vars
<1> QED BY <1>1, <1>2, <1>3, <1>4, <1>5 DEF Next

LEMMA NextKeepsSound ==
  ASSUME SoundInv, [Next]_vars
  PROVE  SoundInv'
<1>1. TypeOK /\ FocusIsMapped
  BY DEF SoundInv
<1>2. StepObeys /\ StepIsSound
  BY <1>1, NextSteps, NextIsSound
<1>3. TypeOK'
  BY <1>2 DEF StepObeys, Obeys, TypeOK
<1>4. SoundState(g')
  BY <1>2 DEF StepIsSound
<1>5. \A o \in Outputs : /\ out(o)'.failed_asserts \subseteq MayFail
                         /\ Mapped(o) => Mapped(o)'
  BY <1>2 DEF StepIsSound, AlmostQuiet, SoundInv, out, Mapped
<1>6. FocusIsMapped'
  <2>1. seat'.focus \in Outputs \cup {NoOutput}
    BY <1>3 DEF TypeOK, Seat
  <2>2. CASE seat'.focus = seat.focus
    BY <1>1, <1>5, <2>2 DEF FocusIsMapped, Mapped, out
  <2>3. CASE g' = g /\ (seat'.focus # NoOutput => Mapped(seat'.focus))
    BY <2>1, <2>3 DEF FocusIsMapped, Mapped, out
  <2> QED BY <1>1, <2>2, <2>3, FocusMoves
<1> QED BY <1>3, <1>4, <1>5, <1>6 DEF SoundInv, SoundState, OthersSound

LEMMA SoundInvHolds == Spec => []SoundInv
  BY InitIsSound, NextKeepsSound, PTL DEF Spec

(* What a sound state keeps                                                *)

\* Of the asserts of the pipeline that Assertions lists none can fail, whatever is
\* pressed, answered or failed in whichever order; with -p only that of a second button
\* pressed before the first one's action is over can.
THEOREM AssertsHold == Spec => [](~UsePressesOnly => NoAssertFails)
<1>1. SoundInv => (~UsePressesOnly => NoAssertFails)
  BY DEF SoundInv, MayFail, NoAssertFails
<1> QED BY <1>1, SoundInvHolds, PTL

\* The compositor owes exactly one answer to a hide that is pending, and none otherwise.
THEOREM HideIsAnsweredExactlyOnce == Spec => []HideIsAnsweredOnce
<1>1. ASSUME SoundInv, NEW o \in Outputs
      PROVE  /\ Cardinality(HidesPending(out(o).surface))
                  = IF out(o).ui = "HIDE_PENDING" THEN 1 ELSE 0
             /\ out(o).ui \in {"HIDE_PENDING", "HIDDEN"}
                  <=> "FULLSCREEN_HIDE" \in out(o).surface.disabled
  <2>1. HideIsAnswered(out(o))
    BY <1>1, OutIsSound DEF Sound, Steady, Balanced
  <2>2. \A i : Cardinality({i}) = 1
    BY FS_Singleton
  <2>3. Cardinality({}) = 0
    BY FS_EmptySet
  <2> QED BY <2>1, <2>2, <2>3 DEF HideIsAnswered
<1>2. SoundInv => HideIsAnsweredOnce
  BY <1>1 DEF HideIsAnsweredOnce
<1> QED BY <1>2, SoundInvHolds, PTL

\* n_captures_in_progress never drifts: what starts, fails, is upgraded or given up is
\* counted once and given back once.
THEOREM CapturesAreCountedAlways == Spec => []CapturesAreCounted
<1>1. ASSUME SoundInv, NEW o \in Outputs
      PROVE  Counted(out(o))
  BY <1>1, OutIsSound DEF Sound, Steady, Balanced
<1>2. SoundInv => CapturesAreCounted
  BY <1>1 DEF CapturesAreCounted, Counted, Count
<1> QED BY <1>2, SoundInvHolds, PTL

\* A freezeframe in progress always waits for one thing, which will come, and is never
\* captured over what the compositor still reads.
THEOREM FreezeframeHasItsBufferAlways == Spec => []FreezeframeHasItsBuffer
<1> DEFINE Step(f) == {w \in {"capture", "frame", "rotate"} :
                         \/ w = "capture" /\ f.capture_waiting
                         \/ w = "frame" /\ f.in_flight
                         \/ w = "rotate" /\ f.surface_waiting}
<1>1. ASSUME NEW f, FreezeframeIsServed(f)
      PROVE  Cardinality(Step(f)) = IF f.stage = "CAPTURING" THEN 1 ELSE 0
  <2>1. f.stage # "CAPTURING" => Step(f) = {}
    BY <1>1 DEF FreezeframeIsServed
  <2>2. /\ f.stage = "CAPTURING" /\ f.capture_waiting => Step(f) = {"capture"}
        /\ f.stage = "CAPTURING" /\ f.in_flight => Step(f) = {"frame"}
        /\ f.stage = "CAPTURING" /\ f.surface_waiting => Step(f) = {"rotate"}
    BY <1>1 DEF FreezeframeIsServed
  <2>3. f.stage = "CAPTURING" => \E w : Step(f) = {w}
    BY <1>1, <2>2 DEF FreezeframeIsServed
  <2> HIDE DEF Step
  <2>4. \A w : Cardinality({w}) = 1
    BY FS_Singleton
  <2>5. Cardinality({}) = 0
    BY FS_EmptySet
  <2> QED BY <2>1, <2>3, <2>4, <2>5
<1>2. ASSUME SoundInv, NEW o \in Outputs
      PROVE  /\ FreezeframeIsServed(out(o).freezeframe)
             /\ "FREEZEFRAME" \in AllConsumers(out(o)) => out(o).freezeframe.stage # "IDLE"
  BY <1>2, OutIsSound DEF Sound, Steady, ConsumersAreReal, AllConsumers
<1>3. ASSUME NEW f, FreezeframeIsServed(f)
      PROVE  /\ f.in_flight \/ f.surface_waiting => ~f.capture_busy
             /\ f.capture_waiting => f.capture_busy
             /\ f.surface_waiting => f.surface_busy
             /\ f.capture_waiting \/ f.surface_waiting => ~f.showing
  BY <1>3 DEF FreezeframeIsServed
<1>4. SoundInv => FreezeframeHasItsBuffer
  BY <1>1, <1>2, <1>3 DEF FreezeframeHasItsBuffer
<1> QED BY <1>4, SoundInvHolds, PTL

\* There is a frame in flight exactly while an image or a recording wants it.
THEOREM FrameAlwaysServesItsConsumers == Spec => []FrameServesItsConsumers
<1>1. ASSUME SoundInv, NEW o \in Outputs
      PROVE  FrameIsShared(out(o))
  BY <1>1, OutIsSound DEF Sound, Steady, Balanced
<1>2. SoundInv => FrameServesItsConsumers
  BY <1>1 DEF FrameServesItsConsumers, FrameIsShared
<1> QED BY <1>2, SoundInvHolds, PTL

\* No recording ever sees its selection change size.
THEOREM RecordedSizeIsAlwaysFixed == Spec => []RecordedSizeIsFixed
<1>1. ASSUME SoundInv, NEW o \in Outputs
      PROVE  SizeIsFixed(out(o))
  BY <1>1, OutIsSound DEF Sound
<1>2. SoundInv => RecordedSizeIsFixed
  BY <1>1 DEF RecordedSizeIsFixed, SizeIsFixed
<1> QED BY <1>2, SoundInvHolds, PTL

\* On however many outputs captures begin, fail and end, stdout is one capture's.
THEOREM StdoutAlwaysHasOneWriter == Spec => []StdoutHasOneWriter
<1>1. SoundInv => StdoutHasOneWriter
  <2> SUFFICES ASSUME SoundInv, OutputToStdout, NEW o \in Outputs,
                      NEW purpose \in {"IMAGE", "VIDEO"}
               PROVE  (IF purpose = "IMAGE" THEN "IMAGE" \in out(o).frame.consumers
                       ELSE VideoIsLive(out(o))) <=> ReservedFor(g, o, purpose)
    BY DEF StdoutHasOneWriter
  <2>1. StdoutIsOwned(g)
    BY DEF SoundInv, SoundState, OthersSound
  <2> QED BY <2>1 DEF StdoutIsOwned, Capturing, out
<1> QED BY <1>1, SoundInvHolds, PTL

(* The captures in progress, over all outputs                              *)

\* Among subsets of a finite set some are smallest.
LEMMA SmallestSubset ==
  ASSUME NEW S, IsFiniteSet(S), NEW T \in SUBSET (SUBSET S), T # {}
  PROVE  \E s \in T : \A u \in T : ~(u \subseteq s /\ u # s)
<1>1. IsWellFoundedOn(StrictSubsetOrdering(S), SUBSET S)
  BY FS_StrictSubsetOrderingWellFounded, FS_FiniteSubsetsOfFinite
<1>2. \E s \in T : \A u \in T : ~(<<u, s>> \in StrictSubsetOrdering(S))
  BY <1>1, WFMin
<1> QED BY <1>2 DEF StrictSubsetOrdering

\* How FoldFunction adds up the numbers f of the set s, from those of smaller sets.
Sums(f, domain, h) ==
  h = [s \in domain |-> IF s = {} THEN 0
                        ELSE f[CHOOSE x \in s : TRUE] + h[s \ {CHOOSE x \in s : TRUE}]]

\* There are such sums, of all sets that are at most as large as u.
LEMMA SumsExist ==
  ASSUME NEW S, IsFiniteSet(S), NEW f
  PROVE  \E h : Sums(f, SUBSET S, h)
<1> DEFINE Upto(u) == {s \in SUBSET S : Cardinality(s) <= Cardinality(u)}
           Unsummed == {u \in SUBSET S : ~\E h : Sums(f, Upto(u), h)}
<1>1. \A s \in SUBSET S : IsFiniteSet(s) /\ Cardinality(s) \in Nat
                          /\ Cardinality(s) <= Cardinality(S)
                          /\ (Cardinality(s) = 0 <=> s = {})
  BY FS_Subset, FS_CardinalityType, FS_EmptySet
<1>2. \A s \in SUBSET S, x \in S : x \in s => Cardinality(s \ {x}) = Cardinality(s) - 1
  BY <1>1, FS_RemoveElement
<1>3. ASSUME NEW u \in SUBSET S, \A v \in SUBSET S : v \subseteq u /\ v # u => v \notin Unsummed
      PROVE  u \notin Unsummed
  <2>1. CASE u = {}
    <3>1. \A s \in Upto(u) : s = {}
      BY <1>1, <2>1, FS_EmptySet
    <3>2. Sums(f, Upto(u), [s \in Upto(u) |-> 0])
      BY <3>1 DEF Sums
    <3> QED BY <3>2
  <2>2. CASE u # {}
    <3>1. PICK x : x \in u
      BY <2>2
    <3> DEFINE v == u \ {x}
    <3>2. v \in SUBSET S /\ v \notin Unsummed /\ Cardinality(v) = Cardinality(u) - 1
      BY <1>2, <1>3, <3>1
    <3>3. PICK h : Sums(f, Upto(v), h)
      BY <3>2
    <3> DEFINE Sum(k, s) == IF s = {} THEN 0
                            ELSE f[CHOOSE y \in s : TRUE] + k[s \ {CHOOSE y \in s : TRUE}]
               next == [s \in Upto(u) |-> Sum(h, s)]
    <3>4. \A s \in Upto(u) : s # {} => /\ s \ {CHOOSE y \in s : TRUE} \in Upto(v)
                                       /\ s \ {CHOOSE y \in s : TRUE} \in Upto(u)
      <4> TAKE s \in Upto(u)
      <4> HAVE s # {}
      <4> DEFINE y == CHOOSE y \in s : TRUE
      <4>1. y \in s
        OBVIOUS
      <4> HIDE DEF y
      <4>2. Cardinality(s \ {y}) = Cardinality(s) - 1 /\ s \ {y} \in SUBSET S
        BY <1>2, <4>1
      <4>3. /\ Cardinality(s) \in Nat /\ Cardinality(u) \in Nat
            /\ Cardinality(s) <= Cardinality(u)
        BY <1>1
      <4>4. s \ {y} \in Upto(v) /\ s \ {y} \in Upto(u)
        BY <3>2, <4>2, <4>3
      <4> QED BY <4>4 DEF y
    <3>5. \A s \in Upto(v) : next[s] = h[s]
      <4>1. \A s \in Upto(v) : s \in Upto(u)
        BY <1>1, <3>2
      <4>2. \A s \in Upto(v) : h[s] = Sum(h, s)
        BY <3>3 DEF Sums
      <4> QED BY <4>1, <4>2
    <3>6. \A s \in Upto(u) : Sum(next, s) = Sum(h, s)
      <4> HIDE DEF next, v, Upto
      <4> QED BY <3>4, <3>5
    <3>7. next = [s \in Upto(u) |-> Sum(next, s)]
      <4>1. next = [s \in Upto(u) |-> Sum(h, s)]
        OBVIOUS
      <4> HIDE DEF next, Upto, Sum
      <4> QED BY <3>6, <4>1
    <3>8. Sums(f, Upto(u), next)
      <4> HIDE DEF next, Upto
      <4> QED BY <3>7 DEF Sums
    <3> QED BY <3>8
  <2> QED BY <2>1, <2>2
<1>4. Unsummed = {}
  <2> HIDE DEF Unsummed
  <2>1. Unsummed \in SUBSET (SUBSET S)
    BY DEF Unsummed
  <2> QED BY <1>3, <2>1, SmallestSubset
<1>5. Upto(S) = SUBSET S
  BY <1>1
<1>6. S \notin Unsummed
  BY <1>4
<1> QED BY <1>5, <1>6

\* A sum of natural numbers is at least each of them.
LEMMA SumIsNoLess ==
  ASSUME NEW S, IsFiniteSet(S), NEW f \in [S -> Nat]
  PROVE  /\ FoldFunction(+, 0, f) \in Nat
         /\ \A x \in S : f[x] <= FoldFunction(+, 0, f)
<1> DEFINE sum == CHOOSE h : h = [s \in SUBSET S |-> IF s = {} THEN 0
                                    ELSE f[CHOOSE x \in s : TRUE]
                                           + h[s \ {CHOOSE x \in s : TRUE}]]
           Bounds(s) == sum[s] \in Nat /\ \A x \in s : f[x] <= sum[s]
           Wrong == {s \in SUBSET S : ~Bounds(s)}
<1>1. FoldFunction(+, 0, f) = sum[S]
  <2>1. DOMAIN f = S
    OBVIOUS
  <2> QED BY <2>1, Zenon DEF FoldFunction, FoldFunctionOnSet, MapThenFoldSet
<1>2. sum = [s \in SUBSET S |-> IF s = {} THEN 0
               ELSE f[CHOOSE x \in s : TRUE] + sum[s \ {CHOOSE x \in s : TRUE}]]
  <2>1. \E h : Sums(f, SUBSET S, h)
    BY SumsExist
  <2>2. sum = CHOOSE h : Sums(f, SUBSET S, h)
    BY DEF Sums
  <2>3. Sums(f, SUBSET S, sum)
    BY <2>1, <2>2
  <2> HIDE DEF sum
  <2> QED BY <2>3 DEF Sums
<1> HIDE DEF sum
<1>3. ASSUME NEW s \in SUBSET S, \A u \in SUBSET S : u \subseteq s /\ u # s => Bounds(u)
      PROVE  Bounds(s)
  <2>1. CASE s = {}
    BY <1>2, <2>1
  <2>2. CASE s # {}
    <3> DEFINE x == CHOOSE x \in s : TRUE
    <3>1. x \in s
      BY <2>2
    <3>2. sum[s] = f[x] + sum[s \ {x}]
      BY <1>2, <2>2
    <3> HIDE DEF x
    <3>3. Bounds(s \ {x})
      BY <1>3, <3>1
    <3>4. f[x] \in Nat /\ \A y \in s : f[y] \in Nat /\ (y = x \/ y \in s \ {x})
      BY <3>1
    <3> QED BY <3>2, <3>3, <3>4
  <2> QED BY <2>1, <2>2
<1>4. Wrong = {}
  <2>1. Wrong \in SUBSET (SUBSET S)
    OBVIOUS
  <2>2. \A s \in Wrong : \E u \in Wrong : u \subseteq s /\ u # s
    <3> HIDE DEF Bounds
    <3> QED BY <1>3
  <2> HIDE DEF Wrong
  <2> QED BY <2>1, <2>2, SmallestSubset
<1>5. Bounds(S)
  BY <1>4
<1>6. sum[S] \in Nat /\ \A x \in S : f[x] <= sum[S]
  BY <1>5
<1> QED BY <1>1, <1>6, Zenon

(* The end of the loop                                                     *)

LEMMA CapturesAddUp ==
  ASSUME SoundInv
  PROVE  /\ CapturesInProgress \in Nat
         /\ \A o \in Outputs : out(o).captures \in Nat /\ out(o).captures <= CapturesInProgress
<1> DEFINE captures == [o \in Outputs |-> out(o).captures]
<1>1. \A o \in Outputs : out(o).captures \in Nat
  <2> TAKE o \in Outputs
  <2>1. Counted(out(o))
    BY OutIsSound DEF Sound, Steady, Balanced
  <2> QED BY <2>1 DEF Counted, Count
<1>2. captures \in [Outputs -> Nat]
  BY <1>1
<1>3. /\ FoldFunction(+, 0, captures) \in Nat
      /\ \A o \in Outputs : captures[o] <= FoldFunction(+, 0, captures)
  <2> HIDE DEF captures
  <2> QED BY <1>2, CaptureOptions, SumIsNoLess
<1>4. FoldFunction(+, 0, captures) = CapturesInProgress
  BY Zenon DEF CapturesInProgress
<1>5. \A o \in Outputs : captures[o] = out(o).captures
  OBVIOUS
<1> HIDE DEF captures
<1>6. CapturesInProgress \in Nat /\ \A o \in Outputs : captures[o] <= CapturesInProgress
  BY <1>3, <1>4, Zenon
<1> QED BY <1>1, <1>5, <1>6

\* Neither the cursor nor a redraw begins or ends a capture.
LEMMA SyncedCaptures ==
  ASSUME NEW x \in Output, NEW shows \in BOOLEAN
  PROVE  LET y == SyncCursorCapture(x, shows)
         IN y.captures = x.captures /\ RequestFrameCallback(y).captures = x.captures
<1>1. SyncCursorCapture(x, shows).captures = x.captures
  BY DEF SyncCursorCapture, RequestFrameForced, RequestFrame, DestroyFrame, Check, Output
<1>2. SyncCursorCapture(x, shows) \in Output
  BY SyncCursorCaptureFollows DEF Follows
<1> HIDE DEF SyncCursorCapture
<1> QED BY <1>1, <1>2 DEF RequestFrameCallback, Output

\* Only the loop ends the loop, and only what it runs changes anything.
LEMMA OnlyTheLoopEnds ==
  ASSUME [Next]_vars
  PROVE  \/ \E outdated \in SUBSET Outputs : LoopIteration(outdated)
         \/ running' = running /\ running
         \/ running' = running /\ g' = g
         \/ running' = running /\ \E o \in Outputs : InitSelection(o)
<1>1. ASSUME UserStep PROVE running' = running /\ running
  BY <1>1 DEF UserStep, KeyHideUi, KeyVideo, KeyImage, KeyArrow, KeyFreezeframe, KeyEscape,
     PointerFocus, KeyTab, PointerMotion, PointerButton, KeyPressed, Looping
<1>2. ASSUME CompositorStep PROVE running' = running /\ running
  <2>1. ASSUME NEW o \in Outputs,
               \/ FrameCallback(o) \/ SelectionDiscarded(o) \/ CaptureBufferRelease(o)
               \/ \E b \in Buffers : SurfaceBufferRelease(o, b)
        PROVE  running' = running /\ running
    BY <2>1 DEF FrameCallback, SelectionDiscarded, CaptureBufferRelease, SurfaceBufferRelease,
       Event, Looping
  <2>2. ASSUME NEW o \in Outputs, NEW ok \in BOOLEAN,
               \/ SelectionPresented(o, ok) \/ HidePresented(o, ok)
               \/ FrameFailed(o, ok) \/ FreezeframeFailed(o, ok)
        PROVE  running' = running /\ running
    BY <2>2 DEF SelectionPresented, HidePresented, FrameFailed, FreezeframeFailed, Event, Looping
  <2>3. ASSUME NEW o \in Outputs, NEW stale \in BOOLEAN, NEW written \in BOOLEAN,
               NEW ok \in BOOLEAN, FrameReady(o, stale, written, ok)
        PROVE  running' = running /\ running
    BY <2>3 DEF FrameReady, Event, Looping
  <2>4. ASSUME NEW o \in Outputs, NEW rotated \in BOOLEAN, NEW ok \in BOOLEAN,
               FreezeframeReady(o, rotated, ok) \/ RotatedBufferRelease(o, rotated, ok)
        PROVE  running' = running /\ running
    BY <2>4 DEF FreezeframeReady, RotatedBufferRelease, Event, Looping
  <2> QED BY <1>2, <2>1, <2>2, <2>3, <2>4 DEF CompositorStep
<1>3. ASSUME NEW o \in Outputs, InitSelection(o) \/ AudioFailed(o)
      PROVE  running' = running /\ (InitSelection(o) \/ running)
  BY <1>3 DEF InitSelection, AudioFailed, Event, Looping
<1>4. ASSUME Exited \/ UNCHANGED vars PROVE running' = running /\ g' = g
  BY <1>4 DEF Exited, vars
<1> QED BY <1>1, <1>2, <1>3, <1>4 DEF Next

LEMMA EndInvHolds == Spec => []EndInv
<1>1. Init => EndInv
  BY InitIsSound DEF EndInv, Init
<1>2. EndInv /\ [Next]_vars => EndInv'
  <2> SUFFICES ASSUME EndInv, [Next]_vars, ~running'
               PROVE  /\ FreezeAtStartup \/ \A o \in Outputs : Mapped(o)'
                      /\ \A o \in Outputs : out(o)'.captures = 0
    BY NextKeepsSound DEF EndInv, Mapped, out
  <2>1. SoundInv
    BY DEF EndInv
  <2>2. ASSUME NEW outdated \in SUBSET Outputs, LoopIteration(outdated)
        PROVE  /\ FreezeAtStartup \/ \A o \in Outputs : Mapped(o)'
               /\ \A o \in Outputs : out(o)'.captures = 0
    <3>1. /\ FreezeAtStartup \/ \A o \in Outputs : Mapped(o)
          /\ ~(CapturesInProgress > 0)
      BY <2>2 DEF LoopIteration, Looping
    <3>2. \A o \in Outputs : out(o).captures = 0
      BY <2>1, <3>1, CapturesAddUp
    <3>3. \A o \in Outputs : Mapped(o) => Mapped(o)'
      BY <2>1, NextIsSound DEF StepIsSound, AlmostQuiet, Mapped, out
    <3> DEFINE synced(o) == SyncCursorCapture(out(o), seat.focus # NoOutput)
               outputs == [o \in Outputs |->
                 IF o \in outdated THEN RequestFrameCallback(synced(o)) ELSE synced(o)]
    <3>4. \A o \in Outputs : outputs[o].captures = 0
      <4> TAKE o \in Outputs
      <4>1. out(o) \in Output
        BY <2>1, OutIsSound
      <4>2. synced(o).captures = 0 /\ RequestFrameCallback(synced(o)).captures = 0
        BY <3>2, <4>1, SyncedCaptures
      <4> HIDE DEF synced
      <4> QED BY <4>2
    <3>5. g' = [g EXCEPT !.outputs = outputs]
      BY <2>2 DEF LoopIteration
    <3> HIDE DEF outputs
    <3>6. g'.outputs = outputs
      BY <2>1, <3>5 DEF SoundInv, TypeOK, State
    <3> QED BY <3>1, <3>3, <3>4, <3>6 DEF out
  <2>3. CASE running' = running /\ g' = g
    BY <2>3 DEF EndInv, Mapped, out
  <2>4. ~(running' = running /\ \E o \in Outputs : InitSelection(o))
    <3> SUFFICES ASSUME running' = running, NEW o \in Outputs, InitSelection(o)
                 PROVE  FALSE
      OBVIOUS
    <3>1. ~FreezeAtStartup /\ ~Mapped(o)
      BY DEF InitSelection
    <3>2. ~running
      OBVIOUS
    <3> QED BY <3>1, <3>2 DEF EndInv
  <2> QED BY <2>2, <2>3, <2>4, OnlyTheLoopEnds
<1> QED BY <1>1, <1>2, PTL DEF Spec

\* scran never exits on a capture: where the loop ends, on any number of outputs, no
\* image, recording, consumer or reservation is left.  Only a hide may be left unanswered,
\* for which then nobody waits.
THEOREM NothingIsEverCutOff == Spec => []NothingIsCutOff
<1>1. ASSUME EndInv, ~running, NEW o \in Outputs
      PROVE  out(o).frame.consumers = {} /\ ~VideoIsLive(out(o)) /\ AllConsumers(out(o)) = {}
  <2>1. Counted(out(o)) /\ FrameIsShared(out(o)) /\ out(o) \in Output
    BY <1>1, OutIsSound DEF Sound, Steady, Balanced, EndInv
  <2>2. out(o).captures = 0
    BY <1>1 DEF EndInv
  <2>3. /\ AllConsumers(out(o)) = {} /\ "IMAGE" \notin out(o).frame.consumers
        /\ ~VideoIsLive(out(o))
    BY <2>1, <2>2 DEF Counted, Count
  <2>4. out(o).frame.consumers \in SUBSET {"IMAGE", "VIDEO"}
    BY <2>1 DEF Output, FrameContext
  <2> QED BY <2>1, <2>3, <2>4 DEF FrameIsShared
<1>2. ASSUME EndInv, ~running PROVE StdoutIsFree(g)
  <2>1. g \in State /\ StdoutIsOwned(g)
    BY <1>2 DEF EndInv, SoundInv, TypeOK, SoundState, OthersSound
  <2>2. \A o \in Outputs, purpose \in {"IMAGE", "VIDEO"} : ~Capturing(g.outputs[o], purpose)
    BY <1>1, <1>2 DEF Capturing, out
  <2> QED BY <2>1, <2>2 DEF StdoutIsOwned, StdoutIsFree, ReservedFor, State, Reservation
<1>3. EndInv => NothingIsCutOff
  BY <1>1, <1>2 DEF NothingIsCutOff
<1> QED BY <1>3, EndInvHolds, PTL

(* The exit, as Exit describes it                                          *)

LEMMA NothingCapturedIsIdle == SoundInv /\ NothingCaptured => ScranExit!Idle
<1> SUFFICES ASSUME SoundInv, NothingCaptured PROVE ScranExit!Idle
  OBVIOUS
<1>1. ASSUME NEW o \in Outputs
      PROVE  out(o).awaiting_ui = {} /\ out(o).active = {} /\ out(o).frame.consumers = {}
  <2>1. Counted(out(o)) /\ FrameIsShared(out(o)) /\ out(o) \in Output
    BY OutIsSound DEF Sound, Steady, Balanced
  <2>2. out(o).captures = 0
    BY DEF NothingCaptured
  <2>3. /\ AllConsumers(out(o)) = {} /\ "IMAGE" \notin out(o).frame.consumers
        /\ ~VideoIsLive(out(o))
    BY <2>1, <2>2 DEF Counted, Count
  <2>4. out(o).frame.consumers \in SUBSET {"IMAGE", "VIDEO"}
    BY <2>1 DEF Output, FrameContext
  <2>5. out(o).frame.consumers = {}
    BY <2>1, <2>3, <2>4 DEF FrameIsShared
  <2> QED BY <2>3, <2>5 DEF AllConsumers
<1> QED BY <1>1 DEF ScranExit!Idle, Of, Awaiting, Active, Framed

\* After the end nothing runs.
LEMMA TheEndIsFinal ==
  ASSUME EndInv, [Next]_vars, ~running
  PROVE  g' = g /\ ~running'
<1>1. ~ \E outdated \in SUBSET Outputs : LoopIteration(outdated)
  BY DEF LoopIteration, Looping
<1>2. ASSUME NEW o \in Outputs, InitSelection(o) PROVE FALSE
  BY <1>2 DEF InitSelection, EndInv
<1> QED BY <1>1, <1>2, OnlyTheLoopEnds

LEMMA ExitInvHolds == Spec => []ExitInv
<1>1. Init => GivenUp(g)
  BY DEF Init, GivenUp
<1>2. TypeOK /\ GivenUp(g) /\ [Next]_vars => GivenUp(g)'
  BY NextSteps DEF StepObeys, Obeys, ExitObeyed, GivenUp
<1> QED BY <1>1, <1>2, TypeCorrect, EndInvHolds, PTL DEF Spec, ExitInv

\* While the loop goes on, a step is a handler of Exit.
LEMMA HandlersAreHandled ==
  ASSUME ExitInv, ExitInv', [Next]_vars, running, running'
  PROVE  ScranExit!Handle
<1>1. StepObeys
  BY NextSteps DEF ExitInv, EndInv, SoundInv
<1>2. g.exit_requested \in BOOLEAN /\ g'.exit_requested \in BOOLEAN
  BY DEF ExitInv, EndInv, SoundInv, TypeOK, State
<1>3. running' = running
  BY DEF ExitInv, EndInv, SoundInv, TypeOK
<1>4. ASSUME g.exit_requested, NEW o \in Outputs
      PROVE  g'.exit_requested /\ g'.outputs[o].active \subseteq g.outputs[o].active
  BY <1>1, <1>4 DEF StepObeys, Obeys, ExitObeyed, ExitInv, GivenUp, AllConsumers
<1>5. g.exit_requested => g'.exit_requested
  BY <1>1 DEF StepObeys, Obeys, ExitObeyed
<1>6. g.exit_requested => Of(Active)' \subseteq Of(Active)
  BY <1>4 DEF Of, Active, out
<1>7. g'.exit_requested => Of(Awaiting)' = {}
  BY DEF ExitInv, GivenUp, Of, Awaiting, out
<1>8. /\ Of(Awaiting)' \in SUBSET (Outputs \X Consumers)
      /\ Of(Active)' \in SUBSET (Outputs \X Consumers)
      /\ Of(Framed)' \in SUBSET (Outputs \X Consumers)
  BY DEF Of
<1> QED BY <1>2, <1>3, <1>5, <1>6, <1>7, <1>8 DEF ScranExit!Handle

\* The iteration that ends the loop is the return of Exit: only where nothing is being
\* captured, and what it still does for the cursor and the redraw captures nothing.
LEMMA TheLoopReturns ==
  ASSUME ExitInv, ExitInv', [Next]_vars, running, ~running'
  PROVE  ScranExit!Return
<1>1. PICK outdated \in SUBSET Outputs : LoopIteration(outdated)
  BY OnlyTheLoopEnds
<1>2. /\ g.exit_requested
      /\ ~(CapturesInProgress > 0)
      /\ running' = FALSE
  BY <1>1 DEF LoopIteration, ExitInv, EndInv, SoundInv, TypeOK, State
<1>3. SoundInv /\ SoundInv'
  BY DEF ExitInv, EndInv
<1>4. NothingCaptured
  BY <1>2, <1>3, CapturesAddUp DEF NothingCaptured
<1>5. ScranExit!Idle
  BY <1>3, <1>4, NothingCapturedIsIdle
<1>6. NothingCaptured'
  BY DEF ExitInv, EndInv, NothingCaptured
<1>7. ScranExit!Idle'
  BY <1>3, <1>6, NothingCapturedIsIdle, PTL
<1>8. g'.exit_requested
  BY <1>2, NextSteps, <1>3 DEF SoundInv, StepObeys, Obeys, ExitObeyed
<1>9. g'.exit_requested = g.exit_requested
  BY <1>2, <1>3, <1>8 DEF SoundInv, TypeOK, State
<1> QED BY <1>2, <1>5, <1>7, <1>9 DEF ScranExit!Return, ScranExit!Idle

\* scran's exit is the one that Exit describes, on any number of outputs and in whatever
\* order keys, signals, events and failures come: scran_request_exit(), the guard of
\* capture_fullscreen_start() and the condition of the loop keep it together.
THEOREM ExitIsAlwaysKept == Spec => ExitIsKept
<1>1. Init => ScranExit!Init
  <2> SUFFICES ASSUME Init PROVE ScranExit!Init
    OBVIOUS
  <2>1. g.exit_requested = FALSE /\ running = TRUE
    BY DEF Init
  <2>2. ASSUME NEW o \in Outputs
        PROVE  out(o).awaiting_ui = {} /\ out(o).active = {} /\ out(o).frame.consumers = {}
    BY DEF Init, out, InitialOutput
  <2> QED BY <2>1, <2>2 DEF ScranExit!Init, ScranExit!Idle, Of, Awaiting, Active, Framed
<1>2. ExitInv /\ ExitInv' /\ [Next]_vars => [ScranExit!Next]_(ScranExit!vars)
  <2> SUFFICES ASSUME ExitInv, ExitInv', [Next]_vars PROVE [ScranExit!Next]_(ScranExit!vars)
    OBVIOUS
  <2>1. CASE running /\ running'
    BY <2>1, HandlersAreHandled DEF ScranExit!Next
  <2>2. CASE running /\ ~running'
    BY <2>2, TheLoopReturns DEF ScranExit!Next
  <2>3. CASE ~running
    <3>1. g' = g /\ running' = running
      BY <2>3, TheEndIsFinal DEF ExitInv, EndInv, SoundInv, TypeOK
    <3> QED BY <3>1 DEF ScranExit!vars, Of, Awaiting, Active, Framed, out
  <2> QED BY <2>1, <2>2, <2>3
<1> QED BY <1>1, <1>2, ExitInvHolds, PTL DEF Spec, ExitIsKept, ScranExit!Spec

(* The buttons                                                             *)
(*                                                                         *)
(* g_state knows one active button for all outputs.  Where there is one    *)
(* output, its selection says which buttons may be active (ButtonsOf), and *)
(* everything that changes either keeps it so (Held).  Of a state Held     *)
(* only asks that it has the fields it names: what the functions write     *)
(* into the others does not matter here.                                   *)

LEMMA FrameKeepsSelection ==
  ASSUME NEW x, "selection" \in DOMAIN x
  PROVE  /\ \A condition, where : SameSelection(x, Check(x, condition, where))
         /\ SameSelection(x, RequestFrameCallback(x))
         /\ SameSelection(x, Redraw(x))
         /\ \A consumers : SameSelection(x, RequestFrame(x, consumers))
         /\ \A consumers : SameSelection(x, RequestFrameForced(x, consumers))
         /\ \A where : SameSelection(x, DestroyFrame(x, where))
<1>1. \A condition, where : SameSelection(x, Check(x, condition, where))
  BY DEF SameSelection, Check
<1>2. SameSelection(x, RequestFrameCallback(x)) /\ SameSelection(x, Redraw(x))
  BY DEF SameSelection, RequestFrameCallback, Redraw
<1>3. \A consumers : SameSelection(x, RequestFrame(x, consumers))
  BY DEF SameSelection, RequestFrame
<1>4. \A consumers : SameSelection(x, RequestFrameForced(x, consumers))
  BY <1>3 DEF SameSelection, RequestFrameForced
<1>5. \A where : SameSelection(x, DestroyFrame(x, where))
  BY <1>1 DEF SameSelection, DestroyFrame
<1> QED BY <1>1, <1>2, <1>3, <1>4, <1>5

LEMMA StopKeepsSelection ==
  ASSUME NEW x, "selection" \in DOMAIN x
  PROVE  SameSelection(x, VideoRequestStop(x))
<1> DEFINE y == [x EXCEPT !.video_stage = "STOP_REQUESTED"]
           z == DestroyFrame(y, "capture.c:515")
<1>1. SameSelection(x, y)
  BY DEF SameSelection
<1>2. SameSelection(y, z)
  BY <1>1, FrameKeepsSelection DEF SameSelection
<1> HIDE DEF y
<1>3. SameSelection(z, RequestFrameForced(z, {"VIDEO"}))
  BY <1>2, FrameKeepsSelection DEF SameSelection
<1> QED BY <1>1, <1>2, <1>3 DEF SameSelection, VideoRequestStop, y

LEMMA SyncCursorKeepsSelection ==
  ASSUME NEW x, "selection" \in DOMAIN x, NEW shows
  PROVE  SameSelection(x, SyncCursorCapture(x, shows))
<1> DEFINE session == IF shows THEN "DEFAULT" ELSE "WITH_CURSOR"
           switch(y) == [y EXCEPT !.frame.session = session, !.frame.switched = TRUE]
           d == DestroyFrame(x, "capture.h:293")
           e == switch(d)
<1>1. SameSelection(x, switch(x))
  BY DEF SameSelection
<1>2. SameSelection(x, d)
  BY FrameKeepsSelection
<1>3. SameSelection(d, e)
  BY <1>2 DEF SameSelection
<1> HIDE DEF d, e
<1>4. SameSelection(e, RequestFrameForced(e, x.frame.consumers))
  BY <1>3, FrameKeepsSelection DEF SameSelection
<1> QED BY <1>1, <1>2, <1>3, <1>4 DEF SameSelection, SyncCursorCapture, d, e

LEMMA UiKeepsSelection ==
  ASSUME NEW x, "selection" \in DOMAIN x
  PROVE  /\ SameSelection(x, SyncUi(x))
         /\ \A finished : SameSelection(x, EndConsumers(x, finished))
         /\ \A finished : SameSelection(x, EndWithNoneAwaiting(x, finished))
<1>1. ASSUME NEW y, "selection" \in DOMAIN y PROVE SameSelection(y, SyncUi(y))
  <2>1. SameSelection(y, AcquireUiHide(y))
    BY <1>1 DEF SameSelection, AcquireUiHide
  <2>2. SameSelection(y, ReleaseUiHide(y))
    <3> DEFINE z == Check(y, ReleaseHideAssertion(y.surface), "selection.c:100")
    <3>1. SameSelection(y, z)
      BY <1>1, FrameKeepsSelection
    <3> HIDE DEF z
    <3> QED BY <3>1 DEF SameSelection, ReleaseUiHide, z
  <2>3. \A ui : SameSelection(y, Redraw([y EXCEPT !.ui = ui]))
    <3> TAKE ui
    <3> DEFINE z == [y EXCEPT !.ui = ui]
    <3>1. SameSelection(y, z)
      BY <1>1 DEF SameSelection
    <3> HIDE DEF z
    <3>2. SameSelection(z, Redraw(z))
      BY <3>1, FrameKeepsSelection DEF SameSelection
    <3> QED BY <3>1, <3>2 DEF SameSelection, z
  <2>4. SameSelection(y, y)
    BY <1>1 DEF SameSelection
  <2> QED BY <2>1, <2>2, <2>3, <2>4 DEF SyncUi
<1>2. ASSUME NEW finished PROVE SameSelection(x, EndConsumers(x, finished))
  BY DEF SameSelection, EndConsumers
<1>3. ASSUME NEW finished PROVE SameSelection(x, EndWithNoneAwaiting(x, finished))
  BY <1>1, <1>2 DEF SameSelection, EndWithNoneAwaiting
<1> QED BY <1>1, <1>2, <1>3

LEMMA FreezeframeKeepsSelection ==
  ASSUME NEW x, "selection" \in DOMAIN x, NEW requested
  PROVE  /\ SameSelection(x, FreezeframeCaptureStart(x))
         /\ SameSelection(x, FreezeframeHide(x))
         /\ SameSelection(x, FreezeframeRefresh(x, requested))
<1>1. ASSUME NEW y, "selection" \in DOMAIN y PROVE SameSelection(y, FreezeframeCaptureStart(y))
  BY <1>1 DEF SameSelection, FreezeframeCaptureStart
<1>2. SameSelection(x, FreezeframeHide(x))
  BY FrameKeepsSelection DEF SameSelection, FreezeframeHide
<1>3. SameSelection(x, FreezeframeRefresh(x, requested))
  <2> DEFINE hidden  == FreezeframeHide(x)
             waiting == [hidden EXCEPT
                           !.freezeframe.stage = "REFRESHING",
                           !.captures = IF AllConsumers(x) = {} THEN @ + 1 ELSE @,
                           !.awaiting_ui = @ \cup {"FREEZEFRAME"}]
             checked == Check(waiting, x.awaiting_ui = {}, "dispatch of others")
             begun   == [checked EXCEPT !.awaiting_ui = {}, !.active = @ \cup {"FREEZEFRAME"}]
  <2>1. SameSelection(x, hidden)
    BY <1>2
  <2>2. SameSelection(x, waiting)
    BY <2>1 DEF SameSelection
  <2> HIDE DEF waiting
  <2>3. SameSelection(x, SyncUi(waiting))
    BY <2>2, UiKeepsSelection DEF SameSelection
  <2>4. SameSelection(x, checked)
    BY <2>2 DEF SameSelection, Check
  <2> HIDE DEF checked
  <2>5. SameSelection(x, begun)
    BY <2>4 DEF SameSelection
  <2> HIDE DEF begun
  <2>6. SameSelection(x, FreezeframeCaptureStart(begun))
    BY <2>5, <1>1 DEF SameSelection
  <2> HIDE DEF hidden
  <2>7. FreezeframeRefresh(x, requested) \in {hidden, SyncUi(waiting), FreezeframeCaptureStart(begun)}
    BY DEF FreezeframeRefresh, hidden, waiting, checked, begun
  <2> QED BY <2>1, <2>3, <2>6, <2>7
<1> QED BY <1>1, <1>2, <1>3

LEMMA ExitKeepsSelection ==
  ASSUME NEW x, "selection" \in DOMAIN x
  PROVE  SameSelection(x, RequestExitOnOutput(x))
<1> DEFINE fused == [x EXCEPT !.surface = FuseOff(@)]
           ended == IF x.awaiting_ui = {} THEN fused
                    ELSE EndWithNoneAwaiting([fused EXCEPT !.awaiting_ui = {}], x.awaiting_ui)
<1>1. SameSelection(x, fused) /\ SameSelection(x, [fused EXCEPT !.awaiting_ui = {}])
  BY DEF SameSelection
<1> HIDE DEF fused
<1>2. SameSelection(x, ended)
  BY <1>1, UiKeepsSelection DEF SameSelection
<1>3. RequestExitOnOutput(x) \in {ended, VideoRequestStop(ended)}
  BY DEF RequestExitOnOutput, fused
<1> HIDE DEF ended
<1>4. SameSelection(x, VideoRequestStop(ended))
  BY <1>2, StopKeepsSelection DEF SameSelection
<1> QED BY <1>2, <1>3, <1>4

\* One output replaced by one with the same selection.
LEMMA PutHolds ==
  ASSUME NEW s, Held(s), NEW o \in Outputs, NEW x, SameSelection(s.outputs[o], x)
  PROVE  Held(Put(s, o, x)) /\ Put(s, o, x).outputs[o] = x
<1> DEFINE t == Put(s, o, x)
<1>1. /\ {"outputs", "active_button", "exit_requested", "stdout"} \subseteq DOMAIN t
      /\ DOMAIN t.outputs = Outputs
      /\ t.active_button = s.active_button
      /\ \A p \in Outputs : t.outputs[p] = IF p = o THEN x ELSE s.outputs[p]
  BY DEF Held, Shaped, Put
<1> HIDE DEF t
<1>2. Held(t) /\ t.outputs[o] = x
  BY <1>1 DEF Held, Shaped, SameSelection
<1> QED BY <1>2 DEF t

LEMMA OutputsHold ==
  ASSUME NEW s, Held(s), NEW outputs, DOMAIN outputs = Outputs,
         \A p \in Outputs : SameSelection(s.outputs[p], outputs[p])
  PROVE  /\ Held([s EXCEPT !.outputs = outputs])
         /\ \A requested : Held([s EXCEPT !.exit_requested = requested, !.outputs = outputs])
  BY DEF Held, Shaped, SameSelection

LEMMA StdoutHolds ==
  ASSUME NEW s, Held(s), NEW o, NEW purpose
  PROVE  /\ Held(StdoutReserve(s, o, purpose))
         /\ StdoutReserve(s, o, purpose).outputs = s.outputs
         /\ Held(StdoutRelease(s, o, purpose))
         /\ StdoutRelease(s, o, purpose).outputs = s.outputs
  BY DEF Held, Shaped, StdoutReserve, StdoutRelease

LEMMA RequestExitHolds ==
  ASSUME NEW s, Held(s)
  PROVE  Held(RequestExit(s))
<1> DEFINE outputs == [p \in Outputs |-> RequestExitOnOutput(s.outputs[p])]
<1>1. DOMAIN outputs = Outputs /\ \A p \in Outputs : SameSelection(s.outputs[p], outputs[p])
  BY ExitKeepsSelection DEF Held
<1> HIDE DEF outputs
<1>2. Held([s EXCEPT !.exit_requested = TRUE, !.outputs = outputs])
  BY <1>1, OutputsHold
<1> QED BY <1>2 DEF RequestExit, outputs

\* The output that is there is the only one, so that the button need only fit its selection.
LEMMA SelectionHolds ==
  ASSUME OneOutput, NEW s, Shaped(s), NEW o \in Outputs, NEW x, "selection" \in DOMAIN x,
         x.selection \in SelectionStates
  PROVE  /\ s.active_button \in ButtonsOf(x.selection) => Held(Put(s, o, x))
         /\ \A button \in ButtonsOf(x.selection) : Held([Put(s, o, x) EXCEPT !.active_button = button])
<1>1. \A p \in Outputs : p = o
  BY DEF OneOutput
<1> DEFINE u == Put(s, o, x)
<1>2. /\ Shaped(u) /\ u.active_button = s.active_button
      /\ \A p \in Outputs : u.outputs[p] = x
  BY <1>1 DEF Shaped, Put
<1> HIDE DEF u
<1>3. ASSUME NEW button \in ButtonsOf(x.selection)
      PROVE  Held([u EXCEPT !.active_button = button])
  BY <1>2 DEF Held, Shaped
<1> QED BY <1>2, <1>3 DEF Held, u

LEMMA FreezeSizeHolds ==
  ASSUME OneOutput, NEW s, Held(s), NEW o \in Outputs
  PROVE  Held(SelectionFreezeSize(s, o)) /\ Held(SelectionUnfreezeSize(s, o))
<1> DEFINE x        == s.outputs[o]
           resizing == x.selection = "RESIZING"
           y        == Check(x, x.selection = "NONE" => AllConsumers(x) # {}, "selection.h:67")
           z        == [y EXCEPT !.size_is_frozen = TRUE,
                                 !.selection = IF resizing THEN "COMPLETE" ELSE @]
           button   == IF resizing THEN "NONE" ELSE s.active_button
<1>1. /\ "selection" \in DOMAIN x /\ x.selection \in SelectionStates
      /\ s.active_button \in ButtonsOf(x.selection)
      /\ "active_button" \in DOMAIN s /\ Shaped(s)
  BY DEF Held, Shaped
<1>2. SameSelection(x, y)
  BY <1>1, FrameKeepsSelection DEF SameSelection, Check
<1> HIDE DEF y
<1>3. "selection" \in DOMAIN z /\ z.selection = IF resizing THEN "COMPLETE" ELSE x.selection
  BY <1>2 DEF SameSelection
<1> HIDE DEF x, z
<1>4. z.selection \in SelectionStates /\ button \in ButtonsOf(z.selection)
  BY <1>1, <1>3 DEF SelectionStates, ButtonsOf
<1>5. Held([Put(s, o, z) EXCEPT !.active_button = button])
  BY <1>1, <1>3, <1>4, SelectionHolds
<1>6. [Put(s, o, z) EXCEPT !.active_button = button]
        = [Put(s, o, z) EXCEPT !.active_button = IF resizing THEN "NONE" ELSE @]
  BY <1>1 DEF Put
<1>7. Held(SelectionFreezeSize(s, o))
  BY <1>5, <1>6 DEF SelectionFreezeSize, x, y, z
<1>8. Held(SelectionUnfreezeSize(s, o))
  BY PutHolds DEF Held, SameSelection, SelectionUnfreezeSize, Put
<1> QED BY <1>7, <1>8

LEMMA ImageStartHolds ==
  ASSUME NEW s, Held(s), NEW o \in Outputs, NEW exit_after
  PROVE  Held(ImageStart(s, o, exit_after))
<1> DEFINE x    == s.outputs[o]
           r    == StdoutReserve(s, o, "IMAGE")
           y    == [RequestFrameForced(x, {"IMAGE"}) EXCEPT !.captures = @ + 1]
           z    == Check(x, ~ReservedFor(s, o, "IMAGE"), "capture.c:596")
           capturing == ImageStarts(s, o) /\ ~ProduceSlurp
           busy      == /\ ~ImageStarts(s, o)
                        /\ ProduceSlurp \/ "IMAGE" \notin x.frame.consumers
           started   == IF capturing THEN Put(r, o, y)
                        ELSE IF busy /\ ~ProduceSlurp THEN Put(s, o, z)
                        ELSE s
<1>1. "selection" \in DOMAIN x
  BY DEF Held
<1>2. SameSelection(x, y)
  BY <1>1, FrameKeepsSelection DEF SameSelection
<1>3. SameSelection(x, z)
  BY <1>1 DEF SameSelection, Check
<1>4. Held(r) /\ r.outputs = s.outputs
  BY StdoutHolds
<1> HIDE DEF r, y, z
<1>5. Held(Put(r, o, y)) /\ Held(Put(s, o, z))
  BY <1>2, <1>3, <1>4, PutHolds
<1>6. Held(started)
  BY <1>5
<1>7. ImageStart(s, o, exit_after) = IF exit_after /\ ~busy THEN RequestExit(started) ELSE started
  BY DEF ImageStart, r, y, z
<1> HIDE DEF started
<1>8. Held(RequestExit(started))
  BY <1>6, RequestExitHolds
<1> QED BY <1>6, <1>7, <1>8

LEMMA VideoStartHolds ==
  ASSUME OneOutput, NEW s, Held(s), NEW o \in Outputs, NEW ok
  PROVE  Held(VideoStart(s, o, ok))
<1> DEFINE frozen  == SelectionFreezeSize(s, o)
           called  == RequestFrameCallback(frozen.outputs[o])
           started == RequestFrameForced(called, {"VIDEO"})
           begun   == [started EXCEPT !.video_stage = "CAPTURING", !.captures = @ + 1]
           r       == StdoutReserve(frozen, o, "VIDEO")
           l       == StdoutRelease(frozen, o, "VIDEO")
<1>1. Held(frozen) /\ "selection" \in DOMAIN frozen.outputs[o]
  BY FreezeSizeHolds DEF Held
<1> HIDE DEF frozen
<1>2. SameSelection(frozen.outputs[o], called)
  BY <1>1, FrameKeepsSelection
<1> HIDE DEF called
<1>3. SameSelection(frozen.outputs[o], started)
  BY <1>2, FrameKeepsSelection DEF SameSelection
<1> HIDE DEF started
<1>4. SameSelection(frozen.outputs[o], begun)
  BY <1>3 DEF SameSelection
<1>5. Held(r) /\ r.outputs = frozen.outputs /\ Held(l)
  BY <1>1, StdoutHolds
<1> HIDE DEF r, l, begun
<1>6. Held(Put(r, o, begun))
  BY <1>4, <1>5, PutHolds
<1>7. Held(SelectionUnfreezeSize(l, o))
  BY <1>5, FreezeSizeHolds
<1>8. VideoStart(s, o, ok) \in {s, Put(r, o, begun), SelectionUnfreezeSize(l, o)}
  BY DEF VideoStart, frozen, called, started, begun, r, l
<1> QED BY <1>6, <1>7, <1>8

LEMMA CancelPendingHolds ==
  ASSUME OneOutput, NEW s, Held(s), NEW o \in Outputs
  PROVE  Held(VideoCancelPending(s, o))
<1> DEFINE x == s.outputs[o]
           y == Check(x, x.video_stage = "FULLSCREEN_START_PENDING", "capture.c:388")
           z == [y EXCEPT !.video_stage = "NONE"]
<1>1. SameSelection(x, y)
  BY DEF Held, SameSelection, Check
<1> HIDE DEF y
<1>2. SameSelection(x, z)
  BY <1>1 DEF SameSelection
<1> HIDE DEF z
<1>3. Held(Put(s, o, z))
  BY <1>2, PutHolds
<1>4. Held(SelectionUnfreezeSize(Put(s, o, z), o))
  BY <1>3, FreezeSizeHolds
<1> QED BY <1>4 DEF VideoCancelPending, y, z

LEMMA DispatchHolds ==
  ASSUME OneOutput, NEW s, Held(s), NEW o \in Outputs, NEW ok
  PROVE  Held(DispatchAwaiting(s, o, ok))
<1> DEFINE x        == s.outputs[o]
           awaiting == x.awaiting_ui
           begun    == Put(s, o, [x EXCEPT !.active = @ \cup awaiting, !.awaiting_ui = {}])
           imaged   == IF "IMAGE" \in awaiting THEN ImageStart(begun, o, x.exit_after) ELSE begun
           Recording(i) == ~i.exit_requested /\ VideoStarts(i, o, ok)
           Film(i)  == IF "VIDEO" \notin awaiting THEN i
                       ELSE IF i.exit_requested THEN VideoCancelPending(i, o)
                       ELSE IF Recording(i) THEN VideoStart(i, o, ok)
                       ELSE VideoCancelPending(VideoStart(i, o, ok), o)
           Freeze(f) == IF "FREEZEFRAME" \in awaiting
                          THEN Put(f, o, FreezeframeCaptureStart(f.outputs[o]))
                          ELSE f
           Failed(i) == {c \in awaiting : \/ c = "IMAGE" /\ ~ImageStarts(begun, o)
                                          \/ c = "VIDEO" /\ ~Recording(i)}
           End(t, failed) == IF failed = {} THEN t
                             ELSE Put(t, o, EndWithNoneAwaiting(t.outputs[o], failed))
<1>1. SameSelection(x, [x EXCEPT !.active = @ \cup awaiting, !.awaiting_ui = {}])
  BY DEF Held, SameSelection
<1>2. Held(begun)
  BY <1>1, PutHolds
<1> HIDE DEF begun
<1>3. Held(imaged)
  BY <1>2, ImageStartHolds
<1> HIDE DEF imaged
<1>4. Held(Film(imaged))
  BY <1>3, VideoStartHolds, CancelPendingHolds
<1> DEFINE f == Film(imaged)
<1>5. Held(f)
  BY <1>4
<1> HIDE DEF f
<1>6. SameSelection(f.outputs[o], FreezeframeCaptureStart(f.outputs[o]))
  BY <1>5, FreezeframeKeepsSelection DEF Held
<1>7. Held(Freeze(f))
  BY <1>5, <1>6, PutHolds
<1> DEFINE t == Freeze(f)
           failed == Failed(imaged)
<1>8. Held(t)
  BY <1>7
<1> HIDE DEF t, failed
<1>9. SameSelection(t.outputs[o], EndWithNoneAwaiting(t.outputs[o], failed))
  BY <1>8, UiKeepsSelection DEF Held
<1>10. Held(End(t, failed))
  BY <1>8, <1>9, PutHolds
<1>11. DispatchAwaiting(s, o, ok) = End(t, failed)
  BY DEF DispatchAwaiting, t, failed, f, imaged, begun
<1> QED BY <1>10, <1>11

LEMMA SyncHolds ==
  ASSUME OneOutput, NEW s, Held(s), NEW o \in Outputs, NEW ok
  PROVE  Held(SyncUiAndDispatch(s, o, ok))
  BY UiKeepsSelection, PutHolds, DispatchHolds DEF Held, SyncUiAndDispatch

LEMMA FullscreenHolds ==
  ASSUME OneOutput, NEW s, Held(s), NEW o \in Outputs, NEW consumer, NEW ok
  PROVE  Held(FullscreenStart(s, o, consumer, ok)) /\ Held(FullscreenEnd(s, o, consumer, ok))
<1> DEFINE x == s.outputs[o]
           y == [x EXCEPT !.captures = IF AllConsumers(x) = {} THEN @ + 1 ELSE @,
                          !.awaiting_ui = @ \cup {consumer}]
           z == EndConsumers(x, {consumer})
<1>1. SameSelection(x, y)
  BY DEF Held, SameSelection
<1>2. SameSelection(x, z)
  BY UiKeepsSelection DEF Held
<1> HIDE DEF y, z
<1>3. Held(Put(s, o, y)) /\ Held(Put(s, o, z))
  BY <1>1, <1>2, PutHolds
<1>4. Held(SyncUiAndDispatch(Put(s, o, y), o, ok)) /\ Held(SyncUiAndDispatch(Put(s, o, z), o, ok))
  BY <1>3, SyncHolds
<1>5. FullscreenStart(s, o, consumer, ok) \in {s, SyncUiAndDispatch(Put(s, o, y), o, ok)}
  BY DEF FullscreenStart, y
<1> QED BY <1>4, <1>5 DEF FullscreenEnd, z

\* A field of one output that is not its selection.
LEMMA FieldHolds ==
  ASSUME NEW s, Held(s), NEW o \in Outputs, NEW value
  PROVE  /\ Held([s EXCEPT !.outputs[o].exit_after = value])
         /\ Held([s EXCEPT !.outputs[o].video_stage = value])
         /\ Held([s EXCEPT !.outputs[o].ui_inside = value])
         /\ Held([s EXCEPT !.outputs[o].ui = value])
         /\ Held([s EXCEPT !.outputs[o].freezeframe.startup = value])
         /\ Held([s EXCEPT !.outputs[o].freezeframe.in_flight = value])
         /\ Held([s EXCEPT !.outputs[o].frame.consumers = value])
<1> DEFINE x == s.outputs[o]
<1>1. /\ SameSelection(x, [x EXCEPT !.exit_after = value])
      /\ SameSelection(x, [x EXCEPT !.video_stage = value])
      /\ SameSelection(x, [x EXCEPT !.ui_inside = value])
      /\ SameSelection(x, [x EXCEPT !.ui = value])
      /\ SameSelection(x, [x EXCEPT !.freezeframe.startup = value])
      /\ SameSelection(x, [x EXCEPT !.freezeframe.in_flight = value])
      /\ SameSelection(x, [x EXCEPT !.frame.consumers = value])
  BY DEF Held, SameSelection
<1>2. \A y : SameSelection(x, y) => Held([s EXCEPT !.outputs[o] = y])
  BY PutHolds DEF Put
<1> QED BY <1>1, <1>2

LEMMA ImageStartFullscreenHolds ==
  ASSUME OneOutput, NEW s, Held(s), NEW o \in Outputs, NEW exit_after, NEW ok
  PROVE  Held(ImageStartFullscreen(s, o, exit_after, ok))
<1> DEFINE asked == [s EXCEPT !.outputs[o].exit_after = exit_after]
           t     == FullscreenStart(asked, o, "IMAGE", ok)
           back  == [t EXCEPT !.outputs[o].exit_after = s.outputs[o].exit_after]
<1>1. Held(asked)
  BY FieldHolds
<1> HIDE DEF asked
<1>2. Held(t)
  BY <1>1, FullscreenHolds
<1> HIDE DEF t
<1>3. Held(back)
  BY <1>2, FieldHolds
<1>4. Held(RequestExit(s))
  BY RequestExitHolds
<1>5. ImageStartFullscreen(s, o, exit_after, ok) \in {s, RequestExit(s), t, back}
  BY DEF ImageStartFullscreen, asked, t
<1> QED BY <1>2, <1>3, <1>4, <1>5

LEMMA VideoStartFullscreenHolds ==
  ASSUME OneOutput, NEW s, Held(s), NEW o \in Outputs, NEW ok
  PROVE  Held(VideoStartFullscreen(s, o, ok))
<1> DEFINE pending == [s EXCEPT !.outputs[o].video_stage = "FULLSCREEN_START_PENDING"]
           t       == FullscreenStart(pending, o, "VIDEO", ok)
           back    == [t EXCEPT !.outputs[o].video_stage = "NONE"]
<1>1. Held(pending)
  BY FieldHolds
<1> HIDE DEF pending
<1>2. Held(t)
  BY <1>1, FullscreenHolds
<1> HIDE DEF t
<1>3. Held(back) /\ Held(SelectionFreezeSize(t, o))
  BY <1>2, FieldHolds, FreezeSizeHolds
<1>4. VideoStartFullscreen(s, o, ok) \in {s, SelectionFreezeSize(t, o), back}
  BY DEF VideoStartFullscreen, pending, t
<1> QED BY <1>3, <1>4

LEMMA ImageFinishHolds ==
  ASSUME OneOutput, NEW s, Held(s), NEW o \in Outputs, NEW ok
  PROVE  Held(ImageFinish(s, o, ok))
<1> DEFINE t == IF "IMAGE" \in s.outputs[o].active THEN FullscreenEnd(s, o, "IMAGE", ok) ELSE s
           x == Check(t.outputs[o], OutputToStdout => ReservedFor(t, o, "IMAGE"), "capture.c:620")
           y == [x EXCEPT !.captures = @ - 1]
           r == StdoutRelease(t, o, "IMAGE")
<1>1. Held(t)
  BY FullscreenHolds
<1> HIDE DEF t
<1>2. SameSelection(t.outputs[o], x)
  BY <1>1 DEF Held, SameSelection, Check
<1> HIDE DEF x
<1>3. SameSelection(t.outputs[o], y)
  BY <1>2 DEF SameSelection
<1>4. Held(r) /\ r.outputs = t.outputs
  BY <1>1, StdoutHolds
<1> HIDE DEF y, r
<1>5. Held(Put(r, o, y))
  BY <1>3, <1>4, PutHolds
<1> QED BY <1>5 DEF ImageFinish, t, x, y, r

LEMMA VideoFinishHolds ==
  ASSUME OneOutput, NEW s, Held(s), NEW o \in Outputs, NEW ok
  PROVE  Held(VideoFinish(s, o, ok))
<1> DEFINE released == StdoutRelease(s, o, "VIDEO")
           called   == RequestFrameCallback(s.outputs[o])
           thawed   == SelectionUnfreezeSize(Put(released, o, called), o)
           t        == IF "VIDEO" \in s.outputs[o].active
                         THEN FullscreenEnd(thawed, o, "VIDEO", ok) ELSE thawed
           y        == [t.outputs[o] EXCEPT !.captures = @ - 1, !.video_stage = "NONE"]
<1>1. Held(released) /\ released.outputs = s.outputs
  BY StdoutHolds
<1>2. SameSelection(s.outputs[o], called)
  BY FrameKeepsSelection DEF Held
<1> HIDE DEF released, called
<1>3. Held(Put(released, o, called))
  BY <1>1, <1>2, PutHolds
<1>4. Held(thawed)
  BY <1>3, FreezeSizeHolds
<1> HIDE DEF thawed
<1>5. Held(t)
  BY <1>4, FullscreenHolds
<1> HIDE DEF t
<1>6. SameSelection(t.outputs[o], y)
  BY <1>5 DEF Held, SameSelection
<1> HIDE DEF y
<1>7. Held(Put(t, o, y))
  BY <1>5, <1>6, PutHolds
<1> QED BY <1>7 DEF VideoFinish, released, called, thawed, t, y

LEMMA SetInitializedHolds ==
  ASSUME OneOutput, NEW s, Held(s), NEW o \in Outputs
  PROVE  Held(SelectionSetInitialized(s, o))
<1> DEFINE x    == s.outputs[o]
           y    == Check(x, \/ x.selection = "INITIALIZING"
                            \/ InitialSelection # {} /\ x.selection = "NONE", "selection.c:25")
           z    == [y EXCEPT !.selection = "COMPLETE"]
           done == [Put(s, o, z) EXCEPT !.active_button = "NONE"]
<1>1. SameSelection(x, y)
  BY DEF Held, SameSelection, Check
<1> HIDE DEF y
<1>2. "selection" \in DOMAIN z /\ z.selection = "COMPLETE"
  BY <1>1 DEF SameSelection
<1> HIDE DEF z
<1>3. /\ z.selection \in SelectionStates /\ "NONE" \in ButtonsOf(z.selection)
      /\ Shaped(s)
  BY <1>2 DEF SelectionStates, ButtonsOf, Held
<1>4. Held(done)
  BY <1>2, <1>3, SelectionHolds
<1> HIDE DEF done
<1>5. Held(RequestExit(ImageStart(done, o, TRUE)))
  BY <1>4, ImageStartHolds, RequestExitHolds
<1> QED BY <1>4, <1>5 DEF SelectionSetInitialized, done, y, z

LEMMA InitContentHolds ==
  ASSUME OneOutput, NEW s, Held(s), NEW o \in Outputs
  PROVE  Held(InitSelectionSurfaceContent(s, o))
<1> DEFINE t == IF o \in InitialSelection THEN SelectionSetInitialized(s, o) ELSE s
           x == Check(t.outputs[o], \A b \in Buffers : t.outputs[o].surface.buffers[b].busy,
                      "selection-surface.c:1377")
           y == [x EXCEPT !.surface = InitContent(@)]
<1>1. Held(t)
  BY SetInitializedHolds
<1> HIDE DEF t
<1>2. SameSelection(t.outputs[o], x)
  BY <1>1 DEF Held, SameSelection, Check
<1> HIDE DEF x
<1>3. SameSelection(t.outputs[o], y)
  BY <1>2 DEF SameSelection
<1> HIDE DEF y
<1>4. Held(Put(t, o, y))
  BY <1>1, <1>3, PutHolds
<1> QED BY <1>4 DEF InitSelectionSurfaceContent, t, x, y

LEMMA FreezeframeFinishHolds ==
  ASSUME OneOutput, NEW s, Held(s), NEW o \in Outputs, NEW ok
  PROVE  Held(FreezeframeFinish(s, o, ok))
<1> DEFINE x    == s.outputs[o]
           y    == Check(x, x.freezeframe.stage = "CAPTURING", "freezeframe.c:122")
           z    == [y EXCEPT !.freezeframe.stage = "IDLE"]
           idle == Put(s, o, z)
           t    == IF "FREEZEFRAME" \in x.active THEN FullscreenEnd(idle, o, "FREEZEFRAME", ok)
                   ELSE idle
           mapped == [t EXCEPT !.outputs[o].freezeframe.startup = FALSE]
<1>1. SameSelection(x, y)
  BY DEF Held, SameSelection, Check
<1> HIDE DEF y
<1>2. SameSelection(x, z)
  BY <1>1 DEF SameSelection
<1> HIDE DEF z
<1>3. Held(idle)
  BY <1>2, PutHolds
<1> HIDE DEF idle
<1>4. Held(t)
  BY <1>3, FullscreenHolds
<1> HIDE DEF t
<1>5. Held(mapped)
  BY <1>4, FieldHolds
<1> HIDE DEF mapped
<1>6. Held(InitSelectionSurfaceContent(mapped, o))
  BY <1>5, InitContentHolds
<1>7. FreezeframeFinish(s, o, ok) \in {t, InitSelectionSurfaceContent(mapped, o)}
  BY DEF FreezeframeFinish, y, z, idle, t, mapped
<1> QED BY <1>4, <1>6, <1>7

LEMMA FreezeframeShowHolds ==
  ASSUME OneOutput, NEW s, Held(s), NEW o \in Outputs, NEW needs_rotation, NEW rotated, NEW ok
  PROVE  Held(FreezeframeShow(s, o, needs_rotation, rotated, ok))
<1> DEFINE x       == s.outputs[o]
           c       == Check(x, x.freezeframe.stage = "CAPTURING", "freezeframe.c:155")
           y       == Check(c, ~x.freezeframe.capture_busy, "freezeframe.c:156")
           waiting == [y EXCEPT !.freezeframe.surface_waiting = TRUE]
           shown   == [y EXCEPT !.freezeframe.capture_busy = @ \/ ~rotated,
                                !.freezeframe.surface_busy = @ \/ rotated,
                                !.freezeframe.showing = TRUE]
<1>1. SameSelection(x, c)
  BY DEF Held, SameSelection, Check
<1> HIDE DEF c
<1>2. SameSelection(x, y)
  BY <1>1 DEF SameSelection, Check
<1> HIDE DEF y
<1>3. SameSelection(x, waiting) /\ SameSelection(x, shown)
  BY <1>2 DEF SameSelection
<1> HIDE DEF waiting, shown
<1>4. Held(Put(s, o, waiting)) /\ Held(Put(s, o, shown))
  BY <1>3, PutHolds
<1>5. Held(FreezeframeFinish(Put(s, o, shown), o, ok))
  BY <1>4, FreezeframeFinishHolds
<1>6. FreezeframeShow(s, o, needs_rotation, rotated, ok)
        \in {Put(s, o, waiting), FreezeframeFinish(Put(s, o, shown), o, ok)}
  BY DEF FreezeframeShow, c, y, waiting, shown
<1> QED BY <1>4, <1>5, <1>6

(* A button that is pressed or released                                    *)

\* A left button that is accepted, and is active now if it was pressed.
LEMMA ButtonLeftHolds ==
  ASSUME OneOutput, NEW s, Shaped(s), NEW o \in Outputs, NEW pressed \in BOOLEAN,
         s.active_button = IF pressed THEN "LEFT" ELSE "NONE",
         "selection" \in DOMAIN s.outputs[o], s.outputs[o].selection \in SelectionStates,
         (IF pressed THEN "NONE" ELSE "LEFT") \in ButtonsOf(s.outputs[o].selection)
  PROVE  Held(ButtonLeft(s, o))
<1> DEFINE x    == s.outputs[o]
           y    == Check(x, ~x.size_is_frozen, "pointer.c:274,305")
           become(state) == [x EXCEPT !.selection = state]
           first == RequestFrameCallback(become("INITIALIZING"))
<1>1. SameSelection(x, y)
  BY DEF SameSelection, Check
<1>2. \A state : "selection" \in DOMAIN become(state) /\ become(state).selection = state
  OBVIOUS
<1>3. "selection" \in DOMAIN first /\ first.selection = "INITIALIZING"
  BY <1>2 DEF RequestFrameCallback
<1> HIDE DEF first, y
<1>4. ASSUME x.selection = "NONE" PROVE Held(s) /\ Held(Put(s, o, first))
  BY <1>3, <1>4, SelectionHolds DEF ButtonsOf, Held, OneOutput, SelectionStates
<1>5. ASSUME x.selection = "INITIALIZING" PROVE Held(SelectionSetInitialized(Put(s, o, y), o))
  BY <1>1, <1>5, SelectionHolds, SetInitializedHolds DEF ButtonsOf, SameSelection
<1>6. ASSUME x.selection = "COMPLETE" PROVE Held(Put(s, o, become("REBASING")))
  BY <1>2, <1>6, SelectionHolds DEF ButtonsOf, SelectionStates
<1>7. ASSUME x.selection = "REBASING" PROVE Held(Put(s, o, become("COMPLETE")))
  BY <1>2, <1>7, SelectionHolds DEF ButtonsOf, SelectionStates
<1>8. x.selection # "RESIZING"
  BY DEF ButtonsOf
<1>9. /\ x.selection = "NONE" => ButtonLeft(s, o) \in {s, Put(s, o, first)}
      /\ x.selection = "INITIALIZING" => ButtonLeft(s, o) = SelectionSetInitialized(Put(s, o, y), o)
      /\ x.selection = "COMPLETE" => ButtonLeft(s, o) = Put(s, o, become("REBASING"))
      /\ x.selection = "REBASING" => ButtonLeft(s, o) = Put(s, o, become("COMPLETE"))
  BY DEF ButtonLeft, first, y
<1> QED BY <1>4, <1>5, <1>6, <1>7, <1>8, <1>9 DEF SelectionStates

\* The same of a right one.
LEMMA ButtonRightHolds ==
  ASSUME OneOutput, NEW s, Shaped(s), NEW o \in Outputs, NEW pressed \in BOOLEAN,
         s.active_button = IF pressed THEN "RIGHT" ELSE "NONE",
         "selection" \in DOMAIN s.outputs[o], s.outputs[o].selection \in SelectionStates,
         (IF pressed THEN "NONE" ELSE "RIGHT") \in ButtonsOf(s.outputs[o].selection)
  PROVE  Held(ButtonRight(s, o))
<1> DEFINE x     == s.outputs[o]
           y     == Check(x, ~x.size_is_frozen, "pointer.c:340")
           begun == [x EXCEPT !.selection = "RESIZING"]
           ended == [y EXCEPT !.selection = "COMPLETE"]
<1>1. SameSelection(x, y)
  BY DEF SameSelection, Check
<1> HIDE DEF y
<1>2. /\ "selection" \in DOMAIN begun /\ begun.selection = "RESIZING"
      /\ "selection" \in DOMAIN ended /\ ended.selection = "COMPLETE"
  BY <1>1 DEF SameSelection
<1> HIDE DEF begun, ended
<1>3. ASSUME x.selection = "COMPLETE" PROVE Held(Put(s, o, begun))
  BY <1>2, <1>3, SelectionHolds DEF ButtonsOf, SelectionStates
<1>4. ASSUME x.selection = "RESIZING" PROVE Held(Put(s, o, ended))
  BY <1>2, <1>4, SelectionHolds DEF ButtonsOf, SelectionStates
<1>5. ASSUME x.selection # "RESIZING" PROVE Held([s EXCEPT !.active_button = "NONE"])
  BY <1>5 DEF ButtonsOf, SelectionStates, Held, Shaped, OneOutput
<1>6. \/ x.selection = "COMPLETE" /\ ButtonRight(s, o) = Put(s, o, begun)
      \/ x.selection = "RESIZING" /\ ButtonRight(s, o) = Put(s, o, ended)
      \/ x.selection # "RESIZING" /\ ButtonRight(s, o) = [s EXCEPT !.active_button = "NONE"]
  BY DEF ButtonRight, begun, ended, y
<1> QED BY <1>3, <1>4, <1>5, <1>6

LEMMA PointerButtonHolds ==
  ASSUME OneOutput, ~UsePressesOnly, Held(g), seat.focus \in Outputs \cup {NoOutput},
         NEW button \in PointerButtons, NEW pressed \in BOOLEAN, PointerButton(button, pressed)
  PROVE  Held(g')
<1> DEFINE o == seat.focus
           x == Check(out(o), UsePressesOnly => g.active_button = "NONE", "pointer.c:218")
           checked == Put(g, o, x)
           taken == [checked EXCEPT !.active_button = IF @ = "NONE" THEN button ELSE "NONE"]
<1>1. o \in Outputs
  BY DEF PointerButton
<1>2. SameSelection(out(o), x)
  BY <1>1 DEF Held, SameSelection, Check, out
<1> HIDE DEF x, o
<1>3. Held(checked) /\ checked.outputs[o] = x
  BY <1>1, <1>2, PutHolds DEF out
<1>4. checked.active_button = g.active_button
  BY DEF Put, Held, Shaped
<1> HIDE DEF checked
<1>5. ASSUME ButtonAccepted(button, pressed)
      PROVE  Held(IF button = "LEFT" THEN ButtonLeft(taken, o) ELSE ButtonRight(taken, o))
  <2>1. checked.active_button = IF pressed THEN "NONE" ELSE button
    BY <1>4, <1>5 DEF ButtonAccepted
  <2>2. button \in {"LEFT", "RIGHT"}
    BY DEF PointerButtons
  <2>3. /\ Shaped(taken)
        /\ taken.outputs = checked.outputs
        /\ taken.active_button = IF pressed THEN button ELSE "NONE"
    BY <1>3, <2>1, <2>2 DEF Held, Shaped
  <2> HIDE DEF taken
  <2>4. /\ "selection" \in DOMAIN taken.outputs[o] /\ taken.outputs[o].selection \in SelectionStates
        /\ (IF pressed THEN "NONE" ELSE button) \in ButtonsOf(taken.outputs[o].selection)
    BY <1>1, <1>3, <2>1, <2>3 DEF Held
  <2>5. ASSUME button = "LEFT" PROVE Held(ButtonLeft(taken, o))
    BY <1>1, <2>3, <2>4, <2>5, ButtonLeftHolds
  <2>6. ASSUME button = "RIGHT" PROVE Held(ButtonRight(taken, o))
    BY <1>1, <2>3, <2>4, <2>6, ButtonRightHolds
  <2> QED BY <2>2, <2>5, <2>6
<1>6. g' = IF ~ButtonAccepted(button, pressed) THEN checked
           ELSE IF button = "LEFT" THEN ButtonLeft(taken, o) ELSE ButtonRight(taken, o)
  BY DEF PointerButton, checked, o, x
<1> HIDE DEF taken
<1> QED BY <1>3, <1>5, <1>6

(* The other steps, and the button                                         *)

LEMMA KeysHold ==
  ASSUME OneOutput, Held(g), NEW o \in Outputs, NEW shift \in BOOLEAN, NEW ok \in BOOLEAN
  PROVE  /\ KeyHideUi(o, ok) => Held(g')
         /\ KeyArrow(o) => Held(g')
         /\ KeyFreezeframe(o) => Held(g')
         /\ KeyImage(o, shift, ok) => Held(g')
         /\ KeyVideo(o, ok) => Held(g')
<1> DEFINE x == out(o)
<1>1. x = g.outputs[o] /\ "selection" \in DOMAIN x
  BY DEF Held, out
<1>2. ASSUME KeyHideUi(o, ok) PROVE Held(g')
  <2> DEFINE t == [g EXCEPT !.outputs[o].ui_inside = ~@]
  <2>1. Held(t)
    BY FieldHolds
  <2> HIDE DEF t
  <2>2. Held(SyncUiAndDispatch(t, o, ok))
    BY <2>1, SyncHolds
  <2> QED BY <1>2, <2>2 DEF KeyHideUi, KeyPressed, t
<1>3. ASSUME KeyArrow(o) PROVE Held(g')
  BY <1>1, <1>3, FrameKeepsSelection, PutHolds DEF KeyArrow, KeyPressed
<1>4. ASSUME KeyFreezeframe(o) PROVE Held(g')
  <2> DEFINE hidden    == [p \in Outputs |-> FreezeframeHide(out(p))]
             refreshed == [p \in Outputs |-> FreezeframeRefresh(out(p), g.exit_requested)]
  <2>1. Held([g EXCEPT !.outputs = hidden])
    BY FreezeframeKeepsSelection, OutputsHold DEF Held, out
  <2>2. Held([g EXCEPT !.outputs = refreshed])
    BY FreezeframeKeepsSelection, OutputsHold DEF Held, out
  <2>3. Held([g EXCEPT !.outputs = g.outputs])
    BY DEF Held, Shaped
  <2> HIDE DEF hidden, refreshed
  <2>4. \E outputs \in {g.outputs, hidden, refreshed} : g' = [g EXCEPT !.outputs = outputs]
    BY <1>4 DEF KeyFreezeframe, KeyPressed, hidden, refreshed
  <2> QED BY <2>1, <2>2, <2>3, <2>4
<1>5. ASSUME KeyImage(o, shift, ok) PROVE Held(g')
  BY <1>5, ImageStartFullscreenHolds, ImageStartHolds DEF KeyImage, KeyPressed
<1>6. ASSUME KeyVideo(o, ok) PROVE Held(g')
  <2> DEFINE selected == IF x.selection = "INITIALIZING" THEN SelectionSetInitialized(g, o) ELSE g
  <2>1. Held(selected)
    BY SetInitializedHolds
  <2> HIDE DEF selected
  <2>2. Held(VideoStart(selected, o, ok)) /\ Held(VideoStartFullscreen(g, o, ok))
    BY <2>1, VideoStartHolds, VideoStartFullscreenHolds
  <2>3. Held(Put(g, o, VideoRequestStop(x)))
    BY <1>1, StopKeepsSelection, PutHolds
  <2>4. g' \in {VideoStartFullscreen(g, o, ok), VideoStart(selected, o, ok),
                Put(g, o, VideoRequestStop(x)), g}
    BY <1>6 DEF KeyVideo, KeyPressed, selected
  <2> QED BY <2>2, <2>3, <2>4
<1> QED BY <1>2, <1>3, <1>4, <1>5, <1>6

LEMMA EscapeAndPointerHold ==
  ASSUME OneOutput, Held(g), seat.focus \in Outputs \cup {NoOutput}
  PROVE  /\ \A o \in Outputs \cup {NoOutput} : KeyEscape(o) \/ PointerFocus(o) => Held(g')
         /\ KeyTab \/ PointerMotion => Held(g')
<1>1. ASSUME NEW o \in Outputs \cup {NoOutput}, KeyEscape(o) PROVE Held(g')
  BY <1>1, RequestExitHolds, StopKeepsSelection, PutHolds DEF Held, out, KeyEscape
<1>2. ASSUME NEW o \in Outputs \cup {NoOutput}, PointerFocus(o) PROVE Held(g')
  BY <1>2 DEF PointerFocus
<1>3. ASSUME KeyTab PROVE Held(g')
  <2> DEFINE hidden == [o \in Outputs |-> FreezeframeHide(out(o))]
  <2>1. Held([g EXCEPT !.outputs = hidden])
    BY FreezeframeKeepsSelection, OutputsHold DEF Held, out
  <2> QED BY <1>3, <2>1 DEF KeyTab
<1>4. ASSUME PointerMotion PROVE Held(g')
  <2> DEFINE o == seat.focus
             x == Check(out(o), out(o).selection # "REBASING" => ~out(o).size_is_frozen,
                        "pointer.c:75,135")
  <2>1. o \in Outputs
    BY <1>4 DEF PointerMotion
  <2>2. SameSelection(out(o), x)
    BY <2>1 DEF Held, SameSelection, Check, out
  <2> HIDE DEF x, o
  <2>3. SameSelection(out(o), RequestFrameCallback(x))
    BY <2>2, FrameKeepsSelection DEF SameSelection
  <2>4. Held(Put(g, o, RequestFrameCallback(x)))
    BY <2>1, <2>3, PutHolds DEF out
  <2> QED BY <1>4, <2>4 DEF PointerMotion, x, o
<1> QED BY <1>1, <1>2, <1>3, <1>4

LEMMA SurfaceEventsHold ==
  ASSUME OneOutput, Held(g), NEW o \in Outputs, NEW b \in Buffers, NEW ok \in BOOLEAN
  PROVE  /\ FrameCallback(o) \/ SelectionDiscarded(o) => Held(g')
         /\ SurfaceBufferRelease(o, b) => Held(g')
         /\ SelectionPresented(o, ok) \/ HidePresented(o, ok) => Held(g')
<1>1. ASSUME NEW surface PROVE Held(Put(g, o, [out(o) EXCEPT !.surface = surface]))
  BY PutHolds DEF Held, SameSelection, out
<1>2. ASSUME FrameCallback(o) \/ SelectionDiscarded(o) PROVE Held(g')
  BY <1>1, <1>2 DEF FrameCallback, SelectionDiscarded, Answered, Event
<1>3. ASSUME SurfaceBufferRelease(o, b) PROVE Held(g')
  BY <1>1, <1>3 DEF SurfaceBufferRelease, Event
<1>4. ASSUME SelectionPresented(o, ok) PROVE Held(g')
  <2>1. Held(Answered(o))
    BY <1>1 DEF Answered
  <2> DEFINE t == [Answered(o) EXCEPT !.outputs[o].ui = "SHOWN"]
  <2>2. Held(t)
    BY <2>1, FieldHolds
  <2> HIDE DEF t
  <2>3. Held(SyncUiAndDispatch(t, o, ok))
    BY <2>2, SyncHolds
  <2>4. g' \in {SyncUiAndDispatch(t, o, ok), Answered(o)}
    BY <1>4 DEF SelectionPresented, Event, t
  <2> QED BY <2>1, <2>3, <2>4
<1>5. ASSUME HidePresented(o, ok) PROVE Held(g')
  <2> DEFINE c == Check(out(o), "FULLSCREEN_HIDE" \in out(o).surface.disabled,
                        "transparent-selection-capture.c:15")
             x == Check(c, out(o).ui = "HIDE_PENDING", "transparent-selection-capture.c:26")
             hidden == [x EXCEPT !.surface = FeedbackDone(@),
                                 !.ui = IF @ = "HIDE_PENDING" THEN "HIDDEN" ELSE @]
  <2>1. SameSelection(out(o), c)
    BY DEF Held, SameSelection, Check, out
  <2> HIDE DEF c
  <2>2. SameSelection(out(o), x)
    BY <2>1 DEF SameSelection, Check
  <2> HIDE DEF x
  <2>3. SameSelection(out(o), hidden)
    BY <2>2 DEF SameSelection
  <2> HIDE DEF hidden
  <2>4. Held(Put(g, o, hidden))
    BY <2>3, PutHolds DEF out
  <2>5. Held(SyncUiAndDispatch(Put(g, o, hidden), o, ok))
    BY <2>4, SyncHolds
  <2> QED BY <1>5, <2>5 DEF HidePresented, Event, hidden, x, c
<1> QED BY <1>2, <1>3, <1>4, <1>5

LEMMA FramesHold ==
  ASSUME OneOutput, Held(g), NEW o \in Outputs, NEW stale \in BOOLEAN, NEW written \in BOOLEAN,
         NEW ok \in BOOLEAN
  PROVE  FrameReady(o, stale, written, ok) \/ FrameFailed(o, ok) => Held(g')
<1> DEFINE x == out(o)
           consumers == x.frame.consumers
<1>1. x = g.outputs[o] /\ "selection" \in DOMAIN x
  BY DEF Held, out
<1>2. ASSUME FrameReady(o, stale, written, ok) PROVE Held(g')
  <2> DEFINE c     == Check(x, consumers # {}, "image-copy-capture-frame.c:83")
             y     == [c EXCEPT !.frame.in_flight = FALSE,
                                !.frame.consumers = {},
                                !.frame.forced = @ /\ stale,
                                !.frame.switched = @ /\ stale]
             taken == Put(g, o, y)
             imaged == IF "IMAGE" \in consumers THEN ImageFinish(taken, o, ok) ELSE taken
             Wrote(s) == IF written THEN s
                         ELSE [s EXCEPT !.outputs[o].video_stage = "STOP_REQUESTED"]
             Again(s) == Put(s, o, RequestFrame(s.outputs[o], {"VIDEO"}))
  <2>1. SameSelection(x, c)
    BY <1>1 DEF SameSelection, Check
  <2> HIDE DEF c
  <2>2. SameSelection(x, y)
    BY <2>1 DEF SameSelection
  <2> HIDE DEF y
  <2>3. Held(taken)
    BY <1>1, <2>2, PutHolds
  <2> HIDE DEF taken
  <2>4. Held(imaged)
    BY <2>3, ImageFinishHolds
  <2> HIDE DEF imaged
  <2>5. ASSUME NEW s, Held(s) PROVE Held(Wrote(s)) /\ Held(Again(s))
    <3>1. SameSelection(s.outputs[o], RequestFrame(s.outputs[o], {"VIDEO"}))
      BY <2>5, FrameKeepsSelection DEF Held
    <3> QED BY <2>5, <3>1, FieldHolds, PutHolds
  <2>6. Held(Wrote(imaged)) /\ Held(Again(imaged))
    BY <2>4, <2>5
  <2> DEFINE w == Wrote(imaged)
  <2>7. Held(w)
    BY <2>6
  <2> HIDE DEF w
  <2>8. Held(VideoFinish(w, o, ok)) /\ Held(Again(w))
    BY <2>5, <2>7, VideoFinishHolds
  <2>9. g' \in {imaged, Again(imaged), VideoFinish(w, o, ok), Again(w)}
    BY <1>2 DEF FrameReady, Event, imaged, taken, y, c, w
  <2> QED BY <2>4, <2>6, <2>8, <2>9
<1>3. ASSUME FrameFailed(o, ok) PROVE Held(g')
  <2> DEFINE y      == [x EXCEPT !.frame.in_flight = FALSE, !.frame.forced = FALSE]
             taken  == Put(g, o, y)
             imaged == IF "IMAGE" \in consumers THEN ImageFinish(taken, o, ok) ELSE taken
             filmed == IF "VIDEO" \in imaged.outputs[o].frame.consumers
                         THEN VideoFinish(imaged, o, ok) ELSE imaged
  <2>1. SameSelection(x, y)
    BY <1>1 DEF SameSelection
  <2> HIDE DEF y
  <2>2. Held(taken)
    BY <1>1, <2>1, PutHolds
  <2> HIDE DEF taken
  <2>3. Held(imaged)
    BY <2>2, ImageFinishHolds
  <2> HIDE DEF imaged
  <2>4. Held(filmed)
    BY <2>3, VideoFinishHolds
  <2> HIDE DEF filmed
  <2>5. Held([filmed EXCEPT !.outputs[o].frame.consumers = {}])
    BY <2>4, FieldHolds
  <2> QED BY <1>3, <2>5 DEF FrameFailed, Event, y, taken, imaged, filmed
<1> QED BY <1>2, <1>3

LEMMA FreezeframesHold ==
  ASSUME OneOutput, Held(g), NEW o \in Outputs, NEW rotated \in BOOLEAN, NEW ok \in BOOLEAN
  PROVE  /\ FreezeframeReady(o, rotated, ok) \/ FreezeframeFailed(o, ok) => Held(g')
         /\ CaptureBufferRelease(o) \/ RotatedBufferRelease(o, rotated, ok) => Held(g')
<1> DEFINE x == out(o)
<1>1. x = g.outputs[o] /\ "selection" \in DOMAIN x
  BY DEF Held, out
<1>2. ASSUME FreezeframeReady(o, rotated, ok) \/ FreezeframeFailed(o, ok) PROVE Held(g')
  <2> DEFINE t == [g EXCEPT !.outputs[o].freezeframe.in_flight = FALSE]
  <2>1. Held(t)
    BY FieldHolds
  <2> HIDE DEF t
  <2>2. /\ Held(FreezeframeFinish(t, o, ok))
        /\ \A rotates : Held(FreezeframeShow(t, o, rotates, rotated, ok))
    BY <2>1, FreezeframeFinishHolds, FreezeframeShowHolds
  <2>3. g' \in {FreezeframeShow(t, o, o \in Rotated, rotated, ok), FreezeframeFinish(t, o, ok)}
    BY <1>2 DEF FreezeframeReady, FreezeframeFailed, Event, t
  <2>4. Held(FreezeframeShow(t, o, o \in Rotated, rotated, ok))
    BY <2>1, FreezeframeShowHolds
  <2> QED BY <2>2, <2>3, <2>4
<1>3. ASSUME CaptureBufferRelease(o) PROVE Held(g')
  <2> DEFINE freed == [x EXCEPT !.freezeframe.capture_busy = FALSE,
                                !.freezeframe.capture_waiting = FALSE]
  <2>1. SameSelection(x, freed)
    BY <1>1 DEF SameSelection
  <2> HIDE DEF freed
  <2>2. SameSelection(x, FreezeframeCaptureStart(freed))
    BY <2>1, FreezeframeKeepsSelection DEF SameSelection
  <2>3. Held(Put(g, o, freed)) /\ Held(Put(g, o, FreezeframeCaptureStart(freed)))
    BY <1>1, <2>1, <2>2, PutHolds
  <2>4. g' \in {Put(g, o, freed), Put(g, o, FreezeframeCaptureStart(freed))}
    BY <1>3 DEF CaptureBufferRelease, Event, freed
  <2> QED BY <2>3, <2>4
<1>4. ASSUME RotatedBufferRelease(o, rotated, ok) PROVE Held(g')
  <2> DEFINE y == [x EXCEPT !.freezeframe.surface_busy = FALSE,
                            !.freezeframe.surface_waiting = FALSE]
             freed == Put(g, o, y)
  <2>1. SameSelection(x, y)
    BY <1>1 DEF SameSelection
  <2> HIDE DEF y
  <2>2. Held(freed)
    BY <1>1, <2>1, PutHolds
  <2> HIDE DEF freed
  <2>3. Held(FreezeframeShow(freed, o, TRUE, rotated, ok))
    BY <2>2, FreezeframeShowHolds
  <2>4. g' \in {freed, FreezeframeShow(freed, o, TRUE, rotated, ok)}
    BY <1>4 DEF RotatedBufferRelease, Event, freed, y
  <2> QED BY <2>2, <2>3, <2>4
<1> QED BY <1>2, <1>3, <1>4

LEMMA LoopHolds ==
  ASSUME OneOutput, Held(g)
  PROVE  /\ \A o \in Outputs : InitSelection(o) \/ AudioFailed(o) => Held(g')
         /\ \A outdated \in SUBSET Outputs : LoopIteration(outdated) => Held(g')
<1>1. ASSUME NEW o \in Outputs, InitSelection(o) PROVE Held(g')
  <2> DEFINE t == [g EXCEPT !.outputs[o].freezeframe.startup = FALSE]
  <2>1. Held(t)
    BY FieldHolds
  <2> HIDE DEF t
  <2>2. Held(InitSelectionSurfaceContent(t, o))
    BY <2>1, InitContentHolds
  <2> QED BY <1>1, <2>2 DEF InitSelection, t
<1>2. ASSUME NEW o \in Outputs, AudioFailed(o) PROVE Held(g')
  BY <1>2, StopKeepsSelection, PutHolds DEF Held, out, AudioFailed, Event
<1>3. ASSUME NEW outdated \in SUBSET Outputs, LoopIteration(outdated) PROVE Held(g')
  <2> DEFINE synced == [o \in Outputs |-> SyncCursorCapture(out(o), seat.focus # NoOutput)]
             drawn  == [o \in Outputs |-> IF o \in outdated THEN RequestFrameCallback(synced[o])
                                          ELSE synced[o]]
  <2>1. \A o \in Outputs : SameSelection(g.outputs[o], synced[o])
    BY SyncCursorKeepsSelection DEF Held, out
  <2>2. \A o \in Outputs : SameSelection(g.outputs[o], RequestFrameCallback(synced[o]))
    <3> TAKE o \in Outputs
    <3> DEFINE y == synced[o]
    <3>1. SameSelection(g.outputs[o], y)
      BY <2>1
    <3> HIDE DEF y
    <3> QED BY <3>1, FrameKeepsSelection DEF SameSelection, y
  <2> HIDE DEF synced
  <2>3. DOMAIN drawn = Outputs /\ \A o \in Outputs : SameSelection(g.outputs[o], drawn[o])
    BY <2>1, <2>2
  <2> HIDE DEF drawn
  <2>4. Held([g EXCEPT !.outputs = drawn])
    BY <2>3, OutputsHold
  <2> QED BY <1>3, <2>4 DEF LoopIteration, drawn, synced
<1> QED BY <1>1, <1>2, <1>3

LEMMA NextHolds ==
  ASSUME OneOutput, ~UsePressesOnly, Held(g), TypeOK, [Next]_vars
  PROVE  Held(g')
<1>1. seat.focus \in Outputs \cup {NoOutput}
  BY DEF TypeOK, Seat
<1>2. ASSUME UserStep PROVE Held(g')
  BY <1>1, <1>2, KeysHold, EscapeAndPointerHold, PointerButtonHolds DEF UserStep
<1>3. ASSUME CompositorStep PROVE Held(g')
  <2>1. ASSUME NEW o \in Outputs, NEW b \in Buffers,
               FrameCallback(o) \/ SelectionDiscarded(o) \/ SurfaceBufferRelease(o, b)
        PROVE  Held(g')
    BY <2>1, SurfaceEventsHold
  <2>2. ASSUME NEW o \in Outputs, NEW ok \in BOOLEAN, SelectionPresented(o, ok) \/ HidePresented(o, ok)
        PROVE  Held(g')
    BY <2>2, SurfaceEventsHold DEF Buffers
  <2>3. ASSUME NEW o \in Outputs, NEW stale \in BOOLEAN, NEW written \in BOOLEAN, NEW ok \in BOOLEAN,
               FrameReady(o, stale, written, ok) \/ FrameFailed(o, ok)
        PROVE  Held(g')
    BY <2>3, FramesHold
  <2>4. ASSUME NEW o \in Outputs, NEW rotated \in BOOLEAN, NEW ok \in BOOLEAN,
               \/ FreezeframeReady(o, rotated, ok) \/ FreezeframeFailed(o, ok)
               \/ CaptureBufferRelease(o) \/ RotatedBufferRelease(o, rotated, ok)
        PROVE  Held(g')
    BY <2>4, FreezeframesHold
  <2>5. 1 \in Buffers /\ TRUE \in BOOLEAN
    BY DEF Buffers
  <2> QED BY <1>3, <2>1, <2>2, <2>3, <2>4, <2>5 DEF CompositorStep
<1>4. ASSUME Exited \/ UNCHANGED vars PROVE Held(g')
  BY <1>4 DEF Exited, vars
<1>5. ASSUME NEW o \in Outputs, InitSelection(o) \/ AudioFailed(o) PROVE Held(g')
  BY <1>5, LoopHolds
<1>6. ASSUME NEW outdated \in SUBSET Outputs, LoopIteration(outdated) PROVE Held(g')
  BY <1>6, LoopHolds
<1> QED BY <1>2, <1>3, <1>4, <1>5, <1>6 DEF Next

\* Where there is one output, a selection follows the pointer only while its button is
\* active, whatever else ends or completes it meanwhile: a video that starts on a resize
\* drops the button, and so does a selection that is completed.
THEOREM GesturesAlwaysHoldTheirButton ==
  ASSUME OneOutput, ~UsePressesOnly
  PROVE  Spec => []GesturesHoldTheirButton
<1>1. Init => Held(g)
  BY DEF Init, Held, Shaped, InitialOutput, SelectionStates, ButtonsOf
<1>2. Held(g) /\ TypeOK /\ [Next]_vars => Held(g)'
  BY NextHolds
<1>3. Held(g) => GesturesHoldTheirButton
  BY DEF Held, GesturesHoldTheirButton, ButtonsOf, out
<1> QED BY <1>1, <1>2, <1>3, TypeCorrect, PTL DEF Spec
=============================================================================

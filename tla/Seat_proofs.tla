---------------------------- MODULE Seat_proofs ----------------------------
(***************************************************************************)
(* Keys act on the output the user points at, recordings keep the choice   *)
(* of their key press, the modifier is of the active output as long as no  *)
(* recording waits for the UI, and no single Escape ends a session that    *)
(* records elsewhere: for every set of outputs.                            *)
(***************************************************************************)
EXTENDS Seat, TLAPS

-----------------------------------------------------------------------------
(* The inductive invariants                                                *)

\* The seat's idea of its foci is the compositor's, and the active surface follows from it.
FocusInv ==
  /\ pointer \in Surfaces /\ keyboard \in Surfaces
  /\ trusted \in BOOLEAN /\ focused \in BOOLEAN
  /\ pointed \in [on : Surfaces, inside : BOOLEAN]
  /\ pointer = pointed.on
  /\ pointer # None => trusted = pointed.inside
  /\ active = ActiveSurface(pointer, trusted, keyboard)
  /\ focused = (active # None)

Stages == {"NONE", "PENDING", "CAPTURING", "STOP_REQUESTED"}
VideoType == [stage : Stages, pending_off : BOOLEAN, silent : BOOLEAN]

\* A recording that waits for the UI remembers the choice, and one that runs has it.
ChoiceInv ==
  /\ audio_off \in [Outputs -> BOOLEAN]
  /\ shift \in BOOLEAN
  /\ video \in [Outputs -> VideoType]
  /\ pressed \in [Outputs -> [shift : BOOLEAN, off : BOOLEAN]]
  /\ \A o \in Outputs :
       /\ video[o].stage = "PENDING" => video[o].pending_off = pressed[o].off
       /\ video[o].stage = "CAPTURING" => video[o].silent = pressed[o].off

-----------------------------------------------------------------------------
(* The focus                                                               *)

LEMMA ActiveSurfaceType ==
  ASSUME NEW p \in Surfaces, NEW t \in BOOLEAN, NEW k \in Surfaces
  PROVE  ActiveSurface(p, t, k) \in Surfaces
  BY DEF ActiveSurface, Surfaces

LEMMA UpdateActiveAgrees ==
  ASSUME FocusInv, NEW p \in Surfaces, NEW t \in BOOLEAN, NEW k \in Surfaces, UpdateActive(p, t, k)
  PROVE  active' = ActiveSurface(p, t, k) /\ focused' = (active' # None) /\ focused' \in BOOLEAN
<1>1. active' = ActiveSurface(p, t, k) /\ focused' = IF active' = active THEN focused ELSE active' # None
  BY DEF UpdateActive
<1>2. CASE active' = active
  BY <1>1, <1>2 DEF FocusInv
<1>3. CASE active' # active
  BY <1>1, <1>3
<1> QED BY <1>1, <1>2, <1>3

LEMMA InitFocus == Init => FocusInv
<1> SUFFICES ASSUME Init PROVE FocusInv
  OBVIOUS
<1>1. pointer = None /\ keyboard = None /\ active = None /\ trusted = FALSE /\ focused = FALSE
      /\ pointed = [on |-> None, inside |-> FALSE]
  BY DEF Init
<1>2. active = ActiveSurface(pointer, trusted, keyboard)
  BY <1>1 DEF ActiveSurface
<1>3. pointed \in [on : Surfaces, inside : BOOLEAN] /\ None \in Surfaces
  BY <1>1 DEF Surfaces
<1>4. focused = (active # None)
  BY <1>1
<1> QED BY <1>1, <1>2, <1>3, <1>4 DEF FocusInv

LEMMA FocusStep ==
  ASSUME FocusInv, [Next]_vars
  PROVE  FocusInv'
<1>1. ASSUME NEW s \in Surfaces, NEW inside \in BOOLEAN, PointerEnter(s, inside)
      PROVE  FocusInv'
  <2>1. /\ pointer' = s /\ pointed' = [on |-> s, inside |-> inside] /\ keyboard' = keyboard
        /\ trusted' = IF s = None THEN trusted ELSE inside
        /\ UpdateActive(s, trusted', keyboard)
    BY <1>1 DEF PointerEnter, TrustOnEnter
  <2>2. trusted' \in BOOLEAN /\ keyboard \in Surfaces
    BY <2>1 DEF FocusInv
  <2>3. active' = ActiveSurface(s, trusted', keyboard) /\ focused' = (active' # None) /\ focused' \in BOOLEAN
    BY <2>1, <2>2, UpdateActiveAgrees
  <2> QED BY <2>1, <2>2, <2>3 DEF FocusInv
<1>2. CASE PointerLeave
  <2>1. /\ pointer' = None /\ pointed' = [on |-> None, inside |-> FALSE]
        /\ UNCHANGED <<keyboard, trusted>>
        /\ UpdateActive(None, trusted, keyboard)
    BY <1>2 DEF PointerLeave
  <2>2. None \in Surfaces /\ trusted \in BOOLEAN /\ keyboard \in Surfaces
    BY DEF FocusInv, Surfaces
  <2>3. active' = ActiveSurface(None, trusted, keyboard) /\ focused' = (active' # None) /\ focused' \in BOOLEAN
    BY <2>1, <2>2, UpdateActiveAgrees
  <2> QED BY <2>1, <2>2, <2>3 DEF FocusInv
<1>3. ASSUME NEW inside \in BOOLEAN, PointerMotion(inside)
      PROVE  FocusInv'
  <2>1. /\ pointer # None /\ UNCHANGED <<pointer, keyboard>>
        /\ pointed' = [pointed EXCEPT !.inside = @ \/ inside]
        /\ trusted' = (trusted \/ inside)
    BY <1>3 DEF PointerMotion, TrustOnMotion
  <2>2. /\ pointer \in Surfaces /\ keyboard \in Surfaces /\ trusted \in BOOLEAN
        /\ pointed.on = pointer /\ pointed.inside = trusted
    BY <2>1 DEF FocusInv
  <2>3. /\ pointed' \in [on : Surfaces, inside : BOOLEAN]
        /\ pointed'.on = pointer' /\ pointed'.inside = trusted' /\ trusted' \in BOOLEAN
    BY <2>1, <2>2 DEF FocusInv
  <2>4. active' = ActiveSurface(pointer, trusted', keyboard) /\ focused' = (active' # None) /\ focused' \in BOOLEAN
    <3>1. CASE trusted' = trusted
      <4>1. UNCHANGED <<active, focused>>
        BY <1>3, <3>1 DEF PointerMotion
      <4> QED BY <3>1, <4>1 DEF FocusInv
    <3>2. CASE trusted' # trusted
      <4>1. UpdateActive(pointer, trusted', keyboard)
        BY <1>3, <3>2 DEF PointerMotion
      <4> QED BY <2>2, <2>3, <4>1, UpdateActiveAgrees
    <3> QED BY <3>1, <3>2
  <2> QED BY <2>1, <2>2, <2>3, <2>4 DEF FocusInv
<1>4. ASSUME NEW s \in Surfaces, KeyboardEnter(s)
      PROVE  FocusInv'
  <2>1. keyboard' = s /\ UNCHANGED <<pointer, trusted, pointed>> /\ UpdateActive(pointer, trusted, s)
    BY <1>4 DEF KeyboardEnter
  <2>2. active' = ActiveSurface(pointer, trusted, s) /\ focused' = (active' # None) /\ focused' \in BOOLEAN
    BY <2>1, UpdateActiveAgrees DEF FocusInv
  <2> QED BY <2>1, <2>2 DEF FocusInv
<1>5. CASE KeyboardLeave
  <2>1. keyboard' = None /\ UNCHANGED <<pointer, trusted, pointed>> /\ UpdateActive(pointer, trusted, None)
    BY <1>5 DEF KeyboardLeave
  <2>2. None \in Surfaces
    BY DEF Surfaces
  <2>3. active' = ActiveSurface(pointer, trusted, None) /\ focused' = (active' # None) /\ focused' \in BOOLEAN
    BY <2>1, <2>2, UpdateActiveAgrees DEF FocusInv
  <2> QED BY <2>1, <2>2, <2>3 DEF FocusInv
<1>6. CASE UNCHANGED <<pointer, trusted, keyboard, active, focused, pointed>>
  BY <1>6 DEF FocusInv, ActiveSurface
<1>7. (\E state \in BOOLEAN : Modifiers(state)) \/ Escape \/ StartVideo \/ StopVideo
      \/ (\E o \in Outputs : DispatchPending(o) \/ VideoEnds(o)) \/ UNCHANGED vars
        => UNCHANGED <<pointer, trusted, keyboard, active, focused, pointed>>
  BY DEF Modifiers, Escape, StartVideo, StopVideo, DispatchPending, VideoEnds, vars
<1> QED BY <1>1, <1>2, <1>3, <1>4, <1>5, <1>6, <1>7 DEF Next

-----------------------------------------------------------------------------
(* The choice of audio                                                     *)

LEMMA InitChoice == Init => ChoiceInv
<1> SUFFICES ASSUME Init PROVE ChoiceInv
  OBVIOUS
<1>1. /\ audio_off = [o \in Outputs |-> FALSE] /\ shift = FALSE
      /\ video = [o \in Outputs |-> Idle]
      /\ pressed = [o \in Outputs |-> [shift |-> FALSE, off |-> FALSE]]
  BY DEF Init
<1>2. Idle \in VideoType
  BY DEF Idle, VideoType, Stages
<1>3. \A o \in Outputs : video[o].stage = "NONE"
  BY <1>1 DEF Idle
<1> QED BY <1>1, <1>2, <1>3 DEF ChoiceInv

LEMMA UpdateActiveKeepsChoice ==
  ASSUME ChoiceInv, NEW p, NEW t, NEW k, UpdateActive(p, t, k), UNCHANGED <<shift, video, pressed>>
  PROVE  ChoiceInv'
<1>1. audio_off' \in [Outputs -> BOOLEAN]
  BY DEF UpdateActive, AppliedModifier, ChoiceInv
<1> QED BY <1>1 DEF ChoiceInv

\* Which output the keys are for is of the focus: it is an output where a recording begins.
LEMMA ChoiceStep ==
  ASSUME ChoiceInv, FocusInv, [Next]_vars
  PROVE  ChoiceInv'
<1>1. active \in Surfaces
  BY ActiveSurfaceType DEF FocusInv
<1>2. CASE \/ \E s \in Surfaces, inside \in BOOLEAN : PointerEnter(s, inside)
           \/ PointerLeave
           \/ \E s \in Surfaces : KeyboardEnter(s)
           \/ KeyboardLeave
  BY <1>2, UpdateActiveKeepsChoice DEF PointerEnter, PointerLeave, KeyboardEnter, KeyboardLeave
<1>3. ASSUME NEW inside \in BOOLEAN, PointerMotion(inside)
      PROVE  ChoiceInv'
  <2>1. UNCHANGED <<shift, video, pressed>>
    BY <1>3 DEF PointerMotion
  <2>2. CASE trusted' = trusted
    BY <1>3, <2>1, <2>2 DEF PointerMotion, ChoiceInv
  <2>3. CASE trusted' # trusted
    BY <1>3, <2>1, <2>3, UpdateActiveKeepsChoice DEF PointerMotion
  <2> QED BY <2>2, <2>3
<1>4. ASSUME NEW state \in BOOLEAN, Modifiers(state)
      PROVE  ChoiceInv'
  <2>1. audio_off' \in [Outputs -> BOOLEAN]
    BY <1>1, <1>4 DEF Modifiers, ModifierSurface, ChoiceInv, Surfaces
  <2> QED BY <1>4, <2>1 DEF Modifiers, ChoiceInv
<1>5. CASE Escape
  <2>1. UNCHANGED <<audio_off, shift, pressed>>
    BY <1>5 DEF Escape
  <2>2. /\ video' \in [Outputs -> VideoType]
        /\ \A o \in Outputs : video'[o] = video[o] \/ video'[o].stage \in {"STOP_REQUESTED", "NONE"}
    <3>1. CASE active # None /\ Capturing(active)
      <4>1. active \in Outputs /\ video' = [video EXCEPT ![active] = [@ EXCEPT !.stage = "STOP_REQUESTED"]]
        BY <1>1, <1>5, <3>1 DEF Escape, StopOn, Surfaces
      <4> QED BY <4>1 DEF ChoiceInv, VideoType, Stages
    <3>2. CASE ~(active # None /\ Capturing(active))
      <4>1. CASE video' = video
        BY <4>1 DEF ChoiceInv
      <4>2. CASE video' = [o \in Outputs |-> CASE Capturing(o) -> [video[o] EXCEPT !.stage = "STOP_REQUESTED"]
                                               [] video[o].stage = "PENDING" -> Idle
                                               [] OTHER -> video[o]]
        <5>1. \A o \in Outputs :
                /\ video'[o] \in VideoType
                /\ video'[o] = video[o] \/ video'[o].stage \in {"STOP_REQUESTED", "NONE"}
          BY <4>2 DEF ChoiceInv, VideoType, Stages, Idle, Capturing
        <5> QED BY <4>2, <5>1
      <4> QED BY <1>5, <3>2, <4>1, <4>2 DEF Escape
    <3> QED BY <3>1, <3>2
  <2> QED BY <2>1, <2>2 DEF ChoiceInv
<1>6. CASE StartVideo
  <2>1. active \in Outputs
    BY <1>1, <1>6 DEF StartVideo, Surfaces
  <2>2. UNCHANGED <<audio_off, shift>>
    BY <1>6 DEF StartVideo
  <2>3. /\ pressed' = [pressed EXCEPT ![active] = [shift |-> shift, off |-> audio_off[active]]]
        /\ video' = [video EXCEPT ![active] =
             IF active \in HasSelection
             THEN [stage |-> "CAPTURING", pending_off |-> FALSE, silent |-> audio_off[active]]
             ELSE [stage |-> "PENDING", pending_off |-> audio_off[active], silent |-> FALSE]]
    BY <1>6 DEF StartVideo
  <2>4. audio_off[active] \in BOOLEAN
    BY <2>1 DEF ChoiceInv
  <2>5. video' \in [Outputs -> VideoType]
    BY <2>1, <2>3, <2>4 DEF ChoiceInv, VideoType, Stages
  <2>6. pressed' \in [Outputs -> [shift : BOOLEAN, off : BOOLEAN]]
    BY <2>1, <2>3, <2>4 DEF ChoiceInv
  <2>7. \A o \in Outputs :
          /\ video'[o].stage = "PENDING" => video'[o].pending_off = pressed'[o].off
          /\ video'[o].stage = "CAPTURING" => video'[o].silent = pressed'[o].off
    BY <2>1, <2>3 DEF ChoiceInv
  <2> QED BY <2>2, <2>5, <2>6, <2>7 DEF ChoiceInv
<1>7. CASE StopVideo
  <2>1. active \in Outputs /\ UNCHANGED <<audio_off, shift, pressed>>
    BY <1>1, <1>7 DEF StopVideo, Surfaces
  <2> DEFINE stopped == [video[active] EXCEPT !.stage = "STOP_REQUESTED"]
  <2>2. video' = video \/ video' = [video EXCEPT ![active] = stopped]
    BY <1>7 DEF StopVideo, StopOn
  <2>3. video \in [Outputs -> VideoType] /\ stopped \in VideoType /\ stopped.stage = "STOP_REQUESTED"
    BY <2>1 DEF ChoiceInv, VideoType, Stages
  <2> HIDE DEF stopped
  <2>4. /\ video' \in [Outputs -> VideoType]
        /\ \A o \in Outputs : video'[o] = video[o] \/ video'[o].stage = "STOP_REQUESTED"
    BY <2>1, <2>2, <2>3
  <2> QED BY <2>1, <2>4 DEF ChoiceInv
<1>8. ASSUME NEW o \in Outputs, DispatchPending(o)
      PROVE  ChoiceInv'
  <2>1. PICK starts \in BOOLEAN :
          video' = [video EXCEPT ![o] =
            IF starts THEN [stage |-> "CAPTURING", pending_off |-> FALSE, silent |-> video[o].pending_off] ELSE Idle]
    BY <1>8 DEF DispatchPending, ChosenAudio
  <2>2. /\ video[o].stage = "PENDING"
        /\ audio_off' = [audio_off EXCEPT ![o] = video[o].pending_off]
        /\ UNCHANGED <<shift, pressed>>
    BY <1>8 DEF DispatchPending, ChosenAudio
  <2>3. video[o].pending_off \in BOOLEAN /\ video[o].pending_off = pressed[o].off
    BY <2>2 DEF ChoiceInv, VideoType
  <2>4. video' \in [Outputs -> VideoType] /\ audio_off' \in [Outputs -> BOOLEAN]
    BY <2>1, <2>2, <2>3 DEF ChoiceInv, VideoType, Stages, Idle
  <2>5. \A p \in Outputs :
          /\ video'[p].stage = "PENDING" => video'[p].pending_off = pressed[p].off
          /\ video'[p].stage = "CAPTURING" => video'[p].silent = pressed[p].off
    BY <2>1, <2>3 DEF ChoiceInv, Idle
  <2> QED BY <2>2, <2>4, <2>5 DEF ChoiceInv
<1>9. ASSUME NEW o \in Outputs, VideoEnds(o)
      PROVE  ChoiceInv'
  BY <1>9 DEF VideoEnds, ChoiceInv, VideoType, Stages, Idle
<1>10. CASE UNCHANGED vars
  BY <1>10 DEF vars, ChoiceInv
<1> QED BY <1>2, <1>3, <1>4, <1>5, <1>6, <1>7, <1>8, <1>9, <1>10 DEF Next

-----------------------------------------------------------------------------
(* Theorems                                                                *)

\* Keys act on the output the user points at, or else on the one with the keyboard.
THEOREM SeatFollowsThePointer == Spec => []ActiveIsPointedAt
<1>1. FocusInv => ActiveIsPointedAt
  <2> SUFFICES ASSUME FocusInv PROVE ActiveIsPointedAt
    OBVIOUS
  <2>1. active = IF pointed.on # None THEN (IF pointed.inside THEN pointed.on ELSE None) ELSE keyboard
    BY DEF FocusInv, ActiveSurface
  <2> QED BY <2>1 DEF FocusInv, ActiveIsPointedAt
<1> QED BY <1>1, InitFocus, FocusStep, PTL DEF Spec

\* A recording has the audio choice of the key press that asked for it.
THEOREM RecordingsKeepTheirChoice == Spec => []RecordingKeepsItsChoice
<1>1. ChoiceInv => RecordingKeepsItsChoice
  BY DEF ChoiceInv, RecordingKeepsItsChoice, Capturing
<1> QED BY <1>1, InitFocus, FocusStep, InitChoice, ChoiceStep, PTL DEF Spec

\* No single Escape ends the session when the seat acts on no output and one records.
THEOREM EscapeWarnsFirst == Spec => OneEscapeKeepsTheSession
<1>1. [Next]_vars => [running /\ ~running' /\ active = None /\ (\E o \in Outputs : Capturing(o)) => escaped]_vars
  <2> SUFFICES ASSUME Next, running, ~running', active = None, \E o \in Outputs : Capturing(o)
               PROVE  escaped
    OBVIOUS
  <2>1. Escape
    BY DEF Next, PointerEnter, PointerLeave, PointerMotion, KeyboardEnter, KeyboardLeave, Modifiers,
           StartVideo, StopVideo, DispatchPending, VideoEnds
  <2>2. running' = (running /\ WarnsOnEscape(active))
    BY <2>1 DEF Escape
  <2> QED BY <2>2 DEF WarnsOnEscape
<1> QED BY <1>1, PTL DEF Spec, OneEscapeKeepsTheSession

-----------------------------------------------------------------------------
(* The modifier                                                            *)

\* Every recording is of a selection, and begins at its key press.
AllAtOnce == SeatOutputs /\ HasSelection = Outputs

\* No recording waits, so the modifier is of the seat's key and focus alone.
ModifierInv ==
  /\ \A o \in Outputs : audio_off[o] <=> o = active /\ shift
  /\ \A o \in Outputs : video[o].stage # "PENDING" /\ (pressed[o].off = pressed[o].shift)

LEMMA UpdateActiveMovesModifier ==
  ASSUME ChoiceInv, ModifierInv, NEW p, NEW t, NEW k, UpdateActive(p, t, k),
         UNCHANGED <<shift, video, pressed>>
  PROVE  ModifierInv'
<1> DEFINE new == ActiveSurface(p, t, k)
<1>1. /\ active' = new
      /\ audio_off' = IF new = active THEN audio_off ELSE AppliedModifier(active, new)
  BY DEF UpdateActive
<1> HIDE DEF new
<1>2. ASSUME NEW o \in Outputs
      PROVE  audio_off'[o] <=> o = active' /\ shift'
  <2>1. CASE new = active
    BY <1>1, <2>1 DEF ModifierInv
  <2>2. CASE new # active
    <3>1. audio_off'[o] = IF o = new THEN shift ELSE o # active /\ audio_off[o]
      BY <1>1, <2>2 DEF AppliedModifier
    <3>2. CASE o = new
      BY <1>1, <3>1, <3>2
    <3>3. CASE o # new
      <4>1. ~(o # active /\ audio_off[o])
        BY DEF ModifierInv
      <4> QED BY <1>1, <3>1, <3>3, <4>1
    <3> QED BY <3>2, <3>3
  <2> QED BY <2>1, <2>2
<1> QED BY <1>2 DEF ModifierInv

LEMMA ModifierStep ==
  ASSUME AllAtOnce, FocusInv, ChoiceInv, ModifierInv, Next
  PROVE  ModifierInv'
<1>1. /\ audio_off \in [Outputs -> BOOLEAN] /\ shift \in BOOLEAN
      /\ video \in [Outputs -> VideoType]
      /\ pressed \in [Outputs -> [shift : BOOLEAN, off : BOOLEAN]]
      /\ None \notin Outputs
      /\ active \in Outputs \cup {None}
  <2>1. active \in Surfaces
    BY ActiveSurfaceType DEF FocusInv
  <2> QED BY <2>1 DEF ChoiceInv, AllAtOnce, SeatOutputs, Surfaces
<1>2. CASE \/ \E s \in Surfaces, inside \in BOOLEAN : PointerEnter(s, inside)
           \/ PointerLeave
           \/ \E s \in Surfaces : KeyboardEnter(s)
           \/ KeyboardLeave
  BY <1>2, UpdateActiveMovesModifier DEF PointerEnter, PointerLeave, KeyboardEnter, KeyboardLeave
<1>3. ASSUME NEW inside \in BOOLEAN, PointerMotion(inside)
      PROVE  ModifierInv'
  <2>1. CASE trusted' = trusted
    <3>1. UNCHANGED <<active, shift, audio_off, video, pressed>>
      BY <1>3, <2>1 DEF PointerMotion
    <3> QED BY <3>1 DEF ModifierInv
  <2>2. CASE trusted' # trusted
    BY <1>3, <2>2, UpdateActiveMovesModifier DEF PointerMotion
  <2> QED BY <2>1, <2>2
<1>4. ASSUME NEW state \in BOOLEAN, Modifiers(state)
      PROVE  ModifierInv'
  <2>1. /\ shift' = state /\ UNCHANGED <<active, video, pressed>>
        /\ audio_off' = IF active = None THEN audio_off ELSE [audio_off EXCEPT ![active] = state]
    BY <1>4 DEF Modifiers, ModifierSurface
  <2>2. ASSUME NEW o \in Outputs
        PROVE  audio_off'[o] <=> o = active' /\ shift'
    <3>1. CASE o = active
      BY <1>1, <2>1, <3>1
    <3>2. CASE o # active
      <4>1. audio_off'[o] = audio_off[o]
        BY <1>1, <2>1, <3>2
      <4> QED BY <2>1, <3>2, <4>1 DEF ModifierInv
    <3> QED BY <3>1, <3>2
  <2> QED BY <2>1, <2>2 DEF ModifierInv
<1>5. CASE Escape
  <2>1. UNCHANGED <<active, shift, audio_off, pressed>>
    BY <1>5 DEF Escape
  <2>2. ASSUME NEW o \in Outputs
        PROVE  video'[o].stage # "PENDING"
    <3>1. \/ video' = video
          \/ active \in Outputs /\ video' = StopOn(active)
          \/ video' = [x \in Outputs |->
                         CASE Capturing(x) -> [video[x] EXCEPT !.stage = "STOP_REQUESTED"]
                           [] video[x].stage = "PENDING" -> Idle
                           [] OTHER -> video[x]]
      BY <1>1, <1>5 DEF Escape
    <3>2. video[o].stage # "PENDING" /\ video[o] \in VideoType
      BY <1>1 DEF ModifierInv
    <3>3. CASE video' = video
      BY <3>2, <3>3
    <3>4. CASE active \in Outputs /\ video' = StopOn(active)
      BY <1>1, <3>2, <3>4 DEF StopOn, VideoType
    <3>5. CASE video' = [x \in Outputs |->
                           CASE Capturing(x) -> [video[x] EXCEPT !.stage = "STOP_REQUESTED"]
                             [] video[x].stage = "PENDING" -> Idle
                             [] OTHER -> video[x]]
      BY <1>1, <3>2, <3>5 DEF VideoType, Idle
    <3> QED BY <3>1, <3>3, <3>4, <3>5
  <2> QED BY <2>1, <2>2 DEF ModifierInv
<1>6. CASE StartVideo
  <2>1. /\ active \in Outputs /\ UNCHANGED <<active, shift, audio_off>>
        /\ video' = [video EXCEPT ![active] =
                       [stage |-> "CAPTURING", pending_off |-> FALSE, silent |-> audio_off[active]]]
        /\ pressed' = [pressed EXCEPT ![active] = [shift |-> shift, off |-> audio_off[active]]]
    BY <1>1, <1>6 DEF StartVideo, AllAtOnce
  <2>2. audio_off[active] = shift
    BY <1>1, <2>1 DEF ModifierInv
  <2>3. ASSUME NEW o \in Outputs
        PROVE  video'[o].stage # "PENDING" /\ pressed'[o].off = pressed'[o].shift
    BY <1>1, <2>1, <2>2, <2>3 DEF ModifierInv
  <2> QED BY <2>1, <2>3 DEF ModifierInv
<1>7. CASE StopVideo
  <2>1. UNCHANGED <<active, shift, audio_off, pressed>>
    BY <1>7 DEF StopVideo
  <2>2. active \in Outputs /\ (video' = video \/ video' = StopOn(active))
    BY <1>1, <1>7 DEF StopVideo
  <2>3. ASSUME NEW o \in Outputs
        PROVE  video'[o].stage # "PENDING"
    BY <1>1, <2>2 DEF StopOn, ModifierInv, VideoType
  <2> QED BY <2>1, <2>3 DEF ModifierInv
<1>8. ASSUME NEW o \in Outputs, DispatchPending(o) \/ VideoEnds(o)
      PROVE  ModifierInv'
  <2>1. VideoEnds(o)
    BY <1>8 DEF DispatchPending, ModifierInv
  <2> QED BY <1>1, <2>1 DEF VideoEnds, ModifierInv, Idle
<1> QED BY <1>2, <1>3, <1>4, <1>5, <1>6, <1>7, <1>8 DEF Next

(***************************************************************************)
(* Where every output has a selection, so that no recording waits, Shift   *)
(* at the key press is what turns the audio of a recording off, as the     *)
(* README says; and the modifier is of the active output and no other.     *)
(* Where one may wait this is not so: see the run sticky_modifier.         *)
(***************************************************************************)
THEOREM ShiftActsAtOnce ==
  Spec => [](SeatOutputs /\ HasSelection = Outputs => ShiftTurnsAudioOff /\ ModifierFollowsFocus)
<1>1. Init => (AllAtOnce => ModifierInv)
  <2> SUFFICES ASSUME Init, NEW o \in Outputs
               PROVE  /\ audio_off[o] <=> o = active /\ shift
                      /\ video[o].stage # "PENDING" /\ (pressed[o].off = pressed[o].shift)
    BY DEF ModifierInv
  <2>1. /\ audio_off[o] = FALSE /\ shift = FALSE /\ video[o] = Idle
        /\ pressed[o] = [shift |-> FALSE, off |-> FALSE]
    BY DEF Init
  <2> QED BY <2>1 DEF Idle
<1>2. (AllAtOnce => ModifierInv) /\ FocusInv /\ ChoiceInv /\ [Next]_vars => (AllAtOnce => ModifierInv)'
  <2> SUFFICES ASSUME AllAtOnce, ModifierInv, FocusInv, ChoiceInv, [Next]_vars
               PROVE  ModifierInv'
    BY DEF AllAtOnce, SeatOutputs
  <2> QED BY ModifierStep DEF vars, ModifierInv
<1>3. FocusInv /\ ChoiceInv /\ (AllAtOnce => ModifierInv)
        => (SeatOutputs /\ HasSelection = Outputs => ShiftTurnsAudioOff /\ ModifierFollowsFocus)
  <2> SUFFICES ASSUME FocusInv, ChoiceInv, ModifierInv, NEW o \in Outputs
               PROVE  /\ Capturing(o) => video[o].silent = pressed[o].shift
                      /\ audio_off[o] = (o = active /\ shift)
    BY DEF AllAtOnce, ShiftTurnsAudioOff, ModifierFollowsFocus
  <2>1. Capturing(o) => video[o].silent = pressed[o].shift
    BY DEF ChoiceInv, ModifierInv, Capturing
  <2>2. audio_off[o] = (o = active /\ shift)
    BY DEF ChoiceInv, ModifierInv
  <2> QED BY <2>1, <2>2
<1> QED BY <1>1, <1>2, <1>3, InitFocus, FocusStep, InitChoice, ChoiceStep, PTL DEF Spec
=============================================================================

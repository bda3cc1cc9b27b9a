-------------------------------- MODULE Seat --------------------------------
(***************************************************************************)
(* Which output the seat acts on: pointer focus with its trust, keyboard   *)
(* focus, the Shift key that turns the audio of a recording off, and the   *)
(* keys whose effect depends on them.  The compositor moves both foci as   *)
(* it likes, in or out of the bounds of a surface; a recording of the      *)
(* whole output waits for the UI to be off the screen, which may be long   *)
(* after the key press it remembers.                                       *)
(***************************************************************************)
EXTENDS FiniteSets

CONSTANTS
  Outputs,        \* the outputs, each with its selection surface
  None,           \* no surface
  HasSelection    \* the outputs that have a selection: recorded at once

SeatOutputs ==
  /\ None \notin Outputs
  /\ HasSelection \subseteq Outputs

VARIABLES
  pointer,     \* pointer_ctx.focused_selection_surface
  trusted,     \* pointer_ctx.pointer_focus_trusted
  keyboard,    \* keyboard.focused_selection_surface
  active,      \* active_selection_surface
  focused,     \* g_state.focused
  shift,       \* mod_key_active
  escaped,     \* keyboard.last_press_was_untrusted_escape
  audio_off,   \* audio_disable_modifier_active, by output
  video,       \* video_stage, with the audio choice a pending one remembers
  running,     \* g_state.exit_requested is not set
  pointed,     \* compositor: the surface the pointer is on, and whether it was seen inside
  typing,      \* compositor: whether a surface of scran has the keyboard
  pressed      \* history: Shift and the audio choice at the press that began each recording

vars == <<pointer, trusted, keyboard, active, focused, shift, escaped, audio_off, video, running,
          pointed, typing, pressed>>

Surfaces == Outputs \cup {None}
Idle == [stage |-> "NONE", pending_off |-> FALSE, silent |-> FALSE]

Init ==
  /\ pointer = None /\ keyboard = None /\ active = None
  /\ trusted = FALSE /\ focused = FALSE /\ shift = FALSE /\ escaped = FALSE
  /\ audio_off = [o \in Outputs |-> FALSE]
  /\ video = [o \in Outputs |-> Idle]
  /\ running = TRUE
  /\ pointed = [on |-> None, inside |-> FALSE]
  /\ typing = FALSE
  /\ pressed = [o \in Outputs |-> [shift |-> FALSE, off |-> FALSE]]

-----------------------------------------------------------------------------
(* Focus                                                                   *)

\* The surface the seat acts on, of its two foci.
ActiveSurface(p, t, k) ==
  CASE p = None -> k
    [] p # None /\ t -> p
    [] OTHER -> None

\* Mutant: the surface that was active keeps the modifier.
AppliedModifier_Sticky(old, new) ==
  [o \in Outputs |-> IF o = new THEN shift ELSE audio_off[o]]

\* seat_apply_mod_key_state() of the old and of the new surface.
AppliedModifier(old, new) ==
  [o \in Outputs |-> IF o = new THEN shift ELSE o # old /\ audio_off[o]]

UpdateActive(p, t, k) ==
  LET new == ActiveSurface(p, t, k)
  IN  /\ active' = new
      /\ focused' = IF new = active THEN focused ELSE new # None
      /\ audio_off' = IF new = active THEN audio_off ELSE AppliedModifier(active, new)

\* The trust of an enter; without a surface of scran it stays what it was.
TrustOnEnter(surface, inside) == IF surface = None THEN trusted ELSE inside

\* A pointer enters a surface: one of an output, or one scran does not know.
PointerEnter(surface, inside) ==
  /\ pointed.on = None
  /\ pointed' = [on |-> surface, inside |-> inside]
  /\ pointer' = surface
  /\ trusted' = TrustOnEnter(surface, inside)
  /\ UpdateActive(surface, trusted', keyboard)
  /\ UNCHANGED <<keyboard, shift, escaped, video, running, typing, pressed>>

PointerLeave ==
  /\ pointed.on # None
  /\ pointed' = [on |-> None, inside |-> FALSE]
  /\ pointer' = None
  /\ UpdateActive(None, trusted, keyboard)
  /\ UNCHANGED <<trusted, keyboard, shift, escaped, video, running, typing, pressed>>

\* Mutant: motion out of bounds takes the trust away.
TrustOnMotion_Removed(inside) == inside

\* Motion may give trust, and does not take it: drags may leave the output.
TrustOnMotion(inside) == trusted \/ inside

PointerMotion(inside) ==
  /\ pointer # None
  /\ pointed' = [pointed EXCEPT !.inside = @ \/ inside]
  /\ trusted' = TrustOnMotion(inside)
  /\ IF trusted' = trusted
     THEN UNCHANGED <<active, focused, audio_off>>
     ELSE UpdateActive(pointer, trusted', keyboard)
  /\ UNCHANGED <<pointer, keyboard, shift, escaped, video, running, typing, pressed>>

KeyboardEnter(surface) ==
  /\ ~typing
  /\ typing' = TRUE
  /\ keyboard' = surface
  /\ UpdateActive(pointer, trusted, surface)
  /\ UNCHANGED <<pointer, trusted, shift, escaped, video, running, pointed, pressed>>

KeyboardLeave ==
  /\ typing
  /\ typing' = FALSE
  /\ keyboard' = None
  /\ UpdateActive(pointer, trusted, None)
  /\ UNCHANGED <<pointer, trusted, shift, escaped, video, running, pointed, pressed>>

\* The surface that seat_set_mod_key_state() applies the modifier to.
ModifierSurface == active

\* wl_keyboard::modifiers, of a surface that has the keyboard.
Modifiers(state) ==
  /\ typing
  /\ shift' = state
  /\ audio_off' = IF ModifierSurface = None THEN audio_off
                 ELSE [audio_off EXCEPT ![ModifierSurface] = state]
  /\ UNCHANGED <<pointer, trusted, keyboard, active, focused, escaped, video, running, pointed, typing, pressed>>

-----------------------------------------------------------------------------
(* Keys                                                                    *)

Capturing(o) == video[o].stage = "CAPTURING"

\* Mutant: the warning is not remembered to be one.
WarnsOnEscape_Never(o) == FALSE

\* Escape without an active surface, while an output records, first warns.
WarnsOnEscape(o) == o = None /\ ~escaped /\ \E x \in Outputs : Capturing(x)

StopOn(o) == [video EXCEPT ![o] = [@ EXCEPT !.stage = "STOP_REQUESTED"]]

Escape ==
  /\ typing
  /\ escaped' = WarnsOnEscape(active)
  /\ IF active # None /\ Capturing(active)
     THEN /\ video' = StopOn(active)
          /\ UNCHANGED running
     ELSE /\ running' = (running /\ WarnsOnEscape(active))
          /\ video' = IF running' THEN video
                      ELSE [o \in Outputs |-> CASE Capturing(o) -> [video[o] EXCEPT !.stage = "STOP_REQUESTED"]
                                                [] video[o].stage = "PENDING" -> Idle
                                                [] OTHER -> video[o]]
  /\ UNCHANGED <<pointer, trusted, keyboard, active, focused, shift, audio_off, pointed, typing, pressed>>

\* Space, of an output without a recording: at once, or when the UI is off the screen.
StartVideo ==
  /\ typing /\ running
  /\ active # None
  /\ video[active].stage = "NONE"
  /\ video' = [video EXCEPT ![active] =
       IF active \in HasSelection
       THEN [stage |-> "CAPTURING", pending_off |-> FALSE, silent |-> audio_off[active]]
       ELSE [stage |-> "PENDING", pending_off |-> audio_off[active], silent |-> FALSE]]
  /\ pressed' = [pressed EXCEPT ![active] = [shift |-> shift, off |-> audio_off[active]]]
  /\ escaped' = FALSE
  /\ UNCHANGED <<pointer, trusted, keyboard, active, focused, shift, audio_off, running, pointed, typing>>

\* Space, of an output that records; while one is pending or stops, it does nothing.
StopVideo ==
  /\ typing
  /\ active # None
  /\ video[active].stage # "NONE"
  /\ video' = IF Capturing(active) THEN StopOn(active) ELSE video
  /\ escaped' = FALSE
  /\ UNCHANGED <<pointer, trusted, keyboard, active, focused, shift, audio_off, running, pointed, typing, pressed>>

\* Mutant: the recording looks at the keys of the moment it starts.
ChosenAudio_OfNow(o) == audio_off[o]

\* What a pending recording decides its audio by.
ChosenAudio(o) == video[o].pending_off

\* The UI is off the screen: capture_fullscreen_dispatch_awaiting_consumers().
DispatchPending(o) ==
  /\ video[o].stage = "PENDING"
  /\ audio_off' = [audio_off EXCEPT ![o] = ChosenAudio(o)]
  /\ \E starts \in BOOLEAN :
       video' = [video EXCEPT ![o] =
         IF starts THEN [stage |-> "CAPTURING", pending_off |-> FALSE, silent |-> ChosenAudio(o)] ELSE Idle]
  /\ UNCHANGED <<pointer, trusted, keyboard, active, focused, shift, escaped, running, pointed, typing, pressed>>

VideoEnds(o) ==
  /\ video[o].stage = "STOP_REQUESTED"
  /\ video' = [video EXCEPT ![o] = Idle]
  /\ UNCHANGED <<pointer, trusted, keyboard, active, focused, shift, escaped, audio_off, running, pointed, typing, pressed>>

Next ==
  \/ \E s \in Surfaces, inside \in BOOLEAN : PointerEnter(s, inside)
  \/ PointerLeave
  \/ \E inside \in BOOLEAN : PointerMotion(inside)
  \/ \E s \in Surfaces : KeyboardEnter(s)
  \/ KeyboardLeave
  \/ \E state \in BOOLEAN : Modifiers(state)
  \/ Escape
  \/ StartVideo
  \/ StopVideo
  \/ \E o \in Outputs : DispatchPending(o) \/ VideoEnds(o)

Spec == Init /\ [][Next]_vars

-----------------------------------------------------------------------------
(* Properties                                                              *)

\* Keys act on the output the user points at, once the pointer has been seen inside it, and on the one with
\* the keyboard when the pointer is on none: after any order of enters, leaves and motions, with the trust
\* that an earlier surface left behind.
ActiveIsPointedAt ==
  /\ active = IF pointed.on # None THEN (IF pointed.inside THEN pointed.on ELSE None) ELSE keyboard
  /\ focused = (active # None)

\* The key that turns audio off is down on the active output exactly when it is down on the seat, and on no
\* other output ("to avoid future possible sticky key bugs").
ModifierFollowsFocus ==
  \A o \in Outputs : audio_off[o] = (o = active /\ shift)

\* A recording has the audio choice it was asked for with, however long the UI kept it waiting and wherever
\* the keys and the focus went in between.
RecordingKeepsItsChoice ==
  \A o \in Outputs : Capturing(o) => (video[o].silent = pressed[o].off)

\* A recording is without audio when it was started with Shift and Space, and has audio when it was started
\* with Space alone, as the key list of the README says.
ShiftTurnsAudioOff ==
  \A o \in Outputs : Capturing(o) => (video[o].silent = pressed[o].shift)

\* While an output records, no single Escape ends the session when the seat acts on no output: the press
\* before it, of any key, was an Escape too.
OneEscapeKeepsTheSession ==
  [][running /\ ~running' /\ active = None /\ (\E o \in Outputs : Capturing(o)) => escaped]_vars
=============================================================================

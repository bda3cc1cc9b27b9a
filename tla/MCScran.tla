------------------------------ MODULE MCScran ------------------------------
(***************************************************************************)
(* The instances of Scran that TLC checks: which of the user's inputs each *)
(* run has.  An input that a question does not turn on multiplies the      *)
(* states of every other.                                                  *)
(***************************************************************************)
EXTENDS ScranProperties

\* The capture UI around images, videos and freezeframes of the whole output.
UiInputs == {"hide_ui", "freezeframe", "image", "video", "escape", "tab"}

\* Selections made and changed with the pointer, and what is captured of them.
RecordingInputs == {"image", "video", "escape", "focus", "buttons", "arrow"}

\* Captures that compete for stdout.
StdoutInputs == {"image", "video", "escape"}

\* Everything that asks scran to exit, and what it then has to bring to an end.
ExitInputs == {"image", "video", "escape", "focus", "buttons"}

\* Everything that shows or hides the capture UI.
SettlingInputs == {"image", "video", "hide_ui", "freezeframe"}

\* The pointer alone, with a video, and a video whose UI is shown.
PointerInputs == {"focus", "buttons"}
FrozenPointerInputs == {"video", "focus", "buttons"}
ShownUiInputs == {"hide_ui", "video"}
=============================================================================

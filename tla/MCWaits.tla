------------------------------ MODULE MCWaits -------------------------------
(***************************************************************************)
(* What must come to pass: in the main loop, which sleeps until something  *)
(* comes; in the process that outlives its windows for the clipboard; and  *)
(* with the tray's watcher, which comes when it likes.                     *)
(*                                                                         *)
(* In these models the parts have no variable in common: part says whose   *)
(* steps a behaviour has, and the others rest where they start.            *)
(***************************************************************************)
EXTENDS MainLoop, Sequences

CONSTANTS NoKeepalive, MaxCaptures, MaxEvents,   \* of Clipboard
          Watchers                               \* bound of Tray

VARIABLES part,
          dc, sources, requests, selection, events, pasted, process,
          sni, icon, out, in, watcher, alive, asked, items, counts

Clipboard == INSTANCE Clipboard
Tray == INSTANCE Tray WITH
          Refusals <- FALSE, Timeouts <- FALSE, MaxWatchers <- Watchers, MaxToggles <- 0

ASSUME WaitsConstants == Clipboard!ClipboardBounds /\ Tray!TrayBounds

loop == vars
clipboard == <<dc, sources, requests, selection, events, pasted, process>>
tray == <<sni, icon, out, in, watcher, alive, asked, items, counts>>

WaitsInit ==
  /\ part \in {"loop", "clipboard", "tray"}
  /\ Init
  /\ part # "loop" => bus = Closed
  /\ Clipboard!Init
  /\ Tray!Init
  /\ part # "tray" => watcher = Tray!Nobody

WaitsNext ==
  \/ part = "loop" /\ Next /\ UNCHANGED <<part, clipboard, tray>>
  \/ part = "clipboard" /\ Clipboard!Next /\ UNCHANGED <<part, loop, tray>>
  \/ part = "tray" /\ Tray!Next /\ UNCHANGED <<part, loop, clipboard>>

\* The fairness of each module, in the behaviours that have its steps.
WaitsFairness ==
  /\ WF_vars(part = "loop" /\ Step)
  /\ SF_vars(part = "loop" /\ SignalArrives)
  /\ WF_clipboard(part = "clipboard" /\ Clipboard!HandleSend)
  /\ WF_clipboard(part = "clipboard" /\ Clipboard!HandleCancelled)
  /\ WF_clipboard(part = "clipboard" /\ Clipboard!EndKeepalive)
  /\ WF_clipboard(part = "clipboard" /\ Clipboard!SetSelection)
  /\ WF_tray(part = "tray" /\ Tray!Process)
  /\ WF_tray(part = "tray" /\ Tray!Route)
  /\ \A w \in 1..Watchers : WF_tray(part = "tray" /\ w \in alive /\ Tray!Answer(w))

WaitsSpec == WaitsInit /\ [][WaitsNext]_<<part, loop, clipboard, tray>> /\ WaitsFairness

-----------------------------------------------------------------------------
(* Properties                                                              *)

\* See MainLoop: an expired timer of the bus is handled, and the time of a recording that is shown keeps up.
TimersAreServed == BusIsServed /\ ShownTimeKeepsUp

\* See Clipboard: the count is that of the sources that may still be asked, and scran does not end while it has
\* the selection.
SelectionIsKept == Clipboard!RefcountIsSources /\ Clipboard!SelectionOutlivesTheUi

\* See Clipboard: what is pasted is of one capture.
PastesAreOfOneCapture == Clipboard!PastesAreOfOneCapture

\* See Clipboard: scran ends once something else was copied for good.
KeepaliveEnds == Clipboard!KeepaliveEnds

\* See Tray: a watcher that stays gets the item.
StayingWatcherGetsTheItem == Tray!StayingWatcherGetsTheItem
=============================================================================

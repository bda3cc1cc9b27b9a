----------------------------- MODULE Clipboard ------------------------------
(***************************************************************************)
(* What captures leave in the clipboard: clipboard_update(), the events of *)
(* its sources, and how scran stays alive for them.  There is one          *)
(* scran_seat_datacontrol, which all sources share; a source that was      *)
(* replaced may still be asked for what it offered.                        *)
(*                                                                         *)
(* A capture is a number; what it leaves is an image with a path, an image *)
(* alone or a path alone.  Requests and events are in order, each way.     *)
(***************************************************************************)
EXTENDS Integers, Sequences, FiniteSets, SequencesExt

CONSTANTS
  NoKeepalive,   \* options.no_keepalive
  MaxCaptures,   \* bound: captures
  MaxEvents      \* bound: events on their way

ClipboardBounds ==
  /\ NoKeepalive \in BOOLEAN
  /\ {MaxCaptures, MaxEvents} \subseteq Nat

VARIABLES
  dc,         \* scran_seat_datacontrol
  sources,    \* the sources created, oldest first
  requests,   \* to the compositor: the sources to be the selection
  selection,  \* the compositor's: a source of scran, or Foreign
  events,     \* from the compositor
  pasted,     \* history: what the last paste got
  process

vars == <<dc, sources, requests, selection, events, pasted, process>>

Mimes == {"image", "uri_list", "plain"}
Nothing == 0
Foreign == 0

Empty == [data |-> Nothing, path |-> Nothing, offer_data |-> FALSE, offer_path |-> FALSE, refcount |-> 0]

Init ==
  /\ dc = Empty
  /\ sources = <<>>
  /\ requests = <<>>
  /\ selection = Foreign
  /\ events = <<>>
  /\ pasted = [source |-> Foreign, mime |-> "image", got |-> Nothing, newest |-> FALSE]
  /\ process = "running"

-----------------------------------------------------------------------------
(* scran                                                                   *)

Capture == Len(sources) + 1

Offered(has_data, has_path) ==
  (IF has_data THEN {"image"} ELSE {}) \cup (IF has_path THEN {"uri_list", "plain"} ELSE {})

\* Mutant: the flag of the last update is not reset.
Reset_FlagKept(d) == [d EXCEPT !.data = Nothing, !.offer_data = FALSE]

\* The first lines of clipboard_update().
Reset(d) == [d EXCEPT !.data = Nothing, !.offer_data = FALSE, !.offer_path = FALSE]

WithData(d, has_data) ==
  IF has_data THEN [d EXCEPT !.data = Capture, !.offer_data = TRUE] ELSE d

WithPath(d, has_path) ==
  IF has_path THEN [d EXCEPT !.path = Capture, !.offer_path = TRUE] ELSE d

\* Mutant: the new selection is counted instead of the one before.
Counted_Replaced(d) == [d EXCEPT !.refcount = 1]

Counted(d) == [d EXCEPT !.refcount = @ + 1]

\* clipboard_update(), as the end of an image capture or of a recording calls it.
Update(has_data, has_path) ==
  /\ process = "running"
  /\ has_data \/ has_path
  /\ Len(sources) < MaxCaptures
  /\ dc' = Counted(WithPath(WithData(Reset(dc), has_data), has_path))
  /\ sources' = Append(sources, [offers |-> Offered(has_data, has_path), alive |-> TRUE])
  /\ requests' = Append(requests, Capture)
  /\ UNCHANGED <<selection, events, pasted, process>>

\* clipboard_update(), where it jumps to `err': what the old source would have
\* sent is gone, yet the old source stays the selection.
UpdateFails(has_data, at) ==
  /\ process = "running"
  /\ Len(sources) < MaxCaptures
  /\ at \in {"data", "mime", "path"}
  /\ at \in {"data", "mime"} => has_data
  /\ dc' = CASE at = "data" -> Reset(dc)
             [] at = "mime" -> [Reset(dc) EXCEPT !.data = Capture]
             [] at = "path" -> WithData(Reset(dc), has_data)
  /\ sources' = Append(sources, [offers |-> {}, alive |-> FALSE])
  /\ UNCHANGED <<requests, selection, events, pasted, process>>

\* What is written for a request: the branches of
\* handle_data_control_source_send().
Written(d, mime) ==
  IF d.offer_data /\ mime = "image" THEN d.data
  ELSE IF d.offer_path /\ mime \in {"uri_list", "plain"} THEN d.path
  ELSE Nothing

Dispatches == process \in {"running", "keepalive"} /\ events # <<>>

HandleSend ==
  /\ Dispatches
  /\ Head(events).kind = "send"
  /\ events' = Tail(events)
  /\ LET e == Head(events)
     IN pasted' = [source |-> e.source, mime |-> e.mime, got |-> Written(dc, e.mime),
                   newest |-> e.source = Len(sources)]
  /\ UNCHANGED <<dc, sources, requests, selection, process>>

\* handle_data_control_source_cancelled().
HandleCancelled ==
  /\ Dispatches
  /\ Head(events).kind = "cancelled"
  /\ events' = Tail(events)
  /\ sources' = [sources EXCEPT ![Head(events).source].alive = FALSE]
  /\ dc' = [dc EXCEPT !.refcount = @ - 1]
  /\ UNCHANGED <<requests, selection, pasted, process>>

\* main(): the loop is over, and scran stays for its selection, or not.
LeaveMainLoop ==
  /\ process = "running"
  /\ process' = IF NoKeepalive THEN "ended" ELSE "keepalive"
  /\ UNCHANGED <<dc, sources, requests, selection, events, pasted>>

\* Mutant: nothing left to offer is not enough to end.
KeepsAlive_Always == dc.refcount >= 0

\* The condition of stay_alive_while_clipboard_active().
KeepsAlive == dc.refcount > 0

EndKeepalive ==
  /\ process = "keepalive"
  /\ ~KeepsAlive
  /\ process' = "ended"
  /\ dc' = [dc EXCEPT !.data = Nothing]
  /\ UNCHANGED <<sources, requests, selection, events, pasted>>

-----------------------------------------------------------------------------
(* The compositor                                                          *)

Cancel(source) == [kind |-> "cancelled", source |-> source, mime |-> "image"]
Send(source, mime) == [kind |-> "send", source |-> source, mime |-> mime]

Replaces(new) ==
  /\ selection' = new
  /\ events' = IF selection = Foreign THEN events ELSE Append(events, Cancel(selection))

\* ext_data_control_device_v1::set_selection.
SetSelection ==
  /\ requests # <<>>
  /\ Len(events) < MaxEvents
  /\ Replaces(Head(requests))
  /\ requests' = Tail(requests)
  /\ UNCHANGED <<dc, sources, pasted, process>>

\* Something else is copied.
CopiedElsewhere ==
  /\ selection # Foreign
  /\ Len(events) < MaxEvents
  /\ process # "ended"
  /\ Replaces(Foreign)
  /\ UNCHANGED <<dc, sources, requests, pasted, process>>

\* Somebody pastes what the selection offers.
Paste(mime) ==
  /\ selection # Foreign
  /\ mime \in sources[selection].offers
  /\ Len(events) < MaxEvents
  /\ process # "ended"
  /\ events' = Append(events, Send(selection, mime))
  /\ UNCHANGED <<dc, sources, requests, selection, pasted, process>>

\* The keepalive waits for events, for as long as there are none.
Waits == process # "running" /\ UNCHANGED vars

Scran ==
  \/ \E has_data, has_path \in BOOLEAN :
       \/ Update(has_data, has_path)
       \/ \E at \in {"data", "mime", "path"} : UpdateFails(has_data, at)
  \/ LeaveMainLoop
  \/ EndKeepalive

Next ==
  \/ Scran
  \/ HandleSend
  \/ HandleCancelled
  \/ SetSelection
  \/ CopiedElsewhere
  \/ \E mime \in Mimes : Paste(mime)
  \/ Waits

\* The loops of scran go on, and the compositor serves requests.
Fairness ==
  /\ WF_vars(HandleSend)
  /\ WF_vars(HandleCancelled)
  /\ WF_vars(EndKeepalive)
  /\ WF_vars(SetSelection)

Spec == Init /\ [][Next]_vars /\ Fairness

-----------------------------------------------------------------------------
(* What must hold                                                          *)

TypeOK ==
  /\ dc.data \in 0..MaxCaptures /\ dc.path \in 0..MaxCaptures
  /\ selection \in 0..Len(sources)
  /\ Len(requests) <= MaxCaptures
  /\ Len(events) <= MaxEvents
  /\ process \in {"running", "keepalive", "ended"}

(***************************************************************************)
(* The count is that of the sources which may still be asked: those the    *)
(* compositor has not taken the selection from, as far as scran was told.  *)
(* So the assertion on it holds, and scran neither leaves while it has the *)
(* selection nor stays when it has lost it.                                *)
(***************************************************************************)
Cancelled(source) == Cancel(source) \in ToSet(events)

RefcountIsSources ==
  /\ dc.refcount = Cardinality({s \in DOMAIN sources : sources[s].alive})
  /\ \A s \in DOMAIN sources :
       sources[s].alive <=> s = selection \/ s \in ToSet(requests) \/ Cancelled(s)

\* Scran ends only when the compositor has no selection of its, unless the
\* user has told it to.
SelectionOutlivesTheUi ==
  ~NoKeepalive /\ process = "ended" => selection = Foreign /\ requests = <<>>

(***************************************************************************)
(* What is pasted is of one capture: the newest source gives exactly what  *)
(* it offered; one that was replaced gives what the newest capture left of *)
(* the kind, or nothing, never what an earlier one left.                   *)
(***************************************************************************)
PastesAreOfOneCapture ==
  [][pasted' # pasted =>
       /\ pasted'.got \in {Nothing, Len(sources)}
       /\ pasted'.newest => pasted'.got = pasted'.source]_vars

(***************************************************************************)
(* Once the user interface is gone and something else was copied for good, *)
(* scran ends.                                                             *)
(***************************************************************************)
KeepaliveEnds ==
  <>[](process # "running" /\ selection = Foreign /\ requests = <<>>) => <>(process = "ended")
=============================================================================

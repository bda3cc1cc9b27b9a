-------------------------------- MODULE Tray --------------------------------
(***************************************************************************)
(* The tray icon: a StatusNotifierItem that registers with a               *)
(* StatusNotifierWatcher, which starts, dies and is replaced as it likes.  *)
(* scran learns of watchers from NameOwnerChanged and of a registration    *)
(* from the reply to its call; a call goes to whoever owns the name when   *)
(* the message bus gets it.                                                *)
(*                                                                         *)
(* Messages to the bus, and from it, are in order.  Watchers are numbered  *)
(* as they appear; one that lost its name may still answer.                *)
(***************************************************************************)
EXTENDS Integers, Sequences, FiniteSets, SequencesExt

CONSTANTS
  Refusals,      \* whether a watcher may refuse an item
  Timeouts,      \* whether a call may time out before its answer comes
  MaxWatchers,   \* bound: watchers that appear
  MaxToggles     \* bound: changes of the icon

TrayBounds ==
  /\ {Refusals, Timeouts} \subseteq BOOLEAN
  /\ MaxWatchers \in Nat \ {0} /\ MaxToggles \in Nat

VARIABLES
  sni,       \* m_sni and m_snw: what is installed, and the call whose reply is awaited
  icon,      \* m_StatusNotifierItem_data: whether it shows a recording
  out,       \* scran's messages, before the bus has them
  in,        \* messages the bus has sent to scran
  watcher,   \* the owner of the watcher's name, or Nobody
  alive,     \* the watchers that run
  asked,     \* the calls that each watcher has, oldest first
  items,     \* the watchers that show the item, with the icon they show
  counts     \* watchers, toggles and calls so far

vars == <<sni, icon, out, in, watcher, alive, asked, items, counts>>

Nobody == 0
NoCall == 0
NotShown == "none"

Off == [installed |-> FALSE, named |-> FALSE, registered |-> FALSE, call |-> NoCall]

\* scran_tray_init() has been called, with or without a watcher around.
Init ==
  /\ sni = [Off EXCEPT !.installed = TRUE]
  /\ icon = FALSE
  /\ out = <<[kind |-> "RequestName"]>>
  /\ in = <<>>
  /\ watcher \in {Nobody, 1}
  /\ alive = {watcher} \ {Nobody}
  /\ asked = [w \in 1..MaxWatchers |-> <<>>]
  /\ items = [w \in 1..MaxWatchers |-> NotShown]
  /\ counts = [watchers |-> watcher, toggles |-> 0, calls |-> 0]

-----------------------------------------------------------------------------
(* scran                                                                   *)

\* The reply that is awaited is the one of the call made last.
RegisterWithWatcher(state) ==
  /\ sni' = [state EXCEPT !.call = counts.calls + 1]
  /\ out' = Append(out, [kind |-> "Register", call |-> counts.calls + 1])
  /\ counts' = [counts EXCEPT !.calls = @ + 1]

\* scran_tray_destroy(): all slots go, and the name if it is owned.
TrayDestroyed == Off

ReplyRequestName ==
  /\ in # <<>> /\ Head(in).kind = "Name"
  /\ in' = Tail(in)
  /\ IF ~sni.installed THEN UNCHANGED <<sni, out, counts>>
     ELSE IF Head(in).ok
     THEN RegisterWithWatcher([sni EXCEPT !.named = TRUE])
     ELSE sni' = TrayDestroyed /\ UNCHANGED <<out, counts>>
  /\ UNCHANGED <<icon, watcher, alive, asked, items>>

\* Mutant: an owner that is gone leaves the registration as it is.
OwnerLost_Ignored(state, old) == state

\* What a lost owner takes with it: the registration, and the reply that is awaited.
OwnerLost(state, old) ==
  IF old = Nobody THEN state ELSE [state EXCEPT !.registered = FALSE, !.call = NoCall]

\* Mutant: only a watcher that appears is registered with, not one that takes over.
RegistersAt_Appearing(old, new) == old = Nobody /\ new # Nobody /\ sni.named

\* A new owner is registered with, once scran has its name.
RegistersAt(old, new) == new # Nobody /\ sni.named

NameOwnerChanged ==
  /\ in # <<>> /\ Head(in).kind = "Owner"
  /\ in' = Tail(in)
  /\ LET lost == OwnerLost(sni, Head(in).old)
     IN  IF ~sni.installed THEN UNCHANGED <<sni, out, counts>>
         ELSE IF RegistersAt(Head(in).old, Head(in).new)
         THEN RegisterWithWatcher(lost)
         ELSE sni' = lost /\ UNCHANGED <<out, counts>>
  /\ UNCHANGED <<icon, watcher, alive, asked, items>>

\* A reply is delivered only to the slot of its call.
IsAwaited(call) == sni.call = call

ReplyRegister ==
  /\ in # <<>> /\ Head(in).kind = "Registered"
  /\ in' = Tail(in)
  /\ sni' = IF IsAwaited(Head(in).call)
            THEN [sni EXCEPT !.registered = Head(in).ok, !.call = NoCall]
            ELSE sni
  /\ UNCHANGED <<icon, out, watcher, alive, asked, items, counts>>

\* The call timed out: sd-bus answers it with an error.
RegisterTimesOut ==
  /\ Timeouts
  /\ sni.call # NoCall
  /\ sni' = [sni EXCEPT !.registered = FALSE, !.call = NoCall]
  /\ UNCHANGED <<icon, out, in, watcher, alive, asked, items, counts>>

\* The signals of a change.
Announced(recording) == <<[kind |-> "NewIcon"]>>

\* A recording started, or the last one ended.
SetRecording(recording) ==
  /\ counts.toggles < MaxToggles
  /\ icon' = recording
  /\ out' = IF recording = icon \/ ~sni.installed THEN out ELSE out \o Announced(recording)
  /\ counts' = [counts EXCEPT !.toggles = @ + 1]
  /\ UNCHANGED <<sni, in, watcher, alive, asked, items>>

\* A watcher reads the icon, after it was told to.
GetIcon ==
  /\ in # <<>> /\ Head(in).kind = "GetIcon"
  /\ in' = Tail(in)
  /\ out' = IF sni.installed THEN Append(out, [kind |-> "Icon", to |-> Head(in).from, icon |-> icon]) ELSE out
  /\ UNCHANGED <<sni, icon, watcher, alive, asked, items, counts>>

\* The main loop ends, and with it the tray icon; messages that are out stay out.
Destroy ==
  /\ sni.installed
  /\ sni' = TrayDestroyed
  /\ out' = IF sni.named THEN Append(out, [kind |-> "ReleaseName"]) ELSE out
  /\ UNCHANGED <<icon, in, watcher, alive, asked, items, counts>>

-----------------------------------------------------------------------------
(* The message bus and the watchers                                        *)

GetFrom(w) == [kind |-> "GetIcon", from |-> w]

\* The bus takes the next message of scran.
Route ==
  /\ out # <<>>
  /\ out' = Tail(out)
  /\ LET msg == Head(out)
     IN  \/ /\ msg.kind = "RequestName"
            /\ \E ok \in BOOLEAN : in' = Append(in, [kind |-> "Name", ok |-> ok])
            /\ UNCHANGED <<asked, items>>
         \/ /\ msg.kind = "Register" /\ watcher = Nobody
            /\ in' = Append(in, [kind |-> "Registered", call |-> msg.call, ok |-> FALSE])
            /\ UNCHANGED <<asked, items>>
         \/ /\ msg.kind = "Register" /\ watcher # Nobody
            /\ asked' = [asked EXCEPT ![watcher] = Append(@, msg.call)]
            /\ UNCHANGED <<in, items>>
         \/ /\ msg.kind = "NewIcon"
            /\ in' = in \o SetToSeq({GetFrom(w) : w \in {x \in alive : items[x] # NotShown}})
            /\ UNCHANGED <<asked, items>>
         \/ /\ msg.kind = "Icon"
            /\ items' = IF msg.to \in alive
                        THEN [items EXCEPT ![msg.to] = IF msg.icon THEN "recording" ELSE "idle"] ELSE items
            /\ UNCHANGED <<asked, in>>
         \/ /\ msg.kind = "ReleaseName"
            /\ items' = [w \in DOMAIN items |-> NotShown]
            /\ UNCHANGED <<asked, in>>
  /\ UNCHANGED <<sni, icon, watcher, alive, counts>>

\* A watcher answers the first call it has; one that shows the item already has nothing against it.
Answer(w) ==
  /\ asked[w] # <<>>
  /\ asked' = [asked EXCEPT ![w] = Tail(@)]
  /\ \E ok \in BOOLEAN :
       /\ ~ok => Refusals /\ items[w] = NotShown
       /\ in' = Append(in, [kind |-> "Registered", call |-> Head(asked[w]), ok |-> ok])
                \o (IF ok THEN <<GetFrom(w)>> ELSE <<>>)
       /\ items' = IF ok /\ items[w] = NotShown THEN [items EXCEPT ![w] = "idle"] ELSE items
  /\ UNCHANGED <<sni, icon, out, watcher, alive, counts>>

OwnerChanged(old, new) == <<[kind |-> "Owner", old |-> old, new |-> new]>>

\* The bus answers for a watcher that died, before or after it tells of the new owner.
WatcherDies(w) ==
  LET errors == [i \in DOMAIN asked[w] |-> [kind |-> "Registered", call |-> asked[w][i], ok |-> FALSE]]
      changed == IF watcher = w THEN OwnerChanged(w, Nobody) ELSE <<>>
  IN  /\ alive' = alive \ {w}
      /\ asked' = [asked EXCEPT ![w] = <<>>]
      /\ items' = [items EXCEPT ![w] = NotShown]
      /\ watcher' = IF watcher = w THEN Nobody ELSE watcher
      /\ in' \in {in \o changed \o errors, in \o errors \o changed}
      /\ UNCHANGED <<sni, icon, out, counts>>

\* A watcher takes the name, from the one that has it if that one lets it.
WatcherAppears ==
  LET new == counts.watchers + 1
  IN  /\ counts.watchers < MaxWatchers
      /\ counts' = [counts EXCEPT !.watchers = new]
      /\ alive' = alive \cup {new}
      /\ watcher' = new
      /\ in' = in \o OwnerChanged(watcher, new)
      /\ UNCHANGED <<sni, icon, out, asked, items>>

Process == ReplyRequestName \/ NameOwnerChanged \/ ReplyRegister \/ GetIcon

Quiet == out = <<>> /\ in = <<>> /\ (\A w \in alive : asked[w] = <<>>) /\ sni.call = NoCall

\* Nothing happens, for a while.
Idle == Quiet /\ UNCHANGED vars

Next ==
  \/ Process
  \/ RegisterTimesOut
  \/ \E recording \in BOOLEAN : SetRecording(recording)
  \/ Destroy
  \/ Route
  \/ \E w \in alive : Answer(w)
  \/ \E w \in alive : WatcherDies(w)
  \/ WatcherAppears
  \/ Idle

\* scran handles what it gets, the bus passes messages on, and watchers answer.
Fairness ==
  /\ WF_vars(Process)
  /\ WF_vars(Route)
  /\ \A w \in 1..MaxWatchers : WF_vars(w \in alive /\ Answer(w))

Spec == Init /\ [][Next]_vars /\ Fairness

-----------------------------------------------------------------------------
(* Properties                                                              *)

\* Whenever nothing is under way, scran says that its icon is registered, and tells the user to look for it, if
\* and only if there is a watcher and it has the icon; for watchers that come, go, hand over, answer late or refuse.
RegisteredIsShown ==
  Quiet /\ sni.installed =>
    sni.registered = (watcher # Nobody /\ items[watcher] # NotShown)

\* Replies to a registration are handled only while scran owns its name (the assertion in the reply).
RepliesFindTheName == sni.call # NoCall => sni.named

\* Whenever nothing is under way, a watcher that has the item shows the icon of what scran does.
IconIsCurrent ==
  Quiet /\ sni.installed =>
    \A w \in alive : items[w] # NotShown => items[w] = IF icon THEN "recording" ELSE "idle"

\* A watcher that stays gets the item, whichever watchers came and went before it.
StayingWatcherGetsTheItem ==
  \A w \in 1..MaxWatchers :
    <>[](watcher = w /\ sni.named) => <>[](items[w] # NotShown /\ sni.registered)
=============================================================================

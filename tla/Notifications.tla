--------------------------- MODULE Notifications ---------------------------
(***************************************************************************)
(* Notifications of saved files that open the file when clicked: a ring of *)
(* the last ones, whose ids come with the replies of the notification      *)
(* server.  Servers are replaced and start to count again; clicks on       *)
(* notifications of other programs are told to everyone.                   *)
(*                                                                         *)
(* A file is the number of its notification.  The counter of notifications *)
(* is an unsigned int, here of Wrap values.                                *)
(***************************************************************************)
EXTENDS Integers, Sequences, FiniteSets, SequencesExt

CONSTANTS
  Length,       \* OPENFILE_NOTIFICATIONS_LENGTH
  Wrap,         \* values of openfile_notification_count_t
  Handovers,    \* whether a server may lose its name and live on
  MaxFiles,     \* bound: files saved
  MaxServers,   \* bound: servers
  MaxForeign    \* bound: the ids that another program may get

NotificationBounds ==
  /\ {Length, Wrap, MaxFiles, MaxServers, MaxForeign} \subseteq Nat
  /\ MaxServers > 0 /\ Length > 0 /\ Wrap % Length = 0 /\ Wrap > Length
  /\ Handovers \in BOOLEAN

VARIABLES
  contexts,     \* openfile_contexts: [id, file]
  count,        \* openfile_notification_count
  server_name,  \* openfile_notification_server_name
  enabled,      \* notification_actions_enabled
  saved,        \* history: the files saved so far
  out,          \* scran's calls, in order
  in,           \* replies and signals to scran, in order
  server,       \* who owns org.freedesktop.Notifications
  alive,        \* the servers that run
  asked,        \* the calls that each server has, oldest first
  shown,        \* what servers show: [server, id, file]; files of other programs are Foreign
  ids           \* the next id of each server

vars == <<contexts, count, server_name, enabled, saved, out, in, server, alive, asked, shown, ids>>

Nobody == 0
Foreign == 0
NoFile == 0
Awaited == 0   \* the id of a context that is unused or awaits its reply

Init ==
  /\ contexts = [i \in 0..(Length - 1) |-> [id |-> Awaited, file |-> NoFile]]
  /\ count = 0 /\ saved = 0
  /\ server_name = Nobody
  /\ enabled = FALSE
  /\ out = <<>> /\ in = <<[kind |-> "AddMatch"]>>
  /\ asked = [s \in 1..MaxServers |-> <<>>]
  /\ server = 1 /\ alive = {1}
  /\ shown = {}
  /\ ids = [s \in 1..MaxServers |-> 1]

-----------------------------------------------------------------------------
(* scran                                                                   *)

\* Mutant: off by one; the oldest context counts as overwritten only when the next one is.
IsStored_OffByOne(sequence) == (count - sequence) % Wrap <= Length + 1

\* Whether the context of a notification has not been overwritten.
IsStored(sequence) == (count - sequence) % Wrap <= Length

CloseCall(to, id) ==
  IF id = Awaited THEN <<>> ELSE <<[kind |-> "Close", to |-> to, id |-> id]>>

\* Ids are closed at the server that assigned them.
CloseTarget == server_name

\* Bound: the counter does not come round while a reply is on its way.
FilesInFlight ==
  LET messages == ToSet(out) \cup ToSet(in) \cup UNION {ToSet(asked[s]) : s \in 1..MaxServers}
  IN  {m.file : m \in {x \in messages : x.kind \in {"Notify", "Notified"}}}
NoWrapInFlight == \A file \in FilesInFlight \ {NoFile} : saved + 2 - file < Wrap

\* scran_notify_file_saved(), once actions are enabled: before, notifications do nothing.
NotifyFileSaved ==
  /\ saved < MaxFiles /\ NoWrapInFlight
  /\ saved' = saved + 1
  /\ IF ~enabled
     THEN out' = Append(out, [kind |-> "Notify", file |-> NoFile, sequence |-> 0])
          /\ UNCHANGED <<contexts, count>>
     ELSE LET slot == count % Length
          IN  /\ count' = (count + 1) % Wrap
              /\ contexts' = [contexts EXCEPT ![slot] = [id |-> Awaited, file |-> saved + 1]]
              /\ out' = out \o CloseCall(CloseTarget, contexts[slot].id)
                        \o <<[kind |-> "Notify", file |-> saved + 1, sequence |-> count]>>
  /\ UNCHANGED <<server_name, enabled, in, server, alive, asked, shown, ids>>

ReplyAddMatch ==
  /\ in # <<>> /\ Head(in).kind = "AddMatch"
  /\ in' = Tail(in)
  /\ enabled' \in BOOLEAN
  /\ UNCHANGED <<contexts, count, server_name, saved, out, server, alive, asked, shown, ids>>

\* Mutant: the ids of the server before stay.
OfServer_Kept(name) == contexts

\* The ids of another server are of no use any more.
OfServer(name) ==
  IF name = server_name THEN contexts
  ELSE [i \in DOMAIN contexts |-> [contexts[i] EXCEPT !.id = Awaited]]

ReplyNotify ==
  /\ in # <<>> /\ Head(in).kind = "Notified"
  /\ in' = Tail(in)
  /\ LET reply == Head(in)
     IN  /\ server_name' = reply.from
         /\ IF IsStored(reply.sequence)
            THEN /\ contexts' = [OfServer(reply.from) EXCEPT ![reply.sequence % Length].id = reply.id]
                 /\ UNCHANGED out
            ELSE /\ contexts' = OfServer(reply.from)
                 /\ out' = out \o CloseCall(reply.from, reply.id)
  /\ UNCHANGED <<count, enabled, saved, server, alive, asked, shown, ids>>

\* A reply that is an error, or that does not have to be handled.
ReplyIgnored ==
  /\ in # <<>> /\ Head(in).kind = "Ignored"
  /\ in' = Tail(in)
  /\ UNCHANGED <<contexts, count, server_name, enabled, saved, out, server, alive, asked, shown, ids>>

\* A click counts if the server that tells of it assigned the ids that are stored.
IsOfServer(name) == name = server_name

\* The file that a click opens.
FileOf(id) ==
  IF \E i \in DOMAIN contexts : contexts[i].id = id
  THEN contexts[CHOOSE i \in DOMAIN contexts : contexts[i].id = id /\ \A j \in 0..(i - 1) : contexts[j].id # id].file
  ELSE NoFile

ActionInvoked ==
  /\ in # <<>> /\ Head(in).kind = "Invoked"
  /\ in' = Tail(in)
  /\ LET file == IF IsOfServer(Head(in).from) THEN FileOf(Head(in).id) ELSE NoFile
     IN  out' = IF file = NoFile THEN out ELSE Append(out, [kind |-> "OpenFile", file |-> file, clicked |-> Head(in).file])
  /\ UNCHANGED <<contexts, count, server_name, enabled, saved, server, alive, asked, shown, ids>>

-----------------------------------------------------------------------------
(* The message bus, the servers and the user                               *)

\* The bus takes the next call: to the server of the moment, or to one by its unique name.
Route ==
  /\ out # <<>>
  /\ out' = Tail(out)
  /\ LET call == Head(out)
         to == CASE call.kind = "Notify" -> server [] call.kind = "Close" -> call.to [] OTHER -> Nobody
     IN  IF to \in alive
         THEN asked' = [asked EXCEPT ![to] = Append(@, call)] /\ UNCHANGED in
         ELSE in' = (IF call.kind = "Notify" THEN Append(in, [kind |-> "Ignored"]) ELSE in) /\ UNCHANGED asked
  /\ UNCHANGED <<contexts, count, server_name, enabled, saved, server, alive, shown, ids>>

Shows(s, file) ==
  /\ shown' = shown \cup {[server |-> s, id |-> ids[s], file |-> file]}
  /\ ids' = [ids EXCEPT ![s] = @ + 1]

Replied(s, call) ==
  [kind |-> "Notified", from |-> s, id |-> ids[s], sequence |-> call.sequence, file |-> call.file]

\* A server handles the first call it has.
Serve(s) ==
  /\ asked[s] # <<>>
  /\ asked' = [asked EXCEPT ![s] = Tail(@)]
  /\ LET call == Head(asked[s])
     IN  \/ /\ call.kind = "Close"
            /\ shown' = {n \in shown : ~(n.server = s /\ n.id = call.id)}
            /\ UNCHANGED <<in, ids>>
         \/ /\ call.kind = "Notify" /\ call.file = NoFile
            /\ in' = Append(in, [kind |-> "Ignored"])
            /\ ids' = [ids EXCEPT ![s] = @ + 1] /\ UNCHANGED shown
         \/ /\ call.kind = "Notify" /\ call.file # NoFile
            /\ in' = Append(in, Replied(s, call))
            /\ Shows(s, call.file)
  /\ UNCHANGED <<contexts, count, server_name, enabled, saved, out, server, alive>>

\* Another program notifies.
ForeignNotify ==
  /\ server \in alive
  /\ ids[server] <= MaxForeign
  /\ Shows(server, Foreign)
  /\ UNCHANGED <<contexts, count, server_name, enabled, saved, out, in, server, alive, asked>>

\* The user clicks; most servers then take the notification away.  Only the owner of the name is listened to.
\* Bound: one click at a time.
Click(n) ==
  /\ n.server = server
  /\ \A i \in DOMAIN in : in[i].kind # "Invoked"
  /\ \A i \in DOMAIN out : out[i].kind # "OpenFile"
  /\ in' = Append(in, [kind |-> "Invoked", from |-> n.server, id |-> n.id, file |-> n.file])
  /\ shown' \in {shown, shown \ {n}}
  /\ UNCHANGED <<contexts, count, server_name, enabled, saved, out, server, alive, asked, ids>>

\* A server dies, with its calls unanswered, or hands its name over to the next.
ServerDies(s) ==
  /\ alive' = alive \ {s}
  /\ server' = IF server = s THEN Nobody ELSE server
  /\ shown' = {n \in shown : n.server # s}
  /\ asked' = [asked EXCEPT ![s] = <<>>]
  /\ UNCHANGED <<contexts, count, server_name, enabled, saved, out, in, ids>>

ServerStarts(s) ==
  /\ \A x \in 1..MaxServers : x < s => ids[x] > 1
  /\ ids[s] = 1 /\ s \notin alive
  /\ server = Nobody \/ Handovers
  /\ server' = s
  /\ alive' = alive \cup {s}
  /\ UNCHANGED <<contexts, count, server_name, enabled, saved, out, in, asked, shown, ids>>

Quiet == out = <<>> /\ in = <<>> /\ \A s \in 1..MaxServers : asked[s] = <<>>

\* Nothing happens, for a while.
Idle == Quiet /\ UNCHANGED vars

Next ==
  \/ NotifyFileSaved
  \/ ReplyAddMatch \/ ReplyNotify \/ ReplyIgnored \/ ActionInvoked
  \/ Route
  \/ \E s \in alive : Serve(s) \/ ServerDies(s)
  \/ ForeignNotify
  \/ \E n \in shown : Click(n)
  \/ \E s \in 1..MaxServers : ServerStarts(s)
  \/ Idle

Spec == Init /\ [][Next]_vars

-----------------------------------------------------------------------------
(* Properties                                                              *)

\* A click opens the file that the notification is about or nothing, and never a file for a notification of
\* another program; over restarts and handovers of servers that number alike, late replies and a full ring.
ClickOpensItsFile ==
  \A i \in DOMAIN out : out[i].kind = "OpenFile" => out[i].file = out[i].clicked

\* scran closes only its own notifications, and of these only ones that Length newer ones have overtaken.
ClosesOnlyOvertaken ==
  \A n \in shown : \A c \in ToSet(asked[n.server]) :
    c.kind = "Close" /\ n.id = c.id => n.file # Foreign /\ n.file <= saved - Length

\* Whenever nothing is under way, every notification of scran that is on the screen opens its file, and there
\* are no more of them than the ring has places.
OpenOnesAreStored ==
  Quiet =>
    /\ \A n \in shown : n.file # Foreign => n.server = server_name /\ FileOf(n.id) = n.file
    /\ Cardinality({n \in shown : n.file # Foreign}) <= Length
=============================================================================

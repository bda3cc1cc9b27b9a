--------------------------- MODULE MCWaits_proofs ---------------------------
(***************************************************************************)
(* The main loop does not sleep on work, whatever the limit of a turn and  *)
(* the number of events, messages and signals; and the clipboard keeps the *)
(* selection for which scran stays alive, whatever the captures and what   *)
(* others copy and paste.                                                  *)
(***************************************************************************)
EXTENDS MCWaits, FiniteSetTheorems, TLAPS

-----------------------------------------------------------------------------
(* The inductive invariant of the main loop                                *)

Places == {"prepare", "poll", "bus", "signal", "ui", "done"}

LoopType ==
  /\ at \in Places
  /\ wayland \in [socket : Nat, queue : Nat, requests : BOOLEAN]
  /\ bus \in [fd : {NoFd, 0, 1}, socket : Nat, ahead : Nat, timer : {"none", "armed", "expired"}]
  /\ bus.fd = NoFd => bus.ahead = 0
  /\ signal \in [pending : BOOLEAN, requested : BOOLEAN, sent : Nat]

\* From the bus's part of a turn on: what is watched and the timeout are those of the bus.
BusIsWatched ==
  at \in {"signal", "ui", "prepare", "poll"} =>
    /\ epoll = bus.fd
    /\ bus.ahead > 0 => portal_ms = "now"

\* From the signal's part on: a request to grab the focus was met, and no other one can come before the sleep.
SignalIsMet == at \in {"ui", "prepare", "poll"} => ~signal.requested

\* The queue is prepared for reading and the requests are flushed.
WaylandIsPrepared == at = "poll" => wayland.queue = 0 /\ ~wayland.requests

LoopInv == LoopType /\ BusIsWatched /\ SignalIsMet /\ WaylandIsPrepared

-----------------------------------------------------------------------------

LEMMA InitLoopInv == Init => LoopInv
<1> SUFFICES ASSUME Init PROVE LoopInv
  OBVIOUS
<1>1. at = "prepare" /\ at \in Places
  BY DEF Init, Places
<1>2. wayland \in [socket : Nat, queue : Nat, requests : BOOLEAN]
  BY LoopBounds DEF Init, LoopBounds
<1>3. /\ bus \in [fd : {NoFd, 0, 1}, socket : Nat, ahead : Nat, timer : {"none", "armed", "expired"}]
      /\ bus.ahead = 0 /\ epoll = bus.fd
  <2>1. CASE bus = Closed
    BY <2>1 DEF Init, Closed
  <2>2. CASE bus = [Closed EXCEPT !.fd = 0, !.timer = "armed"]
    BY <2>2 DEF Init, Closed
  <2> QED BY <2>1, <2>2 DEF Init
<1>4. signal \in [pending : BOOLEAN, requested : BOOLEAN, sent : Nat] /\ ~signal.requested
  BY DEF Init
<1>5. LoopType
  BY <1>1, <1>2, <1>3, <1>4 DEF LoopType
<1>6. BusIsWatched /\ SignalIsMet /\ WaylandIsPrepared
  BY <1>1, <1>3, <1>4 DEF BusIsWatched, SignalIsMet, WaylandIsPrepared
<1> QED BY <1>5, <1>6 DEF LoopInv

\* The loop's own steps.
LEMMA StepKeepsInv ==
  ASSUME LoopInv, Step
  PROVE  LoopInv'
<1> USE DEF LoopInv
<1>1. CASE DispatchQueued
  <2>1. wayland.queue \in Nat /\ wayland.queue - 1 \in Nat
    BY <1>1 DEF DispatchQueued, LoopType
  <2>2. wayland' \in [socket : Nat, queue : Nat, requests : BOOLEAN]
    BY <1>1, <2>1 DEF DispatchQueued, LoopType
  <2>3. LoopType'
    BY <1>1, <2>2 DEF DispatchQueued, LoopType
  <2> QED BY <1>1, <2>3 DEF DispatchQueued, BusIsWatched, SignalIsMet, WaylandIsPrepared
<1>2. CASE PrepareRead
  <2>1. LoopType'
    BY <1>2 DEF PrepareRead, FlushedRequests, LoopType, Places
  <2>2. WaylandIsPrepared'
    BY <1>2 DEF PrepareRead, FlushedRequests, WaylandIsPrepared, LoopType
  <2> QED BY <1>2, <2>1, <2>2 DEF PrepareRead, BusIsWatched, SignalIsMet
<1>3. CASE PollReturns
  <2>1. wayland' = wayland \/ wayland' = [wayland EXCEPT !.socket = 0, !.requests = TRUE]
    BY <1>3 DEF PollReturns
  <2>2. wayland' \in [socket : Nat, queue : Nat, requests : BOOLEAN]
    <3>1. CASE wayland' = [wayland EXCEPT !.socket = 0, !.requests = TRUE]
      <4>1. wayland' = [socket |-> 0, queue |-> wayland.queue, requests |-> TRUE]
        BY <3>1 DEF LoopType
      <4> QED BY <4>1 DEF LoopType
    <3> QED BY <2>1, <3>1 DEF LoopType
  <2>3. LoopType'
    BY <1>3, <2>2 DEF PollReturns, LoopType, Places
  <2> QED BY <1>3, <2>3 DEF PollReturns, BusIsWatched, SignalIsMet, WaylandIsPrepared
<1>4. CASE SignalArrives
  <2>1. at = "poll" /\ at' = "bus" /\ signal' = [signal EXCEPT !.pending = FALSE, !.requested = TRUE]
        /\ UNCHANGED <<wayland, bus>>
    BY <1>4 DEF SignalArrives, SignalsGetThrough
  <2>2. LoopType'
    BY <2>1 DEF LoopType, Places
  <2> QED BY <2>1, <2>2 DEF BusIsWatched, SignalIsMet, WaylandIsPrepared
<1>5. CASE ProcessBus
  <2>1. at = "bus" /\ at' = "bus" /\ bus.fd # NoFd /\ UNCHANGED <<wayland, signal>>
    BY <1>5 DEF ProcessBus
  <2>2. bus' \in [fd : {NoFd, 0, 1}, socket : Nat, ahead : Nat, timer : {"none", "armed", "expired"}]
        /\ bus'.fd # NoFd
    <3>1. CASE bus' = [bus EXCEPT !.timer = "none"]
      BY <2>1, <3>1 DEF LoopType
    <3>2. CASE bus.ahead > 0 /\ bus' = [bus EXCEPT !.ahead = @ - 1]
      BY <2>1, <3>2 DEF LoopType
    <3>3. ASSUME NEW n \in 1..bus.socket, NEW timer \in {bus.timer, "armed"}, NEW fd \in {bus.fd, 1 - bus.fd},
                 bus' = [bus EXCEPT !.socket = @ - n, !.ahead = n - 1,
                                    !.timer = IF bus.timer = "none" THEN timer ELSE @, !.fd = fd]
          PROVE  bus' \in [fd : {NoFd, 0, 1}, socket : Nat, ahead : Nat, timer : {"none", "armed", "expired"}]
                 /\ bus'.fd # NoFd
      <4>1. fd \in {0, 1}
        BY <2>1 DEF LoopType, NoFd
      <4>2. bus.socket \in Nat /\ n \in Nat /\ bus.socket - n \in Nat /\ n - 1 \in Nat
        BY DEF LoopType
      <4>3. (IF bus.timer = "none" THEN timer ELSE bus.timer) \in {"none", "armed", "expired"}
        BY DEF LoopType
      <4>4. bus' = [fd |-> fd, socket |-> bus.socket - n, ahead |-> n - 1,
                    timer |-> IF bus.timer = "none" THEN timer ELSE bus.timer]
        BY <3>3 DEF LoopType
      <4> QED BY <4>1, <4>2, <4>3, <4>4 DEF NoFd
    <3> QED BY <1>5, <3>1, <3>2, <3>3 DEF ProcessBus
  <2>3. LoopType'
    BY <2>1, <2>2 DEF LoopType
  <2> QED BY <2>1, <2>3 DEF BusIsWatched, SignalIsMet, WaylandIsPrepared
<1>6. CASE UpdateBus
  <2>1. LoopType'
    BY <1>6 DEF UpdateBus, LoopType, Places
  <2>2. epoll' = bus.fd /\ (bus.ahead > 0 => portal_ms' = "now")
    BY <1>6 DEF UpdateBus, WatchedFd, PortalTimeout, BusTimeout, LoopType
  <2> QED BY <1>6, <2>1, <2>2 DEF UpdateBus, BusIsWatched, SignalIsMet, WaylandIsPrepared
<1>7. CASE GrabFocus
  <2>1. LoopType'
    BY <1>7 DEF GrabFocus, LoopType, Places
  <2>2. SignalIsMet'
    BY <1>7 DEF GrabFocus, SignalIsMet, LoopType
  <2> QED BY <1>7, <2>1, <2>2 DEF GrabFocus, BusIsWatched, WaylandIsPrepared
<1>8. CASE UpdateUi
  <2>1. wayland' \in [socket : Nat, queue : Nat, requests : BOOLEAN]
    BY <1>8 DEF UpdateUi, LoopType
  <2>2. at' \in {"prepare", "done"} /\ UNCHANGED <<bus, epoll, portal_ms, signal>>
    BY <1>8 DEF UpdateUi
  <2>3. LoopType'
    BY <2>1, <2>2 DEF LoopType, Places
  <2> QED BY <1>8, <2>2, <2>3 DEF UpdateUi, BusIsWatched, SignalIsMet, WaylandIsPrepared
<1> QED BY <1>1, <1>2, <1>3, <1>4, <1>5, <1>6, <1>7, <1>8 DEF Step

\* What comes from outside, and the loss of the bus.
LEMMA OutsideKeepsInv ==
  ASSUME LoopInv, BusFails \/ Arrives \/ Done
  PROVE  LoopInv'
<1> USE DEF LoopInv
<1>1. CASE BusFails
  <2>1. LoopType'
    BY <1>1 DEF BusFails, LoopType, Places, Closed
  <2> QED BY <1>1, <2>1 DEF BusFails, BusIsWatched, SignalIsMet, WaylandIsPrepared, Closed, LoopType
<1>2. CASE Arrives
  <2>1. UNCHANGED <<at, epoll, portal_ms>> /\ wayland'.queue = wayland.queue
        /\ wayland'.requests = wayland.requests /\ bus'.fd = bus.fd /\ bus'.ahead = bus.ahead
        /\ signal'.requested = signal.requested
    BY <1>2 DEF Arrives, LoopType
  <2>2. wayland' = wayland \/ wayland' = [wayland EXCEPT !.socket = @ + 1]
    BY <1>2 DEF Arrives
  <2>3. wayland' \in [socket : Nat, queue : Nat, requests : BOOLEAN]
    BY <2>2 DEF LoopType
  <2>4. \/ bus' = bus \/ bus' = [bus EXCEPT !.socket = @ + 1] \/ bus' = [bus EXCEPT !.timer = "expired"]
    BY <1>2 DEF Arrives
  <2>5. bus' \in [fd : {NoFd, 0, 1}, socket : Nat, ahead : Nat, timer : {"none", "armed", "expired"}]
    BY <2>4 DEF LoopType
  <2>6. signal' = signal \/ signal' = [signal EXCEPT !.pending = TRUE, !.sent = @ + 1]
    BY <1>2 DEF Arrives
  <2>7. signal' \in [pending : BOOLEAN, requested : BOOLEAN, sent : Nat]
    <3>1. signal.sent + 1 \in Nat /\ signal.requested \in BOOLEAN
      BY DEF LoopType
    <3>2. CASE signal' = [signal EXCEPT !.pending = TRUE, !.sent = @ + 1]
      <4>1. signal' = [pending |-> TRUE, requested |-> signal.requested, sent |-> signal.sent + 1]
        BY <3>2 DEF LoopType
      <4> QED BY <3>1, <4>1
    <3> QED BY <2>6, <3>2 DEF LoopType
  <2>8. LoopType'
    BY <2>1, <2>3, <2>5, <2>7 DEF LoopType
  <2> QED BY <2>1, <2>8 DEF BusIsWatched, SignalIsMet, WaylandIsPrepared
<1>3. CASE Done
  BY <1>3 DEF Done, vars, LoopType, BusIsWatched, SignalIsMet, WaylandIsPrepared
<1> QED BY <1>1, <1>2, <1>3

-----------------------------------------------------------------------------
(* The loop does not sleep on work                                         *)

\* The loop sleeps only when nothing that is there already waits for it.
THEOREM LoopSleepsWithNothingToDo == Spec => []SleepsWithNothingToDo
<1>1. LoopInv /\ [Next]_vars => LoopInv'
  <2> SUFFICES ASSUME LoopInv, [Next]_vars PROVE LoopInv'
    OBVIOUS
  <2>1. CASE Step
    BY <2>1, StepKeepsInv
  <2>2. CASE BusFails \/ Arrives \/ Done
    BY <2>2, OutsideKeepsInv
  <2>3. CASE UNCHANGED vars
    BY <2>3 DEF vars, LoopInv, LoopType, BusIsWatched, SignalIsMet, WaylandIsPrepared
  <2> QED BY <2>1, <2>2, <2>3 DEF Next
<1>2. LoopInv => SleepsWithNothingToDo
  BY DEF LoopInv, BusIsWatched, SignalIsMet, WaylandIsPrepared, SleepsWithNothingToDo
<1> QED BY <1>1, <1>2, InitLoopInv, PTL DEF Spec

-----------------------------------------------------------------------------
(* The inductive invariant of the clipboard                                *)

MimeSets == SUBSET Clipboard!Mimes
SourceType == [offers : MimeSets, alive : BOOLEAN]
ClipboardEvents == [kind : {"cancelled", "send"}, source : Nat, mime : Clipboard!Mimes]

\* No element is there twice.
Distinct(s) == \A i, j \in DOMAIN s : s[i] = s[j] => i = j

\* No source is cancelled twice.
CancelsOnce(es) == \A i, j \in DOMAIN es : es[i].kind = "cancelled" /\ es[i] = es[j] => i = j

ClipboardType ==
  /\ sources \in Seq(SourceType)
  /\ requests \in Seq(DOMAIN sources)
  /\ selection \in {Clipboard!Foreign} \cup DOMAIN sources
  /\ events \in Seq(ClipboardEvents)
  /\ process \in {"running", "keepalive", "ended"}
  /\ dc \in [data : Nat, path : Nat, offer_data : BOOLEAN, offer_path : BOOLEAN, refcount : Int]

\* A source is asked for, or the selection, or told that it is not any more: once, and one after the other.
PlacesInv ==
  /\ Distinct(requests) /\ CancelsOnce(events)
  /\ selection \notin Clipboard!ToSet(requests)
  /\ \A s \in DOMAIN sources : s = selection \/ s \in Clipboard!ToSet(requests) => ~Clipboard!Cancelled(s)
  /\ \A e \in Clipboard!ToSet(events) : e.kind = "cancelled" => e = Clipboard!Cancel(e.source)

AliveSources == {s \in DOMAIN sources : sources[s].alive}

CountInv ==
  /\ dc.refcount = Cardinality(AliveSources)
  /\ \A s \in DOMAIN sources :
       sources[s].alive <=> s = selection \/ s \in Clipboard!ToSet(requests) \/ Clipboard!Cancelled(s)
  /\ \A e \in Clipboard!ToSet(events) : e.source \in DOMAIN sources

\* What may be asked for was offered, and the newest source offers what is kept of the newest capture.
OffersInv ==
  /\ \A e \in Clipboard!ToSet(events) : e.kind = "send" => e.mime \in sources[e.source].offers
  /\ sources # <<>> =>
       sources[Len(sources)].offers \subseteq Clipboard!Offered(dc.offer_data, dc.offer_path)
  /\ process # "ended" => /\ dc.offer_data => dc.data = Len(sources)
                          /\ dc.offer_path => dc.path = Len(sources)

\* Where scran has ended by itself nothing of it is left with the compositor.
EndedInv == ~NoKeepalive /\ process = "ended" => selection = Clipboard!Foreign /\ requests = <<>>

ClipboardInv == ClipboardType /\ PlacesInv /\ CountInv /\ OffersInv /\ EndedInv

-----------------------------------------------------------------------------
(* Sequences                                                               *)

LEMMA AppendedElements ==
  ASSUME NEW S, NEW s \in Seq(S), NEW e \in S
  PROVE  /\ Append(s, e) \in Seq(S) /\ Len(Append(s, e)) = Len(s) + 1
         /\ DOMAIN Append(s, e) = DOMAIN s \cup {Len(s) + 1}
         /\ Len(s) + 1 \notin DOMAIN s
         /\ Append(s, e)[Len(s) + 1] = e
         /\ \A i \in DOMAIN s : Append(s, e)[i] = s[i]
         /\ Clipboard!ToSet(Append(s, e)) = Clipboard!ToSet(s) \cup {e}
<1> DEFINE t == Append(s, e)
<1>1. /\ t \in Seq(S) /\ Len(t) = Len(s) + 1 /\ Len(s) \in Nat
      /\ DOMAIN t = 1..(Len(s) + 1) /\ DOMAIN s = 1..Len(s)
      /\ t[Len(s) + 1] = e
      /\ \A i \in DOMAIN s : t[i] = s[i]
  OBVIOUS
<1> HIDE DEF t
<1>2. DOMAIN t = DOMAIN s \cup {Len(s) + 1} /\ Len(s) + 1 \notin DOMAIN s
  BY <1>1
<1>3. Clipboard!ToSet(t) = Clipboard!ToSet(s) \cup {e}
  BY <1>1, <1>2 DEF Clipboard!ToSet
<1> QED BY <1>1, <1>2, <1>3 DEF t

LEMMA TailElements ==
  ASSUME NEW S, NEW s \in Seq(S), s # <<>>
  PROVE  /\ Tail(s) \in Seq(S) /\ Head(s) \in S
         /\ Head(s) = s[1] /\ 1 \in DOMAIN s
         /\ \A i \in DOMAIN Tail(s) : i + 1 \in DOMAIN s /\ Tail(s)[i] = s[i + 1] /\ i + 1 # 1
         /\ Clipboard!ToSet(s) = {Head(s)} \cup Clipboard!ToSet(Tail(s))
<1> DEFINE t == Tail(s)
<1>1. /\ t \in Seq(S) /\ Len(s) \in Nat \ {0} /\ Len(t) = Len(s) - 1
      /\ DOMAIN t = 1..(Len(s) - 1) /\ DOMAIN s = 1..Len(s)
      /\ Head(s) = s[1]
      /\ \A i \in 1..(Len(s) - 1) : t[i] = s[i + 1]
  OBVIOUS
<1> HIDE DEF t
<1>2. 1 \in DOMAIN s /\ Head(s) \in S
  BY <1>1
<1>3. \A i \in DOMAIN t : i + 1 \in DOMAIN s /\ t[i] = s[i + 1] /\ i + 1 # 1
  BY <1>1
<1>4. ASSUME NEW j \in DOMAIN s, j # 1
      PROVE  s[j] \in Clipboard!ToSet(t)
  <2>1. j - 1 \in DOMAIN t /\ t[j - 1] = s[j]
    BY <1>1, <1>4
  <2> QED BY <2>1 DEF Clipboard!ToSet
<1>5. Clipboard!ToSet(s) = {Head(s)} \cup Clipboard!ToSet(t)
  <2>1. Clipboard!ToSet(t) \subseteq Clipboard!ToSet(s)
    BY <1>3 DEF Clipboard!ToSet
  <2>2. Head(s) \in Clipboard!ToSet(s)
    BY <1>1, <1>2 DEF Clipboard!ToSet
  <2>3. Clipboard!ToSet(s) \subseteq {Head(s)} \cup Clipboard!ToSet(t)
    BY <1>1, <1>4 DEF Clipboard!ToSet
  <2> QED BY <2>1, <2>2, <2>3
<1> QED BY <1>1, <1>2, <1>3, <1>5 DEF t

\* What was distinct is so without its first element, which is not there any more.
LEMMA DistinctTail ==
  ASSUME NEW S, NEW s \in Seq(S), s # <<>>, Distinct(s)
  PROVE  Distinct(Tail(s)) /\ Head(s) \notin Clipboard!ToSet(Tail(s))
<1> DEFINE t == Tail(s)
<1>1. /\ Head(s) = s[1] /\ 1 \in DOMAIN s
      /\ \A i \in DOMAIN t : i + 1 \in DOMAIN s /\ t[i] = s[i + 1] /\ i + 1 # 1
  BY TailElements
<1>2. \A i \in DOMAIN t : i \in Nat
  OBVIOUS
<1> HIDE DEF t
<1>3. Distinct(t)
  BY <1>1, <1>2 DEF Distinct
<1>4. Head(s) \notin Clipboard!ToSet(t)
  BY <1>1 DEF Distinct, Clipboard!ToSet
<1> QED BY <1>3, <1>4 DEF t

LEMMA DistinctAppend ==
  ASSUME NEW S, NEW s \in Seq(S), NEW e \in S, Distinct(s), e \notin Clipboard!ToSet(s)
  PROVE  Distinct(Append(s, e))
<1>1. /\ DOMAIN Append(s, e) = DOMAIN s \cup {Len(s) + 1}
      /\ Append(s, e)[Len(s) + 1] = e
      /\ \A i \in DOMAIN s : Append(s, e)[i] = s[i]
  BY AppendedElements
<1>2. \A i \in DOMAIN s : s[i] # e
  BY DEF Clipboard!ToSet
<1> QED BY <1>1, <1>2 DEF Distinct

LEMMA CancelsTail ==
  ASSUME NEW es \in Seq(ClipboardEvents), es # <<>>, CancelsOnce(es)
  PROVE  /\ CancelsOnce(Tail(es))
         /\ Head(es).kind = "cancelled" => Head(es) \notin Clipboard!ToSet(Tail(es))
<1> DEFINE t == Tail(es)
<1>1. /\ Head(es) = es[1] /\ 1 \in DOMAIN es
      /\ \A i \in DOMAIN t : i + 1 \in DOMAIN es /\ t[i] = es[i + 1] /\ i + 1 # 1
  BY TailElements
<1>2. \A i \in DOMAIN t : i \in Nat
  OBVIOUS
<1> HIDE DEF t
<1>3. CancelsOnce(t)
  BY <1>1, <1>2 DEF CancelsOnce
<1>4. Head(es).kind = "cancelled" => Head(es) \notin Clipboard!ToSet(t)
  BY <1>1 DEF CancelsOnce, Clipboard!ToSet
<1> QED BY <1>3, <1>4 DEF t

LEMMA CancelsAppend ==
  ASSUME NEW es \in Seq(ClipboardEvents), NEW e \in ClipboardEvents, CancelsOnce(es),
         e.kind = "cancelled" => e \notin Clipboard!ToSet(es)
  PROVE  CancelsOnce(Append(es, e))
<1>1. /\ DOMAIN Append(es, e) = DOMAIN es \cup {Len(es) + 1}
      /\ Append(es, e)[Len(es) + 1] = e
      /\ \A i \in DOMAIN es : Append(es, e)[i] = es[i]
  BY AppendedElements
<1>2. e.kind = "cancelled" => \A i \in DOMAIN es : es[i] # e
  BY DEF Clipboard!ToSet
<1> QED BY <1>1, <1>2 DEF CancelsOnce

-----------------------------------------------------------------------------
(* The steps of scran                                                      *)

LEMMA LargerSeq ==
  ASSUME NEW S, NEW T, S \subseteq T, NEW s \in Seq(S)
  PROVE  s \in Seq(T)
  OBVIOUS

LEMMA RequestedSources ==
  ASSUME ClipboardType
  PROVE  /\ \A s \in Clipboard!ToSet(requests) : s \in DOMAIN sources
         /\ Len(sources) \in Nat /\ DOMAIN sources = 1..Len(sources)
         /\ Clipboard!Foreign \notin DOMAIN sources
  BY DEF ClipboardType, Clipboard!ToSet, Clipboard!Foreign

\* The kinds of event are told apart by what they are.
LEMMA CancelIsItself ==
  ASSUME NEW s, NEW t, NEW mime
  PROVE  /\ Clipboard!Cancel(s).kind = "cancelled" /\ Clipboard!Cancel(s).source = s
         /\ Clipboard!Cancel(s) = Clipboard!Cancel(t) => s = t
         /\ Clipboard!Send(s, mime).kind = "send" /\ Clipboard!Send(s, mime).source = s
         /\ Clipboard!Send(s, mime).mime = mime
         /\ Clipboard!Send(s, mime) # Clipboard!Cancel(t)
  BY DEF Clipboard!Cancel, Clipboard!Send

\* A source that is new, and asked for if it is alive, is nowhere else.
LEMMA NewSource ==
  ASSUME ClipboardInv, process = "running", UNCHANGED <<selection, events, process>>,
         NEW src \in SourceType, sources' = Append(sources, src),
         dc' \in [data : Nat, path : Nat, offer_data : BOOLEAN, offer_path : BOOLEAN, refcount : Int],
         IF src.alive THEN requests' = Append(requests, Len(sources) + 1) /\ dc'.refcount = dc.refcount + 1
         ELSE requests' = requests /\ dc'.refcount = dc.refcount,
         src.offers \subseteq Clipboard!Offered(dc'.offer_data, dc'.offer_path),
         dc'.offer_data => dc'.data = Len(sources) + 1,
         dc'.offer_path => dc'.path = Len(sources) + 1
  PROVE  ClipboardInv'
<1> DEFINE n == Len(sources) + 1
<1>1. /\ ClipboardType /\ PlacesInv /\ CountInv /\ OffersInv
      /\ sources \in Seq(SourceType) /\ requests \in Seq(DOMAIN sources)
  BY DEF ClipboardInv, ClipboardType
<1>2. /\ sources' \in Seq(SourceType) /\ Len(sources') = n
      /\ DOMAIN sources' = DOMAIN sources \cup {n} /\ n \notin DOMAIN sources
      /\ sources'[n] = src /\ \A i \in DOMAIN sources : sources'[i] = sources[i]
  BY <1>1, AppendedElements
<1>3. /\ \A s \in Clipboard!ToSet(requests) : s \in DOMAIN sources
      /\ n # Clipboard!Foreign /\ n \in Nat
      /\ selection # n
  <2>1. n # Clipboard!Foreign /\ n \in Nat
    BY <1>1, RequestedSources DEF Clipboard!Foreign
  <2> HIDE DEF n
  <2> QED BY <1>1, <1>2, <2>1, RequestedSources DEF ClipboardType
<1>4. ~Clipboard!Cancelled(n)
  <2>1. \A e \in Clipboard!ToSet(events) : e.source # n
    BY <1>1, <1>2 DEF CountInv
  <2> QED BY <2>1, CancelIsItself DEF Clipboard!Cancelled
<1> HIDE DEF n
<1>5. /\ requests' \in Seq(DOMAIN sources') /\ Distinct(requests')
      /\ \A s : s \in Clipboard!ToSet(requests') <=> s \in Clipboard!ToSet(requests) \/ (src.alive /\ s = n)
  <2>1. requests \in Seq(DOMAIN sources')
    BY <1>1, <1>2, LargerSeq
  <2>2. CASE src.alive
    <3>1. requests' = Append(requests, n) /\ n \in DOMAIN sources'
      BY <1>2, <2>2 DEF n
    <3>2. n \notin Clipboard!ToSet(requests)
      BY <1>2, <1>3
    <3>3. Distinct(requests')
      BY <1>1, <2>1, <3>1, <3>2, DistinctAppend DEF PlacesInv
    <3>4. requests' \in Seq(DOMAIN sources') /\ Clipboard!ToSet(requests') = Clipboard!ToSet(requests) \cup {n}
      BY <2>1, <3>1, AppendedElements
    <3> QED BY <2>2, <3>3, <3>4
  <2>3. CASE ~src.alive
    BY <1>1, <2>1, <2>3 DEF PlacesInv
  <2> QED BY <2>2, <2>3
<1>6. ClipboardType'
  BY <1>1, <1>2, <1>5 DEF ClipboardType
<1>7. \A s : Clipboard!Cancelled(s)' <=> Clipboard!Cancelled(s)
  BY DEF Clipboard!Cancelled
<1>8. PlacesInv'
  <2>1. selection' \notin Clipboard!ToSet(requests')
    BY <1>1, <1>3, <1>5 DEF PlacesInv
  <2>2. ASSUME NEW s \in DOMAIN sources', s = selection' \/ s \in Clipboard!ToSet(requests')
        PROVE  ~Clipboard!Cancelled(s)'
    <3>1. CASE s = n
      BY <1>4, <1>7, <3>1
    <3>2. CASE s # n
      BY <1>1, <1>2, <1>5, <1>7, <2>2, <3>2 DEF PlacesInv
    <3> QED BY <3>1, <3>2
  <2> QED BY <1>1, <1>5, <2>1, <2>2 DEF PlacesInv
<1>9. CountInv'
  <2>1. ASSUME NEW s \in DOMAIN sources'
        PROVE  sources'[s].alive <=> \/ s = selection' \/ s \in Clipboard!ToSet(requests')
                                     \/ Clipboard!Cancelled(s)'
    <3>1. CASE s = n
      BY <1>2, <1>3, <1>4, <1>5, <1>7, <3>1
    <3>2. CASE s # n
      BY <1>1, <1>2, <1>5, <1>7, <3>2 DEF CountInv
    <3> QED BY <3>1, <3>2
  <2>2. IsFiniteSet(AliveSources) /\ n \notin AliveSources
    <3>1. IsFiniteSet(DOMAIN sources)
      BY <1>1, RequestedSources, FS_Interval
    <3>2. AliveSources \in SUBSET DOMAIN sources
      BY DEF AliveSources
    <3>3. IsFiniteSet(AliveSources)
      BY <3>1, <3>2, FS_Subset
    <3> QED BY <1>2, <3>2, <3>3
  <2>3. AliveSources' = AliveSources \cup (IF src.alive THEN {n} ELSE {})
    BY <1>2 DEF AliveSources
  <2>4. dc'.refcount = Cardinality(AliveSources')
    <3>1. CASE src.alive
      <4>1. AliveSources' = AliveSources \cup {n}
        BY <2>3, <3>1
      <4>2. Cardinality(AliveSources') = Cardinality(AliveSources) + 1
        BY <2>2, <4>1, FS_AddElement
      <4> QED BY <1>1, <3>1, <4>2 DEF CountInv
    <3>2. CASE ~src.alive
      <4>1. AliveSources' = AliveSources
        BY <2>3, <3>2
      <4> QED BY <1>1, <3>2, <4>1 DEF CountInv
    <3> QED BY <3>1, <3>2
  <2>5. \A e \in Clipboard!ToSet(events') : e.source \in DOMAIN sources'
    BY <1>1, <1>2 DEF CountInv
  <2> QED BY <2>1, <2>4, <2>5 DEF CountInv
<1>10. OffersInv'
  <2>1. \A e \in Clipboard!ToSet(events') : e.kind = "send" => e.mime \in sources'[e.source].offers
    BY <1>1, <1>2 DEF OffersInv, CountInv
  <2>2. sources'[Len(sources')].offers \subseteq Clipboard!Offered(dc'.offer_data, dc'.offer_path)
    BY <1>2
  <2> QED BY <1>2, <2>1, <2>2 DEF OffersInv, n
<1>11. EndedInv'
  BY DEF EndedInv
<1> QED BY <1>6, <1>8, <1>9, <1>10, <1>11 DEF ClipboardInv

LEMMA UpdateKeepsInv ==
  ASSUME ClipboardInv, NEW has_data \in BOOLEAN, NEW has_path \in BOOLEAN, Clipboard!Update(has_data, has_path)
  PROVE  ClipboardInv'
<1> DEFINE src == [offers |-> Clipboard!Offered(has_data, has_path), alive |-> TRUE]
           n == Len(sources) + 1
           reset == Clipboard!Reset(dc)
           data == Clipboard!WithData(reset, has_data)
           path == Clipboard!WithPath(data, has_path)
           type == [data : Nat, path : Nat, offer_data : BOOLEAN, offer_path : BOOLEAN, refcount : Int]
<1>1. dc \in type /\ n \in Nat
  BY RequestedSources DEF ClipboardInv, ClipboardType
<1>2. reset \in type /\ ~reset.offer_data /\ ~reset.offer_path /\ reset.refcount = dc.refcount
  BY <1>1 DEF Clipboard!Reset, Clipboard!Nothing
<1> HIDE DEF reset
<1>3. /\ data \in type /\ ~data.offer_path /\ data.refcount = dc.refcount
      /\ data.offer_data <=> has_data
      /\ data.offer_data => data.data = n
  BY <1>1, <1>2 DEF Clipboard!WithData, Clipboard!Capture
<1> HIDE DEF data
<1>4. /\ path \in type /\ path.refcount = dc.refcount
      /\ path.offer_data <=> has_data
      /\ path.offer_data => path.data = n
      /\ path.offer_path <=> has_path
      /\ path.offer_path => path.path = n
  BY <1>1, <1>3 DEF Clipboard!WithPath, Clipboard!Capture
<1> HIDE DEF path
<1>5. /\ dc' = Clipboard!Counted(path)
      /\ sources' = Append(sources, src) /\ requests' = Append(requests, n)
      /\ UNCHANGED <<selection, events, process>> /\ process = "running"
  BY DEF Clipboard!Update, Clipboard!Capture, path, data, reset
<1>6. /\ dc' \in type /\ dc'.refcount = dc.refcount + 1
      /\ (dc'.offer_data <=> has_data) /\ (dc'.offer_path <=> has_path)
      /\ dc'.offer_data => dc'.data = n
      /\ dc'.offer_path => dc'.path = n
  <2>1. path.refcount + 1 \in Int /\ dc' = [path EXCEPT !.refcount = path.refcount + 1]
    BY <1>1, <1>4, <1>5 DEF Clipboard!Counted
  <2> HIDE DEF n
  <2> QED BY <1>4, <2>1
<1>7. src \in SourceType /\ src.alive = TRUE
      /\ src.offers \subseteq Clipboard!Offered(dc'.offer_data, dc'.offer_path)
  BY <1>6 DEF SourceType, MimeSets, Clipboard!Offered, Clipboard!Mimes
<1> HIDE DEF src
<1> QED BY <1>5, <1>6, <1>7, NewSource

LEMMA FailedUpdateKeepsInv ==
  ASSUME ClipboardInv, NEW has_data \in BOOLEAN, NEW where \in {"data", "mime", "path"},
         Clipboard!UpdateFails(has_data, where)
  PROVE  ClipboardInv'
<1> DEFINE src == [offers |-> {}, alive |-> FALSE]
           n == Len(sources) + 1
           reset == Clipboard!Reset(dc)
           type == [data : Nat, path : Nat, offer_data : BOOLEAN, offer_path : BOOLEAN, refcount : Int]
<1>1. dc \in type /\ n \in Nat
  BY RequestedSources DEF ClipboardInv, ClipboardType
<1>2. reset \in type /\ ~reset.offer_data /\ ~reset.offer_path /\ reset.refcount = dc.refcount
  BY <1>1 DEF Clipboard!Reset, Clipboard!Nothing
<1>3. \/ dc' = reset
      \/ dc' = [reset EXCEPT !.data = n]
      \/ dc' = Clipboard!WithData(reset, has_data)
  BY DEF Clipboard!UpdateFails, Clipboard!Capture
<1> HIDE DEF reset
<1>4. /\ dc' \in type /\ dc'.refcount = dc.refcount
      /\ dc'.offer_data => dc'.data = n
      /\ ~dc'.offer_path
  <2>1. CASE dc' = reset
    BY <1>2, <2>1
  <2>2. CASE dc' = [reset EXCEPT !.data = n]
    BY <1>1, <1>2, <2>2
  <2>3. CASE dc' = Clipboard!WithData(reset, has_data)
    BY <1>1, <1>2, <2>3 DEF Clipboard!WithData, Clipboard!Capture
  <2> QED BY <1>3, <2>1, <2>2, <2>3
<1>5. /\ sources' = Append(sources, src) /\ requests' = requests
      /\ UNCHANGED <<selection, events, process>> /\ process = "running"
  BY DEF Clipboard!UpdateFails
<1>6. /\ src \in SourceType /\ src.alive = FALSE
      /\ src.offers \subseteq Clipboard!Offered(dc'.offer_data, dc'.offer_path)
  BY DEF SourceType, MimeSets
<1> HIDE DEF src
<1> QED BY <1>4, <1>5, <1>6, NewSource

\* What no step of an action disturbs.
LEMMA ClipboardUntouched ==
  ASSUME ClipboardInv, UNCHANGED <<dc, sources, requests, selection, events, process>>
  PROVE  ClipboardInv'
  BY DEF ClipboardInv, ClipboardType, PlacesInv, CountInv, AliveSources, OffersInv, EndedInv, Clipboard!Cancelled

LEMMA ReplacedElement ==
  ASSUME NEW S, NEW s \in Seq(S), NEW i \in DOMAIN s, NEW e \in S
  PROVE  /\ [s EXCEPT ![i] = e] \in Seq(S)
         /\ DOMAIN [s EXCEPT ![i] = e] = DOMAIN s
         /\ Len([s EXCEPT ![i] = e]) = Len(s)
<1> DEFINE t == [s EXCEPT ![i] = e]
<1>1. Len(s) \in Nat /\ DOMAIN s = 1..Len(s) /\ s \in [1..Len(s) -> S]
  OBVIOUS
<1>2. t \in [1..Len(s) -> S]
  BY <1>1
<1> HIDE DEF t
<1>3. t \in Seq(S) /\ DOMAIN t = DOMAIN s /\ Len(t) = Len(s)
  BY <1>1, <1>2
<1> QED BY <1>3 DEF t

LEMMA SendKeepsInv ==
  ASSUME ClipboardInv, Clipboard!HandleSend
  PROVE  ClipboardInv'
<1>1. /\ ClipboardType /\ PlacesInv /\ CountInv /\ OffersInv
      /\ events \in Seq(ClipboardEvents) /\ events # <<>>
      /\ Head(events).kind = "send" /\ events' = Tail(events)
      /\ UNCHANGED <<dc, sources, requests, selection, process>>
  BY DEF ClipboardInv, ClipboardType, Clipboard!HandleSend, Clipboard!Dispatches
<1>2. /\ events' \in Seq(ClipboardEvents)
      /\ Clipboard!ToSet(events) = {Head(events)} \cup Clipboard!ToSet(events')
  BY <1>1, TailElements
<1>3. \A s : Clipboard!Cancelled(s)' <=> Clipboard!Cancelled(s)
  BY <1>1, <1>2, CancelIsItself DEF Clipboard!Cancelled
<1>4. CancelsOnce(events')
  BY <1>1, CancelsTail DEF PlacesInv
<1>5. ClipboardType'
  BY <1>1, <1>2 DEF ClipboardType
<1>6. PlacesInv'
  BY <1>1, <1>2, <1>3, <1>4 DEF PlacesInv
<1>7. CountInv' /\ OffersInv'
  BY <1>1, <1>2, <1>3 DEF CountInv, OffersInv, AliveSources
<1>8. EndedInv'
  BY <1>1 DEF EndedInv, ClipboardInv
<1> QED BY <1>5, <1>6, <1>7, <1>8 DEF ClipboardInv

\* The source that is told is counted no more: it is nowhere else.
LEMMA CancelledKeepsInv ==
  ASSUME ClipboardInv, Clipboard!HandleCancelled
  PROVE  ClipboardInv'
<1> DEFINE head == Head(events)
           told == head.source
<1>1. /\ ClipboardType /\ PlacesInv /\ CountInv /\ OffersInv
      /\ events \in Seq(ClipboardEvents) /\ events # <<>> /\ sources \in Seq(SourceType)
      /\ head.kind = "cancelled" /\ events' = Tail(events)
      /\ sources' = [sources EXCEPT ![told].alive = FALSE]
      /\ dc' = [dc EXCEPT !.refcount = @ - 1]
      /\ UNCHANGED <<requests, selection, process>>
      /\ process # "ended"
  BY DEF ClipboardInv, ClipboardType, Clipboard!HandleCancelled, Clipboard!Dispatches
<1>2. /\ events' \in Seq(ClipboardEvents)
      /\ Clipboard!ToSet(events) = {head} \cup Clipboard!ToSet(events')
      /\ head \notin Clipboard!ToSet(events')
      /\ CancelsOnce(events')
  BY <1>1, TailElements, CancelsTail DEF PlacesInv
<1> HIDE DEF head
<1>3. head = Clipboard!Cancel(told) /\ told \in DOMAIN sources
  BY <1>1, <1>2 DEF PlacesInv, CountInv
<1>4. \A s : Clipboard!Cancelled(s)' <=> Clipboard!Cancelled(s) /\ s # told
  BY <1>2, <1>3, CancelIsItself DEF Clipboard!Cancelled
<1>5. Clipboard!Cancelled(told)
  BY <1>2, <1>3 DEF Clipboard!Cancelled
<1> HIDE DEF told
<1>6. sources[told].alive /\ told # selection /\ told \notin Clipboard!ToSet(requests)
  BY <1>1, <1>3, <1>5 DEF CountInv, PlacesInv
<1>7. /\ sources' \in Seq(SourceType) /\ DOMAIN sources' = DOMAIN sources
      /\ Len(sources') = Len(sources)
      /\ \A s \in DOMAIN sources : /\ sources'[s].offers = sources[s].offers
                                   /\ sources'[s].alive <=> sources[s].alive /\ s # told
  <2> DEFINE other == [sources[told] EXCEPT !.alive = FALSE]
  <2>1. sources[told] \in SourceType
    BY <1>1, <1>3
  <2>2. other \in SourceType /\ other.offers = sources[told].offers /\ other.alive = FALSE
    BY <2>1 DEF SourceType
  <2>3. sources' = [sources EXCEPT ![told] = other]
    BY <1>1
  <2> HIDE DEF other
  <2>4. sources' \in Seq(SourceType) /\ DOMAIN sources' = DOMAIN sources /\ Len(sources') = Len(sources)
    <3> DEFINE next == [sources EXCEPT ![told] = other]
    <3>1. sources \in Seq(SourceType) /\ told \in DOMAIN sources /\ other \in SourceType
      BY <1>1, <1>3, <2>2
    <3>2. next \in Seq(SourceType) /\ DOMAIN next = DOMAIN sources /\ Len(next) = Len(sources)
      BY <3>1, ReplacedElement
    <3>3. sources' = next
      BY <2>3
    <3> HIDE DEF next
    <3> QED BY <3>2, <3>3
  <2>5. \A s \in DOMAIN sources : sources'[s] = IF s = told THEN other ELSE sources[s]
    BY <1>1, <2>3
  <2> QED BY <2>2, <2>4, <2>5
<1>8. ClipboardType'
  <2>1. dc' \in [data : Nat, path : Nat, offer_data : BOOLEAN, offer_path : BOOLEAN, refcount : Int]
    <3>1. dc.refcount - 1 \in Int /\ dc' = [dc EXCEPT !.refcount = dc.refcount - 1]
      BY <1>1 DEF ClipboardType
    <3> QED BY <1>1, <3>1 DEF ClipboardType
  <2> QED BY <1>1, <1>2, <1>7, <2>1 DEF ClipboardType
<1>9. PlacesInv'
  BY <1>1, <1>2, <1>4, <1>7 DEF PlacesInv
<1>10. CountInv'
  <2>1. \A s \in DOMAIN sources' :
          sources'[s].alive <=> \/ s = selection' \/ s \in Clipboard!ToSet(requests')
                                \/ Clipboard!Cancelled(s)'
    BY <1>1, <1>4, <1>6, <1>7 DEF CountInv
  <2>2. IsFiniteSet(AliveSources) /\ told \in AliveSources
    <3>1. IsFiniteSet(DOMAIN sources)
      <4>1. DOMAIN sources = 1..Len(sources) /\ Len(sources) \in Int /\ 1 \in Int
        BY <1>1, RequestedSources
      <4> QED BY <4>1, FS_Interval
    <3>2. AliveSources \in SUBSET DOMAIN sources
      BY DEF AliveSources
    <3>3. IsFiniteSet(AliveSources)
      BY <3>1, <3>2, FS_Subset
    <3> QED BY <1>3, <1>6, <3>3 DEF AliveSources
  <2>3. AliveSources' = AliveSources \ {told}
    BY <1>7 DEF AliveSources
  <2>4. Cardinality(AliveSources') = Cardinality(AliveSources) - 1
    BY <2>2, <2>3, FS_RemoveElement
  <2>5. dc'.refcount = dc.refcount - 1
    BY <1>1 DEF ClipboardType
  <2> QED BY <1>1, <1>2, <1>7, <2>1, <2>4, <2>5 DEF CountInv
<1>11. OffersInv'
  <2>1. /\ dc'.offer_data = dc.offer_data /\ dc'.offer_path = dc.offer_path
        /\ dc'.data = dc.data /\ dc'.path = dc.path
    BY <1>1 DEF ClipboardType
  <2>2. sources' # <<>> => sources # <<>> /\ Len(sources) \in DOMAIN sources
    BY <1>1, <1>7
  <2>3. \A e \in Clipboard!ToSet(events') : e.kind = "send" => e.mime \in sources'[e.source].offers
    BY <1>1, <1>2, <1>7 DEF OffersInv, CountInv
  <2> QED BY <1>1, <1>7, <2>1, <2>2, <2>3 DEF OffersInv
<1>12. EndedInv'
  BY <1>1 DEF EndedInv
<1> QED BY <1>8, <1>9, <1>10, <1>11, <1>12 DEF ClipboardInv

\* The selection goes to a source that was asked for, or elsewhere, and the one that had it is told.
LEMMA ReplacedKeepsInv ==
  ASSUME ClipboardInv, NEW new, Clipboard!Replaces(new),
         UNCHANGED <<dc, sources, process>>,
         \/ requests' = requests /\ new = Clipboard!Foreign /\ process # "ended"
         \/ requests # <<>> /\ new = Head(requests) /\ requests' = Tail(requests)
  PROVE  ClipboardInv'
<1>1. /\ ClipboardType /\ PlacesInv /\ CountInv /\ OffersInv
      /\ events \in Seq(ClipboardEvents) /\ requests \in Seq(DOMAIN sources)
      /\ selection' = new
      /\ events' = IF selection = Clipboard!Foreign THEN events
                   ELSE Append(events, Clipboard!Cancel(selection))
  BY DEF ClipboardInv, ClipboardType, Clipboard!Replaces
<1>2. Clipboard!Foreign \notin DOMAIN sources
  BY <1>1, RequestedSources
<1>3. /\ new \in {Clipboard!Foreign} \cup DOMAIN sources
      /\ requests' \in Seq(DOMAIN sources) /\ Distinct(requests')
      /\ new \notin Clipboard!ToSet(requests')
      /\ \A s \in DOMAIN sources :
           s \in Clipboard!ToSet(requests) <=> s = new \/ s \in Clipboard!ToSet(requests')
  <2>1. CASE requests' = requests /\ new = Clipboard!Foreign
    BY <1>1, <1>2, <2>1, RequestedSources DEF PlacesInv
  <2>2. CASE requests # <<>> /\ new = Head(requests) /\ requests' = Tail(requests)
    <3>1. Distinct(requests') /\ new \notin Clipboard!ToSet(requests')
      BY <1>1, <2>2, DistinctTail DEF PlacesInv
    <3>2. /\ requests' \in Seq(DOMAIN sources) /\ new \in DOMAIN sources
          /\ Clipboard!ToSet(requests) = {new} \cup Clipboard!ToSet(requests')
      BY <1>1, <2>2, TailElements
    <3> QED BY <3>1, <3>2
  <2> QED BY <2>1, <2>2
<1>4. /\ events' \in Seq(ClipboardEvents) /\ CancelsOnce(events')
      /\ \A s \in DOMAIN sources : Clipboard!Cancelled(s)' <=> Clipboard!Cancelled(s) \/ s = selection
      /\ \A e \in Clipboard!ToSet(events') :
           e \in Clipboard!ToSet(events) \/ (e = Clipboard!Cancel(selection) /\ selection \in DOMAIN sources)
  <2>1. CASE selection = Clipboard!Foreign
    BY <1>1, <1>2, <2>1 DEF PlacesInv, Clipboard!Cancelled
  <2>2. CASE selection # Clipboard!Foreign
    <3> DEFINE cancel == Clipboard!Cancel(selection)
    <3>1. selection \in DOMAIN sources /\ selection \in Nat
      BY <1>1, <2>2, RequestedSources DEF ClipboardType
    <3>2. cancel \in ClipboardEvents
      BY <3>1 DEF Clipboard!Cancel, ClipboardEvents, Clipboard!Mimes
    <3>3. cancel \notin Clipboard!ToSet(events)
      BY <1>1, <3>1 DEF PlacesInv, Clipboard!Cancelled
    <3>4. events' = Append(events, cancel)
      BY <1>1, <2>2
    <3>5. \A s : Clipboard!Cancel(s) = cancel <=> s = selection
      BY CancelIsItself
    <3> HIDE DEF cancel
    <3>6. /\ events' \in Seq(ClipboardEvents)
          /\ Clipboard!ToSet(events') = Clipboard!ToSet(events) \cup {cancel}
      BY <1>1, <3>2, <3>4, AppendedElements
    <3>7. CancelsOnce(events')
      BY <1>1, <3>2, <3>3, <3>4, CancelsAppend DEF PlacesInv
    <3>8. \A s : Clipboard!Cancelled(s)' <=> Clipboard!Cancelled(s) \/ s = selection
      BY <3>5, <3>6 DEF Clipboard!Cancelled
    <3> QED BY <3>1, <3>6, <3>7, <3>8 DEF cancel
  <2> QED BY <2>1, <2>2
<1>5. ClipboardType'
  BY <1>1, <1>3, <1>4 DEF ClipboardType
<1>6. PlacesInv'
  <2>1. ASSUME NEW s \in DOMAIN sources, s = new \/ s \in Clipboard!ToSet(requests')
        PROVE  ~Clipboard!Cancelled(s)'
    <3>1. s \in Clipboard!ToSet(requests)
      BY <1>3, <2>1
    <3>2. s # selection /\ ~Clipboard!Cancelled(s)
      BY <1>1, <3>1 DEF PlacesInv
    <3> QED BY <1>4, <3>2
  <2>2. \A e \in Clipboard!ToSet(events') : e.kind = "cancelled" => e = Clipboard!Cancel(e.source)
    <3>1. Clipboard!Cancel(selection).source = selection
      BY CancelIsItself
    <3> QED BY <1>1, <1>4, <3>1 DEF PlacesInv
  <2> QED BY <1>1, <1>3, <1>4, <2>1, <2>2 DEF PlacesInv
<1>7. CountInv'
  <2>1. \A s \in DOMAIN sources :
          sources[s].alive <=> s = new \/ s \in Clipboard!ToSet(requests') \/ Clipboard!Cancelled(s)'
    BY <1>1, <1>3, <1>4 DEF CountInv
  <2>2. \A e \in Clipboard!ToSet(events') : e.source \in DOMAIN sources
    <3>1. Clipboard!Cancel(selection).source = selection
      BY CancelIsItself
    <3> QED BY <1>1, <1>4, <3>1 DEF CountInv
  <2> QED BY <1>1, <2>1, <2>2 DEF CountInv, AliveSources
<1>8. OffersInv'
  <2>1. \A e \in Clipboard!ToSet(events') : e.kind = "send" => e.mime \in sources[e.source].offers
    <3>1. Clipboard!Cancel(selection).kind # "send"
      BY CancelIsItself
    <3> QED BY <1>1, <1>4, <3>1 DEF OffersInv
  <2> QED BY <1>1, <2>1 DEF OffersInv
<1>9. EndedInv'
  BY <1>1 DEF EndedInv, ClipboardInv
<1> QED BY <1>5, <1>6, <1>7, <1>8, <1>9 DEF ClipboardInv

LEMMA PasteKeepsInv ==
  ASSUME ClipboardInv, NEW mime \in Clipboard!Mimes, Clipboard!Paste(mime)
  PROVE  ClipboardInv'
<1> DEFINE send == Clipboard!Send(selection, mime)
<1>1. /\ ClipboardType /\ PlacesInv /\ CountInv /\ OffersInv
      /\ events \in Seq(ClipboardEvents) /\ selection \in DOMAIN sources
      /\ mime \in sources[selection].offers
      /\ events' = Append(events, send)
      /\ UNCHANGED <<dc, sources, requests, selection, process>>
  BY DEF ClipboardInv, ClipboardType, Clipboard!Paste
<1>2. /\ send.kind = "send" /\ send.source = selection /\ send.mime = mime
      /\ \A s : Clipboard!Cancel(s) # send
  BY CancelIsItself
<1>3. send \in ClipboardEvents
  <2>1. selection \in Nat
    BY <1>1, RequestedSources
  <2> QED BY <2>1 DEF ClipboardEvents, Clipboard!Send
<1> HIDE DEF send
<1>4. /\ events' \in Seq(ClipboardEvents)
      /\ Clipboard!ToSet(events') = Clipboard!ToSet(events) \cup {send}
  BY <1>1, <1>3, AppendedElements
<1>5. CancelsOnce(events')
  BY <1>1, <1>2, <1>3, CancelsAppend DEF PlacesInv
<1>6. \A s : Clipboard!Cancelled(s)' <=> Clipboard!Cancelled(s)
  BY <1>2, <1>4 DEF Clipboard!Cancelled
<1>7. ClipboardType'
  BY <1>1, <1>4 DEF ClipboardType
<1>8. PlacesInv'
  BY <1>1, <1>2, <1>4, <1>5, <1>6 DEF PlacesInv
<1>9. CountInv' /\ OffersInv'
  BY <1>1, <1>2, <1>4, <1>6 DEF CountInv, OffersInv, AliveSources
<1>10. EndedInv'
  BY <1>1 DEF EndedInv, ClipboardInv
<1> QED BY <1>7, <1>8, <1>9, <1>10 DEF ClipboardInv

\* The end of the main loop, and of the keepalive: no source is left to be asked then.
LEMMA EndKeepsInv ==
  ASSUME ClipboardInv, Clipboard!LeaveMainLoop \/ Clipboard!EndKeepalive
  PROVE  ClipboardInv'
<1>1. ClipboardType /\ PlacesInv /\ CountInv /\ OffersInv
  BY DEF ClipboardInv
<1>2. CASE Clipboard!LeaveMainLoop
  <2>1. /\ UNCHANGED <<dc, sources, requests, selection, events>>
        /\ process = "running" /\ process' = IF NoKeepalive THEN "ended" ELSE "keepalive"
    BY <1>2 DEF Clipboard!LeaveMainLoop
  <2>2. ClipboardType' /\ PlacesInv' /\ CountInv' /\ OffersInv'
    BY <1>1, <2>1 DEF ClipboardType, PlacesInv, CountInv, OffersInv, AliveSources, Clipboard!Cancelled
  <2>3. EndedInv'
    BY <2>1 DEF EndedInv
  <2> QED BY <2>2, <2>3 DEF ClipboardInv
<1>3. CASE Clipboard!EndKeepalive
  <2>1. /\ UNCHANGED <<sources, requests, selection, events>>
        /\ ~(dc.refcount > 0) /\ process' = "ended" /\ dc' = [dc EXCEPT !.data = Clipboard!Nothing]
    BY <1>3 DEF Clipboard!EndKeepalive, Clipboard!KeepsAlive
  <2>2. /\ dc' \in [data : Nat, path : Nat, offer_data : BOOLEAN, offer_path : BOOLEAN, refcount : Int]
        /\ dc'.refcount = dc.refcount
        /\ dc'.offer_data = dc.offer_data /\ dc'.offer_path = dc.offer_path
    BY <1>1, <2>1 DEF ClipboardType, Clipboard!Nothing
  <2>3. ClipboardType' /\ PlacesInv' /\ CountInv' /\ OffersInv'
    BY <1>1, <2>1, <2>2 DEF ClipboardType, PlacesInv, CountInv, OffersInv, AliveSources, Clipboard!Cancelled
  <2>4. \A s \in DOMAIN sources : ~sources[s].alive
    <3>1. IsFiniteSet(DOMAIN sources)
      <4>1. DOMAIN sources = 1..Len(sources) /\ Len(sources) \in Int /\ 1 \in Int
        BY <1>1, RequestedSources
      <4> QED BY <4>1, FS_Interval
    <3>2. AliveSources \in SUBSET DOMAIN sources
      BY DEF AliveSources
    <3>3. IsFiniteSet(AliveSources)
      BY <3>1, <3>2, FS_Subset
    <3>4. Cardinality(AliveSources) \in Nat
      BY <3>3, FS_CardinalityType
    <3>5. Cardinality(AliveSources) = 0
      BY <1>1, <2>1, <3>4 DEF CountInv
    <3>6. AliveSources = {}
      BY <3>3, <3>5, FS_EmptySet
    <3> QED BY <3>6 DEF AliveSources
  <2>5. selection = Clipboard!Foreign
    BY <1>1, <2>4 DEF CountInv, ClipboardType
  <2>6. requests = <<>>
    <3>1. requests \in Seq(DOMAIN sources)
      BY <1>1 DEF ClipboardType
    <3>2. ASSUME requests # <<>>
          PROVE  FALSE
      <4>1. Head(requests) \in DOMAIN sources /\ Head(requests) \in Clipboard!ToSet(requests)
        BY <3>1, <3>2, TailElements
      <4> QED BY <1>1, <2>4, <4>1 DEF CountInv
    <3> QED BY <3>2
  <2>7. EndedInv'
    BY <2>1, <2>5, <2>6 DEF EndedInv
  <2> QED BY <2>3, <2>7 DEF ClipboardInv
<1> QED BY <1>2, <1>3

LEMMA InitClipboardInv == Clipboard!Init => ClipboardInv
<1> SUFFICES ASSUME Clipboard!Init PROVE ClipboardInv
  OBVIOUS
<1>1. /\ sources = <<>> /\ requests = <<>> /\ events = <<>> /\ selection = Clipboard!Foreign
      /\ process = "running" /\ dc = Clipboard!Empty
      /\ DOMAIN sources = {} /\ DOMAIN requests = {} /\ DOMAIN events = {}
  BY DEF Clipboard!Init
<1>2. Clipboard!ToSet(requests) = {} /\ Clipboard!ToSet(events) = {}
  BY <1>1 DEF Clipboard!ToSet
<1>3. dc \in [data : Nat, path : Nat, offer_data : BOOLEAN, offer_path : BOOLEAN, refcount : Int]
      /\ dc.refcount = 0 /\ ~dc.offer_data /\ ~dc.offer_path
  BY <1>1 DEF Clipboard!Empty, Clipboard!Nothing
<1>4. ClipboardType
  BY <1>1, <1>3 DEF ClipboardType
<1>5. PlacesInv
  BY <1>1, <1>2 DEF PlacesInv, Distinct, CancelsOnce
<1>6. CountInv
  <2>1. AliveSources = {}
    BY <1>1 DEF AliveSources
  <2>2. Cardinality(AliveSources) = 0
    BY <2>1, FS_EmptySet
  <2> QED BY <1>1, <1>2, <1>3, <2>2 DEF CountInv
<1>7. OffersInv /\ EndedInv
  BY <1>1, <1>2, <1>3 DEF OffersInv, EndedInv
<1> QED BY <1>4, <1>5, <1>6, <1>7 DEF ClipboardInv

LEMMA ClipboardNextKeepsInv ==
  ASSUME ClipboardInv, Clipboard!Next
  PROVE  ClipboardInv'
<1>1. ASSUME NEW has_data \in BOOLEAN, NEW has_path \in BOOLEAN, Clipboard!Update(has_data, has_path)
      PROVE  ClipboardInv'
  BY <1>1, UpdateKeepsInv
<1>2. ASSUME NEW has_data \in BOOLEAN, NEW where \in {"data", "mime", "path"},
             Clipboard!UpdateFails(has_data, where)
      PROVE  ClipboardInv'
  BY <1>2, FailedUpdateKeepsInv
<1>3. ASSUME Clipboard!LeaveMainLoop \/ Clipboard!EndKeepalive
      PROVE  ClipboardInv'
  BY <1>3, EndKeepsInv
<1>4. ASSUME Clipboard!Scran
      PROVE  ClipboardInv'
  BY <1>1, <1>2, <1>3, <1>4 DEF Clipboard!Scran
<1>5. ASSUME Clipboard!SetSelection
      PROVE  ClipboardInv'
  <2>1. /\ Clipboard!Replaces(Head(requests)) /\ requests # <<>> /\ requests' = Tail(requests)
        /\ UNCHANGED <<dc, sources, process>>
    BY <1>5 DEF Clipboard!SetSelection
  <2> QED BY <2>1, ReplacedKeepsInv
<1>6. ASSUME Clipboard!CopiedElsewhere
      PROVE  ClipboardInv'
  <2>1. /\ Clipboard!Replaces(Clipboard!Foreign) /\ requests' = requests /\ process # "ended"
        /\ UNCHANGED <<dc, sources, process>>
    BY <1>6 DEF Clipboard!CopiedElsewhere
  <2> QED BY <2>1, ReplacedKeepsInv
<1>7. ASSUME Clipboard!Waits
      PROVE  ClipboardInv'
  <2>1. UNCHANGED <<dc, sources, requests, selection, events, process>>
    BY <1>7 DEF Clipboard!Waits, Clipboard!vars
  <2> QED BY <2>1, ClipboardUntouched
<1> QED
  BY <1>4, <1>5, <1>6, <1>7, SendKeepsInv, CancelledKeepsInv, PasteKeepsInv DEF Clipboard!Next

-----------------------------------------------------------------------------
(* Theorems of the clipboard                                               *)

\* The steps of the other parts leave the clipboard alone.
LEMMA WaitsKeepClipboardInv ==
  ASSUME ClipboardInv, [WaitsNext]_<<part, loop, clipboard, tray>>
  PROVE  ClipboardInv'
<1>1. Clipboard!Next \/ UNCHANGED clipboard
  BY DEF WaitsNext
<1>2. ASSUME UNCHANGED clipboard
      PROVE  ClipboardInv'
  <2>1. UNCHANGED <<dc, sources, requests, selection, events, process>>
    BY <1>2 DEF clipboard
  <2> QED BY <2>1, ClipboardUntouched
<1> QED BY <1>1, <1>2, ClipboardNextKeepsInv

\* The invariant of the clipboard holds in every state of the behaviours that MCWaits describes.
THEOREM ClipboardHolds == WaitsSpec => []ClipboardInv
<1>1. WaitsInit => ClipboardInv
  BY InitClipboardInv DEF WaitsInit
<1>2. ClipboardInv /\ [WaitsNext]_<<part, loop, clipboard, tray>> => ClipboardInv'
  BY WaitsKeepClipboardInv
<1> QED BY <1>1, <1>2, PTL DEF WaitsSpec

\* SelectionIsKept: whatever the captures, the copies made elsewhere and the pastes, and however many events are on
\* their way, scran_seat_datacontrol.refcount is the number of sources that may still be asked for something, which
\* are the selection, those requested to be it and those with a cancelled event on its way; so the keepalive loop
\* does not end while the compositor has, or will have, a selection of scran.
THEOREM SelectionIsAlwaysKept == WaitsSpec => []SelectionIsKept
<1>1. ClipboardInv => SelectionIsKept
  <2> SUFFICES ASSUME ClipboardInv PROVE SelectionIsKept
    OBVIOUS
  <2>1. Clipboard!RefcountIsSources
    <3>1. AliveSources = {s \in DOMAIN sources : sources[s].alive}
      BY DEF AliveSources
    <3>2. dc.refcount = Cardinality(AliveSources)
      BY DEF ClipboardInv, CountInv
    <3>3. dc.refcount = Clipboard!Cardinality({s \in DOMAIN sources : sources[s].alive})
      BY <3>1, <3>2 DEF Cardinality, Clipboard!Cardinality
    <3>4. \A s \in DOMAIN sources :
            sources[s].alive <=> s = selection \/ s \in Clipboard!ToSet(requests) \/ Clipboard!Cancelled(s)
      BY DEF ClipboardInv, CountInv
    <3> HIDE DEF ClipboardInv
    <3> QED BY <3>3, <3>4 DEF Clipboard!RefcountIsSources
  <2>2. Clipboard!SelectionOutlivesTheUi
    BY DEF ClipboardInv, EndedInv, Clipboard!SelectionOutlivesTheUi
  <2> QED BY <2>1, <2>2 DEF SelectionIsKept
<1> QED BY <1>1, ClipboardHolds, PTL

LEMMA PasteIsOfOneCapture ==
  ASSUME ClipboardInv, Clipboard!HandleSend
  PROVE  /\ pasted'.got \in {Clipboard!Nothing, Len(sources)}
         /\ pasted'.newest => pasted'.got = pasted'.source
<1> DEFINE e == Head(events)
           got == Clipboard!Written(dc, e.mime)
<1>1. /\ ClipboardType /\ CountInv /\ OffersInv
      /\ events \in Seq(ClipboardEvents) /\ events # <<>> /\ e.kind = "send" /\ process # "ended"
      /\ pasted' = [source |-> e.source, mime |-> e.mime, got |-> got, newest |-> e.source = Len(sources)]
  BY DEF ClipboardInv, ClipboardType, Clipboard!HandleSend, Clipboard!Dispatches
<1>2. pasted'.got = got /\ pasted'.source = e.source /\ (pasted'.newest <=> e.source = Len(sources))
  BY <1>1
<1>3. e \in Clipboard!ToSet(events) /\ e \in ClipboardEvents
  BY <1>1, TailElements
<1> HIDE DEF e
<1>4. /\ e.source \in DOMAIN sources /\ e.mime \in sources[e.source].offers
      /\ dc.offer_data => dc.data = Len(sources)
      /\ dc.offer_path => dc.path = Len(sources)
  BY <1>1, <1>3 DEF CountInv, OffersInv
<1>5. got \in {Clipboard!Nothing, Len(sources)}
  BY <1>4 DEF Clipboard!Written
<1>6. ASSUME e.source = Len(sources)
      PROVE  got = e.source
  <2>1. sources # <<>>
    BY <1>4
  <2>2. e.mime \in Clipboard!Offered(dc.offer_data, dc.offer_path)
    BY <1>1, <1>4, <1>6, <2>1 DEF OffersInv
  <2>3. \/ e.mime = "image" /\ dc.offer_data
        \/ e.mime \in {"uri_list", "plain"} /\ e.mime # "image" /\ dc.offer_path
    BY <2>2 DEF Clipboard!Offered
  <2> QED BY <1>4, <1>6, <2>3 DEF Clipboard!Written
<1> QED BY <1>2, <1>5, <1>6

LEMMA OnlySendsPaste ==
  ASSUME Clipboard!Next, pasted' # pasted
  PROVE  Clipboard!HandleSend
  BY DEF Clipboard!Next, Clipboard!Scran, Clipboard!Update, Clipboard!UpdateFails, Clipboard!LeaveMainLoop,
         Clipboard!EndKeepalive, Clipboard!HandleCancelled, Clipboard!SetSelection, Clipboard!CopiedElsewhere,
         Clipboard!Paste, Clipboard!Waits, Clipboard!vars

\* PastesAreOfOneCapture: handle_data_control_source_send() writes what the newest capture left, or nothing, even
\* for a source that was replaced; the newest source gets exactly what it offered, also after an update that failed
\* half way.
THEOREM PastesAreAlwaysOfOneCapture == WaitsSpec => PastesAreOfOneCapture
<1>1. ASSUME ClipboardInv, [WaitsNext]_<<part, loop, clipboard, tray>>
      PROVE  [pasted' # pasted => /\ pasted'.got \in {Clipboard!Nothing, Len(sources)}
                                  /\ pasted'.newest => pasted'.got = pasted'.source]_(Clipboard!vars)
  <2> SUFFICES ASSUME pasted' # pasted
               PROVE  /\ pasted'.got \in {Clipboard!Nothing, Len(sources)}
                      /\ pasted'.newest => pasted'.got = pasted'.source
    OBVIOUS
  <2>1. Clipboard!Next
    BY <1>1 DEF WaitsNext, clipboard
  <2>2. Clipboard!HandleSend
    BY <2>1, OnlySendsPaste
  <2> QED BY <1>1, <2>2, PasteIsOfOneCapture
<1> QED BY <1>1, ClipboardHolds, PTL DEF WaitsSpec, PastesAreOfOneCapture, Clipboard!PastesAreOfOneCapture
=============================================================================

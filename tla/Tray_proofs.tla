----------------------------- MODULE Tray_proofs -----------------------------
(***************************************************************************)
(* The tray icon, for any number of watchers, recordings and calls: what   *)
(* scran and its watchers show once nothing is under way.                  *)
(*                                                                         *)
(* That depends on all that is on its way.  The invariant follows the      *)
(* messages by kind: icons and the questions for them (TrayInv, which      *)
(* needs nothing of registrations and holds with timeouts), and owners,    *)
(* calls and replies (RegistrationInv, which a timeout would break: the    *)
(* late reply is dropped, and scran does not ask again).                   *)
(***************************************************************************)
EXTENDS Tray, FiniteSetTheorems, TLAPS

-----------------------------------------------------------------------------
(* The inductive invariant                                                 *)

OutMessages ==
  [kind : {"RequestName"}] \cup [kind : {"Register"}, call : Nat] \cup [kind : {"NewIcon"}]
    \cup [kind : {"Icon"}, to : Nat, icon : BOOLEAN] \cup [kind : {"ReleaseName"}]

InMessages ==
  [kind : {"Name"}, ok : BOOLEAN] \cup [kind : {"Owner"}, old : Nat, new : Nat]
    \cup [kind : {"Registered"}, call : Nat, ok : BOOLEAN] \cup [kind : {"GetIcon"}, from : Nat]

Appeared == 1..counts.watchers

TrayType ==
  /\ MaxWatchers \in Nat
  /\ sni \in [installed : BOOLEAN, named : BOOLEAN, registered : BOOLEAN, call : Nat]
  /\ icon \in BOOLEAN
  /\ out \in Seq(OutMessages) /\ in \in Seq(InMessages)
  /\ counts \in [watchers : 0..MaxWatchers, toggles : Nat, calls : Nat]
  /\ alive \subseteq Appeared
  /\ watcher \in alive \cup {Nobody}
  /\ asked \in [1..MaxWatchers -> Seq(Nat)]
  /\ items \in [1..MaxWatchers -> {NotShown, "idle", "recording"}]
  /\ \A w \in 1..MaxWatchers : w \notin alive => items[w] = NotShown /\ asked[w] = <<>>

\* What is on its way about icons is from watchers that have the item, or have died.
IconTo(m, w) == m.kind = "Icon" /\ m.to = w

AsksInv ==
  /\ \A m \in ToSet(out) : m.kind # "ReleaseName"
  /\ \A w \in 1..MaxWatchers :
       GetFrom(w) \in ToSet(in) \/ (\E m \in ToSet(out) : IconTo(m, w)) =>
         w \in Appeared /\ (w \in alive => items[w] # NotShown)

\* The icon of a watcher, once all that is on its way to it has come, is the one of now: or else it will ask.
IsLastIconTo(i, w) == IconTo(out[i], w) /\ \A j \in DOMAIN out : j > i => ~IconTo(out[j], w)

Shows(shown) == IF shown THEN "recording" ELSE "idle"

IconComes(w) ==
  /\ \A i \in DOMAIN out : IsLastIconTo(i, w) => out[i].icon = icon
  /\ (\A i \in DOMAIN out : ~IconTo(out[i], w)) => items[w] = Shows(icon)

WillAsk(w) == GetFrom(w) \in ToSet(in) \/ \E m \in ToSet(out) : m.kind = "NewIcon"

IconInv == \A w \in alive : items[w] # NotShown => WillAsk(w) \/ IconComes(w)

\* Without its name scran awaits it, and no reply.
NameInv ==
  ~sni.named =>
    /\ sni.call = NoCall
    /\ \/ \E m \in ToSet(out) : m.kind = "RequestName"
       \/ \E m \in ToSet(in) : m.kind = "Name"

\* The last change of owners that scran has yet to hear of is to the present one.
IsLastOwner(s, i) == s[i].kind = "Owner" /\ \A j \in DOMAIN s : j > i => s[j].kind # "Owner"

OwnersTell(s, w) ==
  \A i \in DOMAIN s :
    /\ IsLastOwner(s, i) => s[i].new = w
    /\ s[i].kind = "Owner" => s[i].old # Nobody \/ s[i].new # Nobody

OwnersInv == OwnersTell(in, watcher)

\* Calls are numbered in the order in which they were made, are passed on and are answered.
Increasing(s) == \A i, j \in DOMAIN s : i < j => s[i] < s[j]

CallsIncrease(s) ==
  \A i, j \in DOMAIN s : s[i].kind = "Register" /\ s[j].kind = "Register" /\ i < j => s[i].call < s[j].call

CallsInv ==
  /\ sni.call \in {NoCall, counts.calls}
  /\ CallsIncrease(out)
  /\ \A m \in ToSet(out) : m.kind = "Register" => m.call \in 1..counts.calls
  /\ \A m \in ToSet(in) : m.kind = "Registered" => m.call \in 1..counts.calls
  /\ \A w \in 1..MaxWatchers :
       /\ Increasing(asked[w])
       /\ \A c \in ToSet(asked[w]) :
            /\ c \in 1..counts.calls
            /\ \A m \in ToSet(out) : m.kind = "Register" => c < m.call

\* As far as scran has heard of owners: a registration that is not awaited any more, or whose reply has come, is
\* as the reply says, and no older call can change it.
HasHeard == \A m \in ToSet(in) : m.kind # "Owner"

IsShown == watcher # Nobody /\ items[watcher] # NotShown

Settled == watcher # Nobody => asked[watcher] = <<>> /\ \A m \in ToSet(out) : m.kind # "Register"

OutcomeInv ==
  HasHeard /\ sni.named =>
    /\ sni.call = NoCall => Settled /\ (sni.registered <=> IsShown)
    /\ \A m \in ToSet(in) :
         m.kind = "Registered" /\ m.call = sni.call => Settled /\ (m.ok <=> IsShown)
    /\ sni.call # NoCall => \A w \in 1..MaxWatchers : sni.call \in ToSet(asked[w]) => w = watcher

TrayInv == TrayType /\ (sni.installed => AsksInv /\ IconInv)
RegistrationInv == sni.installed => NameInv /\ OwnersInv /\ CallsInv /\ OutcomeInv

-----------------------------------------------------------------------------
(* Sequences                                                               *)

LEMMA AppendedElements ==
  ASSUME NEW S, NEW s \in Seq(S), NEW e \in S
  PROVE  /\ Append(s, e) \in Seq(S)
         /\ DOMAIN Append(s, e) = DOMAIN s \cup {Len(s) + 1}
         /\ Append(s, e)[Len(s) + 1] = e
         /\ \A i \in DOMAIN s : Append(s, e)[i] = s[i] /\ i \in Nat /\ i < Len(s) + 1
         /\ ToSet(Append(s, e)) = ToSet(s) \cup {e}
         /\ Len(s) + 1 \in Nat
<1> DEFINE t == Append(s, e)
<1>1. /\ t \in Seq(S) /\ Len(s) \in Nat
      /\ DOMAIN t = 1..(Len(s) + 1) /\ DOMAIN s = 1..Len(s)
      /\ t[Len(s) + 1] = e
      /\ \A i \in DOMAIN s : t[i] = s[i]
  OBVIOUS
<1> HIDE DEF t
<1>2. DOMAIN t = DOMAIN s \cup {Len(s) + 1}
  BY <1>1
<1>3. ToSet(t) = ToSet(s) \cup {e}
  BY <1>1, <1>2 DEF ToSet
<1>4. \A i \in DOMAIN s : i \in Nat /\ i < Len(s) + 1
  BY <1>1
<1> QED BY <1>1, <1>2, <1>3, <1>4 DEF t

LEMMA TailElements ==
  ASSUME NEW S, NEW s \in Seq(S), s # <<>>
  PROVE  /\ Tail(s) \in Seq(S) /\ Head(s) \in S
         /\ Head(s) = s[1] /\ 1 \in DOMAIN s
         /\ \A i \in DOMAIN Tail(s) : i \in Nat /\ i + 1 \in DOMAIN s /\ Tail(s)[i] = s[i + 1] /\ 1 < i + 1
         /\ \A i \in DOMAIN s : i = 1 \/ (i \in Nat /\ i - 1 \in DOMAIN Tail(s) /\ Tail(s)[i - 1] = s[i])
         /\ ToSet(s) = {Head(s)} \cup ToSet(Tail(s))
<1> DEFINE t == Tail(s)
<1>1. /\ t \in Seq(S) /\ Len(s) \in Nat \ {0} /\ Len(t) = Len(s) - 1
      /\ DOMAIN t = 1..(Len(s) - 1) /\ DOMAIN s = 1..Len(s)
      /\ Head(s) = s[1]
      /\ \A i \in 1..(Len(s) - 1) : t[i] = s[i + 1]
  OBVIOUS
<1> HIDE DEF t
<1>2. 1 \in DOMAIN s /\ Head(s) \in S
  BY <1>1
<1>3. \A i \in DOMAIN t : i \in Nat /\ i + 1 \in DOMAIN s /\ t[i] = s[i + 1] /\ 1 < i + 1
  BY <1>1
<1>4. \A i \in DOMAIN s : i = 1 \/ (i \in Nat /\ i - 1 \in DOMAIN t /\ t[i - 1] = s[i])
  <2> SUFFICES ASSUME NEW i \in DOMAIN s, i # 1
               PROVE  i \in Nat /\ i - 1 \in DOMAIN t /\ t[i - 1] = s[i]
    OBVIOUS
  <2>1. i \in Nat /\ i - 1 \in 1..(Len(s) - 1) /\ (i - 1) + 1 = i
    BY <1>1
  <2>2. t[i - 1] = s[(i - 1) + 1]
    BY <1>1, <2>1
  <2> QED BY <1>1, <2>1, <2>2
<1>5. ToSet(s) = {Head(s)} \cup ToSet(t)
  <2>1. ToSet(t) \subseteq ToSet(s) /\ Head(s) \in ToSet(s)
    BY <1>1, <1>2, <1>3 DEF ToSet
  <2>2. ToSet(s) \subseteq {Head(s)} \cup ToSet(t)
    BY <1>1, <1>4 DEF ToSet
  <2> QED BY <2>1, <2>2
<1> QED BY <1>1, <1>2, <1>3, <1>4, <1>5 DEF t

LEMMA ConcatElements ==
  ASSUME NEW S, NEW s \in Seq(S), NEW t \in Seq(S)
  PROVE  /\ s \o t \in Seq(S)
         /\ \A i \in DOMAIN s : i \in DOMAIN (s \o t) /\ (s \o t)[i] = s[i]
         /\ \A i \in DOMAIN t : Len(s) + i \in DOMAIN (s \o t) /\ (s \o t)[Len(s) + i] = t[i]
         /\ \A i \in DOMAIN (s \o t) :
              i \in DOMAIN s \/ (i \notin DOMAIN s /\ i - Len(s) \in DOMAIN t /\ (s \o t)[i] = t[i - Len(s)])
         /\ \A i \in DOMAIN s, j \in DOMAIN (s \o t) : j \notin DOMAIN s => i < j
         /\ ToSet(s \o t) = ToSet(s) \cup ToSet(t)
<1> DEFINE u == s \o t
<1>1. /\ u \in Seq(S) /\ Len(s) \in Nat /\ Len(t) \in Nat /\ Len(u) = Len(s) + Len(t)
      /\ DOMAIN s = 1..Len(s) /\ DOMAIN t = 1..Len(t) /\ DOMAIN u = 1..(Len(s) + Len(t))
      /\ \A i \in 1..(Len(s) + Len(t)) : u[i] = IF i <= Len(s) THEN s[i] ELSE t[i - Len(s)]
  OBVIOUS
<1> HIDE DEF u
<1>2. \A i \in DOMAIN s : i \in DOMAIN u /\ u[i] = s[i]
  BY <1>1
<1>3. ASSUME NEW i \in DOMAIN t
      PROVE  Len(s) + i \in DOMAIN u /\ u[Len(s) + i] = t[i]
  <2>1. Len(s) + i \in 1..(Len(s) + Len(t)) /\ ~(Len(s) + i <= Len(s)) /\ (Len(s) + i) - Len(s) = i
    BY <1>1
  <2> QED BY <1>1, <2>1
<1>4. ASSUME NEW i \in DOMAIN u, i \notin DOMAIN s
      PROVE  i - Len(s) \in DOMAIN t /\ u[i] = t[i - Len(s)]
  BY <1>1, <1>4
<1>5. \A i \in DOMAIN s, j \in DOMAIN u : j \notin DOMAIN s => i < j
  BY <1>1
<1>6. ToSet(u) = ToSet(s) \cup ToSet(t)
  <2>1. ToSet(s) \subseteq ToSet(u)
    BY <1>2 DEF ToSet
  <2>2. ToSet(t) \subseteq ToSet(u)
    BY <1>3 DEF ToSet
  <2>3. ToSet(u) \subseteq ToSet(s) \cup ToSet(t)
    BY <1>2, <1>4 DEF ToSet
  <2> QED BY <2>1, <2>2, <2>3
<1> QED BY <1>1, <1>2, <1>3, <1>4, <1>5, <1>6 DEF u

LEMMA SetToSeqElements ==
  ASSUME NEW S, IsFiniteSet(S)
  PROVE  SetToSeq(S) \in Seq(S) /\ ToSet(SetToSeq(S)) = S
<1> DEFINE n == Cardinality(S)
           I == {f \in [1..n -> S] : IsInjective(f)}
<1>1. n \in Nat /\ ExistsBijection(1..n, S)
  BY FS_CardinalityType
<1>2. IsFiniteSet(1..n) /\ Cardinality(1..n) = n
  <2>1. n \in Int /\ 1 \in Int /\ (~(1 > n) \/ n = 0)
    BY <1>1
  <2> QED BY <1>1, <2>1, FS_Interval
<1> HIDE DEF n
<1>3. \E f \in [1..n -> S] : IsInjective(f)
  BY <1>1 DEF ExistsBijection, Bijection, Injection, Surjection, IsInjective
<1>4. SetToSeq(S) = CHOOSE f \in [1..n -> S] : IsInjective(f)
  BY DEF SetToSeq, n
<1>5. SetToSeq(S) \in [1..n -> S] /\ IsInjective(SetToSeq(S))
  BY <1>3, <1>4
<1> DEFINE f == SetToSeq(S)
<1> HIDE DEF f
<1>6. f \in Injection(1..n, S)
  BY <1>5 DEF f, Injection, IsInjective
<1>7. f \in Surjection(1..n, S)
  BY <1>2, <1>6, FS_Injection DEF n
<1>8. ToSet(f) = S
  BY <1>7 DEF ToSet, Surjection
<1>9. f \in Seq(S)
  BY <1>1, <1>5 DEF f
<1> QED BY <1>8, <1>9 DEF f

-----------------------------------------------------------------------------
(* The icons on their way                                                  *)

\* Messages to others neither bring an icon nor take one away.
LEMMA IconComesKept ==
  ASSUME out \in Seq(OutMessages), NEW w, icon' = icon, items'[w] = items[w], IconComes(w),
         \/ out' = out
         \/ \E e \in OutMessages : ~IconTo(e, w) /\ out' = Append(out, e)
         \/ out # <<>> /\ ~IconTo(Head(out), w) /\ out' = Tail(out)
  PROVE  IconComes(w)'
<1>1. CASE out' = out
  BY <1>1 DEF IconComes, IsLastIconTo, Shows
<1>2. ASSUME NEW e \in OutMessages, ~IconTo(e, w), out' = Append(out, e)
      PROVE  IconComes(w)'
  <2> DEFINE n == Len(out) + 1
  <2>1. /\ DOMAIN out' = DOMAIN out \cup {n} /\ out'[n] = e
        /\ \A i \in DOMAIN out : out'[i] = out[i] /\ i \in Nat /\ i < n
    BY <1>2, AppendedElements
  <2> HIDE DEF n
  <2>2. ASSUME NEW i \in DOMAIN out', IsLastIconTo(i, w)'
        PROVE  i \in DOMAIN out /\ IsLastIconTo(i, w) /\ out'[i] = out[i]
    <3>1. i \in DOMAIN out
      BY <1>2, <2>1, <2>2 DEF IsLastIconTo
    <3> QED BY <2>1, <2>2, <3>1 DEF IsLastIconTo
  <2>3. (\A i \in DOMAIN out' : ~IconTo(out'[i], w)) => \A i \in DOMAIN out : ~IconTo(out[i], w)
    BY <2>1
  <2> QED BY <2>2, <2>3 DEF IconComes, Shows
<1>3. ASSUME out # <<>>, ~IconTo(Head(out), w), out' = Tail(out)
      PROVE  IconComes(w)'
  <2>1. /\ out[1] = Head(out)
        /\ \A i \in DOMAIN out' : i \in Nat /\ i + 1 \in DOMAIN out /\ out'[i] = out[i + 1] /\ 1 < i + 1
        /\ \A i \in DOMAIN out : i = 1 \/ (i \in Nat /\ i - 1 \in DOMAIN out' /\ out'[i - 1] = out[i])
    BY <1>3, TailElements
  <2>2. ASSUME NEW i \in DOMAIN out', IsLastIconTo(i, w)'
        PROVE  i + 1 \in DOMAIN out /\ IsLastIconTo(i + 1, w) /\ out'[i] = out[i + 1]
    <3>1. ASSUME NEW j \in DOMAIN out, j > i + 1
          PROVE  ~IconTo(out[j], w)
      <4>1. j \in Nat /\ j - 1 \in DOMAIN out' /\ out'[j - 1] = out[j] /\ i \in Nat
        BY <2>1, <3>1
      <4>2. j - 1 > i
        BY <3>1, <4>1
      <4> QED BY <2>2, <4>1, <4>2 DEF IsLastIconTo
    <3> QED BY <2>1, <2>2, <3>1 DEF IsLastIconTo
  <2>3. (\A i \in DOMAIN out' : ~IconTo(out'[i], w)) => \A i \in DOMAIN out : ~IconTo(out[i], w)
    BY <1>3, <2>1
  <2> QED BY <2>2, <2>3 DEF IconComes, Shows
<1> QED BY <1>1, <1>2, <1>3

\* The icon of now is sent behind all others.
LEMMA IconComesSent ==
  ASSUME out \in Seq(OutMessages), NEW w, NEW e \in OutMessages, IconTo(e, w), e.icon = icon',
         out' = Append(out, e)
  PROVE  IconComes(w)'
<1> DEFINE n == Len(out) + 1
<1>1. /\ DOMAIN out' = DOMAIN out \cup {n} /\ out'[n] = e
      /\ \A i \in DOMAIN out : out'[i] = out[i] /\ i \in Nat /\ i < n
  BY AppendedElements
<1>2. n \in Nat
  BY AppendedElements
<1> HIDE DEF n
<1>3. ASSUME NEW i \in DOMAIN out', IsLastIconTo(i, w)'
      PROVE  out'[i].icon = icon'
  <2>1. i \in DOMAIN out => n > i /\ n \in DOMAIN out'
    BY <1>1, <1>2
  <2>2. i = n
    BY <1>1, <1>3, <2>1 DEF IsLastIconTo
  <2> QED BY <1>1, <2>2
<1> QED BY <1>1, <1>3 DEF IconComes

\* It comes.
LEMMA IconComesRead ==
  ASSUME out \in Seq(OutMessages), NEW w, out # <<>>, IconTo(Head(out), w), out' = Tail(out),
         icon' = icon, items'[w] = Shows(Head(out).icon), IconComes(w)
  PROVE  IconComes(w)'
<1>1. /\ out[1] = Head(out) /\ 1 \in DOMAIN out
      /\ \A i \in DOMAIN out' : i \in Nat /\ i + 1 \in DOMAIN out /\ out'[i] = out[i + 1] /\ 1 < i + 1
      /\ \A i \in DOMAIN out : i = 1 \/ (i \in Nat /\ i - 1 \in DOMAIN out' /\ out'[i - 1] = out[i])
  BY TailElements
<1>2. ASSUME NEW i \in DOMAIN out', IsLastIconTo(i, w)'
      PROVE  i + 1 \in DOMAIN out /\ IsLastIconTo(i + 1, w) /\ out'[i] = out[i + 1]
  <2>1. ASSUME NEW j \in DOMAIN out, j > i + 1
        PROVE  ~IconTo(out[j], w)
    <3>1. j \in Nat /\ j - 1 \in DOMAIN out' /\ out'[j - 1] = out[j] /\ i \in Nat
      BY <1>1, <2>1
    <3>2. j - 1 > i
      BY <2>1, <3>1
    <3> QED BY <1>2, <3>1, <3>2 DEF IsLastIconTo
  <2> QED BY <1>1, <1>2, <2>1 DEF IsLastIconTo
<1>3. ASSUME \A i \in DOMAIN out' : ~IconTo(out'[i], w)
      PROVE  items'[w] = Shows(icon')
  <2>1. ASSUME NEW j \in DOMAIN out, j > 1
        PROVE  ~IconTo(out[j], w)
    <3>1. ~(j = 1)
      BY <2>1
    <3>2. j - 1 \in DOMAIN out' /\ out'[j - 1] = out[j]
      BY <1>1, <3>1
    <3>3. ~IconTo(out'[j - 1], w)
      BY <1>3, <3>2
    <3> QED BY <3>2, <3>3
  <2>2. IsLastIconTo(1, w)
    BY <1>1, <2>1 DEF IsLastIconTo
  <2>3. out[1].icon = icon
    BY <1>1, <2>2 DEF IconComes
  <2> QED BY <1>1, <2>3
<1> QED BY <1>2, <1>3 DEF IconComes, Shows

-----------------------------------------------------------------------------
(* The type                                                                *)

LEMMA TrayMessages ==
  /\ \A c \in Nat : [kind |-> "Register", call |-> c] \in OutMessages
  /\ \A c \in Nat, ok \in BOOLEAN : [kind |-> "Registered", call |-> c, ok |-> ok] \in InMessages
  /\ \A w \in Nat, i \in BOOLEAN : [kind |-> "Icon", to |-> w, icon |-> i] \in OutMessages
  /\ \A w \in Nat : GetFrom(w) \in InMessages
  /\ \A ok \in BOOLEAN : [kind |-> "Name", ok |-> ok] \in InMessages
  /\ \A old \in Nat, new \in Nat : [kind |-> "Owner", old |-> old, new |-> new] \in InMessages
  /\ [kind |-> "RequestName"] \in OutMessages /\ [kind |-> "NewIcon"] \in OutMessages
  /\ [kind |-> "ReleaseName"] \in OutMessages
  BY DEF OutMessages, InMessages, GetFrom

\* What a message holds is told by its kind.
LEMMA MessageFields ==
  /\ \A m \in InMessages :
       /\ m.kind \in {"Name", "Owner", "Registered", "GetIcon"}
       /\ m.kind = "Name" => m.ok \in BOOLEAN
       /\ m.kind = "Owner" => m.old \in Nat /\ m.new \in Nat
       /\ m.kind = "Registered" => m.call \in Nat /\ m.ok \in BOOLEAN
       /\ m.kind = "GetIcon" => m.from \in Nat /\ m = GetFrom(m.from)
  /\ \A m \in OutMessages :
       /\ m.kind \in {"RequestName", "Register", "NewIcon", "Icon", "ReleaseName"}
       /\ m.kind = "Register" => m.call \in Nat
       /\ m.kind = "Icon" => m.to \in Nat /\ m.icon \in BOOLEAN
  BY DEF OutMessages, InMessages, GetFrom

SniType == [installed : BOOLEAN, named : BOOLEAN, registered : BOOLEAN, call : Nat]
CountsType == [watchers : 0..MaxWatchers, toggles : Nat, calls : Nat]
NewCall == [kind |-> "Register", call |-> counts.calls + 1]

-----------------------------------------------------------------------------
(* scran's steps                                                           *)

LEMMA RegistersOnce ==
  ASSUME TrayType, NEW state \in SniType, RegisterWithWatcher(state)
  PROVE  /\ sni' \in SniType /\ sni'.call = counts.calls + 1
         /\ sni'.installed = state.installed /\ sni'.named = state.named /\ sni'.registered = state.registered
         /\ NewCall \in OutMessages /\ NewCall.kind = "Register" /\ NewCall.call = counts.calls + 1
         /\ out' = Append(out, NewCall)
         /\ counts' \in CountsType /\ counts'.watchers = counts.watchers /\ counts'.calls = counts.calls + 1
<1>1. counts \in CountsType /\ counts.calls + 1 \in Nat
  BY DEF TrayType, CountsType
<1>2. /\ sni' = [state EXCEPT !.call = counts.calls + 1]
      /\ out' = Append(out, NewCall)
      /\ counts' = [counts EXCEPT !.calls = counts.calls + 1]
  BY <1>1 DEF RegisterWithWatcher, NewCall
<1>3. counts' \in CountsType /\ counts'.watchers = counts.watchers /\ counts'.calls = counts.calls + 1
  BY <1>1, <1>2 DEF CountsType
<1>4. NewCall \in OutMessages /\ NewCall.kind = "Register" /\ NewCall.call = counts.calls + 1
  BY <1>1, TrayMessages DEF NewCall
<1> QED BY <1>1, <1>2, <1>3, <1>4 DEF SniType

\* What a message to scran does to its state, and what it then sends.
LEMMA OwnerLostState ==
  ASSUME TrayType, NEW old
  PROVE  /\ OwnerLost(sni, old) \in SniType
         /\ OwnerLost(sni, old).installed = sni.installed /\ OwnerLost(sni, old).named = sni.named
         /\ IF old = Nobody THEN OwnerLost(sni, old) = sni
            ELSE OwnerLost(sni, old).registered = FALSE /\ OwnerLost(sni, old).call = NoCall
  BY DEF TrayType, SniType, OwnerLost, NoCall

LEMMA NamedState ==
  ASSUME TrayType
  PROVE  /\ [sni EXCEPT !.named = TRUE] \in SniType
         /\ [sni EXCEPT !.named = TRUE].named = TRUE
         /\ [sni EXCEPT !.named = TRUE].installed = sni.installed
         /\ Off \in SniType /\ ~Off.installed
  BY DEF TrayType, SniType, Off, NoCall

LEMMA RepliedState ==
  ASSUME TrayType, NEW ok \in BOOLEAN
  PROVE  LET s == [sni EXCEPT !.registered = ok, !.call = NoCall]
         IN  /\ s \in SniType /\ s.installed = sni.installed /\ s.named = sni.named
             /\ s.registered = ok /\ s.call = NoCall
  BY DEF TrayType, SniType, NoCall

\* Steps of scran that have nothing to do with icons.
LEMMA IconsUntouched ==
  ASSUME TrayType, AsksInv, IconInv,
         UNCHANGED <<icon, watcher, alive, asked, items>>, counts'.watchers = counts.watchers,
         \A w : GetFrom(w) \in ToSet(in') <=> GetFrom(w) \in ToSet(in),
         out' = out \/ \E e \in OutMessages : e.kind = "Register" /\ out' = Append(out, e)
  PROVE  AsksInv' /\ IconInv'
<1>1. out \in Seq(OutMessages) /\ Appeared' = Appeared
  BY DEF TrayType, Appeared
<1>2. /\ \A m \in ToSet(out') : m.kind # "Register" => m \in ToSet(out)
      /\ \A m \in ToSet(out) : m \in ToSet(out')
  <2>1. ASSUME NEW e \in OutMessages, e.kind = "Register", out' = Append(out, e)
        PROVE  ToSet(out') = ToSet(out) \cup {e}
    BY <1>1, <2>1, AppendedElements
  <2> QED BY <2>1
<1>3. \A m \in ToSet(out) : m \in ToSet(out')
  BY <1>2
<1>4. AsksInv'
  BY <1>1, <1>2 DEF AsksInv, IconTo
<1>5. ASSUME NEW w \in alive', items'[w] # NotShown
      PROVE  WillAsk(w)' \/ IconComes(w)'
  <2>1. CASE WillAsk(w)
    BY <1>3, <2>1 DEF WillAsk
  <2>2. CASE IconComes(w)
    BY <1>1, <2>2, IconComesKept DEF IconTo
  <2> QED BY <1>5, <2>1, <2>2 DEF IconInv
<1> QED BY <1>4, <1>5 DEF IconInv

\* Without an icon installed only the types matter.
LEMMA ProcessKeepsTrayInv ==
  ASSUME TrayInv, Process \/ RegisterTimesOut
  PROVE  TrayInv'
<1>1. TrayType /\ in \in Seq(InMessages) /\ out \in Seq(OutMessages) /\ sni \in SniType /\ counts \in CountsType
  BY DEF TrayInv, TrayType, SniType, CountsType
<1>2. ASSUME in # <<>>, in' = Tail(in)
      PROVE  /\ in' \in Seq(InMessages) /\ ToSet(in) = {Head(in)} \cup ToSet(in')
             /\ Head(in) \in InMessages
  BY <1>1, <1>2, TailElements
<1>3. ASSUME UNCHANGED <<icon, watcher, alive, asked, items>>, counts' \in CountsType,
             counts'.watchers = counts.watchers,
             sni' \in SniType, in' \in Seq(InMessages), out' \in Seq(OutMessages)
      PROVE  TrayType'
  BY <1>1, <1>3 DEF TrayType, SniType, CountsType, Appeared
<1>4. ASSUME UNCHANGED <<icon, watcher, alive, asked, items>>, in' \in Seq(InMessages),
             \A w : GetFrom(w) \in ToSet(in') <=> GetFrom(w) \in ToSet(in),
             \/ sni' \in SniType /\ (sni'.installed => sni.installed) /\ UNCHANGED <<out, counts>>
             \/ sni.installed /\ \E state \in SniType : RegisterWithWatcher(state)
      PROVE  TrayInv'
  <2>1. CASE sni' \in SniType /\ (sni'.installed => sni.installed) /\ UNCHANGED <<out, counts>>
    <3>1. TrayType'
      BY <1>1, <1>3, <1>4, <2>1
    <3>2. sni.installed => AsksInv' /\ IconInv'
      BY <1>1, <1>4, <2>1, IconsUntouched DEF TrayInv
    <3> QED BY <2>1, <3>1, <3>2 DEF TrayInv
  <2>2. ASSUME sni.installed, NEW state \in SniType, RegisterWithWatcher(state)
        PROVE  TrayInv'
    <3>1. /\ sni' \in SniType /\ counts' \in CountsType /\ counts'.watchers = counts.watchers
          /\ NewCall \in OutMessages /\ NewCall.kind = "Register" /\ out' = Append(out, NewCall)
      BY <1>1, <2>2, RegistersOnce
    <3>2. out' \in Seq(OutMessages)
      BY <1>1, <3>1, AppendedElements
    <3>3. TrayType'
      BY <1>3, <1>4, <3>1, <3>2
    <3>4. AsksInv' /\ IconInv'
      BY <1>1, <1>4, <2>2, <3>1, IconsUntouched DEF TrayInv
    <3> QED BY <3>3, <3>4 DEF TrayInv
  <2> QED BY <1>4, <2>1, <2>2
<1>5. ASSUME NEW m \in InMessages, m.kind # "GetIcon", ToSet(in) = {m} \cup ToSet(in')
      PROVE  \A w : GetFrom(w) \in ToSet(in') <=> GetFrom(w) \in ToSet(in)
  BY <1>5 DEF GetFrom
<1>6. ASSUME ReplyRequestName
      PROVE  TrayInv'
  <2>1. /\ in # <<>> /\ in' = Tail(in) /\ Head(in).kind = "Name"
        /\ UNCHANGED <<icon, watcher, alive, asked, items>>
        /\ \/ ~sni.installed /\ UNCHANGED <<sni, out, counts>>
           \/ sni.installed /\ RegisterWithWatcher([sni EXCEPT !.named = TRUE])
           \/ sni' = Off /\ UNCHANGED <<out, counts>>
    BY <1>6 DEF ReplyRequestName, TrayDestroyed
  <2> QED BY <1>1, <1>2, <1>4, <1>5, <2>1, NamedState
<1>7. ASSUME NameOwnerChanged
      PROVE  TrayInv'
  <2>1. /\ in # <<>> /\ in' = Tail(in) /\ Head(in).kind = "Owner"
        /\ UNCHANGED <<icon, watcher, alive, asked, items>>
        /\ \/ ~sni.installed /\ UNCHANGED <<sni, out, counts>>
           \/ sni.installed /\ RegisterWithWatcher(OwnerLost(sni, Head(in).old))
           \/ sni' = OwnerLost(sni, Head(in).old) /\ UNCHANGED <<out, counts>>
    BY <1>7 DEF NameOwnerChanged
  <2> QED BY <1>1, <1>2, <1>4, <1>5, <2>1, OwnerLostState
<1>8. ASSUME ReplyRegister
      PROVE  TrayInv'
  <2>1. /\ in # <<>> /\ in' = Tail(in) /\ Head(in).kind = "Registered"
        /\ UNCHANGED <<icon, watcher, alive, asked, items, out, counts>>
        /\ sni' = sni \/ sni' = [sni EXCEPT !.registered = Head(in).ok, !.call = NoCall]
    BY <1>8 DEF ReplyRegister
  <2>2. Head(in) \in InMessages /\ Head(in).ok \in BOOLEAN
    BY <1>2, <2>1, MessageFields
  <2>3. sni' \in SniType /\ sni'.installed = sni.installed
    BY <1>1, <2>1, <2>2, RepliedState
  <2> QED BY <1>2, <1>4, <1>5, <2>1, <2>2, <2>3
<1>9. ASSUME RegisterTimesOut
      PROVE  TrayInv'
  <2>1. /\ UNCHANGED <<icon, watcher, alive, asked, items, out, in, counts>>
        /\ sni' = [sni EXCEPT !.registered = FALSE, !.call = NoCall]
    BY <1>9 DEF RegisterTimesOut
  <2>2. sni' \in SniType /\ sni'.installed = sni.installed
    BY <1>1, <2>1, RepliedState
  <2> QED BY <1>1, <1>4, <2>1, <2>2
<1>10. ASSUME GetIcon
       PROVE  TrayInv'
  <2> DEFINE from == Head(in).from
             answer == [kind |-> "Icon", to |-> from, icon |-> icon]
  <2>1. /\ in # <<>> /\ in' = Tail(in) /\ Head(in).kind = "GetIcon"
        /\ UNCHANGED <<sni, icon, watcher, alive, asked, items, counts>>
        /\ out' = IF sni.installed THEN Append(out, answer) ELSE out
    BY <1>10 DEF GetIcon
  <2>2. /\ in' \in Seq(InMessages) /\ ToSet(in) = {GetFrom(from)} \cup ToSet(in')
        /\ from \in Nat
    BY <1>2, <2>1, MessageFields
  <2> HIDE DEF from
  <2>3. /\ answer \in OutMessages /\ answer.kind = "Icon" /\ answer.icon = icon /\ answer.to = from
    BY <1>1, <2>2, TrayMessages DEF TrayType
  <2> HIDE DEF answer
  <2>4. /\ Append(out, answer) \in Seq(OutMessages)
        /\ ToSet(Append(out, answer)) = ToSet(out) \cup {answer}
    BY <1>1, <2>3, AppendedElements
  <2>5. TrayType'
    BY <1>1, <1>3, <2>1, <2>2, <2>4
  <2>6. ASSUME sni.installed
        PROVE  AsksInv' /\ IconInv'
    <3>1. ToSet(out') = ToSet(out) \cup {answer} /\ out' = Append(out, answer) /\ Appeared' = Appeared
      BY <2>1, <2>4, <2>6 DEF Appeared
    <3>2. AsksInv /\ IconInv
      BY <2>6 DEF TrayInv
    <3>3. AsksInv'
      BY <2>1, <2>2, <2>3, <3>1, <3>2 DEF AsksInv, IconTo
    <3>4. ASSUME NEW w \in alive, items[w] # NotShown
          PROVE  WillAsk(w)' \/ IconComes(w)'
      <4>1. CASE w = from
        BY <1>1, <2>1, <2>3, <3>1, <4>1, IconComesSent DEF IconTo
      <4>2. ASSUME w # from, WillAsk(w)
            PROVE  WillAsk(w)'
        <5>1. GetFrom(w) # GetFrom(from)
          BY <4>2 DEF GetFrom
        <5> QED BY <2>2, <3>1, <4>2, <5>1 DEF WillAsk
      <4>3. ASSUME w # from, IconComes(w)
            PROVE  IconComes(w)'
        BY <1>1, <2>1, <2>3, <3>1, <4>3, IconComesKept DEF IconTo
      <4> QED BY <3>2, <3>4, <4>1, <4>2, <4>3 DEF IconInv
    <3> QED BY <2>1, <3>3, <3>4 DEF IconInv
  <2> QED BY <2>1, <2>5, <2>6 DEF TrayInv
<1> QED BY <1>6, <1>7, <1>8, <1>9, <1>10 DEF Process

LEMMA WatcherNumbers ==
  ASSUME TrayType
  PROVE  /\ alive \subseteq Appeared /\ Appeared \subseteq 1..MaxWatchers /\ Appeared \subseteq Nat
         /\ Nobody \notin Appeared /\ watcher \in Nat
<1>1. MaxWatchers \in Nat /\ counts.watchers \in Nat /\ counts.watchers <= MaxWatchers
  BY DEF TrayType
<1> QED BY <1>1 DEF TrayType, Appeared, Nobody

LEMMA InitTrayInv == TrayBounds /\ Init => TrayInv
<1> SUFFICES ASSUME TrayBounds, Init PROVE TrayInv
  OBVIOUS
<1>1. /\ icon = FALSE /\ in = <<>> /\ out = <<[kind |-> "RequestName"]>>
      /\ watcher \in {Nobody, 1} /\ alive = {watcher} \ {Nobody}
      /\ asked = [w \in 1..MaxWatchers |-> <<>>] /\ items = [w \in 1..MaxWatchers |-> NotShown]
      /\ MaxWatchers \in Nat \ {0}
  BY DEF Init, TrayBounds
<1>2. sni \in SniType
  BY DEF Init, SniType, Off, NoCall
<1>3. counts \in CountsType /\ counts.watchers = watcher
  <2>1. watcher \in 0..MaxWatchers /\ counts = [watchers |-> watcher, toggles |-> 0, calls |-> 0]
    BY <1>1 DEF Init, Nobody
  <2> QED BY <2>1 DEF CountsType
<1>4. out \in Seq(OutMessages) /\ in \in Seq(InMessages)
  BY <1>1, TrayMessages
<1>5. alive \subseteq Appeared /\ watcher \in alive \cup {Nobody}
  BY <1>1, <1>3 DEF Appeared, Nobody
<1>6. TrayType
  <2>1. asked \in [1..MaxWatchers -> Seq(Nat)] /\ items \in [1..MaxWatchers -> {NotShown, "idle", "recording"}]
    BY <1>1
  <2>2. \A w \in 1..MaxWatchers : w \notin alive => items[w] = NotShown /\ asked[w] = <<>>
    BY <1>1
  <2> QED BY <1>1, <1>4, <1>5, <1>2, <1>3, <2>1, <2>2 DEF TrayType, SniType, CountsType
<1>7. DOMAIN out = {1} /\ out[1].kind = "RequestName" /\ DOMAIN in = {}
  BY <1>1
<1>8. ToSet(in) = {} /\ \A m \in ToSet(out) : m.kind = "RequestName"
  BY <1>7 DEF ToSet
<1>9. AsksInv
  BY <1>8 DEF AsksInv, IconTo
<1>10. IconInv
  <2>1. \A w \in alive : items[w] = NotShown
    BY <1>1 DEF Nobody
  <2> QED BY <2>1 DEF IconInv
<1> QED BY <1>6, <1>9, <1>10 DEF TrayInv

\* Steps that leave icon messages alone leave what is on its way alone.
LEMMA OtherTrayInv ==
  ASSUME TrayInv, Idle \/ Destroy \/ (\E recording \in BOOLEAN : SetRecording(recording))
  PROVE  TrayInv'
<1>1. TrayType /\ out \in Seq(OutMessages) /\ sni \in SniType /\ counts \in CountsType
  BY DEF TrayInv, TrayType, SniType, CountsType
<1>2. ASSUME Idle
      PROVE  TrayInv'
  <2>1. UNCHANGED <<sni, icon, out, in, watcher, alive, asked, items, counts>>
    BY <1>2 DEF Idle, vars
  <2>2. TrayType'
    BY <1>1, <2>1 DEF TrayType, Appeared
  <2>3. sni.installed => AsksInv' /\ IconInv'
    BY <1>1, <2>1, IconsUntouched DEF TrayInv
  <2> QED BY <2>1, <2>2, <2>3 DEF TrayInv
<1>3. ASSUME Destroy
      PROVE  TrayInv'
  <2>1. /\ sni' = Off /\ UNCHANGED <<icon, in, watcher, alive, asked, items, counts>>
        /\ out' = out \/ out' = Append(out, [kind |-> "ReleaseName"])
    BY <1>3 DEF Destroy, TrayDestroyed
  <2>2. out' \in Seq(OutMessages)
    BY <1>1, <2>1, AppendedElements, TrayMessages
  <2>3. sni' \in SniType /\ ~sni'.installed
    BY <1>1, <2>1, NamedState
  <2> QED BY <1>1, <2>1, <2>2, <2>3 DEF TrayInv, TrayType, SniType, Appeared
<1>4. ASSUME NEW recording \in BOOLEAN, SetRecording(recording)
      PROVE  TrayInv'
  <2> DEFINE e == [kind |-> "NewIcon"]
  <2>1. /\ UNCHANGED <<sni, in, watcher, alive, asked, items>> /\ icon' = recording
        /\ counts' = [counts EXCEPT !.toggles = counts.toggles + 1]
        /\ IF recording = icon \/ ~sni.installed THEN out' = out ELSE out' = out \o <<e>>
    BY <1>4 DEF SetRecording, Announced
  <2>2. e \in OutMessages /\ e.kind = "NewIcon" /\ <<e>> \in Seq(OutMessages)
    BY TrayMessages
  <2> HIDE DEF e
  <2>3. out \o <<e>> = Append(out, e)
    BY <1>1, <2>2
  <2>4. out' \in Seq(OutMessages)
    BY <1>1, <2>1, <2>2, <2>3, AppendedElements, SMTT(30)
  <2>5. counts' \in CountsType /\ counts'.watchers = counts.watchers
    BY <1>1, <2>1 DEF CountsType
  <2>6. TrayType'
    BY <1>1, <2>1, <2>4, <2>5 DEF TrayType, CountsType, Appeared
  <2>7. ASSUME sni.installed
        PROVE  AsksInv' /\ IconInv'
    <3>1. CASE recording = icon
      <4>1. UNCHANGED <<icon, in, watcher, alive, asked, items, out>>
        BY <2>1, <3>1
      <4> QED BY <1>1, <2>5, <2>7, <4>1, IconsUntouched DEF TrayInv
    <3>2. CASE recording # icon
      <4>1. ToSet(out') = ToSet(out) \cup {e}
        <5>1. out' = Append(out, e)
          BY <2>1, <2>3, <2>7, <3>2
        <5> QED BY <1>1, <2>2, <5>1, AppendedElements
      <4>2. Appeared' = Appeared
        BY <2>5 DEF Appeared
      <4>3. AsksInv'
        BY <2>1, <2>2, <2>7, <4>1, <4>2 DEF TrayInv, AsksInv, IconTo, GetFrom
      <4>4. IconInv'
        BY <2>2, <4>1 DEF IconInv, WillAsk
      <4> QED BY <4>3, <4>4
    <3> QED BY <3>1, <3>2
  <2> QED BY <2>1, <2>6, <2>7 DEF TrayInv
<1> QED BY <1>2, <1>3, <1>4

-----------------------------------------------------------------------------
(* The bus and the watchers                                                *)

\* What a watcher does, or what becomes of it: no message of scran's is touched.
LEMMA AnswerKeepsTrayInv ==
  ASSUME TrayInv, NEW w \in alive, Answer(w)
  PROVE  TrayInv'
<1> DEFINE reply(ok) == [kind |-> "Registered", call |-> Head(asked[w]), ok |-> ok]
<1>1. TrayType /\ in \in Seq(InMessages) /\ w \in 1..MaxWatchers /\ w \in Nat /\ w \in Appeared
  BY WatcherNumbers DEF TrayInv, TrayType
<1>2. /\ TrayType /\ in \in Seq(InMessages) /\ w \in 1..MaxWatchers /\ w \in Nat /\ w \in Appeared
      /\ asked[w] \in Seq(Nat) /\ asked[w] # <<>>
      /\ asked' = [asked EXCEPT ![w] = Tail(asked[w])]
      /\ UNCHANGED <<sni, icon, out, watcher, alive, counts>>
  BY <1>1 DEF TrayType, Answer
<1>3. PICK ok \in BOOLEAN :
        /\ in' = Append(in, reply(ok)) \o (IF ok THEN <<GetFrom(w)>> ELSE <<>>)
        /\ items' = IF ok /\ items[w] = NotShown THEN [items EXCEPT ![w] = "idle"] ELSE items
  BY DEF Answer
<1>4. Head(asked[w]) \in Nat /\ Tail(asked[w]) \in Seq(Nat)
  BY <1>2, TailElements
<1>5. reply(ok) \in InMessages /\ GetFrom(w) \in InMessages /\ reply(ok) # GetFrom(w)
      /\ \A x : GetFrom(x) # reply(ok)
  BY <1>2, <1>4, TrayMessages DEF GetFrom
<1> HIDE DEF reply
<1>6. /\ in' \in Seq(InMessages)
      /\ ToSet(in') = ToSet(in) \cup {reply(ok)} \cup (IF ok THEN {GetFrom(w)} ELSE {})
  <2>1. /\ Append(in, reply(ok)) \in Seq(InMessages)
        /\ ToSet(Append(in, reply(ok))) = ToSet(in) \cup {reply(ok)}
    BY <1>2, <1>5, AppendedElements
  <2>2. CASE ok
    <3>1. <<GetFrom(w)>> \in Seq(InMessages) /\ ToSet(<<GetFrom(w)>>) = {GetFrom(w)}
      BY <1>5 DEF ToSet
    <3>2. in' = Append(in, reply(ok)) \o <<GetFrom(w)>>
      BY <1>3, <2>2
    <3> QED BY <2>1, <2>2, <3>1, <3>2, ConcatElements, ZenonT(30)
  <2>3. CASE ~ok
    <3>1. in' = Append(in, reply(ok))
      BY <1>3, <2>1, <2>3
    <3> QED BY <2>1, <2>3, <3>1
  <2> QED BY <2>2, <2>3
<1>7. /\ items' \in [1..MaxWatchers -> {NotShown, "idle", "recording"}]
      /\ \A x \in 1..MaxWatchers : x # w => items'[x] = items[x]
      /\ items[w] # NotShown => items'[w] = items[w]
      /\ ok => items'[w] # NotShown
      /\ ~ok => items' = items
  BY <1>2, <1>3 DEF TrayType, NotShown
<1>8. asked' \in [1..MaxWatchers -> Seq(Nat)] /\ \A x \in 1..MaxWatchers : x # w => asked'[x] = asked[x]
  BY <1>2, <1>4 DEF TrayType
<1>9. TrayType'
  BY <1>2, <1>6, <1>7, <1>8 DEF TrayType, Appeared
<1>10. ASSUME sni.installed
      PROVE  AsksInv' /\ IconInv'
  <2>1. AsksInv /\ IconInv /\ Appeared' = Appeared
    BY <1>2, <1>10 DEF TrayInv, Appeared
  <2>2. ASSUME NEW x, GetFrom(x) \in ToSet(in')
        PROVE  GetFrom(x) \in ToSet(in) \/ (x = w /\ ok)
    BY <1>5, <1>6, <2>2 DEF GetFrom
  <2>3. \A m \in ToSet(out') : m.kind # "ReleaseName"
    BY <1>2, <2>1 DEF AsksInv
  <2>4. ASSUME NEW x \in 1..MaxWatchers, GetFrom(x) \in ToSet(in') \/ (\E m \in ToSet(out') : IconTo(m, x))
        PROVE  x \in Appeared /\ (x \in alive => items'[x] # NotShown)
    <3>1. CASE x = w /\ ok
      BY <1>2, <1>7, <3>1
    <3>2. CASE GetFrom(x) \in ToSet(in) \/ (\E m \in ToSet(out) : IconTo(m, x))
      BY <1>7, <2>1, <3>2 DEF AsksInv
    <3> QED BY <1>2, <2>2, <2>4, <3>1, <3>2
  <2>5. AsksInv'
    BY <1>2, <2>1, <2>3, <2>4 DEF AsksInv, IconTo, GetFrom
  <2>6. ASSUME NEW x \in alive, items'[x] # NotShown
        PROVE  WillAsk(x)' \/ IconComes(x)'
    <3>1. x \in 1..MaxWatchers
      BY <1>2, WatcherNumbers
    <3>2. CASE x = w /\ ok
      BY <1>6, <3>2 DEF WillAsk, GetFrom
    <3>3. CASE ~(x = w /\ ok)
      <4>1. items'[x] = items[x]
        BY <1>7, <3>1, <3>3
      <4>2. WillAsk(x) => WillAsk(x)'
        BY <1>2, <1>6 DEF WillAsk, GetFrom
      <4>3. IconComes(x) => IconComes(x)'
        BY <1>2, <4>1, IconComesKept DEF TrayType
      <4> QED BY <2>1, <2>6, <4>1, <4>2, <4>3 DEF IconInv
    <3> QED BY <3>2, <3>3
  <2> QED BY <1>2, <2>5, <2>6 DEF IconInv
<1> QED BY <1>2, <1>9, <1>10 DEF TrayInv

ErrorsOf(w) == [i \in DOMAIN asked[w] |-> [kind |-> "Registered", call |-> asked[w][i], ok |-> FALSE]]
Changed(w) == IF watcher = w THEN OwnerChanged(w, Nobody) ELSE <<>>

\* What the bus tells scran of a watcher that died.
LEMMA DeathMessages ==
  ASSUME TrayType, NEW w \in alive
  PROVE  /\ ErrorsOf(w) \in Seq(InMessages)
         /\ \A m \in ToSet(ErrorsOf(w)) : /\ m.kind = "Registered" /\ ~m.ok
                                          /\ m.call \in ToSet(asked[w])
         /\ Changed(w) \in Seq(InMessages)
         /\ watcher # w => Changed(w) = <<>> /\ ToSet(Changed(w)) = {}
         /\ \A m \in ToSet(Changed(w)) : m.kind = "Owner" /\ m.old = w /\ m.new = Nobody
         /\ watcher = w => ToSet(Changed(w)) # {}
<1>1. w \in 1..MaxWatchers /\ w \in Nat /\ asked[w] \in Seq(Nat)
  BY WatcherNumbers DEF TrayType
<1>2. /\ ErrorsOf(w) \in Seq(InMessages)
      /\ \A m \in ToSet(ErrorsOf(w)) : m.kind = "Registered" /\ ~m.ok /\ m.call \in ToSet(asked[w])
  <2>1. /\ Len(asked[w]) \in Nat /\ DOMAIN asked[w] = 1..Len(asked[w])
        /\ \A i \in DOMAIN asked[w] : asked[w][i] \in Nat
    BY <1>1
  <2>2. ErrorsOf(w) \in [1..Len(asked[w]) -> InMessages]
    BY <2>1, TrayMessages DEF ErrorsOf
  <2>3. ErrorsOf(w) \in Seq(InMessages)
    BY <2>1, <2>2
  <2>4. \A i \in DOMAIN asked[w] :
          ErrorsOf(w)[i] = [kind |-> "Registered", call |-> asked[w][i], ok |-> FALSE]
    BY DEF ErrorsOf
  <2>5. \A m \in ToSet(ErrorsOf(w)) : m.kind = "Registered" /\ ~m.ok /\ m.call \in ToSet(asked[w])
    <3>1. DOMAIN ErrorsOf(w) = DOMAIN asked[w]
      BY <2>1, <2>2
    <3>2. ASSUME NEW i \in DOMAIN asked[w]
          PROVE  /\ ErrorsOf(w)[i].kind = "Registered" /\ ~ErrorsOf(w)[i].ok
                 /\ ErrorsOf(w)[i].call \in ToSet(asked[w])
      <4> DEFINE e == ErrorsOf(w)[i]
      <4>1. e = [kind |-> "Registered", call |-> asked[w][i], ok |-> FALSE]
        BY <2>4
      <4>2. asked[w][i] \in ToSet(asked[w])
        BY DEF ToSet
      <4> HIDE DEF e
      <4>3. e.kind = "Registered" /\ ~e.ok /\ e.call \in ToSet(asked[w])
        BY <4>1, <4>2
      <4> QED BY <4>3 DEF e
    <3> QED BY <3>1, <3>2 DEF ToSet
  <2> QED BY <2>3, <2>5
<1>3. CASE watcher = w
  <2> DEFINE e == [kind |-> "Owner", old |-> w, new |-> Nobody]
  <2>1. Changed(w) = <<e>> /\ e \in InMessages
    BY <1>1, <1>3, TrayMessages DEF Changed, OwnerChanged, Nobody
  <2>2. e.kind = "Owner" /\ e.old = w /\ e.new = Nobody
    OBVIOUS
  <2> HIDE DEF e
  <2>3. <<e>> \in Seq(InMessages) /\ ToSet(<<e>>) = {e}
    BY <2>1 DEF ToSet
  <2> QED BY <1>2, <1>3, <2>1, <2>2, <2>3
<1>4. CASE watcher # w
  <2>1. Changed(w) = <<>> /\ ToSet(<<>>) = {} /\ <<>> \in Seq(InMessages)
    BY <1>4 DEF Changed, ToSet
  <2> QED BY <1>2, <1>4, <2>1
<1> QED BY <1>3, <1>4

LEMMA DeathTold ==
  ASSUME TrayType, NEW w \in alive, WatcherDies(w)
  PROVE  /\ in' = (in \o Changed(w)) \o ErrorsOf(w) \/ in' = (in \o ErrorsOf(w)) \o Changed(w)
         /\ in' \in Seq(InMessages)
         /\ ToSet(in') = ToSet(in) \cup ToSet(Changed(w)) \cup ToSet(ErrorsOf(w))
<1>1. in' = (in \o Changed(w)) \o ErrorsOf(w) \/ in' = (in \o ErrorsOf(w)) \o Changed(w)
  BY DEF WatcherDies, Changed, ErrorsOf
<1>2. in \in Seq(InMessages) /\ Changed(w) \in Seq(InMessages) /\ ErrorsOf(w) \in Seq(InMessages)
  BY DeathMessages DEF TrayType
<1>3. /\ in \o Changed(w) \in Seq(InMessages) /\ ToSet(in \o Changed(w)) = ToSet(in) \cup ToSet(Changed(w))
      /\ in \o ErrorsOf(w) \in Seq(InMessages) /\ ToSet(in \o ErrorsOf(w)) = ToSet(in) \cup ToSet(ErrorsOf(w))
  BY <1>2, ConcatElements
<1>4. /\ (in \o Changed(w)) \o ErrorsOf(w) \in Seq(InMessages)
      /\ ToSet((in \o Changed(w)) \o ErrorsOf(w)) = ToSet(in \o Changed(w)) \cup ToSet(ErrorsOf(w))
  BY <1>2, <1>3, ConcatElements
<1>5. /\ (in \o ErrorsOf(w)) \o Changed(w) \in Seq(InMessages)
      /\ ToSet((in \o ErrorsOf(w)) \o Changed(w)) = ToSet(in \o ErrorsOf(w)) \cup ToSet(Changed(w))
  BY <1>2, <1>3, ConcatElements
<1> QED BY <1>1, <1>3, <1>4, <1>5

LEMMA DeathKeepsTrayInv ==
  ASSUME TrayInv, NEW w \in alive, WatcherDies(w)
  PROVE  TrayInv'
<1>1. /\ TrayType /\ w \in 1..MaxWatchers
      /\ alive \subseteq Appeared /\ Appeared \subseteq 1..MaxWatchers
      /\ alive' = alive \ {w}
      /\ asked' = [asked EXCEPT ![w] = <<>>] /\ items' = [items EXCEPT ![w] = NotShown]
      /\ watcher' = IF watcher = w THEN Nobody ELSE watcher
      /\ UNCHANGED <<sni, icon, out, counts>> /\ Appeared' = Appeared
  BY WatcherNumbers DEF TrayInv, WatcherDies, Appeared
<1>2. in' \in Seq(InMessages) /\ \A m \in InMessages : m.kind = "GetIcon" => (m \in ToSet(in') <=> m \in ToSet(in))
  BY <1>1, DeathTold, DeathMessages
<1>3. /\ asked' \in [1..MaxWatchers -> Seq(Nat)] /\ items' \in [1..MaxWatchers -> {NotShown, "idle", "recording"}]
      /\ asked'[w] = <<>> /\ items'[w] = NotShown
      /\ \A x \in 1..MaxWatchers : x # w => asked'[x] = asked[x] /\ items'[x] = items[x]
  BY <1>1 DEF TrayType
<1>4. TrayType'
  BY <1>1, <1>2, <1>3 DEF TrayType
<1>5. ASSUME sni.installed
      PROVE  AsksInv' /\ IconInv'
  <2>1. AsksInv /\ IconInv
    BY <1>5 DEF TrayInv
  <2>2. ASSUME NEW x \in Nat
        PROVE  GetFrom(x) \in ToSet(in') <=> GetFrom(x) \in ToSet(in)
    <3>1. GetFrom(x) \in InMessages /\ GetFrom(x).kind = "GetIcon"
      BY TrayMessages DEF GetFrom
    <3> QED BY <1>2, <3>1
  <2>3. AsksInv'
    BY <1>1, <1>3, <2>1, <2>2 DEF AsksInv, IconTo
  <2>4. ASSUME NEW x \in alive', items'[x] # NotShown
        PROVE  WillAsk(x)' \/ IconComes(x)'
    <3>1. x \in alive /\ x # w /\ x \in Nat /\ x \in 1..MaxWatchers
      BY <1>1, WatcherNumbers
    <3>2. items'[x] = items[x]
      BY <1>3, <3>1
    <3>3. WillAsk(x) => WillAsk(x)'
      BY <1>1, <2>2, <3>1 DEF WillAsk
    <3>4. IconComes(x) => IconComes(x)'
      BY <1>1, <3>2, IconComesKept DEF TrayType
    <3> QED BY <2>1, <2>4, <3>1, <3>2, <3>3, <3>4 DEF IconInv
  <2> QED BY <2>3, <2>4 DEF IconInv
<1> QED BY <1>1, <1>4, <1>5 DEF TrayInv

LEMMA AppearanceTold ==
  ASSUME TrayType, WatcherAppears
  PROVE  LET new == counts.watchers + 1
             owner == [kind |-> "Owner", old |-> watcher, new |-> new]
         IN  /\ new \in 1..MaxWatchers /\ new \notin Appeared /\ Appeared' = Appeared \cup {new}
             /\ new \in Nat /\ new # Nobody
             /\ counts' \in CountsType /\ counts'.calls = counts.calls
             /\ owner \in InMessages /\ owner.kind = "Owner"
             /\ in' = Append(in, owner)
             /\ in' \in Seq(InMessages) /\ ToSet(in') = ToSet(in) \cup {owner}
<1> DEFINE new == counts.watchers + 1
           owner == [kind |-> "Owner", old |-> watcher, new |-> new]
<1>1. /\ MaxWatchers \in Nat /\ counts \in CountsType /\ counts.watchers \in Nat /\ counts.watchers < MaxWatchers
      /\ counts' = [counts EXCEPT !.watchers = new] /\ in' = in \o <<owner>>
      /\ in \in Seq(InMessages) /\ watcher \in Nat
  BY WatcherNumbers DEF WatcherAppears, OwnerChanged, TrayType, CountsType
<1>2. counts' \in CountsType /\ counts'.calls = counts.calls /\ counts'.watchers = new
  <2>1. new \in 0..MaxWatchers
    BY <1>1
  <2> HIDE DEF new
  <2> QED BY <1>1, <2>1 DEF CountsType
<1>3. new \in 1..MaxWatchers /\ new \notin Appeared /\ Appeared' = Appeared \cup {new} /\ new \in Nat /\ new # Nobody
  BY <1>1, <1>2 DEF Appeared, Nobody
<1> HIDE DEF new
<1>4. owner \in InMessages /\ owner.kind = "Owner"
  BY <1>1, <1>3, TrayMessages
<1> HIDE DEF owner
<1>5. in' = Append(in, owner)
  BY <1>1, <1>4
<1>6. in' \in Seq(InMessages) /\ ToSet(in') = ToSet(in) \cup {owner}
  <2>1. in \in Seq(InMessages) /\ owner \in InMessages
    BY <1>1, <1>4
  <2>2. Append(in, owner) \in Seq(InMessages) /\ ToSet(Append(in, owner)) = ToSet(in) \cup {owner}
    BY <2>1, AppendedElements
  <2> QED BY <1>5, <2>2
<1> QED BY <1>2, <1>3, <1>4, <1>5, <1>6 DEF new, owner

LEMMA AppearanceKeepsTrayInv ==
  ASSUME TrayInv, WatcherAppears
  PROVE  TrayInv'
<1> DEFINE new == counts.watchers + 1
           owner == [kind |-> "Owner", old |-> watcher, new |-> new]
<1>1. /\ TrayType /\ alive' = alive \cup {new} /\ watcher' = new
      /\ UNCHANGED <<sni, icon, out, asked, items>>
  BY DEF TrayInv, WatcherAppears
<1>2. /\ new \in 1..MaxWatchers /\ new \notin Appeared /\ Appeared' = Appeared \cup {new}
      /\ counts' \in CountsType
      /\ in' \in Seq(InMessages) /\ ToSet(in') = ToSet(in) \cup {owner} /\ owner.kind = "Owner"
  BY <1>1, AppearanceTold
<1> HIDE DEF owner, new
<1>3. /\ alive \subseteq Appeared /\ Appeared \subseteq 1..MaxWatchers
      /\ new \notin alive
  BY <1>1, <1>2, WatcherNumbers
<1>4. TrayType'
  BY <1>1, <1>2, <1>3 DEF TrayType, CountsType
<1>5. ASSUME sni.installed
      PROVE  AsksInv' /\ IconInv'
  <2>1. AsksInv /\ IconInv
    BY <1>5 DEF TrayInv
  <2>2. \A x : GetFrom(x) \in ToSet(in') <=> GetFrom(x) \in ToSet(in)
    BY <1>2 DEF GetFrom
  <2>3. AsksInv'
    BY <1>1, <1>2, <1>3, <2>1, <2>2 DEF AsksInv, IconTo
  <2>4. ASSUME NEW x \in alive', items'[x] # NotShown
        PROVE  WillAsk(x)' \/ IconComes(x)'
    <3>1. x \in alive
      BY <1>1, <1>2, <1>3, <2>4 DEF TrayType
    <3>2. WillAsk(x) => WillAsk(x)'
      BY <1>1, <2>2 DEF WillAsk
    <3>3. IconComes(x) => IconComes(x)'
      BY <1>1, IconComesKept DEF TrayType
    <3> QED BY <1>1, <2>1, <2>4, <3>1, <3>2, <3>3 DEF IconInv
  <2> QED BY <2>3, <2>4 DEF IconInv
<1> QED BY <1>1, <1>4, <1>5 DEF TrayInv

LEMMA Routed ==
  ASSUME TrayType, Route
  PROVE  /\ out # <<>> /\ out' = Tail(out) /\ out' \in Seq(OutMessages)
         /\ Head(out) \in OutMessages /\ ToSet(out) = {Head(out)} \cup ToSet(out')
         /\ UNCHANGED <<sni, icon, watcher, alive, counts>> /\ Appeared' = Appeared
<1>1. out # <<>> /\ out' = Tail(out) /\ UNCHANGED <<sni, icon, watcher, alive, counts>>
  BY DEF Route
<1>2. out \in Seq(OutMessages)
  BY DEF TrayType
<1> QED BY <1>1, <1>2, TailElements DEF Appeared

\* Those that are asked to read the icon do.
Readers == {x \in alive : items[x] # NotShown}
Readings == {GetFrom(x) : x \in Readers}

LEMMA ReadingsTold ==
  ASSUME TrayType
  PROVE  /\ in \o SetToSeq(Readings) \in Seq(InMessages)
         /\ SetToSeq(Readings) \in Seq(InMessages)
         /\ ToSet(SetToSeq(Readings)) = Readings
         /\ ToSet(in \o SetToSeq(Readings)) = ToSet(in) \cup Readings
         /\ \A m \in Readings : m.kind = "GetIcon"
<1>1. alive \subseteq 1..MaxWatchers /\ alive \subseteq Nat /\ MaxWatchers \in Nat
  BY WatcherNumbers DEF TrayType
<1>2. IsFiniteSet(Readers)
  <2>1. IsFiniteSet(1..MaxWatchers)
    <3>1. MaxWatchers \in Int /\ 1 \in Int
      BY <1>1
    <3> QED BY <3>1, FS_Interval
  <2>2. Readers \in SUBSET (1..MaxWatchers)
    BY <1>1 DEF Readers
  <2> QED BY <2>1, <2>2, FS_Subset
<1>3. IsFiniteSet(Readings)
  <2> DEFINE T == {GetFrom(x) : x \in Readers}
  <2>1. IsFiniteSet(T)
    <3> DEFINE f == [x \in Readers |-> GetFrom(x)]
    <3>1. f \in Surjection(Readers, T)
      BY DEF Surjection
    <3> QED BY <1>2, <3>1, FS_Surjection
  <2> QED BY <2>1 DEF Readings
<1>4. Readings \subseteq InMessages /\ \A m \in Readings : m.kind = "GetIcon"
  <2>1. ASSUME NEW x \in Readers
        PROVE  GetFrom(x) \in InMessages /\ GetFrom(x).kind = "GetIcon"
    BY <1>1, <2>1, TrayMessages DEF Readers, GetFrom
  <2> QED BY <2>1 DEF Readings
<1>5. SetToSeq(Readings) \in Seq(Readings) /\ ToSet(SetToSeq(Readings)) = Readings
  BY <1>3, SetToSeqElements
<1>6. SetToSeq(Readings) \in Seq(InMessages)
  <2> DEFINE s == SetToSeq(Readings)
  <2>1. s \in Seq(Readings)
    BY <1>5
  <2> HIDE DEF s
  <2> QED BY <1>4, <2>1 DEF s
<1> QED BY <1>4, <1>5, <1>6, ConcatElements DEF TrayType

LEMMA RouteKeepsType ==
  ASSUME TrayType, Route
  PROVE  TrayType'
<1> DEFINE msg == Head(out)
<1>1. /\ out' \in Seq(OutMessages) /\ msg \in OutMessages
      /\ UNCHANGED <<sni, icon, watcher, alive, counts>> /\ Appeared' = Appeared
  BY Routed
<1>2. /\ in \in Seq(InMessages) /\ asked \in [1..MaxWatchers -> Seq(Nat)]
      /\ items \in [1..MaxWatchers -> {NotShown, "idle", "recording"}]
      /\ \A w \in 1..MaxWatchers : w \notin alive => items[w] = NotShown /\ asked[w] = <<>>
  BY DEF TrayType
<1>3. ASSUME in' \in Seq(InMessages) /\ asked' \in [1..MaxWatchers -> Seq(Nat)],
             items' \in [1..MaxWatchers -> {NotShown, "idle", "recording"}],
             \A w \in 1..MaxWatchers : w \notin alive => items'[w] = NotShown /\ asked'[w] = <<>>
      PROVE  TrayType'
  BY <1>1, <1>3 DEF TrayType
<1>4. ASSUME NEW e \in InMessages, in' = Append(in, e), UNCHANGED <<asked, items>>
      PROVE  TrayType'
  BY <1>2, <1>3, <1>4, AppendedElements
<1>5. CASE msg.kind = "RequestName"
  BY <1>4, <1>5, TrayMessages DEF Route
<1>6. CASE msg.kind = "Register" /\ watcher = Nobody
  <2>1. msg.call \in Nat
    BY <1>1, <1>6, MessageFields
  <2>2. in' = Append(in, [kind |-> "Registered", call |-> msg.call, ok |-> FALSE]) /\ UNCHANGED <<asked, items>>
    BY <1>6 DEF Route
  <2> QED BY <1>4, <2>1, <2>2, TrayMessages
<1>7. CASE msg.kind = "Register" /\ watcher # Nobody
  <2>1. msg.call \in Nat /\ watcher \in alive /\ watcher \in 1..MaxWatchers
    BY <1>1, <1>7, MessageFields, WatcherNumbers DEF TrayType
  <2>2. asked' = [asked EXCEPT ![watcher] = Append(asked[watcher], msg.call)] /\ UNCHANGED <<in, items>>
    BY <1>7 DEF Route
  <2>3. Append(asked[watcher], msg.call) \in Seq(Nat)
    BY <1>2, <2>1
  <2> QED BY <1>2, <1>3, <2>1, <2>2, <2>3
<1>8. CASE msg.kind = "NewIcon"
  <2>1. in' = in \o SetToSeq(Readings) /\ UNCHANGED <<asked, items>>
    BY <1>8 DEF Route, Readings, Readers
  <2> QED BY <1>2, <1>3, <2>1, ReadingsTold
<1>9. CASE msg.kind = "Icon"
  <2>1. items' = IF msg.to \in alive THEN [items EXCEPT ![msg.to] = Shows(msg.icon)] ELSE items
    BY <1>9 DEF Route, Shows
  <2>2. UNCHANGED <<asked, in>> /\ Shows(msg.icon) \in {NotShown, "idle", "recording"}
    BY <1>9 DEF Route, Shows
  <2> QED BY <1>2, <1>3, <2>1, <2>2
<1>10. CASE msg.kind = "ReleaseName"
  <2>1. items' = [w \in DOMAIN items |-> NotShown] /\ UNCHANGED <<asked, in>>
    BY <1>10 DEF Route
  <2> QED BY <1>2, <1>3, <2>1
<1> QED BY <1>1, <1>5, <1>6, <1>7, <1>8, <1>9, <1>10, MessageFields

\* What of the queues matters to the icons when a message that is not about them is routed.
LEMMA RouteKeepsIcons ==
  ASSUME TrayInv, Route, sni.installed
  PROVE  AsksInv' /\ IconInv'
<1> DEFINE msg == Head(out)
<1>1. /\ TrayType /\ AsksInv /\ IconInv /\ out \in Seq(OutMessages) /\ in \in Seq(InMessages)
      /\ alive \subseteq Appeared /\ Appeared \subseteq 1..MaxWatchers
  BY WatcherNumbers DEF TrayInv, TrayType
<1>2. /\ out # <<>> /\ out' = Tail(out) /\ msg \in OutMessages
      /\ ToSet(out) = {msg} \cup ToSet(out')
      /\ UNCHANGED <<sni, icon, watcher, alive, counts>> /\ Appeared' = Appeared
  BY <1>1, Routed
<1> HIDE DEF msg
<1>3. ASSUME \A w \in 1..MaxWatchers :
               /\ GetFrom(w) \in ToSet(in') => GetFrom(w) \in ToSet(in) \/ (w \in alive /\ items[w] # NotShown)
               /\ items[w] # NotShown => items'[w] # NotShown
      PROVE  AsksInv'
  <2>1. \A m \in ToSet(out') : m \in ToSet(out)
    BY <1>2
  <2>2. \A w \in 1..MaxWatchers :
          GetFrom(w) \in ToSet(in') \/ (\E m \in ToSet(out') : IconTo(m, w)) =>
            w \in Appeared /\ (w \in alive => items'[w] # NotShown)
    BY <1>1, <1>3, <2>1 DEF AsksInv
  <2> QED BY <1>1, <1>2, <2>1, <2>2 DEF AsksInv, IconTo, GetFrom
<1>4. ASSUME msg.kind # "NewIcon", NEW w, GetFrom(w) \in ToSet(in) => GetFrom(w) \in ToSet(in'), WillAsk(w)
      PROVE  WillAsk(w)'
  BY <1>2, <1>4 DEF WillAsk, GetFrom
<1>5. ASSUME NEW w, items'[w] = items[w], ~IconTo(msg, w), IconComes(w)
      PROVE  IconComes(w)'
  BY <1>1, <1>2, <1>5, IconComesKept DEF msg
<1>6. ASSUME msg.kind \notin {"NewIcon", "Icon"}, items' = items,
             \A w : GetFrom(w) \in ToSet(in') <=> GetFrom(w) \in ToSet(in)
      PROVE  AsksInv' /\ IconInv'
  <2>1. AsksInv'
    BY <1>3, <1>6
  <2>2. \A w \in alive : items[w] # NotShown => WillAsk(w)' \/ IconComes(w)'
    BY <1>1, <1>4, <1>5, <1>6 DEF IconInv, IconTo
  <2> QED BY <1>2, <1>6, <2>1, <2>2 DEF IconInv
<1>7. ASSUME NEW e \in InMessages, e.kind # "GetIcon", in' = Append(in, e)
      PROVE  \A w : GetFrom(w) \in ToSet(in') <=> GetFrom(w) \in ToSet(in)
  <2>1. ToSet(in') = ToSet(in) \cup {e}
    BY <1>1, <1>7, AppendedElements
  <2> QED BY <1>7, <2>1 DEF GetFrom
<1>8. CASE msg.kind = "RequestName"
  <2>1. PICK ok \in BOOLEAN : in' = Append(in, [kind |-> "Name", ok |-> ok]) /\ items' = items
    BY <1>8 DEF Route, msg
  <2> QED BY <1>6, <1>7, <1>8, <2>1, TrayMessages
<1>9. CASE msg.kind = "Register"
  <2>1. msg.call \in Nat
    BY <1>2, <1>9, MessageFields
  <2>2. /\ in' = in \/ in' = Append(in, [kind |-> "Registered", call |-> msg.call, ok |-> FALSE])
        /\ items' = items
    BY <1>9 DEF Route, msg
  <2> QED BY <1>6, <1>7, <1>9, <2>1, <2>2, TrayMessages
<1>10. CASE msg.kind = "NewIcon"
  <2>1. items' = items /\ ToSet(in') = ToSet(in) \cup Readings
    BY <1>1, <1>10, ReadingsTold DEF Route, Readings, Readers, msg
  <2>2. \A w : GetFrom(w) \in Readings <=> w \in Readers
    BY DEF Readings, GetFrom
  <2>3. AsksInv'
    BY <1>3, <2>1, <2>2 DEF Readers
  <2>4. \A w \in alive : items'[w] # NotShown => WillAsk(w)'
    BY <2>1, <2>2 DEF WillAsk, Readers
  <2> QED BY <1>2, <2>3, <2>4 DEF IconInv
<1>11. CASE msg.kind = "Icon"
  <2> DEFINE to == msg.to
  <2>1. items' = IF to \in alive THEN [items EXCEPT ![to] = Shows(msg.icon)] ELSE items
    BY <1>11 DEF Route, Shows, msg
  <2>2. in' = in /\ Shows(msg.icon) # NotShown
    BY <1>11 DEF Route, Shows, NotShown, msg
  <2>3. \A w \in 1..MaxWatchers : (w # to => items'[w] = items[w]) /\ (items[w] # NotShown => items'[w] # NotShown)
    BY <1>1, <2>1, <2>2 DEF TrayType
  <2>4. AsksInv'
    BY <1>3, <2>2, <2>3
  <2>5. ASSUME NEW w \in alive, items'[w] # NotShown
        PROVE  WillAsk(w)' \/ IconComes(w)'
    <3>1. w \in 1..MaxWatchers
      BY <1>1
    <3>2. CASE w # to
      BY <1>1, <1>4, <1>5, <1>11, <2>2, <2>3, <2>5, <3>1, <3>2 DEF IconInv, IconTo
    <3>3. CASE w = to
      <4>1. IconTo(msg, w) /\ msg \in ToSet(out)
        BY <1>2, <1>11, <3>3 DEF IconTo
      <4>2. items[w] # NotShown
        BY <1>1, <3>1, <4>1 DEF AsksInv
      <4>3. items'[w] = Shows(msg.icon)
        BY <1>1, <2>1, <3>1, <3>3 DEF TrayType
      <4>4. IconComes(w) => IconComes(w)'
        BY <1>1, <1>2, <4>1, <4>3, IconComesRead DEF msg
      <4> QED BY <1>1, <1>4, <1>11, <2>2, <4>2, <4>4 DEF IconInv
    <3> QED BY <3>2, <3>3
  <2> QED BY <1>2, <2>4, <2>5 DEF IconInv
<1>12. CASE msg.kind = "ReleaseName"
  BY <1>1, <1>2, <1>12 DEF AsksInv
<1> QED BY <1>2, <1>8, <1>9, <1>10, <1>11, <1>12, MessageFields

LEMMA NextKeepsTrayInv ==
  ASSUME TrayInv, [Next]_vars
  PROVE  TrayInv'
<1>1. ASSUME Route
      PROVE  TrayInv'
  <2>1. TrayType' /\ sni' = sni
    BY <1>1, RouteKeepsType, Routed DEF TrayInv
  <2>2. sni.installed => AsksInv' /\ IconInv'
    BY <1>1, RouteKeepsIcons
  <2> QED BY <2>1, <2>2 DEF TrayInv
<1>2. ASSUME UNCHANGED vars
      PROVE  TrayInv'
  <2>1. UNCHANGED <<sni, icon, out, in, watcher, alive, asked, items, counts>> /\ TrayType
    BY <1>2 DEF vars, TrayInv
  <2>2. TrayType'
    BY <2>1 DEF TrayType, Appeared
  <2>3. sni.installed => AsksInv' /\ IconInv'
    BY <2>1, IconsUntouched DEF TrayInv
  <2> QED BY <2>1, <2>2, <2>3 DEF TrayInv
<1> QED
  BY <1>1, <1>2, ProcessKeepsTrayInv, OtherTrayInv, AnswerKeepsTrayInv, DeathKeepsTrayInv, AppearanceKeepsTrayInv
  DEF Next

\* IconIsCurrent: whenever nothing is under way, every watcher that has the item shows the icon of what scran does,
\* whichever watchers came and went, registered late or refused, and however often recordings started and ended.
THEOREM IconIsAlwaysCurrent == Init /\ [][Next]_vars => [](TrayBounds => IconIsCurrent)
<1>1. Init => (TrayBounds => TrayInv)
  BY InitTrayInv
<1>2. (TrayBounds => TrayInv) /\ [Next]_vars => (TrayBounds => TrayInv)'
  <2> SUFFICES ASSUME TrayBounds, TrayInv, [Next]_vars PROVE TrayInv'
    BY DEF TrayBounds
  <2> QED BY NextKeepsTrayInv
<1>3. TrayInv => IconIsCurrent
  <2> SUFFICES ASSUME TrayInv, out = <<>>, in = <<>>, sni.installed, NEW w \in alive, items[w] # NotShown
               PROVE  items[w] = IF icon THEN "recording" ELSE "idle"
    BY DEF IconIsCurrent, Quiet
  <2>1. DOMAIN out = {} /\ ToSet(out) = {} /\ ToSet(in) = {}
    BY DEF ToSet
  <2>2. IconComes(w)
    BY <2>1 DEF TrayInv, IconInv, WillAsk
  <2> QED BY <2>1, <2>2 DEF IconComes, Shows
<1> QED BY <1>1, <1>2, <1>3, PTL

-----------------------------------------------------------------------------
(* Owners                                                                  *)

LEMMA OwnersTail ==
  ASSUME NEW s \in Seq(InMessages), s # <<>>, NEW w, OwnersTell(s, w)
  PROVE  OwnersTell(Tail(s), w)
<1> DEFINE t == Tail(s)
<1>1. /\ \A i \in DOMAIN t : i \in Nat /\ i + 1 \in DOMAIN s /\ t[i] = s[i + 1] /\ 1 < i + 1
      /\ \A i \in DOMAIN s : i = 1 \/ (i \in Nat /\ i - 1 \in DOMAIN t /\ t[i - 1] = s[i])
  BY TailElements
<1> HIDE DEF t
<1>2. ASSUME NEW i \in DOMAIN t, IsLastOwner(t, i)
      PROVE  IsLastOwner(s, i + 1)
  <2>1. ASSUME NEW j \in DOMAIN s, j > i + 1
        PROVE  s[j].kind # "Owner"
    <3>1. j \in Nat /\ j - 1 \in DOMAIN t /\ t[j - 1] = s[j] /\ i \in Nat
      BY <1>1, <2>1
    <3>2. j - 1 > i
      BY <2>1, <3>1
    <3> QED BY <1>2, <3>1, <3>2 DEF IsLastOwner
  <2> QED BY <1>1, <1>2, <2>1 DEF IsLastOwner
<1>3. OwnersTell(t, w)
  BY <1>1, <1>2 DEF OwnersTell
<1> QED BY <1>3 DEF t

\* If the last owner in a tail is the head, nobody else is told of after it.
LEMMA OwnersHead ==
  ASSUME NEW s \in Seq(InMessages), s # <<>>, NEW w, OwnersTell(s, w), Head(s).kind = "Owner",
         \A m \in ToSet(Tail(s)) : m.kind # "Owner"
  PROVE  Head(s).new = w /\ (Head(s).old # Nobody \/ Head(s).new # Nobody)
<1>1. /\ Head(s) = s[1] /\ 1 \in DOMAIN s
      /\ \A i \in DOMAIN s : i = 1 \/ (i \in Nat /\ i - 1 \in DOMAIN Tail(s) /\ Tail(s)[i - 1] = s[i])
  BY TailElements
<1>2. ASSUME NEW j \in DOMAIN s, j > 1
      PROVE  s[j].kind # "Owner"
  <2>1. ~(j = 1)
    BY <1>2
  <2>2. j - 1 \in DOMAIN Tail(s) /\ Tail(s)[j - 1] = s[j]
    BY <1>1, <2>1
  <2>3. s[j] \in ToSet(Tail(s))
    BY <2>2 DEF ToSet
  <2> QED BY <2>3
<1>3. IsLastOwner(s, 1)
  BY <1>1, <1>2 DEF IsLastOwner
<1> QED BY <1>1, <1>3 DEF OwnersTell

LEMMA OwnersConcat ==
  ASSUME NEW s \in Seq(InMessages), NEW t \in Seq(InMessages), NEW v, NEW w, OwnersTell(s, v),
         \A m \in ToSet(t) : m.kind = "Owner" => m.new = w /\ (m.old # Nobody \/ m.new # Nobody),
         v = w \/ \E m \in ToSet(t) : m.kind = "Owner"
  PROVE  OwnersTell(s \o t, w)
<1> DEFINE u == s \o t
<1>1. /\ \A i \in DOMAIN s : i \in DOMAIN u /\ u[i] = s[i]
      /\ \A i \in DOMAIN t : Len(s) + i \in DOMAIN u /\ u[Len(s) + i] = t[i]
      /\ \A i \in DOMAIN u : i \in DOMAIN s \/ (i \notin DOMAIN s /\ i - Len(s) \in DOMAIN t /\ u[i] = t[i - Len(s)])
      /\ \A i \in DOMAIN s, j \in DOMAIN u : j \notin DOMAIN s => i < j
  BY ConcatElements
<1>2. \A j \in DOMAIN t : Len(s) + j \notin DOMAIN s
  <2>1. Len(s) \in Nat /\ DOMAIN s = 1..Len(s) /\ DOMAIN t = 1..Len(t) /\ Len(t) \in Nat
    OBVIOUS
  <2> QED BY <2>1
<1> HIDE DEF u
<1>3. ASSUME NEW i \in DOMAIN u, i \notin DOMAIN s
      PROVE  u[i] \in ToSet(t)
  BY <1>1, <1>3 DEF ToSet
<1>4. ASSUME NEW i \in DOMAIN s, IsLastOwner(u, i)
      PROVE  u[i].new = w
  <2>1. \A j \in DOMAIN t : t[j].kind # "Owner"
    <3> SUFFICES ASSUME NEW j \in DOMAIN t PROVE t[j].kind # "Owner"
      OBVIOUS
    <3>1. Len(s) + j \in DOMAIN u /\ u[Len(s) + j] = t[j] /\ i < Len(s) + j
      BY <1>1, <1>2
    <3>2. Len(s) + j > i
      BY <3>1
    <3> QED BY <1>4, <3>1, <3>2 DEF IsLastOwner
  <2>2. v = w
    BY <2>1 DEF ToSet
  <2>3. IsLastOwner(s, i)
    BY <1>1, <1>4 DEF IsLastOwner
  <2> QED BY <1>1, <2>2, <2>3 DEF OwnersTell
<1>5. ASSUME NEW i \in DOMAIN u
      PROVE  /\ IsLastOwner(u, i) => u[i].new = w
             /\ u[i].kind = "Owner" => u[i].old # Nobody \/ u[i].new # Nobody
  <2>1. CASE i \in DOMAIN s
    BY <1>1, <1>4, <2>1 DEF OwnersTell
  <2>2. CASE i \notin DOMAIN s
    BY <1>3, <2>2 DEF IsLastOwner
  <2> QED BY <2>1, <2>2
<1>6. OwnersTell(u, w)
  BY <1>5 DEF OwnersTell
<1> QED BY <1>6 DEF u

LEMMA OwnersAppend ==
  ASSUME NEW s \in Seq(InMessages), NEW e \in InMessages, NEW v, NEW w, OwnersTell(s, v),
         IF e.kind = "Owner" THEN e.new = w /\ e.new # Nobody ELSE v = w
  PROVE  OwnersTell(Append(s, e), w)
<1> DEFINE t == <<e>>
<1>1. t \in Seq(InMessages) /\ ToSet(t) = {e} /\ Append(s, e) = s \o t
  BY DEF ToSet
<1> HIDE DEF t
<1>2. OwnersTell(s \o t, w)
  BY <1>1, OwnersConcat
<1> QED BY <1>1, <1>2

-----------------------------------------------------------------------------
(* Calls                                                                   *)

LEMMA CallsTail ==
  ASSUME NEW s \in Seq(OutMessages), s # <<>>, CallsIncrease(s)
  PROVE  /\ CallsIncrease(Tail(s))
         /\ Head(s).kind = "Register" =>
              \A m \in ToSet(Tail(s)) : m.kind = "Register" => Head(s).call < m.call
<1> DEFINE t == Tail(s)
<1>1. /\ \A i \in DOMAIN t : i \in Nat /\ i + 1 \in DOMAIN s /\ t[i] = s[i + 1] /\ 1 < i + 1
      /\ Head(s) = s[1] /\ 1 \in DOMAIN s
  BY TailElements
<1> HIDE DEF t
<1>2. CallsIncrease(t)
  <2> SUFFICES ASSUME NEW i \in DOMAIN t, NEW j \in DOMAIN t,
                      t[i].kind = "Register", t[j].kind = "Register", i < j
               PROVE  t[i].call < t[j].call
    BY DEF CallsIncrease
  <2>1. i + 1 < j + 1
    BY <1>1
  <2> QED BY <1>1, <2>1 DEF CallsIncrease
<1>3. ASSUME Head(s).kind = "Register", NEW j \in DOMAIN t, t[j].kind = "Register"
      PROVE  Head(s).call < t[j].call
  BY <1>1, <1>3 DEF CallsIncrease
<1> QED BY <1>2, <1>3 DEF ToSet, t

LEMMA CallsAppend ==
  ASSUME NEW s \in Seq(OutMessages), NEW e \in OutMessages, CallsIncrease(s),
         e.kind = "Register" => \A m \in ToSet(s) : m.kind = "Register" => m.call < e.call
  PROVE  CallsIncrease(Append(s, e))
<1> DEFINE t == Append(s, e)
           n == Len(s) + 1
<1>1. /\ DOMAIN t = DOMAIN s \cup {n} /\ t[n] = e
      /\ \A i \in DOMAIN s : t[i] = s[i] /\ i \in Nat /\ i < n
      /\ n \in Nat
  BY AppendedElements
<1> HIDE DEF t, n
<1>2. \A i \in DOMAIN s : s[i] \in ToSet(s)
  BY DEF ToSet
<1>3. CallsIncrease(t)
  <2> SUFFICES ASSUME NEW i \in DOMAIN t, NEW j \in DOMAIN t,
                      t[i].kind = "Register", t[j].kind = "Register", i < j
               PROVE  t[i].call < t[j].call
    BY DEF CallsIncrease
  <2>1. i \in DOMAIN s
    BY <1>1
  <2>2. CASE j \in DOMAIN s
    BY <1>1, <2>1, <2>2 DEF CallsIncrease
  <2>3. CASE j = n
    BY <1>1, <1>2, <2>1, <2>3
  <2> QED BY <1>1, <2>2, <2>3
<1> QED BY <1>3 DEF t

LEMMA IncreasingTail ==
  ASSUME NEW s \in Seq(Nat), s # <<>>, Increasing(s)
  PROVE  Increasing(Tail(s)) /\ \A c \in ToSet(Tail(s)) : Head(s) < c
<1> DEFINE t == Tail(s)
<1>1. /\ \A i \in DOMAIN t : i \in Nat /\ i + 1 \in DOMAIN s /\ t[i] = s[i + 1] /\ 1 < i + 1
      /\ Head(s) = s[1] /\ 1 \in DOMAIN s
  BY TailElements
<1> HIDE DEF t
<1>2. Increasing(t)
  <2> SUFFICES ASSUME NEW i \in DOMAIN t, NEW j \in DOMAIN t, i < j
               PROVE  t[i] < t[j]
    BY DEF Increasing
  <2>1. i + 1 < j + 1
    BY <1>1
  <2> QED BY <1>1, <2>1 DEF Increasing
<1>3. \A j \in DOMAIN t : Head(s) < t[j]
  BY <1>1 DEF Increasing
<1> QED BY <1>2, <1>3 DEF ToSet, t

LEMMA IncreasingAppend ==
  ASSUME NEW s \in Seq(Nat), NEW c \in Nat, Increasing(s), \A d \in ToSet(s) : d < c
  PROVE  Increasing(Append(s, c))
<1> DEFINE t == Append(s, c)
           n == Len(s) + 1
<1>1. /\ DOMAIN t = DOMAIN s \cup {n} /\ t[n] = c
      /\ \A i \in DOMAIN s : t[i] = s[i] /\ i \in Nat /\ i < n
      /\ n \in Nat
  BY AppendedElements
<1> HIDE DEF t, n
<1>2. \A i \in DOMAIN s : s[i] \in ToSet(s)
  BY DEF ToSet
<1>3. Increasing(t)
  <2> SUFFICES ASSUME NEW i \in DOMAIN t, NEW j \in DOMAIN t, i < j
               PROVE  t[i] < t[j]
    BY DEF Increasing
  <2>1. i \in DOMAIN s
    BY <1>1
  <2>2. CASE j \in DOMAIN s
    BY <1>1, <2>1, <2>2 DEF Increasing
  <2>3. CASE j = n
    BY <1>1, <1>2, <2>1, <2>3
  <2> QED BY <1>1, <2>2, <2>3
<1> QED BY <1>3 DEF t

-----------------------------------------------------------------------------
(* Registrations                                                           *)

Registration == TrayType /\ sni.installed /\ AsksInv /\ NameInv /\ OwnersInv /\ CallsInv /\ OutcomeInv

\* Steps that make no call and pass none on to a watcher.
LEMMA CallsKept ==
  ASSUME TrayType, CallsInv, sni'.call \in {NoCall, sni.call}, counts'.calls = counts.calls, asked' = asked,
         \/ out' = out
         \/ out # <<>> /\ out' = Tail(out)
         \/ \E e \in OutMessages : e.kind # "Register" /\ out' = Append(out, e),
         \A m \in ToSet(in') : m.kind = "Registered" => m \in ToSet(in) \/ m.call \in 1..counts.calls
  PROVE  CallsInv'
<1>1. out \in Seq(OutMessages)
  BY DEF TrayType
<1>2. CallsIncrease(out') /\ \A m \in ToSet(out') : m.kind = "Register" => m \in ToSet(out)
  <2>1. CASE out' = out
    BY <2>1 DEF CallsInv
  <2>2. CASE out # <<>> /\ out' = Tail(out)
    BY <1>1, <2>2, CallsTail, TailElements DEF CallsInv
  <2>3. ASSUME NEW e \in OutMessages, e.kind # "Register", out' = Append(out, e)
        PROVE  CallsIncrease(out') /\ \A m \in ToSet(out') : m.kind = "Register" => m \in ToSet(out)
    BY <1>1, <2>3, CallsAppend, AppendedElements DEF CallsInv
  <2> QED BY <2>1, <2>2, <2>3
<1> QED BY <1>2 DEF CallsInv

\* Steps that change nothing of a registration's outcome.
LEMMA OutcomeKept ==
  ASSUME OutcomeInv, sni'.named => sni.named, sni'.call = sni.call, sni'.registered = sni.registered,
         watcher' = watcher, HasHeard' => HasHeard, Settled => Settled', IsShown' <=> IsShown,
         \A m \in ToSet(in') : m.kind = "Registered" /\ m.call = sni.call => m \in ToSet(in),
         \A w \in 1..MaxWatchers : sni.call \in ToSet(asked'[w]) => sni.call \in ToSet(asked[w])
  PROVE  OutcomeInv'
BY DEF OutcomeInv

\* Whoever registers anew awaits the reply to a call that nobody has yet.
LEMMA RegistersAnew ==
  ASSUME Registration, NEW state \in SniType, state.named, RegisterWithWatcher(state),
         in # <<>>, in' = Tail(in), UNCHANGED <<icon, watcher, alive, asked, items>>
  PROVE  RegistrationInv'
<1>1. TrayType /\ OwnersInv /\ CallsInv /\ in \in Seq(InMessages) /\ out \in Seq(OutMessages)
  BY DEF Registration, TrayType
<1>2. /\ sni'.call = counts.calls + 1 /\ sni'.named
      /\ NewCall \in OutMessages /\ NewCall.kind = "Register" /\ NewCall.call = counts.calls + 1
      /\ out' = Append(out, NewCall) /\ counts'.calls = counts.calls + 1
  BY <1>1, RegistersOnce
<1>3. counts.calls \in Nat
  BY <1>1 DEF TrayType
<1>4. ToSet(out') = ToSet(out) \cup {NewCall} /\ ToSet(in') \subseteq ToSet(in)
  BY <1>1, <1>2, AppendedElements, TailElements
<1>5. NameInv' /\ OwnersInv'
  BY <1>1, <1>2, OwnersTail DEF NameInv, OwnersInv
<1>6. CallsIncrease(out')
  <2>1. \A m \in ToSet(out) : m.kind = "Register" => m.call < NewCall.call
    BY <1>1, <1>2, <1>3 DEF CallsInv
  <2> QED BY <1>1, <1>2, <2>1, CallsAppend DEF CallsInv
<1> HIDE DEF NewCall
<1>7. CallsInv'
  <2>1. \A m \in ToSet(out') : m.kind = "Register" => m.call \in 1..counts'.calls
    BY <1>1, <1>2, <1>3, <1>4 DEF CallsInv
  <2>2. \A m \in ToSet(in') : m.kind = "Registered" => m.call \in 1..counts'.calls
    BY <1>1, <1>2, <1>3, <1>4 DEF CallsInv
  <2>3. ASSUME NEW w \in 1..MaxWatchers, NEW c \in ToSet(asked[w])
        PROVE  c \in 1..counts'.calls /\ \A m \in ToSet(out') : m.kind = "Register" => c < m.call
    <3>1. c \in 1..counts.calls /\ \A m \in ToSet(out) : m.kind = "Register" => c < m.call
      BY <1>1 DEF CallsInv
    <3>2. c < NewCall.call
      BY <1>2, <1>3, <3>1
    <3> QED BY <1>2, <1>3, <1>4, <3>1, <3>2
  <2>4. \A w \in 1..MaxWatchers : Increasing(asked[w])
    BY <1>1 DEF CallsInv
  <2> QED BY <1>2, <1>6, <2>1, <2>2, <2>3, <2>4 DEF CallsInv
<1>8. OutcomeInv'
  <2>1. \A m \in ToSet(in') : m.kind = "Registered" => m.call # sni'.call
    BY <1>1, <1>2, <1>3, <1>4 DEF CallsInv
  <2>2. ASSUME NEW w \in 1..MaxWatchers
        PROVE  sni'.call \notin ToSet(asked'[w])
    <3>1. \A c \in ToSet(asked[w]) : c \in 1..counts.calls
      BY <1>1 DEF CallsInv
    <3> QED BY <1>2, <1>3, <3>1
  <2>3. sni'.call # NoCall
    BY <1>2, <1>3 DEF NoCall
  <2> QED BY <2>1, <2>2, <2>3 DEF OutcomeInv
<1> QED BY <1>5, <1>7, <1>8 DEF RegistrationInv

LEMMA HeardOfOwners ==
  ASSUME Registration, NameOwnerChanged
  PROVE  RegistrationInv'
<1>1. TrayType /\ sni.installed /\ OwnersInv /\ CallsInv /\ NameInv /\ OutcomeInv /\ in \in Seq(InMessages)
  BY DEF Registration, TrayType
<1> DEFINE lost == OwnerLost(sni, Head(in).old)
<1>2. /\ in # <<>> /\ in' = Tail(in) /\ Head(in).kind = "Owner"
      /\ UNCHANGED <<icon, watcher, alive, asked, items>>
      /\ \/ RegistersAt(Head(in).old, Head(in).new) /\ RegisterWithWatcher(lost)
         \/ ~RegistersAt(Head(in).old, Head(in).new) /\ sni' = lost /\ UNCHANGED <<out, counts>>
  BY <1>1 DEF NameOwnerChanged
<1>3. /\ lost \in SniType /\ lost.named = sni.named
      /\ IF Head(in).old = Nobody THEN lost = sni ELSE lost.registered = FALSE /\ lost.call = NoCall
  BY <1>1, OwnerLostState
<1> HIDE DEF lost
<1>4. ToSet(in) = {Head(in)} \cup ToSet(in')
  BY <1>1, <1>2, TailElements
<1>5. CASE RegistersAt(Head(in).old, Head(in).new) /\ RegisterWithWatcher(lost)
  BY <1>2, <1>3, <1>5, RegistersAnew DEF RegistersAt
<1>6. CASE ~RegistersAt(Head(in).old, Head(in).new) /\ sni' = lost /\ UNCHANGED <<out, counts>>
  <2>1. sni'.named = sni.named /\ sni'.call \in {NoCall, sni.call}
    BY <1>3, <1>6
  <2>2. CallsInv'
    BY <1>1, <1>2, <1>4, <1>6, <2>1, CallsKept
  <2>3. NameInv'
    BY <1>1, <1>2, <1>4, <1>6, <2>1 DEF NameInv
  <2>4. OwnersInv'
    BY <1>1, <1>2, OwnersTail DEF OwnersInv
  <2>5. ASSUME HasHeard', sni'.named
        PROVE  watcher = Nobody /\ sni'.call = NoCall /\ ~sni'.registered
    <3>1. Head(in).new = watcher /\ (Head(in).old # Nobody \/ Head(in).new # Nobody)
      BY <1>1, <1>2, <2>5, OwnersHead DEF OwnersInv, HasHeard
    <3> QED BY <1>3, <1>6, <2>1, <2>5, <3>1 DEF RegistersAt
  <2>6. \A m \in ToSet(in') : m.kind = "Registered" => m.call # NoCall
    BY <2>2 DEF CallsInv, NoCall
  <2>7. OutcomeInv'
    BY <1>2, <2>5, <2>6 DEF OutcomeInv, Settled, IsShown
  <2> QED BY <2>2, <2>3, <2>4, <2>7 DEF RegistrationInv
<1> QED BY <1>2, <1>5, <1>6

LEMMA HeardOfRegistration ==
  ASSUME Registration, ReplyRegister
  PROVE  RegistrationInv'
<1>1. TrayType /\ sni.installed /\ OwnersInv /\ CallsInv /\ NameInv /\ OutcomeInv /\ in \in Seq(InMessages)
  BY DEF Registration, TrayType
<1>2. /\ in # <<>> /\ in' = Tail(in) /\ Head(in).kind = "Registered"
      /\ UNCHANGED <<icon, out, watcher, alive, asked, items, counts>>
      /\ sni' = IF sni.call = Head(in).call THEN [sni EXCEPT !.registered = Head(in).ok, !.call = NoCall] ELSE sni
  BY DEF ReplyRegister, IsAwaited
<1>3. ToSet(in) = {Head(in)} \cup ToSet(in') /\ Head(in) \in InMessages /\ Head(in) \in ToSet(in)
  BY <1>1, <1>2, TailElements
<1>4. Head(in).ok \in BOOLEAN
  BY <1>2, <1>3, MessageFields
<1>5. sni'.named = sni.named /\ (sni' = sni \/ sni'.call = NoCall)
  BY <1>1, <1>2, <1>4, RepliedState
<1>6. CallsInv'
  BY <1>1, <1>2, <1>3, <1>5, CallsKept
<1>7. NameInv'
  BY <1>1, <1>2, <1>3, <1>5 DEF NameInv
<1>8. OwnersInv'
  BY <1>1, <1>2, OwnersTail DEF OwnersInv
<1>9. OutcomeInv'
  <2>1. HasHeard' => HasHeard
    BY <1>2, <1>3 DEF HasHeard
  <2>2. (Settled' <=> Settled) /\ (IsShown' <=> IsShown)
    BY <1>2 DEF Settled, IsShown
  <2>3. CASE sni.call = Head(in).call
    <3>1. sni'.registered = Head(in).ok /\ sni'.call = NoCall
      BY <1>1, <1>2, <1>4, <2>3, RepliedState
    <3>2. \A m \in ToSet(in') : m.kind = "Registered" => m.call # NoCall
      BY <1>6 DEF CallsInv, NoCall
    <3>3. HasHeard /\ sni.named => Settled /\ (Head(in).ok <=> IsShown)
      BY <1>1, <1>2, <1>3, <2>3 DEF OutcomeInv
    <3> QED BY <1>5, <2>1, <2>2, <3>1, <3>2, <3>3 DEF OutcomeInv
  <2>4. CASE sni.call # Head(in).call
    BY <1>1, <1>2, <1>3, <2>1, <2>2, <2>4, OutcomeKept
  <2> QED BY <2>3, <2>4
<1> QED BY <1>6, <1>7, <1>8, <1>9 DEF RegistrationInv

LEMMA ProcessKeepsRegistration ==
  ASSUME Registration, Process
  PROVE  RegistrationInv'
<1>1. TrayType /\ sni.installed /\ OwnersInv /\ CallsInv /\ NameInv /\ OutcomeInv /\ in \in Seq(InMessages)
  BY DEF Registration, TrayType
<1>2. CASE ReplyRequestName
  <2>1. /\ in # <<>> /\ in' = Tail(in) /\ UNCHANGED <<icon, watcher, alive, asked, items>>
        /\ \/ RegisterWithWatcher([sni EXCEPT !.named = TRUE])
           \/ sni' = Off
    BY <1>1, <1>2 DEF ReplyRequestName, TrayDestroyed
  <2> QED BY <1>1, <2>1, NamedState, RegistersAnew DEF RegistrationInv
<1>3. CASE GetIcon
  <2> DEFINE answer == [kind |-> "Icon", to |-> Head(in).from, icon |-> icon]
  <2>1. /\ in # <<>> /\ in' = Tail(in) /\ Head(in).kind = "GetIcon"
        /\ UNCHANGED <<sni, icon, watcher, alive, asked, items, counts>>
        /\ out' = Append(out, answer)
    BY <1>1, <1>3 DEF GetIcon
  <2>2. ToSet(in) = {Head(in)} \cup ToSet(in') /\ Head(in) \in InMessages
    BY <1>1, <2>1, TailElements
  <2>3. answer \in OutMessages /\ answer.kind = "Icon"
    BY <1>1, <2>1, <2>2, MessageFields, TrayMessages DEF TrayType
  <2> HIDE DEF answer
  <2>4. ToSet(out') = ToSet(out) \cup {answer}
    BY <1>1, <2>1, <2>3, AppendedElements DEF TrayType
  <2>5. CallsInv'
    BY <1>1, <2>1, <2>2, <2>3, CallsKept
  <2>6. NameInv' /\ OwnersInv'
    BY <1>1, <2>1, <2>2, <2>4, OwnersTail DEF NameInv, OwnersInv
  <2>7. (HasHeard' => HasHeard) /\ (Settled => Settled') /\ (IsShown' <=> IsShown)
    BY <2>1, <2>2, <2>3, <2>4 DEF HasHeard, Settled, IsShown
  <2>8. OutcomeInv'
    BY <1>1, <2>1, <2>2, <2>7, OutcomeKept
  <2> QED BY <2>5, <2>6, <2>8 DEF RegistrationInv
<1> QED BY <1>2, <1>3, HeardOfOwners, HeardOfRegistration DEF Process

LEMMA RouteKeepsRegistration ==
  ASSUME Registration, Route
  PROVE  RegistrationInv'
<1> DEFINE msg == Head(out)
<1>1. /\ TrayType /\ sni.installed /\ OwnersInv /\ CallsInv /\ NameInv /\ OutcomeInv /\ AsksInv
      /\ in \in Seq(InMessages) /\ out \in Seq(OutMessages)
  BY DEF Registration, TrayType
<1>2. /\ out # <<>> /\ out' = Tail(out) /\ msg \in OutMessages
      /\ ToSet(out) = {msg} \cup ToSet(out') /\ msg \in ToSet(out)
      /\ UNCHANGED <<sni, icon, watcher, alive, counts>>
  BY <1>1, Routed
<1>3. ASSUME NEW e \in InMessages, e.kind # "Owner", in' = Append(in, e)
      PROVE  /\ ToSet(in') = ToSet(in) \cup {e} /\ OwnersInv' /\ (HasHeard' <=> HasHeard)
  <2>1. ToSet(in') = ToSet(in) \cup {e}
    BY <1>1, <1>3, AppendedElements
  <2>2. OwnersInv'
    BY <1>1, <1>2, <1>3, OwnersAppend DEF OwnersInv
  <2> QED BY <1>3, <2>1, <2>2 DEF HasHeard
<1>4. ASSUME msg.kind # "RequestName", ToSet(in) \subseteq ToSet(in')
      PROVE  NameInv'
  BY <1>1, <1>2, <1>4 DEF NameInv
<1>5. ASSUME UNCHANGED <<asked, items>>
      PROVE  (Settled => Settled') /\ (IsShown' <=> IsShown)
  BY <1>2, <1>5 DEF Settled, IsShown
<1>6. CASE msg.kind = "RequestName"
  <2>1. PICK ok \in BOOLEAN : in' = Append(in, [kind |-> "Name", ok |-> ok]) /\ UNCHANGED <<asked, items>>
    BY <1>6 DEF Route
  <2> DEFINE e == [kind |-> "Name", ok |-> ok]
  <2>2. e \in InMessages /\ e.kind = "Name" /\ in' = Append(in, e)
    BY <2>1, TrayMessages
  <2> HIDE DEF e
  <2>3. ToSet(in') = ToSet(in) \cup {e} /\ OwnersInv' /\ (HasHeard' <=> HasHeard)
    BY <1>3, <2>2
  <2>4. NameInv'
    BY <1>1, <1>2, <2>2, <2>3 DEF NameInv
  <2>5. CallsInv'
    BY <1>1, <1>2, <2>1, <2>2, <2>3, CallsKept
  <2>6. OutcomeInv'
    BY <1>1, <1>2, <1>5, <2>1, <2>2, <2>3, OutcomeKept
  <2> QED BY <2>3, <2>4, <2>5, <2>6 DEF RegistrationInv
<1>7. CASE msg.kind = "Register" /\ watcher = Nobody
  <2> DEFINE e == [kind |-> "Registered", call |-> msg.call, ok |-> FALSE]
  <2>1. in' = Append(in, e) /\ UNCHANGED <<asked, items>>
    BY <1>7 DEF Route
  <2>2. e \in InMessages /\ e.kind = "Registered" /\ ~e.ok /\ e.call \in 1..counts.calls
    BY <1>1, <1>2, <1>7, MessageFields, TrayMessages DEF CallsInv
  <2> HIDE DEF e
  <2>3. ToSet(in') = ToSet(in) \cup {e} /\ OwnersInv' /\ (HasHeard' <=> HasHeard)
    BY <1>3, <2>1, <2>2
  <2>4. NameInv'
    BY <1>4, <1>7, <2>3
  <2>5. CallsInv'
    BY <1>1, <1>2, <2>1, <2>2, <2>3, CallsKept
  <2>6. ~IsShown' /\ ~IsShown /\ Settled'
    BY <1>2, <1>7 DEF Settled, IsShown
  <2>7. OutcomeInv'
    BY <1>1, <1>2, <2>1, <2>2, <2>3, <2>6 DEF OutcomeInv
  <2> QED BY <2>3, <2>4, <2>5, <2>7 DEF RegistrationInv
<1>8. CASE msg.kind = "Register" /\ watcher # Nobody
  <2>1. asked' = [asked EXCEPT ![watcher] = Append(@, msg.call)] /\ in' = in /\ items' = items
    BY <1>8 DEF Route
  <2>2. NameInv' /\ OwnersInv'
    BY <1>1, <1>2, <1>4, <1>8, <2>1 DEF OwnersInv
  <2>3. msg.call \in Nat /\ msg.call \in 1..counts.calls
    BY <1>1, <1>2, <1>8, MessageFields DEF CallsInv
  <2>4. /\ CallsIncrease(out')
        /\ \A m \in ToSet(out') : m.kind = "Register" => msg.call < m.call /\ m \in ToSet(out)
    BY <1>1, <1>2, <1>8, CallsTail DEF CallsInv
  <2>5. watcher \in 1..MaxWatchers /\ asked[watcher] \in Seq(Nat)
    BY <1>1, <1>8, WatcherNumbers DEF TrayType, Appeared
  <2>6. /\ \A w \in 1..MaxWatchers : w # watcher => asked'[w] = asked[w]
        /\ asked'[watcher] = Append(asked[watcher], msg.call)
    BY <1>1, <2>1, <2>5 DEF TrayType
  <2>7. ToSet(asked'[watcher]) = ToSet(asked[watcher]) \cup {msg.call}
    BY <2>3, <2>5, <2>6, AppendedElements
  <2>8. \A w \in 1..MaxWatchers : Increasing(asked'[w])
    <3>1. \A c \in ToSet(asked[watcher]) : c < msg.call
      BY <1>1, <1>2, <1>8, <2>5 DEF CallsInv
    <3>2. Increasing(asked'[watcher])
      BY <1>1, <2>3, <2>5, <2>6, <3>1, IncreasingAppend DEF CallsInv
    <3> QED BY <1>1, <2>6, <3>2 DEF CallsInv
  <2>9. ASSUME NEW w \in 1..MaxWatchers, NEW c \in ToSet(asked'[w])
        PROVE  c \in 1..counts.calls /\ \A m \in ToSet(out') : m.kind = "Register" => c < m.call
    <3>1. c \in ToSet(asked[w]) \/ c = msg.call
      BY <2>6, <2>7, <2>9
    <3> QED BY <1>1, <2>3, <2>4, <3>1 DEF CallsInv
  <2>10. CallsInv'
    <3>1. \A m \in ToSet(out') : m.kind = "Register" => m.call \in 1..counts.calls
      BY <1>1, <2>4 DEF CallsInv
    <3> QED BY <1>1, <1>2, <2>1, <2>4, <2>8, <2>9, <3>1 DEF CallsInv
  <2>11. OutcomeInv'
    <3>1. ~Settled
      BY <1>2, <1>8 DEF Settled
    <3>2. HasHeard' <=> HasHeard
      BY <2>1 DEF HasHeard
    <3>3. \A w \in 1..MaxWatchers : sni.call \in ToSet(asked'[w]) => w = watcher \/ sni.call \in ToSet(asked[w])
      BY <2>6
    <3> QED BY <1>1, <1>2, <2>1, <3>1, <3>2, <3>3 DEF OutcomeInv
  <2> QED BY <2>2, <2>10, <2>11 DEF RegistrationInv
<1>9. CASE msg.kind = "NewIcon"
  <2>1. in' = in \o SetToSeq(Readings) /\ UNCHANGED <<asked, items>>
    BY <1>9 DEF Route, Readings, Readers
  <2>2. /\ SetToSeq(Readings) \in Seq(InMessages) /\ ToSet(SetToSeq(Readings)) = Readings
        /\ ToSet(in') = ToSet(in) \cup Readings /\ \A m \in Readings : m.kind = "GetIcon"
    BY <1>1, <2>1, ReadingsTold
  <2>3. OwnersInv'
    BY <1>1, <1>2, <2>1, <2>2, OwnersConcat DEF OwnersInv
  <2>4. NameInv'
    BY <1>4, <1>9, <2>2
  <2>5. CallsInv'
    BY <1>1, <1>2, <2>1, <2>2, CallsKept
  <2>6. HasHeard' <=> HasHeard
    BY <2>2 DEF HasHeard
  <2>7. OutcomeInv'
    BY <1>1, <1>2, <1>5, <2>1, <2>2, <2>6, OutcomeKept
  <2> QED BY <2>3, <2>4, <2>5, <2>7 DEF RegistrationInv
<1>10. CASE msg.kind = "Icon"
  <2>1. /\ items' = IF msg.to \in alive THEN [items EXCEPT ![msg.to] = Shows(msg.icon)] ELSE items
        /\ UNCHANGED <<asked, in>>
    BY <1>10 DEF Route, Shows
  <2>2. Shows(msg.icon) # NotShown
    BY DEF Shows, NotShown
  <2>3. msg.to \in alive => items[msg.to] # NotShown
    BY <1>1, <1>2, <1>10, WatcherNumbers DEF AsksInv, IconTo
  <2>4. IsShown' <=> IsShown
    <3>1. CASE watcher = Nobody
      BY <1>2, <3>1 DEF IsShown
    <3>2. CASE watcher # Nobody
      <4>1. watcher \in 1..MaxWatchers
        BY <1>1, <3>2, WatcherNumbers DEF TrayType
      <4>2. (items'[watcher] # NotShown) <=> (items[watcher] # NotShown)
        BY <1>1, <2>1, <2>2, <2>3, <4>1 DEF TrayType
      <4> QED BY <1>2, <4>2 DEF IsShown
    <3> QED BY <3>1, <3>2
  <2>5. NameInv' /\ OwnersInv'
    BY <1>1, <1>2, <1>4, <1>10, <2>1 DEF OwnersInv
  <2>6. CallsInv'
    BY <1>1, <1>2, <2>1, CallsKept
  <2>7. (HasHeard' <=> HasHeard) /\ (Settled => Settled')
    BY <1>2, <2>1 DEF HasHeard, Settled
  <2>8. OutcomeInv'
    BY <1>1, <1>2, <2>1, <2>4, <2>7, OutcomeKept
  <2> QED BY <2>5, <2>6, <2>8 DEF RegistrationInv
<1>11. CASE msg.kind = "ReleaseName"
  BY <1>1, <1>2, <1>11 DEF AsksInv
<1> QED BY <1>2, <1>6, <1>7, <1>8, <1>9, <1>10, <1>11, MessageFields

LEMMA AnswerKeepsRegistration ==
  ASSUME Registration, NEW w \in alive, Answer(w)
  PROVE  RegistrationInv'
<1> DEFINE call == Head(asked[w])
           reply(ok) == [kind |-> "Registered", call |-> call, ok |-> ok]
           reading(ok) == IF ok THEN <<GetFrom(w)>> ELSE <<>>
<1>1. /\ TrayType /\ sni.installed /\ OwnersInv /\ CallsInv /\ NameInv /\ OutcomeInv
      /\ in \in Seq(InMessages) /\ out \in Seq(OutMessages) /\ counts.calls \in Nat
  BY DEF Registration, TrayType
<1>2. w \in 1..MaxWatchers /\ w # Nobody /\ w \in Nat /\ asked[w] \in Seq(Nat) /\ watcher \in Nat
  BY <1>1, WatcherNumbers DEF TrayType
<1>3. PICK ok \in BOOLEAN :
        /\ ~ok => items[w] = NotShown
        /\ in' = Append(in, reply(ok)) \o reading(ok)
        /\ items' = IF ok /\ items[w] = NotShown THEN [items EXCEPT ![w] = "idle"] ELSE items
  BY DEF Answer
<1>4. /\ asked[w] # <<>> /\ asked' = [asked EXCEPT ![w] = Tail(@)]
      /\ UNCHANGED <<sni, icon, out, watcher, alive, counts>>
  BY DEF Answer
<1>5. /\ ToSet(asked[w]) = {call} \cup ToSet(asked'[w]) /\ Increasing(asked'[w])
      /\ \A c \in ToSet(asked'[w]) : call < c
      /\ \A v \in 1..MaxWatchers : v # w => asked'[v] = asked[v]
  <2>1. asked'[w] = Tail(asked[w]) /\ \A v \in 1..MaxWatchers : v # w => asked'[v] = asked[v]
    BY <1>1, <1>2, <1>4 DEF TrayType
  <2> QED BY <1>1, <1>2, <1>4, <2>1, TailElements, IncreasingTail DEF CallsInv
<1>6. call \in 1..counts.calls /\ call \in Nat /\ \A m \in ToSet(out) : m.kind = "Register" => call < m.call
  <2>1. call \in ToSet(asked[w])
    BY <1>5
  <2>2. \A c \in ToSet(asked[w]) : c \in 1..counts.calls /\ \A m \in ToSet(out) : m.kind = "Register" => c < m.call
    BY <1>1, <1>2 DEF CallsInv
  <2>3. call \in 1..counts.calls /\ \A m \in ToSet(out) : m.kind = "Register" => call < m.call
    BY <2>1, <2>2
  <2> QED BY <1>1, <2>3
<1> HIDE DEF call
<1>7. reply(ok) \in InMessages /\ reply(ok).kind = "Registered" /\ reply(ok).call = call /\ reply(ok).ok = ok
  BY <1>6, TrayMessages
<1> HIDE DEF reply
<1>8. /\ reading(ok) \in Seq(InMessages)
      /\ \A m \in ToSet(reading(ok)) : m.kind = "GetIcon"
  <2>1. GetFrom(w) \in InMessages /\ GetFrom(w).kind = "GetIcon"
    BY <1>2, TrayMessages DEF GetFrom
  <2> QED BY <2>1 DEF ToSet
<1> HIDE DEF reading
<1>9. /\ Append(in, reply(ok)) \in Seq(InMessages)
      /\ ToSet(in') = ToSet(in) \cup {reply(ok)} \cup ToSet(reading(ok))
  <2>1. Append(in, reply(ok)) \in Seq(InMessages) /\ ToSet(Append(in, reply(ok))) = ToSet(in) \cup {reply(ok)}
    BY <1>1, <1>7, AppendedElements
  <2> QED BY <1>3, <1>8, <2>1, ConcatElements
<1>10. OwnersInv'
  <2>1. OwnersTell(Append(in, reply(ok)), watcher)
    BY <1>1, <1>7, OwnersAppend DEF OwnersInv
  <2> QED BY <1>3, <1>4, <1>8, <1>9, <2>1, OwnersConcat DEF OwnersInv
<1>11. NameInv'
  BY <1>1, <1>4, <1>9 DEF NameInv
<1>12. CallsInv'
  <2>1. \A m \in ToSet(in') : m.kind = "Registered" => m.call \in 1..counts.calls
    BY <1>1, <1>6, <1>7, <1>8, <1>9 DEF CallsInv
  <2>2. \A v \in 1..MaxWatchers : Increasing(asked'[v]) /\ ToSet(asked'[v]) \subseteq ToSet(asked[v])
    BY <1>1, <1>5 DEF CallsInv
  <2> QED BY <1>1, <1>4, <2>1, <2>2 DEF CallsInv
<1>13. OutcomeInv'
  <2> SUFFICES ASSUME HasHeard', sni.named
               PROVE  /\ sni.call = NoCall => Settled' /\ (sni.registered <=> IsShown')
                      /\ \A m \in ToSet(in') :
                           m.kind = "Registered" /\ m.call = sni.call => Settled' /\ (m.ok <=> IsShown')
                      /\ sni.call # NoCall => \A v \in 1..MaxWatchers : sni.call \in ToSet(asked'[v]) => v = watcher
    BY <1>4 DEF OutcomeInv
  <2>1. HasHeard
    BY <1>9 DEF HasHeard
  <2>2. Settled => w # watcher
    BY <1>2, <1>4 DEF Settled
  <2>3. w # watcher => (Settled => Settled') /\ (IsShown' <=> IsShown)
    <3> SUFFICES ASSUME w # watcher
                 PROVE  (Settled => Settled') /\ (IsShown' <=> IsShown)
      OBVIOUS
    <3>1. CASE watcher = Nobody
      BY <1>4, <3>1 DEF Settled, IsShown
    <3>2. CASE watcher # Nobody
      <4>1. watcher \in 1..MaxWatchers
        BY <1>1, <3>2, WatcherNumbers DEF TrayType
      <4>2. asked'[watcher] = asked[watcher] /\ items'[watcher] = items[watcher]
        BY <1>1, <1>3, <1>5, <4>1 DEF TrayType
      <4> QED BY <1>4, <4>2 DEF Settled, IsShown
    <3> QED BY <3>1, <3>2
  <2>4. sni.call = NoCall => Settled' /\ (sni.registered <=> IsShown')
    BY <1>1, <2>1, <2>2, <2>3 DEF OutcomeInv
  <2>5. ASSUME NEW m \in ToSet(in'), m.kind = "Registered", m.call = sni.call
        PROVE  Settled' /\ (m.ok <=> IsShown')
    <3>1. CASE m \in ToSet(in)
      BY <1>1, <2>1, <2>2, <2>3, <2>5, <3>1 DEF OutcomeInv
    <3>2. CASE m = reply(ok)
      <4>1. sni.call = call /\ sni.call # NoCall
        BY <1>6, <1>7, <2>5, <3>2 DEF NoCall
      <4>2. w = watcher /\ call = counts.calls
        BY <1>1, <1>2, <1>5, <2>1, <4>1 DEF OutcomeInv, CallsInv
      <4>3. ToSet(asked'[w]) = {}
        <5>1. \A c \in ToSet(asked[w]) : c \in 1..counts.calls
          BY <1>1, <1>2 DEF CallsInv
        <5>2. \A c \in ToSet(asked'[w]) : c \in 1..counts.calls /\ counts.calls < c
          BY <1>5, <4>2, <5>1
        <5> QED BY <1>1, <5>2
      <4>4. asked'[w] = <<>>
        <5>1. asked'[w] \in Seq(Nat)
          BY <1>1, <1>2, <1>4, TailElements DEF TrayType
        <5>2. asked'[w] # <<>> => ToSet(asked'[w]) = {Head(asked'[w])} \cup ToSet(Tail(asked'[w]))
          <6> DEFINE left == asked'[w]
          <6>1. left \in Seq(Nat)
            BY <5>1
          <6> HIDE DEF left
          <6>2. left # <<>> => ToSet(left) = {Head(left)} \cup ToSet(Tail(left))
            BY <6>1, TailElements
          <6> QED BY <6>2 DEF left
        <5> QED BY <4>3, <5>2
      <4>5. \A o \in ToSet(out) : o.kind # "Register"
        BY <1>1, <1>6, <4>2 DEF CallsInv
      <4>6. Settled'
        BY <1>4, <4>2, <4>4, <4>5 DEF Settled
      <4>7. ok <=> items'[w] # NotShown
        BY <1>1, <1>2, <1>3 DEF TrayType, NotShown
      <4> QED BY <1>2, <1>4, <1>7, <3>2, <4>2, <4>6, <4>7 DEF IsShown
    <3> QED BY <1>8, <1>9, <2>5, <3>1, <3>2
  <2>6. sni.call # NoCall => \A v \in 1..MaxWatchers : sni.call \in ToSet(asked'[v]) => v = watcher
    BY <1>1, <1>5, <2>1 DEF OutcomeInv
  <2> QED BY <2>4, <2>5, <2>6
<1> QED BY <1>10, <1>11, <1>12, <1>13 DEF RegistrationInv

LEMMA DeathKeepsRegistration ==
  ASSUME Registration, NEW w \in alive, WatcherDies(w)
  PROVE  RegistrationInv'
<1>1. /\ TrayType /\ sni.installed /\ OwnersInv /\ CallsInv /\ NameInv /\ OutcomeInv
      /\ in \in Seq(InMessages)
  BY DEF Registration, TrayType
<1>2. w \in 1..MaxWatchers /\ w # Nobody
  BY <1>1, WatcherNumbers DEF TrayType
<1>3. /\ asked' = [asked EXCEPT ![w] = <<>>] /\ items' = [items EXCEPT ![w] = NotShown]
      /\ watcher' = IF watcher = w THEN Nobody ELSE watcher
      /\ UNCHANGED <<sni, icon, out, counts>>
  BY DEF WatcherDies
<1>4. /\ asked'[w] = <<>>
      /\ \A v \in 1..MaxWatchers : v # w => asked'[v] = asked[v] /\ items'[v] = items[v]
  BY <1>1, <1>2, <1>3 DEF TrayType
<1>5. /\ in' = (in \o Changed(w)) \o ErrorsOf(w) \/ in' = (in \o ErrorsOf(w)) \o Changed(w)
      /\ ToSet(in') = ToSet(in) \cup ToSet(Changed(w)) \cup ToSet(ErrorsOf(w))
  BY <1>1, DeathTold
<1>6. /\ ErrorsOf(w) \in Seq(InMessages)
      /\ \A m \in ToSet(ErrorsOf(w)) : m.kind = "Registered" /\ m.call \in ToSet(asked[w])
      /\ Changed(w) \in Seq(InMessages)
      /\ \A m \in ToSet(Changed(w)) : m.kind = "Owner" /\ m.old = w /\ m.new = Nobody
      /\ watcher = w => ToSet(Changed(w)) # {}
  BY <1>1, DeathMessages
<1>7. OwnersInv'
  <2>1. ASSUME NEW s \in Seq(InMessages), NEW v, OwnersTell(s, v)
        PROVE  OwnersTell(s \o ErrorsOf(w), v)
    BY <1>6, <2>1, OwnersConcat
  <2>2. ASSUME NEW s \in Seq(InMessages), OwnersTell(s, watcher)
        PROVE  OwnersTell(s \o Changed(w), watcher')
    <3>1. \A m \in ToSet(Changed(w)) : m.kind = "Owner" => m.new = watcher' /\ (m.old # Nobody \/ m.new # Nobody)
      BY <1>1, <1>2, <1>3, <1>6, DeathMessages
    <3>2. watcher = watcher' \/ \E m \in ToSet(Changed(w)) : m.kind = "Owner"
      BY <1>3, <1>6
    <3> QED BY <1>6, <2>2, <3>1, <3>2, OwnersConcat
  <2>3. in \o Changed(w) \in Seq(InMessages) /\ in \o ErrorsOf(w) \in Seq(InMessages)
    BY <1>1, <1>6, ConcatElements
  <2> QED BY <1>1, <1>5, <2>1, <2>2, <2>3 DEF OwnersInv
<1>8. NameInv'
  BY <1>1, <1>3, <1>5 DEF NameInv
<1>9. \A m \in ToSet(in') : m.kind = "Registered" => m \in ToSet(in) \/ m.call \in ToSet(asked[w])
  BY <1>5, <1>6
<1>10. \A v \in 1..MaxWatchers : ToSet(asked'[v]) \subseteq ToSet(asked[v]) /\ Increasing(asked'[v])
  <2>1. ToSet(<<>>) = {} /\ Increasing(<<>>)
    BY DEF ToSet, Increasing
  <2> QED BY <1>1, <1>4, <2>1 DEF CallsInv
<1>11. CallsInv'
  <2>1. \A c \in ToSet(asked[w]) : c \in 1..counts.calls
    BY <1>1, <1>2 DEF CallsInv
  <2>2. \A m \in ToSet(in') : m.kind = "Registered" => m.call \in 1..counts.calls
    BY <1>1, <1>9, <2>1 DEF CallsInv
  <2> QED BY <1>1, <1>3, <1>10, <2>2 DEF CallsInv
<1>12. OutcomeInv'
  <2> SUFFICES ASSUME HasHeard', sni.named PROVE OutcomeInv'
    BY <1>3 DEF OutcomeInv
  <2>1. w # watcher /\ HasHeard
    BY <1>5, <1>6 DEF HasHeard
  <2>2. sni.call # NoCall => sni.call \notin ToSet(asked[w])
    BY <1>1, <1>2, <2>1 DEF OutcomeInv
  <2>3. NoCall \notin ToSet(asked[w])
    BY <1>1, <1>2 DEF CallsInv, NoCall
  <2>4. watcher' = watcher
    BY <1>3, <2>1
  <2>5. (Settled => Settled') /\ (IsShown' <=> IsShown)
    <3>1. watcher # Nobody => watcher \in 1..MaxWatchers
      BY <1>1, WatcherNumbers DEF TrayType
    <3>2. watcher # Nobody => asked'[watcher] = asked[watcher] /\ items'[watcher] = items[watcher]
      BY <1>4, <2>1, <3>1
    <3> QED BY <1>3, <2>4, <3>2 DEF Settled, IsShown
  <2>6. \A m \in ToSet(in') : m.kind = "Registered" /\ m.call = sni.call => m \in ToSet(in)
    BY <1>9, <2>2, <2>3
  <2> QED BY <1>1, <1>3, <1>10, <2>1, <2>4, <2>5, <2>6, OutcomeKept
<1> QED BY <1>7, <1>8, <1>11, <1>12 DEF RegistrationInv

LEMMA AppearanceKeepsRegistration ==
  ASSUME Registration, WatcherAppears
  PROVE  RegistrationInv'
<1> DEFINE new == counts.watchers + 1
           owner == [kind |-> "Owner", old |-> watcher, new |-> new]
<1>1. /\ TrayType /\ sni.installed /\ OwnersInv /\ CallsInv /\ NameInv /\ OutcomeInv
      /\ in \in Seq(InMessages)
  BY DEF Registration, TrayType
<1>2. /\ new # Nobody /\ counts'.calls = counts.calls
      /\ owner \in InMessages /\ owner.kind = "Owner" /\ owner.new = new
      /\ in' = Append(in, owner) /\ ToSet(in') = ToSet(in) \cup {owner}
  BY <1>1, AppearanceTold
<1>3. watcher' = new /\ UNCHANGED <<sni, icon, out, asked, items>>
  BY DEF WatcherAppears
<1> HIDE DEF new, owner
<1>4. OwnersInv'
  BY <1>1, <1>2, <1>3, OwnersAppend DEF OwnersInv
<1>5. NameInv' /\ OutcomeInv'
  BY <1>1, <1>2, <1>3 DEF NameInv, OutcomeInv, HasHeard
<1>6. CallsInv'
  BY <1>1, <1>2, <1>3, CallsKept
<1> QED BY <1>4, <1>5, <1>6 DEF RegistrationInv

LEMMA OthersKeepRegistration ==
  ASSUME Registration, UNCHANGED vars \/ Destroy \/ (\E recording \in BOOLEAN : SetRecording(recording))
  PROVE  RegistrationInv'
<1>1. /\ TrayType /\ sni.installed /\ OwnersInv /\ CallsInv /\ NameInv /\ OutcomeInv
      /\ out \in Seq(OutMessages)
  BY DEF Registration, TrayType
<1>2. CASE Destroy
  BY <1>2 DEF Destroy, TrayDestroyed, Off, RegistrationInv
<1>3. ASSUME UNCHANGED <<sni, in, watcher, alive, asked, items>>, counts'.calls = counts.calls,
             out' = out \/ \E e \in OutMessages : e.kind = "NewIcon" /\ out' = Append(out, e)
      PROVE  RegistrationInv'
  <2>1. (\A m \in ToSet(out') : m \in ToSet(out) \/ m.kind = "NewIcon") /\ ToSet(out) \subseteq ToSet(out')
    <3>1. ASSUME NEW e \in OutMessages, out' = Append(out, e)
          PROVE  ToSet(out') = ToSet(out) \cup {e}
      BY <1>1, <3>1, AppendedElements
    <3> QED BY <1>3, <3>1
  <2>2. NameInv' /\ OwnersInv'
    BY <1>1, <1>3, <2>1 DEF NameInv, OwnersInv
  <2>3. CallsInv'
    BY <1>1, <1>3, CallsKept
  <2>4. (HasHeard' <=> HasHeard) /\ (Settled => Settled') /\ (IsShown' <=> IsShown)
    BY <1>3, <2>1 DEF HasHeard, Settled, IsShown
  <2>5. OutcomeInv'
    BY <1>1, <1>3, <2>4, OutcomeKept
  <2> QED BY <2>2, <2>3, <2>5 DEF RegistrationInv
<1>4. ASSUME NEW recording \in BOOLEAN, SetRecording(recording)
      PROVE  RegistrationInv'
  <2> DEFINE e == [kind |-> "NewIcon"]
  <2>1. e \in OutMessages /\ e.kind = "NewIcon"
    BY TrayMessages
  <2>2. /\ UNCHANGED <<sni, in, watcher, alive, asked, items>> /\ counts' = [counts EXCEPT !.toggles = @ + 1]
        /\ out' = out \/ out' = out \o <<e>>
    BY <1>4 DEF SetRecording, Announced
  <2> HIDE DEF e
  <2>3. out \o <<e>> = Append(out, e)
    BY <1>1, <2>1
  <2>4. counts'.calls = counts.calls
    BY <1>1, <2>2 DEF TrayType
  <2> QED BY <1>3, <2>1, <2>2, <2>3, <2>4
<1>5. CASE UNCHANGED vars
  BY <1>3, <1>5 DEF vars
<1> QED BY <1>2, <1>4, <1>5

LEMMA InstalledBefore ==
  ASSUME TrayType, [Next]_vars
  PROVE  sni'.installed => sni.installed
<1>1. CASE ReplyRequestName \/ NameOwnerChanged
  BY <1>1 DEF ReplyRequestName, NameOwnerChanged
<1>2. CASE ReplyRegister
  <2>1. /\ in # <<>> /\ Head(in).kind = "Registered"
        /\ sni' = sni \/ sni' = [sni EXCEPT !.registered = Head(in).ok, !.call = NoCall]
    BY <1>2 DEF ReplyRegister
  <2>2. Head(in).ok \in BOOLEAN
    BY <2>1, TailElements, MessageFields DEF TrayType
  <2> QED BY <2>1, <2>2, RepliedState
<1>3. CASE RegisterTimesOut
  BY <1>3, RepliedState DEF RegisterTimesOut
<1>4. CASE GetIcon \/ Destroy \/ Route \/ WatcherAppears \/ UNCHANGED vars
  BY <1>4 DEF GetIcon, Destroy, Route, WatcherAppears, vars
<1>5. CASE (\E recording \in BOOLEAN : SetRecording(recording)) \/ \E w \in alive : Answer(w) \/ WatcherDies(w)
  BY <1>5 DEF SetRecording, Answer, WatcherDies
<1> QED BY <1>1, <1>2, <1>3, <1>4, <1>5 DEF Next, Process, Idle

LEMMA NextKeepsRegistration ==
  ASSUME TrayInv, RegistrationInv, [Next]_vars, ~Timeouts
  PROVE  RegistrationInv'
<1>1. ASSUME sni.installed
      PROVE  RegistrationInv'
  <2>1. Registration
    BY <1>1 DEF TrayInv, RegistrationInv, Registration
  <2>2. ~RegisterTimesOut
    BY DEF RegisterTimesOut
  <2> QED
    BY <2>1, <2>2, ProcessKeepsRegistration, OthersKeepRegistration, RouteKeepsRegistration,
       AnswerKeepsRegistration, DeathKeepsRegistration, AppearanceKeepsRegistration DEF Next, Idle
<1>2. ASSUME ~sni.installed
      PROVE  RegistrationInv'
  BY <1>2, InstalledBefore DEF TrayInv, RegistrationInv
<1> QED BY <1>1, <1>2

LEMMA InitRegistration == TrayBounds /\ Init => RegistrationInv
<1> SUFFICES ASSUME TrayBounds, Init PROVE RegistrationInv
  OBVIOUS
<1>1. /\ sni = [Off EXCEPT !.installed = TRUE] /\ out = <<[kind |-> "RequestName"]>> /\ in = <<>>
      /\ watcher \in {Nobody, 1} /\ asked = [w \in 1..MaxWatchers |-> <<>>]
      /\ counts = [watchers |-> watcher, toggles |-> 0, calls |-> 0]
  BY DEF Init
<1>2. ~sni.named /\ sni.call = NoCall /\ counts.calls = 0
  BY <1>1 DEF Off
<1>3. ToSet(in) = {} /\ ToSet(out) = {[kind |-> "RequestName"]} /\ \A w \in 1..MaxWatchers : ToSet(asked[w]) = {}
  BY <1>1 DEF ToSet
<1>4. NameInv /\ OutcomeInv /\ OwnersInv
  BY <1>1, <1>2, <1>3 DEF NameInv, OutcomeInv, OwnersInv, OwnersTell
<1>5. CallsIncrease(out) /\ \A w \in 1..MaxWatchers : Increasing(asked[w])
  BY <1>1 DEF CallsIncrease, Increasing
<1>6. CallsInv
  BY <1>2, <1>3, <1>5 DEF CallsInv
<1> QED BY <1>4, <1>6 DEF RegistrationInv

\* RegisteredIsShown: while no call times out before its answer comes, scran says that its icon is registered,
\* whenever nothing is under way, if and only if there is a watcher and it has the icon.
THEOREM RegistrationIsAlwaysShown == Init /\ [][Next]_vars => [](TrayBounds /\ ~Timeouts => RegisteredIsShown)
<1>1. Init => (TrayBounds /\ ~Timeouts => TrayInv /\ RegistrationInv)
  BY InitTrayInv, InitRegistration
<1>2. (TrayBounds /\ ~Timeouts => TrayInv /\ RegistrationInv) /\ [Next]_vars
        => (TrayBounds /\ ~Timeouts => TrayInv /\ RegistrationInv)'
  <2> SUFFICES ASSUME ~Timeouts, TrayInv, RegistrationInv, [Next]_vars PROVE TrayInv' /\ RegistrationInv'
    BY DEF TrayBounds
  <2> QED BY NextKeepsTrayInv, NextKeepsRegistration
<1>3. TrayInv /\ RegistrationInv => RegisteredIsShown
  <2> SUFFICES ASSUME TrayInv, RegistrationInv, out = <<>>, in = <<>>, sni.installed, sni.call = NoCall
               PROVE  sni.registered = (watcher # Nobody /\ items[watcher] # NotShown)
    BY DEF RegisteredIsShown, Quiet
  <2>1. ToSet(in) = {} /\ ToSet(out) = {}
    BY DEF ToSet
  <2>2. sni.named /\ HasHeard
    BY <2>1 DEF RegistrationInv, NameInv, HasHeard
  <2>3. sni.registered <=> IsShown
    BY <2>2 DEF RegistrationInv, OutcomeInv
  <2>4. sni.registered \in BOOLEAN
    BY DEF TrayInv, TrayType
  <2> QED BY <2>3, <2>4 DEF IsShown
<1> QED BY <1>1, <1>2, <1>3, PTL

NamedInv == sni.call # NoCall => sni.named

\* RepliesFindTheName: the assertion in the reply's handler holds, timeouts or not.
THEOREM RepliesAlwaysFindTheName == Init /\ [][Next]_vars => [](TrayBounds => RepliesFindTheName)
<1>1. Init => (TrayBounds => TrayInv /\ NamedInv)
  BY InitTrayInv DEF Init, Off, NamedInv
<1>2. (TrayBounds => TrayInv /\ NamedInv) /\ [Next]_vars => (TrayBounds => TrayInv /\ NamedInv)'
  <2> SUFFICES ASSUME TrayInv, NamedInv, [Next]_vars PROVE NamedInv'
    BY NextKeepsTrayInv DEF TrayBounds
  <2>1. TrayType
    BY DEF TrayInv
  <2>2. CASE ReplyRequestName
    <3>1. \/ UNCHANGED sni
          \/ RegisterWithWatcher([sni EXCEPT !.named = TRUE])
          \/ sni' = Off
      BY <2>2 DEF ReplyRequestName, TrayDestroyed
    <3>2. Off.call = NoCall
      BY DEF Off
    <3> QED BY <2>1, <3>1, <3>2, NamedState, RegistersOnce DEF NamedInv
  <2>3. CASE NameOwnerChanged
    <3> DEFINE lost == OwnerLost(sni, Head(in).old)
    <3>1. \/ UNCHANGED sni
          \/ sni.named /\ RegisterWithWatcher(lost)
          \/ sni' = lost
      BY <2>3 DEF NameOwnerChanged, RegistersAt
    <3>2. lost \in SniType /\ lost.named = sni.named /\ lost.call \in {NoCall, sni.call}
      BY <2>1, OwnerLostState
    <3> HIDE DEF lost
    <3> QED BY <2>1, <3>1, <3>2, RegistersOnce DEF NamedInv
  <2>4. CASE ReplyRegister \/ RegisterTimesOut
    <3>1. sni' = sni \/ sni'.call = NoCall
      BY <2>1, <2>4, RepliedState DEF ReplyRegister, RegisterTimesOut, TrayType
    <3> QED BY <3>1 DEF NamedInv
  <2>5. CASE Destroy
    BY <2>5 DEF Destroy, TrayDestroyed, Off, NamedInv
  <2>6. CASE GetIcon \/ Route \/ WatcherAppears \/ UNCHANGED vars
    BY <2>6 DEF GetIcon, Route, WatcherAppears, vars, NamedInv
  <2>7. CASE (\E recording \in BOOLEAN : SetRecording(recording)) \/ \E w \in alive : Answer(w) \/ WatcherDies(w)
    BY <2>7 DEF SetRecording, Answer, WatcherDies, NamedInv
  <2> QED BY <2>2, <2>3, <2>4, <2>5, <2>6, <2>7 DEF Next, Process, Idle
<1>3. NamedInv => RepliesFindTheName
  BY DEF NamedInv, RepliesFindTheName
<1> QED BY <1>1, <1>2, <1>3, PTL
=============================================================================

------------------------ MODULE Notifications_proofs ------------------------
(***************************************************************************)
(* A click opens the file of its notification, scran closes only its own   *)
(* notifications, and of these only overtaken ones, for every number of    *)
(* files, servers and other programs' ids, every length of the ring that   *)
(* divides the values of the counter, and servers that hand over at will   *)
(* (NotifyInv).  With servers that only follow each other, what is open    *)
(* when nothing is on its way is stored (LivingInv, which needs NotifyInv).*)
(*                                                                         *)
(* What carries the proof: a message tells by its sequence how many files  *)
(* ago it was sent (Placed), so it finds the place of its file if and only *)
(* if that has not been overtaken; an id of a server is of one file,       *)
(* whoever claims it (ClaimInv); and without handovers ids come in the     *)
(* order of the files (OrderInv), so a reply never overwrites an id.       *)
(***************************************************************************)
EXTENDS Notifications, FiniteSetTheorems, NaturalsInduction, WellFoundedInduction, TLAPS

-----------------------------------------------------------------------------
(* The inductive invariant                                                 *)

Servers == 1..MaxServers
Slots == 0..(Length - 1)
NotifyCalls == [kind : {"Notify"}, file : Nat, sequence : Nat]
CloseCalls == [kind : {"Close"}, to : Nat, id : Nat]
Calls == NotifyCalls \cup CloseCalls \cup [kind : {"OpenFile"}, file : Nat, clicked : Nat]

Replies ==
  [kind : {"AddMatch", "Ignored"}]
    \cup [kind : {"Notified"}, from : Servers, id : Nat, sequence : Nat, file : Nat]
    \cup [kind : {"Invoked"}, from : Servers, id : Nat, file : Nat]

Notices == [server : Servers, id : Nat, file : Nat]

NotifyType ==
  /\ NotificationBounds
  /\ contexts \in [Slots -> [id : Nat, file : Nat]]
  /\ count \in 0..(Wrap - 1) /\ saved \in Nat
  /\ server_name \in Nat /\ enabled \in BOOLEAN
  /\ out \in Seq(Calls) /\ in \in Seq(Replies)
  /\ asked \in [Servers -> Seq(NotifyCalls \cup CloseCalls)]
  /\ server \in Servers \cup {Nobody} /\ alive \subseteq Servers
  /\ shown \in SUBSET Notices
  /\ ids \in [Servers -> Nat \ {0}]

\* A message about a notification that may be stored.
IsOwn(m) == m.kind = "Notified" \/ (m.kind = "Notify" /\ m.file # NoFile)

\* How many notifications ago a file was saved, the last one being one ago.
Age(file) == saved + 1 - file

\* The ring has the last files; whatever was given an id has a file.
RingInv ==
  \A i \in Slots :
    /\ contexts[i].file # NoFile =>
         contexts[i].file \in 1..saved /\ Age(contexts[i].file) <= Length /\ (count - Age(contexts[i].file)) % Length = i
    /\ contexts[i].id # Awaited => contexts[i].file # NoFile

\* What is on its way tells by its sequence how old it is, and where it is stored.
Placed(m) ==
  IsOwn(m) =>
    /\ m.file \in 1..saved /\ m.sequence \in 0..(Wrap - 1)
    /\ Age(m.file) < Wrap /\ (count - m.sequence) % Wrap = Age(m.file)
    /\ Age(m.file) <= Length => contexts[m.sequence % Length].file = m.file

FlightInv ==
  /\ \A m \in ToSet(out) : Placed(m)
  /\ \A m \in ToSet(in) : Placed(m)
  /\ \A s \in Servers : \A m \in ToSet(asked[s]) : Placed(m)

\* Before actions are enabled there is nothing of all this.
IsFirst == \A i \in Slots : contexts[i] = [id |-> Awaited, file |-> NoFile]
NoneOwn(s) == \A m \in ToSet(s) : ~IsOwn(m)

EnabledInv ==
  /\ ~enabled => IsFirst /\ NoneOwn(out) /\ NoneOwn(in) /\ \A s \in Servers : NoneOwn(asked[s])
  /\ \A i \in DOMAIN in : in[i].kind = "AddMatch" => i = 1 /\ ~enabled

\* Which notification an id is of: what is shown, on its way, and stored agrees.
Tells(m, n) == m.kind \in {"Invoked", "Notified"} /\ m.from = n.server /\ m.id = n.id /\ m.file = n.file
IsStoredAt(i, n) == contexts[i] = [id |-> n.id, file |-> n.file]
Stored(n) == n.server = server_name /\ n.id # Awaited /\ \E i \in Slots : IsStoredAt(i, n)
Claimed(n) == n \in shown \/ (\E m \in ToSet(in) : Tells(m, n)) \/ Stored(n)

ClaimInv ==
  /\ \A n \in Notices : Claimed(n) => n.id \in 1..(ids[n.server] - 1)
  /\ \A n, o \in Notices : Claimed(n) /\ Claimed(o) /\ n.server = o.server /\ n.id = o.id => n.file = o.file
  /\ \A i \in Slots : contexts[i].id # Awaited => server_name \in Servers

ClickInv == \A m \in ToSet(out) : m.kind = "OpenFile" => m.file = m.clicked

\* What is to be closed has been overtaken.
Overtaken(s, id) ==
  /\ s \in Servers /\ id \in 1..(ids[s] - 1)
  /\ \A n \in shown : n.server = s /\ n.id = id => n.file # Foreign /\ n.file <= saved - Length

CloseInv ==
  /\ \A c \in ToSet(out) : c.kind = "Close" => Overtaken(c.to, c.id)
  /\ \A s \in Servers : \A c \in ToSet(asked[s]) : c.kind = "Close" => Overtaken(s, c.id)

NotifyInv == NotifyType /\ RingInv /\ FlightInv /\ EnabledInv /\ ClaimInv /\ ClickInv /\ CloseInv

-----------------------------------------------------------------------------
(* Without handovers: servers, one after the other                         *)

ServersInv ==
  /\ alive = {server} \ {Nobody}
  /\ \A n \in shown : n.server \in alive
  /\ \A s \in Servers : s \notin alive => asked[s] = <<>>
  /\ \A x, y \in Servers : x < y /\ ids[y] > 1 => ids[x] > 1
  /\ \A x \in Servers, s \in alive : (x < s => ids[x] > 1) /\ (x > s => ids[x] = 1)

IsReply(m) == m.kind = "Notified"

FromsInOrder == \A i, j \in DOMAIN in : IsReply(in[i]) /\ IsReply(in[j]) /\ i < j => in[i].from <= in[j].from

RepliesInv ==
  /\ FromsInOrder
  /\ \A m \in ToSet(in) : IsReply(m) => server_name <= m.from
  /\ server_name # Nobody => server_name \in Servers /\ ids[server_name] > 1

\* Files are asked for, and ids come, in the order in which they were saved.
InOrder(s) == \A i, j \in DOMAIN s : IsOwn(s[i]) /\ IsOwn(s[j]) /\ i < j => s[i].file < s[j].file
Before(s, t) == \A m \in ToSet(s), k \in ToSet(t) : IsOwn(m) /\ IsOwn(k) => m.file < k.file
StoredBefore(s) == \A i \in Slots, m \in ToSet(s) : contexts[i].id # Awaited /\ IsOwn(m) => contexts[i].file < m.file

OrderInv ==
  /\ InOrder(out) /\ InOrder(in) /\ Before(in, out)
  /\ StoredBefore(out) /\ StoredBefore(in)
  /\ \A s \in Servers : /\ InOrder(asked[s]) /\ StoredBefore(asked[s])
                        /\ Before(in, asked[s]) /\ Before(asked[s], out)

\* A notification on the screen is stored, or will be, or will be closed.
Closes(c, n) == c.kind = "Close" /\ c.id = n.id
Pending(n) == \E m \in ToSet(in) : IsReply(m) /\ Tells(m, n)
Closing(n) == (\E c \in ToSet(out) : Closes(c, n) /\ c.to = n.server) \/ \E c \in ToSet(asked[n.server]) : Closes(c, n)

OpenInv == \A n \in shown : n.file # Foreign => Stored(n) \/ Pending(n) \/ Closing(n)

LivingInv == ServersInv /\ RepliesInv /\ OrderInv /\ OpenInv

-----------------------------------------------------------------------------
(* Sequences                                                               *)

LEMMA AppendedElements ==
  ASSUME NEW S, NEW s \in Seq(S), NEW e \in S
  PROVE  /\ Append(s, e) \in Seq(S)
         /\ DOMAIN Append(s, e) = DOMAIN s \cup {Len(s) + 1}
         /\ Append(s, e)[Len(s) + 1] = e
         /\ \A i \in DOMAIN s : Append(s, e)[i] = s[i] /\ i \in Nat /\ i < Len(s) + 1
         /\ ToSet(Append(s, e)) = ToSet(s) \cup {e}
         /\ Len(s) + 1 \in Nat
<1> DEFINE t == Append(s, e)
<1>1. /\ t \in Seq(S) /\ Len(s) \in Nat
      /\ DOMAIN t = 1..(Len(s) + 1) /\ DOMAIN s = 1..Len(s)
      /\ t[Len(s) + 1] = e
      /\ \A i \in DOMAIN s : t[i] = s[i]
  OBVIOUS
<1> HIDE DEF t
<1>2. DOMAIN t = DOMAIN s \cup {Len(s) + 1}
  BY <1>1
<1>3. ToSet(t) = ToSet(s) \cup {e}
  BY <1>1, <1>2 DEF ToSet
<1>4. \A i \in DOMAIN s : i \in Nat /\ i < Len(s) + 1
  BY <1>1
<1> QED BY <1>1, <1>2, <1>3, <1>4 DEF t

LEMMA TailElements ==
  ASSUME NEW S, NEW s \in Seq(S), s # <<>>
  PROVE  /\ Tail(s) \in Seq(S) /\ Head(s) \in S
         /\ Head(s) = s[1] /\ 1 \in DOMAIN s
         /\ \A i \in DOMAIN Tail(s) : i \in Nat /\ i + 1 \in DOMAIN s /\ Tail(s)[i] = s[i + 1] /\ 1 < i + 1
         /\ \A i \in DOMAIN s : i = 1 \/ (i \in Nat /\ i - 1 \in DOMAIN Tail(s) /\ Tail(s)[i - 1] = s[i])
         /\ ToSet(s) = {Head(s)} \cup ToSet(Tail(s))
<1> DEFINE t == Tail(s)
<1>1. /\ t \in Seq(S) /\ Len(s) \in Nat \ {0} /\ Len(t) = Len(s) - 1
      /\ DOMAIN t = 1..(Len(s) - 1) /\ DOMAIN s = 1..Len(s)
      /\ Head(s) = s[1]
      /\ \A i \in 1..(Len(s) - 1) : t[i] = s[i + 1]
  OBVIOUS
<1> HIDE DEF t
<1>2. 1 \in DOMAIN s /\ Head(s) \in S
  BY <1>1
<1>3. \A i \in DOMAIN t : i \in Nat /\ i + 1 \in DOMAIN s /\ t[i] = s[i + 1] /\ 1 < i + 1
  BY <1>1
<1>4. \A i \in DOMAIN s : i = 1 \/ (i \in Nat /\ i - 1 \in DOMAIN t /\ t[i - 1] = s[i])
  <2> SUFFICES ASSUME NEW i \in DOMAIN s, i # 1
               PROVE  i \in Nat /\ i - 1 \in DOMAIN t /\ t[i - 1] = s[i]
    OBVIOUS
  <2>1. i \in Nat /\ i - 1 \in 1..(Len(s) - 1) /\ (i - 1) + 1 = i
    BY <1>1
  <2>2. t[i - 1] = s[(i - 1) + 1]
    BY <1>1, <2>1
  <2> QED BY <1>1, <2>1, <2>2
<1>5. ToSet(s) = {Head(s)} \cup ToSet(t)
  <2>1. ToSet(t) \subseteq ToSet(s) /\ Head(s) \in ToSet(s)
    BY <1>1, <1>2, <1>3 DEF ToSet
  <2>2. ToSet(s) \subseteq {Head(s)} \cup ToSet(t)
    BY <1>1, <1>4 DEF ToSet
  <2> QED BY <2>1, <2>2
<1> QED BY <1>1, <1>2, <1>3, <1>4, <1>5 DEF t

LEMMA ConcatElements ==
  ASSUME NEW S, NEW s \in Seq(S), NEW t \in Seq(S)
  PROVE  /\ s \o t \in Seq(S)
         /\ \A i \in DOMAIN s : i \in DOMAIN (s \o t) /\ (s \o t)[i] = s[i]
         /\ \A i \in DOMAIN t : Len(s) + i \in DOMAIN (s \o t) /\ (s \o t)[Len(s) + i] = t[i]
         /\ \A i \in DOMAIN (s \o t) :
              i \in DOMAIN s \/ (i \notin DOMAIN s /\ i - Len(s) \in DOMAIN t /\ (s \o t)[i] = t[i - Len(s)])
         /\ \A i \in DOMAIN s, j \in DOMAIN (s \o t) : j \notin DOMAIN s => i < j
         /\ ToSet(s \o t) = ToSet(s) \cup ToSet(t)
<1> DEFINE u == s \o t
<1>1. /\ u \in Seq(S) /\ Len(s) \in Nat /\ Len(t) \in Nat /\ Len(u) = Len(s) + Len(t)
      /\ DOMAIN s = 1..Len(s) /\ DOMAIN t = 1..Len(t) /\ DOMAIN u = 1..(Len(s) + Len(t))
      /\ \A i \in 1..(Len(s) + Len(t)) : u[i] = IF i <= Len(s) THEN s[i] ELSE t[i - Len(s)]
  OBVIOUS
<1> HIDE DEF u
<1>2. \A i \in DOMAIN s : i \in DOMAIN u /\ u[i] = s[i]
  BY <1>1
<1>3. ASSUME NEW i \in DOMAIN t
      PROVE  Len(s) + i \in DOMAIN u /\ u[Len(s) + i] = t[i]
  <2>1. Len(s) + i \in 1..(Len(s) + Len(t)) /\ ~(Len(s) + i <= Len(s)) /\ (Len(s) + i) - Len(s) = i
    BY <1>1
  <2> QED BY <1>1, <2>1
<1>4. ASSUME NEW i \in DOMAIN u, i \notin DOMAIN s
      PROVE  i - Len(s) \in DOMAIN t /\ u[i] = t[i - Len(s)]
  BY <1>1, <1>4
<1>5. \A i \in DOMAIN s, j \in DOMAIN u : j \notin DOMAIN s => i < j
  BY <1>1
<1>6. ToSet(u) = ToSet(s) \cup ToSet(t)
  <2>1. ToSet(s) \subseteq ToSet(u)
    BY <1>2 DEF ToSet
  <2>2. ToSet(t) \subseteq ToSet(u)
    BY <1>3 DEF ToSet
  <2>3. ToSet(u) \subseteq ToSet(s) \cup ToSet(t)
    BY <1>2, <1>4 DEF ToSet
  <2> QED BY <2>1, <2>2, <2>3
<1> QED BY <1>1, <1>2, <1>3, <1>4, <1>5, <1>6 DEF u

-----------------------------------------------------------------------------
(* Ages, sequences and slots                                               *)

LEMMA QuotientAndRest ==
  ASSUME NEW x \in Int, NEW n \in Nat, n > 0
  PROVE  x % n \in 0..(n - 1) /\ x \div n \in Int /\ x = n * (x \div n) + (x % n)
OBVIOUS

LEMMA RestIsUnique ==
  ASSUME NEW x \in Int, NEW n \in Nat, n > 0, NEW q \in Int, NEW r \in 0..(n - 1), x = n * q + r
  PROVE  x % n = r
<1> DEFINE p == q - (x \div n)
<1>1. x % n \in 0..(n - 1) /\ p \in Int /\ (x % n) - r = n * p
  BY QuotientAndRest
<1> HIDE DEF p
<1>2. (p >= 1 => n * p >= n) /\ (p <= -1 => n * p <= -n)
  BY <1>1
<1> QED BY <1>1, <1>2

\* Where both n divides w, going round w times changes no rest by n.
LEMMA RoundsLeaveTheRest ==
  ASSUME NEW w \in Nat, NEW n \in Nat, n > 0, w % n = 0, NEW x \in Int, NEW q \in Int
  PROVE  (x + w * q) % n = x % n
<1> DEFINE d == w \div n
           e == x \div n
<1>1. d \in Int /\ e \in Int /\ w = n * d /\ x = n * e + (x % n) /\ x % n \in 0..(n - 1)
  BY QuotientAndRest
<1> HIDE DEF d, e
<1>2. w * q = n * (d * q) /\ d * q \in Int
  BY <1>1
<1>3. x + w * q = n * (e + d * q) + (x % n)
  BY <1>1, <1>2
<1> DEFINE y == x + w * q
           p == e + d * q
<1>4. y \in Int /\ p \in Int /\ y = n * p + (x % n)
  BY <1>1, <1>2, <1>3
<1> HIDE DEF y, p
<1>5. y % n = x % n
  BY <1>1, <1>4, RestIsUnique
<1> QED BY <1>5 DEF y

LEMMA NextAge ==
  ASSUME NEW w \in Nat, NEW c \in 0..(w - 1), NEW s \in 0..(w - 1), ((c - s) % w) + 1 < w
  PROVE  (c + 1) % w \in 0..(w - 1) /\ (((c + 1) % w) - s) % w = ((c - s) % w) + 1
<1> DEFINE q == (c - s) \div w
           p == (c + 1) \div w
           k == (c - s) % w
           d == (c + 1) % w
<1>1. /\ q \in Int /\ p \in Int /\ k \in 0..(w - 1) /\ d \in 0..(w - 1)
      /\ c - s = w * q + k /\ c + 1 = w * p + d
  BY QuotientAndRest
<1>2. k + 1 \in 0..(w - 1)
  BY <1>1
<1> HIDE DEF q, p, k, d
<1>3. d - s = w * (q - p) + (k + 1)
  BY <1>1
<1>4. (d - s) % w = k + 1
  BY <1>1, <1>2, <1>3, RestIsUnique
<1> QED BY <1>1, <1>4 DEF k, d

LEMMA SlotOfSequence ==
  ASSUME NEW w \in Nat, NEW n \in Nat, n > 0, w % n = 0, w > 0, NEW c \in 0..(w - 1), NEW s \in 0..(w - 1)
  PROVE  (c - ((c - s) % w)) % n = s % n
<1> DEFINE q == (c - s) \div w
           k == (c - s) % w
<1>1. q \in Int /\ k \in Int /\ c - s = w * q + k
  BY QuotientAndRest
<1> HIDE DEF q, k
<1>2. c - k = s + w * q
  BY <1>1
<1>3. (s + w * q) % n = s % n
  <2>1. s \in Int
    OBVIOUS
  <2> QED BY <1>1, <2>1, RoundsLeaveTheRest
<1> QED BY <1>2, <1>3 DEF k

LEMMA SlotStays ==
  ASSUME NEW w \in Nat, NEW n \in Nat, n > 0, w % n = 0, w > 0, NEW c \in 0..(w - 1), NEW k \in Int
  PROVE  (((c + 1) % w) - (k + 1)) % n = (c - k) % n
<1> DEFINE p == (c + 1) \div w
           d == (c + 1) % w
<1>1. p \in Int /\ d \in Int /\ c + 1 = w * p + d
  BY QuotientAndRest
<1> HIDE DEF p, d
<1>2. d - (k + 1) = (c - k) + w * (-p)
  BY <1>1
<1>3. ((c - k) + w * (-p)) % n = (c - k) % n
  <2>1. c - k \in Int /\ -p \in Int
    BY <1>1
  <2> QED BY <2>1, RoundsLeaveTheRest
<1> QED BY <1>2, <1>3 DEF d

LEMMA OldestIsInTheNextSlot ==
  ASSUME NEW n \in Nat, n > 0, NEW c \in Int, NEW k \in 1..n
  PROVE  (c - k) % n = c % n <=> k = n
<1> DEFINE a == (c - k) \div n
           b == c \div n
<1>1. /\ a \in Int /\ b \in Int /\ c - k = n * a + ((c - k) % n) /\ c = n * b + (c % n)
      /\ c % n \in 0..(n - 1)
  BY QuotientAndRest
<1> HIDE DEF a, b
<1>2. ASSUME (c - k) % n = c % n
      PROVE  k = n
  <2>1. k = n * (b - a)
    BY <1>1, <1>2
  <2> DEFINE e == b - a
  <2>2. e \in Int /\ k = n * e
    BY <1>1, <2>1
  <2> HIDE DEF e
  <2>3. (e <= 0 => n * e <= 0) /\ (e >= 2 => n * e >= 2 * n)
    BY <2>2
  <2> QED BY <2>2, <2>3
<1>3. ASSUME k = n
      PROVE  (c - k) % n = c % n
  <2>1. c - k = n * (b - 1) + (c % n)
    BY <1>1, <1>3
  <2>2. c - k \in Int /\ b - 1 \in Int
    BY <1>1
  <2> QED BY <1>1, <2>1, <2>2, RestIsUnique
<1> QED BY <1>2, <1>3

-----------------------------------------------------------------------------
(* Messages                                                                *)

LEMMA MessageFields ==
  /\ \A m \in Calls :
       /\ m.kind \in {"Notify", "Close", "OpenFile"}
       /\ m.kind = "Notify" => m.file \in Nat /\ m.sequence \in Nat /\ m \in NotifyCalls
       /\ m.kind = "Close" => m.to \in Nat /\ m.id \in Nat /\ m \in CloseCalls
  /\ \A m \in Replies :
       /\ m.kind \in {"AddMatch", "Ignored", "Notified", "Invoked"}
       /\ m.kind = "Notified" => m.from \in Servers /\ m.id \in Nat /\ m.sequence \in Nat /\ m.file \in Nat
       /\ m.kind = "Invoked" => m.from \in Servers /\ m.id \in Nat /\ m.file \in Nat
BY DEF Calls, Replies, NotifyCalls, CloseCalls

LEMMA MessageTypes ==
  /\ \A f, q \in Nat : [kind |-> "Notify", file |-> f, sequence |-> q] \in NotifyCalls
  /\ \A t, i \in Nat : [kind |-> "Close", to |-> t, id |-> i] \in CloseCalls
  /\ \A f, g \in Nat : [kind |-> "OpenFile", file |-> f, clicked |-> g] \in Calls
  /\ NotifyCalls \subseteq Calls /\ CloseCalls \subseteq Calls
  /\ [kind |-> "Ignored"] \in Replies
  /\ \A s \in Servers, i, q, f \in Nat :
       [kind |-> "Notified", from |-> s, id |-> i, sequence |-> q, file |-> f] \in Replies
  /\ \A s \in Servers, i, f \in Nat : [kind |-> "Invoked", from |-> s, id |-> i, file |-> f] \in Replies
BY DEF Calls, Replies, NotifyCalls, CloseCalls

LEMMA Bounds ==
  ASSUME NotificationBounds
  PROVE  /\ Length \in Nat /\ Length > 0 /\ Wrap \in Nat /\ Wrap > 0 /\ Wrap > Length /\ Wrap % Length = 0
         /\ MaxServers \in Nat /\ MaxServers > 0 /\ 1 \in Servers /\ Servers \subseteq Nat /\ Nobody \notin Servers
BY DEF NotificationBounds, Servers, Nobody

-----------------------------------------------------------------------------
(* What steps leave as it is                                               *)

LEMMA PlacedKept ==
  ASSUME UNCHANGED <<count, saved>>, \A i \in Slots : contexts'[i].file = contexts[i].file,
         NotifyType, NEW m, Placed(m)
  PROVE  Placed(m)'
<1>1. ASSUME IsOwn(m), Age(m.file) <= Length
      PROVE  m.sequence % Length \in Slots
  <2>1. m.sequence \in Int /\ Length \in Nat /\ Length > 0
    BY <1>1, Bounds DEF NotifyType, Placed
  <2> QED BY <2>1, QuotientAndRest DEF Slots
<1> QED BY <1>1 DEF Placed, Age

LEMMA RingKept ==
  ASSUME UNCHANGED <<count, saved>>, RingInv, \A i \in Slots : contexts'[i].file = contexts[i].file,
         \A i \in Slots : contexts'[i].id # Awaited => contexts'[i].file # NoFile
  PROVE  RingInv'
BY DEF RingInv, Age

LEMMA ClaimKept ==
  ASSUME ClaimInv, NotifyType, ids' \in [Servers -> Nat \ {0}], \A s \in Servers : ids'[s] >= ids[s],
         \A n \in Notices : Claimed(n)' => Claimed(n),
         \A i \in Slots : contexts'[i].id # Awaited => server_name' \in Servers
  PROVE  ClaimInv'
<1>1. ASSUME NEW n \in Notices, Claimed(n)'
      PROVE  n.id \in 1..(ids'[n.server] - 1)
  BY <1>1 DEF ClaimInv, NotifyType, Notices
<1> QED BY <1>1 DEF ClaimInv

LEMMA ClaimMade ==
  ASSUME ClaimInv, NotifyType, NEW k \in Notices, k.id = ids[k.server],
         ids' = [ids EXCEPT ![k.server] = @ + 1],
         \A n \in Notices : Claimed(n)' => Claimed(n) \/ n = k,
         UNCHANGED <<contexts, server_name>>
  PROVE  ClaimInv'
<1>1. k.server \in Servers /\ k.id \in Nat
  BY DEF Notices
<1>2. \A s \in Servers : ids[s] \in Nat /\ ids'[s] = IF s = k.server THEN ids[s] + 1 ELSE ids[s]
  BY <1>1 DEF NotifyType
<1>3. ASSUME NEW n \in Notices, Claimed(n)
      PROVE  n.id < ids[n.server] /\ n.id \in Nat /\ n.id >= 1 /\ n.server \in Servers
  BY <1>2, <1>3 DEF ClaimInv, Notices
<1>4. \A n \in Notices : Claimed(n)' => n.id \in 1..(ids'[n.server] - 1)
  <2>1. k.id >= 1
    BY <1>1 DEF NotifyType
  <2> QED BY <1>1, <1>2, <1>3, <2>1
<1>5. ASSUME NEW n \in Notices, NEW o \in Notices, Claimed(n)', Claimed(o)', n.server = o.server, n.id = o.id
      PROVE  n.file = o.file
  BY <1>3, <1>5 DEF ClaimInv
<1> QED BY <1>4, <1>5 DEF ClaimInv

LEMMA OvertakenKept ==
  ASSUME NotifyType, ids' \in [Servers -> Nat \ {0}], \A s \in Servers : ids'[s] >= ids[s],
         saved' \in Nat, saved' >= saved,
         \A n \in shown' : n \in shown \/ n.id = ids[n.server],
         NEW s, NEW id, Overtaken(s, id)
  PROVE  Overtaken(s, id)'
<1>1. s \in Servers /\ id \in 1..(ids[s] - 1) /\ ids[s] \in Nat /\ ids'[s] \in Nat /\ ids'[s] >= ids[s]
  BY DEF NotifyType, Overtaken
<1>2. ASSUME NEW n \in shown', n.server = s, n.id = id
      PROVE  n.file # Foreign /\ n.file <= saved' - Length
  <2>1. n \in shown
    BY <1>1, <1>2
  <2>2. n.file \in Nat /\ Length \in Nat /\ saved \in Nat
    BY <2>1, Bounds DEF NotifyType, Notices
  <2> QED BY <1>2, <2>1, <2>2 DEF Overtaken
<1>3. id \in 1..(ids'[s] - 1)
  BY <1>1
<1> QED BY <1>1, <1>2, <1>3 DEF Overtaken

\* Steps that let no time pass: nothing is saved, and the ring keeps its files.
LEMMA InvKept ==
  ASSUME NotifyInv, NotifyType', UNCHANGED <<count, saved>>,
         \A i \in Slots : contexts'[i].file = contexts[i].file,
         \A i \in Slots : contexts'[i].id # Awaited => contexts'[i].file # NoFile,
         \A m \in ToSet(out') : Placed(m), \A m \in ToSet(in') : Placed(m),
         \A s \in Servers : \A m \in ToSet(asked'[s]) : Placed(m)
  PROVE  RingInv' /\ FlightInv'
<1>1. NotifyType /\ RingInv
  BY DEF NotifyInv
<1>2. \A m : Placed(m) => Placed(m)'
  BY <1>1, PlacedKept
<1> QED BY <1>1, <1>2, RingKept DEF FlightInv

-----------------------------------------------------------------------------
(* scran's steps                                                           *)

\* What a step has to keep.
Held == NotifyType' /\ RingInv' /\ FlightInv' /\ EnabledInv' /\ ClaimInv' /\ ClickInv' /\ CloseInv'

LEMMA InvParts ==
  /\ NotifyInv =>
       /\ NotifyType /\ RingInv /\ FlightInv /\ EnabledInv /\ ClaimInv /\ ClickInv /\ CloseInv
       /\ NotificationBounds /\ out \in Seq(Calls) /\ in \in Seq(Replies) /\ saved \in Nat
  /\ Held => NotifyInv'
BY DEF NotifyInv, Held, NotifyType

LEMMA CountedBy ==
  ASSUME NotifyType
  PROVE  /\ count \in 0..(Wrap - 1) /\ count \in Nat /\ count \in Int
         /\ Length \in Nat /\ Length > 0 /\ Wrap \in Nat /\ Wrap > 0 /\ Wrap > Length /\ Wrap % Length = 0
<1>1. /\ count \in 0..(Wrap - 1) /\ Length \in Nat /\ Length > 0
      /\ Wrap \in Nat /\ Wrap > 0 /\ Wrap > Length /\ Wrap % Length = 0
  BY Bounds DEF NotifyType
<1> QED BY <1>1

\* The slot of an age, and that of the same file one notification later.
LEMMA SlotsOfAges ==
  ASSUME NotifyType
  PROVE  /\ \A k \in Int : (((count + 1) % Wrap) - (k + 1)) % Length = (count - k) % Length
         /\ (((count + 1) % Wrap) - 1) % Length = count % Length
         /\ \A k \in 1..Length : (count - k) % Length = count % Length <=> k = Length
<1>1. /\ count \in Int /\ count \in 0..(Wrap - 1)
      /\ Length \in Nat /\ Length > 0 /\ Wrap \in Nat /\ Wrap > 0 /\ Wrap % Length = 0
  BY CountedBy
<1>2. ASSUME NEW k \in Int
      PROVE  (((count + 1) % Wrap) - (k + 1)) % Length = (count - k) % Length
  BY <1>1, SlotStays, Zenon
<1>3. (((count + 1) % Wrap) - (0 + 1)) % Length = (count - 0) % Length
  <2>1. 0 \in Int
    OBVIOUS
  <2> QED BY <1>2, <2>1, Zenon
<1>4. ((count + 1) % Wrap) \in Int
  BY <1>1, QuotientAndRest
<1>5. \A k \in 1..Length : (count - k) % Length = count % Length <=> k = Length
  BY <1>1, OldestIsInTheNextSlot, Zenon
<1> QED BY <1>1, <1>2, <1>3, <1>4, <1>5

\* Before actions are enabled a notification has no file.
LEMMA SavedUnheardOf ==
  ASSUME NotifyInv, NotifyFileSaved, ~enabled
  PROVE  NotifyInv'
<1> DEFINE e == [kind |-> "Notify", file |-> NoFile, sequence |-> 0]
<1>1. /\ saved' = saved + 1 /\ out' = Append(out, e)
      /\ UNCHANGED <<contexts, count, server_name, enabled, in, server, alive, asked, shown, ids>>
  BY DEF NotifyFileSaved
<1>2. e \in Calls /\ e.kind = "Notify" /\ ~IsOwn(e)
  BY MessageTypes DEF NoFile, IsOwn
<1> HIDE DEF e
<1>3. out' \in Seq(Calls) /\ ToSet(out') = ToSet(out) \cup {e}
  BY <1>1, <1>2, InvParts, AppendedElements
<1>4. NotifyType'
  BY <1>1, <1>3, InvParts DEF NotifyType
<1>5. EnabledInv' /\ NoneOwn(out') /\ NoneOwn(in) /\ (\A s \in Servers : NoneOwn(asked[s])) /\ IsFirst
  BY <1>1, <1>2, <1>3, InvParts DEF EnabledInv, NoneOwn, IsFirst
<1>6. RingInv'
  BY <1>1, <1>5 DEF RingInv, IsFirst
<1>7. FlightInv'
  BY <1>1, <1>5 DEF FlightInv, Placed, NoneOwn
<1>8. ClaimInv' /\ ClickInv'
  BY <1>1, <1>2, <1>3, InvParts DEF ClaimInv, ClickInv, Claimed, Stored, IsStoredAt
<1>9. CloseInv'
  <2>1. \A s, id : Overtaken(s, id) => Overtaken(s, id)'
    BY <1>1, InvParts, OvertakenKept, SMTT(30) DEF NotifyType
  <2> QED BY <1>1, <1>2, <1>3, <2>1, InvParts DEF CloseInv
<1> QED BY <1>4, <1>5, <1>6, <1>7, <1>8, <1>9, InvParts DEF Held

\* What the saved file changes in the ring.
LEMMA SavedStored ==
  ASSUME NotifyInv, NotifyFileSaved, enabled
  PROVE  LET slot == count % Length
             close == CloseCall(server_name, contexts[slot].id)
             e == [kind |-> "Notify", file |-> saved + 1, sequence |-> count]
         IN  /\ saved' = saved + 1 /\ saved < MaxFiles /\ NoWrapInFlight
             /\ slot \in Slots /\ count' = (count + 1) % Wrap /\ count' \in 0..(Wrap - 1)
             /\ contexts' \in [Slots -> [id : Nat, file : Nat]]
             /\ contexts'[slot] = [id |-> Awaited, file |-> saved + 1]
             /\ \A i \in Slots : i # slot => contexts'[i] = contexts[i]
             /\ UNCHANGED <<server_name, enabled, in, server, alive, asked, shown, ids>>
             /\ e \in NotifyCalls /\ e \in Calls
             /\ close \in Seq(Calls)
             /\ contexts[slot].id = Awaited => ToSet(close) = {}
             /\ contexts[slot].id # Awaited =>
                  ToSet(close) = {[kind |-> "Close", to |-> server_name, id |-> contexts[slot].id]}
             /\ out' = (out \o close) \o <<e>>
             /\ out' \in Seq(Calls) /\ ToSet(out') = ToSet(out) \cup ToSet(close) \cup {e}
<1> DEFINE slot == count % Length
           id == contexts[slot].id
           close == CloseCall(server_name, id)
           e == [kind |-> "Notify", file |-> saved + 1, sequence |-> count]
           c == [kind |-> "Close", to |-> server_name, id |-> id]
<1>1. /\ saved' = saved + 1 /\ saved < MaxFiles /\ NoWrapInFlight /\ count' = (count + 1) % Wrap
      /\ contexts' = [contexts EXCEPT ![slot] = [id |-> Awaited, file |-> saved + 1]]
      /\ UNCHANGED <<server_name, enabled, in, server, alive, asked, shown, ids>>
      /\ out' = (out \o close) \o <<e>>
  BY DEF NotifyFileSaved, CloseTarget
<1>2. NotifyType /\ count \in Int /\ Length \in Nat /\ Length > 0 /\ Wrap \in Nat /\ Wrap > 0 /\ saved \in Nat /\ count \in Nat
  BY InvParts, CountedBy
<1>3. slot \in Slots
  BY <1>2, QuotientAndRest DEF Slots
<1>4. (count + 1) % Wrap \in 0..(Wrap - 1)
  BY <1>2, QuotientAndRest
<1>5. id \in Nat /\ contexts \in [Slots -> [id : Nat, file : Nat]] /\ server_name \in Nat
  BY <1>2, <1>3 DEF NotifyType
<1>6. e \in NotifyCalls /\ e \in Calls
  BY <1>2, MessageTypes
<1>7. c \in Calls
  BY <1>5, MessageTypes
<1> HIDE DEF slot, id, e
<1>8. /\ contexts' \in [Slots -> [id : Nat, file : Nat]]
      /\ contexts'[slot] = [id |-> Awaited, file |-> saved + 1]
      /\ \A i \in Slots : i # slot => contexts'[i] = contexts[i]
  BY <1>1, <1>2, <1>3, <1>5 DEF Awaited
<1> HIDE DEF c
<1>9. close \in Seq(Calls) /\ ToSet(close) = IF id = Awaited THEN {} ELSE {c}
  BY <1>7 DEF CloseCall, ToSet, c
<1> HIDE DEF close
<1>10. out \o close \in Seq(Calls) /\ ToSet(out \o close) = ToSet(out) \cup ToSet(close)
  BY <1>2, <1>9, ConcatElements DEF NotifyType
<1>11. <<e>> \in Seq(Calls) /\ ToSet(<<e>>) = {e}
  BY <1>6 DEF ToSet
<1>12. out' \in Seq(Calls) /\ ToSet(out') = ToSet(out) \cup ToSet(close) \cup {e}
  BY <1>1, <1>10, <1>11, ConcatElements
<1> QED BY <1>1, <1>3, <1>4, <1>6, <1>8, <1>9, <1>12 DEF slot, id, e, close, c

LEMMA SavedKeepsInv ==
  ASSUME NotifyInv, NotifyFileSaved
  PROVE  NotifyInv'
<1> DEFINE slot == count % Length
           id == contexts[slot].id
           close == CloseCall(server_name, id)
           e == [kind |-> "Notify", file |-> saved + 1, sequence |-> count]
<1> SUFFICES ASSUME enabled PROVE NotifyInv'
  BY SavedUnheardOf
<1>1. /\ saved' = saved + 1 /\ NoWrapInFlight
      /\ slot \in Slots /\ count' = (count + 1) % Wrap /\ count' \in 0..(Wrap - 1)
      /\ contexts' \in [Slots -> [id : Nat, file : Nat]]
      /\ contexts'[slot] = [id |-> Awaited, file |-> saved + 1]
      /\ \A i \in Slots : i # slot => contexts'[i] = contexts[i]
      /\ UNCHANGED <<server_name, enabled, in, server, alive, asked, shown, ids>>
  BY SavedStored
<1>2. /\ id = Awaited => ToSet(close) = {}
      /\ id # Awaited => ToSet(close) = {[kind |-> "Close", to |-> server_name, id |-> id]}
      /\ out' \in Seq(Calls) /\ ToSet(out') = ToSet(out) \cup ToSet(close) \cup {e}
  BY SavedStored
<1>3. /\ NotifyType /\ count \in Int /\ count \in 0..(Wrap - 1) /\ saved \in Nat
      /\ Length \in Nat /\ Length > 0 /\ Wrap \in Nat /\ Wrap > 0 /\ Wrap > Length /\ Wrap % Length = 0
  BY InvParts, CountedBy
<1>4. e.kind = "Notify" /\ e.file = saved + 1 /\ e.sequence = count
  OBVIOUS
<1>5. \A m \in ToSet(close) : m.kind = "Close" /\ ~IsOwn(m)
  BY <1>2 DEF IsOwn
<1> HIDE DEF slot, e, close
<1>6. NotifyType'
  BY <1>1, <1>2, <1>3 DEF NotifyType
<1>7. RingInv'
  <2> SUFFICES ASSUME NEW i \in Slots
               PROVE  /\ contexts'[i].file # NoFile =>
                           /\ contexts'[i].file \in 1..saved' /\ saved' + 1 - contexts'[i].file <= Length
                           /\ (count' - (saved' + 1 - contexts'[i].file)) % Length = i
                      /\ contexts'[i].id # Awaited => contexts'[i].file # NoFile
    BY DEF RingInv, Age
  <2>1. CASE i = slot
    <3>1. (count' - 1) % Length = slot
      BY <1>1, <1>3, SlotsOfAges DEF slot
    <3>2. contexts'[i].file = saved + 1 /\ contexts'[i].id = Awaited
      BY <1>1, <2>1
    <3>3. saved' + 1 - contexts'[i].file = 1
      BY <1>1, <1>3, <3>2
    <3> QED BY <1>1, <1>3, <2>1, <3>1, <3>2, <3>3
  <2>2. CASE i # slot
    <3> DEFINE f == contexts[i].file
               k == saved + 1 - f
    <3>1. contexts'[i] = contexts[i] /\ f \in Nat
      BY <1>1, <1>3, <2>2 DEF NotifyType
    <3>2. ASSUME f # NoFile
          PROVE  f \in 1..saved' /\ saved' + 1 - f <= Length /\ (count' - (saved' + 1 - f)) % Length = i
      <4>1. f \in 1..saved /\ k \in 1..Length /\ (count - k) % Length = i
        BY <1>3, <3>2, InvParts, SMTT(30) DEF RingInv, Age
      <4>2. k # Length
        BY <1>3, <2>2, <4>1, SlotsOfAges DEF slot
      <4>3. saved' + 1 - f = k + 1
        BY <1>1, <1>3, <3>1
      <4> HIDE DEF k
      <4>4. (((count + 1) % Wrap) - (k + 1)) % Length = (count - k) % Length
        BY <1>3, <4>1, SlotsOfAges
      <4> QED BY <1>1, <1>3, <4>1, <4>2, <4>3, <4>4
    <3> QED BY <3>1, <3>2, InvParts DEF RingInv
  <2> QED BY <2>1, <2>2
<1>8. ASSUME NEW m, m = e
      PROVE  Placed(m)'
  <2>1. (count - count) % Wrap = 0
    <3>1. 0 = Wrap * 0 + 0 /\ 0 \in 0..(Wrap - 1)
      BY <1>3
    <3> QED BY <1>3, <3>1, RestIsUnique
  <2>2. (((count + 1) % Wrap) - count) % Wrap = 1
    BY <1>3, <2>1, NextAge
  <2>3. m.file = saved + 1 /\ m.sequence = count
    BY <1>4, <1>8
  <2>4. Age(m.file)' = 1
    BY <1>1, <1>3, <2>3 DEF Age
  <2>5. contexts'[m.sequence % Length].file = m.file
    BY <1>1, <2>3 DEF slot
  <2>6. m.file \in 1..saved'
    BY <1>1, <1>3, <2>3
  <2> QED BY <1>1, <1>3, <2>2, <2>3, <2>4, <2>5, <2>6 DEF Placed
<1>9. ASSUME NEW m, Placed(m), IsOwn(m) => saved + 2 - m.file < Wrap
      PROVE  Placed(m)'
  <2> SUFFICES ASSUME IsOwn(m) PROVE Placed(m)'
    BY DEF Placed
  <2> DEFINE k == Age(m.file)
  <2>1. /\ m.file \in 1..saved /\ m.sequence \in 0..(Wrap - 1)
        /\ k < Wrap /\ (count - m.sequence) % Wrap = k
        /\ k <= Length => contexts[m.sequence % Length].file = m.file
    BY <1>9 DEF Placed
  <2>2. k \in Nat /\ k >= 1 /\ k + 1 < Wrap /\ Age(m.file)' = k + 1
    BY <1>1, <1>3, <1>9, <2>1 DEF Age
  <2> HIDE DEF k
  <2>3. (count' - m.sequence) % Wrap = k + 1
    BY <1>1, <1>3, <2>1, <2>2, NextAge, ZenonT(30)
  <2>4. ASSUME k + 1 <= Length
        PROVE  contexts'[m.sequence % Length].file = m.file
    <3>1. (count - k) % Length = m.sequence % Length
      BY <1>3, <2>1, SlotOfSequence, ZenonT(30)
    <3>2. k \in 1..Length /\ k # Length
      BY <1>3, <2>2, <2>4
    <3>3. m.sequence % Length # slot
      BY <1>3, <3>1, <3>2, SlotsOfAges DEF slot
    <3>4. m.sequence % Length \in Slots
      BY <1>3, <2>1, QuotientAndRest DEF Slots
    <3> DEFINE i == m.sequence % Length
    <3>5. contexts'[i] = contexts[i]
      BY <1>1, <3>3, <3>4
    <3>6. k <= Length
      BY <1>3, <2>2, <2>4
    <3> QED BY <2>1, <3>5, <3>6
  <2> QED BY <1>1, <1>3, <2>1, <2>2, <2>3, <2>4 DEF Placed
<1>10. FlightInv'
  <2>1. ASSUME NEW m, Placed(m),
               m \in ToSet(out) \/ m \in ToSet(in) \/ \E s \in Servers : m \in ToSet(asked[s])
        PROVE  Placed(m)'
    <3>1. IsOwn(m) => m.file \in FilesInFlight \ {NoFile}
      BY <2>1 DEF FilesInFlight, IsOwn, Servers, Placed, NoFile
    <3>2. IsOwn(m) => saved + 2 - m.file < Wrap
      BY <1>1, <3>1 DEF NoWrapInFlight
    <3> QED BY <1>9, <2>1, <3>2
  <2>2. \A m \in ToSet(close) : Placed(m)'
    BY <1>5 DEF Placed
  <2>3. \A m \in ToSet(out') : Placed(m)'
    BY <1>2, <1>8, <2>1, <2>2, InvParts DEF FlightInv
  <2>4. \A m \in ToSet(in) : Placed(m)'
    BY <2>1, InvParts DEF FlightInv
  <2>5. \A s \in Servers : \A m \in ToSet(asked[s]) : Placed(m)'
    BY <2>1, InvParts DEF FlightInv
  <2> QED BY <1>1, <2>3, <2>4, <2>5 DEF FlightInv
<1>11. EnabledInv'
  BY <1>1, InvParts DEF EnabledInv
<1>12. ClaimInv'
  <2>1. \A n \in Notices : Stored(n)' => Stored(n)
    BY <1>1 DEF Stored, IsStoredAt
  <2>2. \A n \in Notices : Claimed(n)' => Claimed(n)
    BY <1>1, <2>1 DEF Claimed
  <2>3. \A i \in Slots : contexts'[i].id # Awaited => server_name' \in Servers
    BY <1>1, InvParts DEF ClaimInv
  <2> QED BY <1>1, <1>3, <2>2, <2>3, InvParts, ClaimKept DEF NotifyType
<1>13. ClickInv'
  BY <1>2, <1>4, <1>5, InvParts DEF ClickInv
<1>14. CloseInv'
  <2>1. \A s, i : Overtaken(s, i) => Overtaken(s, i)'
    BY <1>1, <1>3, OvertakenKept DEF NotifyType
  <2>2. ASSUME NEW c \in ToSet(close)
        PROVE  Overtaken(c.to, c.id)'
    <3> DEFINE f == contexts[slot].file
               n == [server |-> server_name, id |-> id, file |-> f]
    <3>1. id # Awaited /\ c.to = server_name /\ c.id = id
      BY <1>2, <2>2
    <3>2. f # NoFile /\ f \in 1..saved /\ Age(f) <= Length /\ (count - Age(f)) % Length = slot /\ server_name \in Servers
      BY <1>1, <3>1, InvParts DEF RingInv, ClaimInv
    <3>3. Age(f) = Length
      <4>1. Age(f) \in 1..Length
        BY <1>3, <3>2 DEF Age
      <4> QED BY <1>3, <3>2, <4>1, SlotsOfAges DEF slot
    <3>4. f = saved' - Length
      BY <1>1, <1>3, <3>2, <3>3 DEF Age
    <3>5. n \in Notices /\ IsStoredAt(slot, n) /\ n.server = server_name /\ n.id = id /\ n.file = f
      BY <1>1, <1>3, <3>2 DEF NotifyType, Notices, IsStoredAt
    <3> HIDE DEF n, f
    <3>6. Claimed(n)
      BY <1>1, <3>1, <3>5 DEF Claimed, Stored
    <3>7. id \in 1..(ids[server_name] - 1)
      BY <3>5, <3>6, InvParts DEF ClaimInv
    <3>8. ASSUME NEW o \in shown, o.server = server_name, o.id = id
          PROVE  o.file = f
      <4>1. o \in Notices /\ Claimed(o)
        BY <1>3, <3>8 DEF NotifyType, Claimed
      <4> QED BY <3>5, <3>6, <3>8, <4>1, InvParts DEF ClaimInv
    <3> QED BY <1>1, <3>1, <3>2, <3>4, <3>7, <3>8 DEF Overtaken, NoFile, Foreign
  <2> QED BY <1>1, <1>2, <1>4, <2>1, <2>2, InvParts DEF CloseInv
<1> QED BY <1>6, <1>7, <1>10, <1>11, <1>12, <1>13, <1>14, InvParts DEF Held

-----------------------------------------------------------------------------
(* The file of an id                                                       *)

\* The places of the ring that satisfy something have a first one.
LEMMA FirstSlot ==
  ASSUME NotificationBounds, NEW T \in SUBSET Slots, T # {}
  PROVE  \E i \in T : \A j \in 0..(i - 1) : j \notin T
<1> DEFINE Below == {0..(i - 1) : i \in T}
<1>1. Length \in Nat /\ Length > 0 /\ IsFiniteSet(Slots)
  BY Bounds, FS_Interval DEF Slots
<1>2. Below \in SUBSET (SUBSET Slots) /\ Below # {}
  <2>1. \A i \in T : 0..(i - 1) \subseteq Slots
    BY <1>1 DEF Slots
  <2> QED BY <2>1
<1> HIDE DEF Below
<1>3. IsWellFoundedOn(StrictSubsetOrdering(Slots), SUBSET Slots)
  BY <1>1, FS_StrictSubsetOrderingWellFounded, FS_FiniteSubsetsOfFinite
<1>4. PICK s \in Below : \A u \in Below : ~(<<u, s>> \in StrictSubsetOrdering(Slots))
  BY <1>2, <1>3, WFMin
<1>5. PICK i \in T : s = 0..(i - 1)
  BY <1>4 DEF Below
<1>6. ASSUME NEW j \in 0..(i - 1), j \in T
      PROVE  FALSE
  <2>1. 0..(j - 1) \in Below
    BY <1>6 DEF Below
  <2>2. i \in Int /\ j \in Int /\ j < i /\ j >= 0
    BY <1>1, <1>6 DEF Slots
  <2>3. 0..(j - 1) \subseteq s /\ 0..(j - 1) # s
    <3>1. j \in s /\ j \notin 0..(j - 1)
      BY <1>5, <2>2
    <3> QED BY <1>5, <2>2, <3>1
  <2>4. <<0..(j - 1), s>> \in StrictSubsetOrdering(Slots)
    BY <1>2, <1>4, <2>1, <2>3 DEF StrictSubsetOrdering
  <2> QED BY <1>4, <2>1, <2>4
<1> QED BY <1>6

LEMMA FileIsOfASlot ==
  ASSUME NotifyType, NEW id
  PROVE  IF \E i \in Slots : contexts[i].id = id
         THEN \E i \in Slots : contexts[i].id = id /\ FileOf(id) = contexts[i].file
         ELSE FileOf(id) = NoFile
<1> DEFINE T == {i \in Slots : contexts[i].id = id}
<1>1. DOMAIN contexts = Slots /\ NotificationBounds
  BY DEF NotifyType
<1>2. CASE \E i \in Slots : contexts[i].id = id
  <2>1. T \in SUBSET Slots /\ T # {}
    BY <1>2
  <2>2. \E i \in T : \A j \in 0..(i - 1) : j \notin T
    BY <1>1, <2>1, FirstSlot
  <2>3. \E i \in Slots : contexts[i].id = id /\ \A j \in 0..(i - 1) : contexts[j].id # id
    <3>1. \A i \in Slots : 0..(i - 1) \subseteq Slots
      BY <1>1, Bounds DEF Slots
    <3> QED BY <2>2, <3>1
  <2> DEFINE first == CHOOSE i \in DOMAIN contexts : contexts[i].id = id /\ \A j \in 0..(i - 1) : contexts[j].id # id
  <2>4. first \in Slots /\ contexts[first].id = id
    BY <1>1, <2>3
  <2>5. FileOf(id) = contexts[first].file
    BY <1>1, <1>2 DEF FileOf
  <2> QED BY <1>2, <2>4, <2>5
<1>3. CASE ~\E i \in Slots : contexts[i].id = id
  BY <1>1, <1>3 DEF FileOf
<1> QED BY <1>2, <1>3

\* scran knows the file of an id by the claims of whoever assigned it.
LEMMA StoredFile ==
  ASSUME NotifyInv, NEW n \in Notices, Claimed(n), n.server = server_name,
         \E i \in Slots : contexts[i].id = n.id
  PROVE  FileOf(n.id) = n.file
<1>1. PICK i \in Slots : contexts[i].id = n.id /\ FileOf(n.id) = contexts[i].file
  BY InvParts, FileIsOfASlot
<1> DEFINE o == [server |-> n.server, id |-> n.id, file |-> contexts[i].file]
<1>2. n.id \in Nat /\ n.id # Awaited
  BY InvParts DEF ClaimInv, NotifyType, Notices, Awaited
<1>3. o \in Notices /\ o.server = server_name /\ o.id = n.id /\ o.file = contexts[i].file
  BY InvParts DEF Notices, NotifyType
<1>4. IsStoredAt(i, o)
  BY <1>1, InvParts DEF IsStoredAt, NotifyType
<1> HIDE DEF o
<1>5. Claimed(o)
  BY <1>2, <1>3, <1>4 DEF Claimed, Stored
<1> QED BY <1>1, <1>3, <1>5, InvParts DEF ClaimInv

-----------------------------------------------------------------------------
(* Replies and clicks                                                      *)

\* A message is handled, and at most a file is opened.
LEMMA HandledKeepsInv ==
  ASSUME NotifyInv, in # <<>>, in' = Tail(in), enabled' \in BOOLEAN, EnabledInv',
         UNCHANGED <<contexts, count, server_name, saved, server, alive, asked, shown, ids>>,
         \/ out' = out
         \/ \E f \in Nat : out' = Append(out, [kind |-> "OpenFile", file |-> f, clicked |-> f])
  PROVE  NotifyInv'
<1>1. in' \in Seq(Replies) /\ ToSet(in) = {Head(in)} \cup ToSet(in')
  BY InvParts, TailElements
<1>2. /\ out' \in Seq(Calls)
      /\ \A m \in ToSet(out') : m \in ToSet(out) \/ (m.kind = "OpenFile" /\ m.file = m.clicked)
  <2>1. ASSUME NEW f \in Nat, out' = Append(out, [kind |-> "OpenFile", file |-> f, clicked |-> f])
        PROVE  /\ out' \in Seq(Calls)
               /\ \A m \in ToSet(out') : m \in ToSet(out) \/ (m.kind = "OpenFile" /\ m.file = m.clicked)
    <3> DEFINE e == [kind |-> "OpenFile", file |-> f, clicked |-> f]
    <3>1. e \in Calls /\ e.kind = "OpenFile" /\ e.file = e.clicked
      BY MessageTypes
    <3> HIDE DEF e
    <3>2. Append(out, e) \in Seq(Calls) /\ ToSet(Append(out, e)) = ToSet(out) \cup {e}
      BY <3>1, InvParts, AppendedElements
    <3> QED BY <2>1, <3>1, <3>2 DEF e
  <2> QED BY <2>1, InvParts
<1>3. NotifyType'
  BY <1>1, <1>2, InvParts DEF NotifyType
<1>4. RingInv' /\ FlightInv'
  <2>1. \A m \in ToSet(out') : Placed(m)
    BY <1>2, InvParts DEF FlightInv, Placed, IsOwn
  <2>2. /\ \A m \in ToSet(in') : Placed(m)
        /\ \A s \in Servers : \A m \in ToSet(asked'[s]) : Placed(m)
    BY <1>1, InvParts DEF FlightInv
  <2>3. \A i \in Slots : contexts'[i].id # Awaited => contexts'[i].file # NoFile
    BY InvParts DEF RingInv
  <2> QED BY <1>3, <2>1, <2>2, <2>3, InvKept
<1>5. ClaimInv'
  <2>1. \A n \in Notices : Stored(n)' => Stored(n)
    BY DEF Stored, IsStoredAt
  <2>2. \A n \in Notices : Claimed(n)' => Claimed(n)
    BY <1>1, <2>1 DEF Claimed
  <2>3. \A i \in Slots : contexts'[i].id # Awaited => server_name' \in Servers
    BY InvParts DEF ClaimInv
  <2> QED BY <2>2, <2>3, InvParts, ClaimKept DEF NotifyType
<1>6. ClickInv'
  BY <1>2, InvParts DEF ClickInv
<1>7. CloseInv'
  <2>1. \A s, i : Overtaken(s, i) => Overtaken(s, i)'
    BY InvParts, OvertakenKept DEF NotifyType
  <2> QED BY <1>2, <2>1, InvParts DEF CloseInv
<1> QED BY <1>3, <1>4, <1>5, <1>6, <1>7, InvParts DEF Held

LEMMA ClickKeepsInv ==
  ASSUME NotifyInv, ReplyAddMatch \/ ReplyIgnored \/ ActionInvoked
  PROVE  NotifyInv'
<1>1. in # <<>> /\ in' = Tail(in) /\ UNCHANGED <<contexts, count, server_name, saved, server, alive, asked, shown, ids>>
  BY DEF ReplyAddMatch, ReplyIgnored, ActionInvoked
<1>2. /\ ToSet(in) = {Head(in)} \cup ToSet(in') /\ Head(in) \in Replies
      /\ 1 \in DOMAIN in /\ Head(in) = in[1]
      /\ \A i \in DOMAIN in' : i + 1 \in DOMAIN in /\ in'[i] = in[i + 1] /\ 1 < i + 1
  BY <1>1, InvParts, TailElements
<1>3. \A i \in DOMAIN in' : in'[i].kind # "AddMatch"
  BY <1>2, InvParts DEF EnabledInv
<1>4. NoneOwn(in) => NoneOwn(in')
  BY <1>2 DEF NoneOwn
<1>5. CASE ActionInvoked
  <2> DEFINE click == Head(in)
             file == IF click.from = server_name THEN FileOf(click.id) ELSE NoFile
             n == [server |-> click.from, id |-> click.id, file |-> click.file]
  <2>1. /\ click.kind = "Invoked" /\ enabled' = enabled
        /\ out' = IF file = NoFile THEN out ELSE Append(out, [kind |-> "OpenFile", file |-> file, clicked |-> click.file])
    BY <1>5 DEF ActionInvoked, IsOfServer
  <2>2. /\ n \in Notices /\ n.server = click.from /\ n.id = click.id /\ n.file = click.file
        /\ click.file \in Nat
    BY <1>2, <2>1, MessageFields DEF Notices
  <2> HIDE DEF n
  <2>3. Claimed(n)
    BY <1>2, <2>1, <2>2 DEF Claimed, Tells
  <2>4. file # NoFile => file = click.file
    <3> SUFFICES ASSUME file # NoFile PROVE file = click.file
      OBVIOUS
    <3>1. click.from = server_name /\ file = FileOf(click.id)
      OBVIOUS
    <3>2. \E i \in Slots : contexts[i].id = click.id
      BY <3>1, InvParts, FileIsOfASlot
    <3> QED BY <2>2, <2>3, <3>1, <3>2, StoredFile
  <2>5. \/ out' = out
        \/ \E f \in Nat : out' = Append(out, [kind |-> "OpenFile", file |-> f, clicked |-> f])
    BY <2>1, <2>2, <2>4
  <2>6. EnabledInv'
    <3>1. NoneOwn(out) => NoneOwn(out')
      <4>1. ASSUME NEW f \in Nat, out' = Append(out, [kind |-> "OpenFile", file |-> f, clicked |-> f]), NoneOwn(out)
            PROVE  NoneOwn(out')
        <5> DEFINE e == [kind |-> "OpenFile", file |-> f, clicked |-> f]
        <5>1. e \in Calls /\ ~IsOwn(e)
          BY MessageTypes DEF IsOwn
        <5> HIDE DEF e
        <5>2. ToSet(Append(out, e)) = ToSet(out) \cup {e}
          BY <5>1, InvParts, AppendedElements
        <5> QED BY <4>1, <5>1, <5>2 DEF NoneOwn, e
      <4> QED BY <2>5, <4>1
    <3> QED BY <1>1, <1>3, <1>4, <2>1, <3>1, InvParts DEF EnabledInv, IsFirst
  <2> QED BY <1>1, <2>1, <2>5, <2>6, InvParts, HandledKeepsInv DEF NotifyType
<1>6. CASE ReplyIgnored
  <2>1. out' = out /\ enabled' = enabled
    BY <1>6 DEF ReplyIgnored
  <2>2. EnabledInv'
    BY <1>1, <1>3, <1>4, <2>1, InvParts DEF EnabledInv, IsFirst
  <2> QED BY <1>1, <2>1, <2>2, InvParts, HandledKeepsInv DEF NotifyType
<1>7. CASE ReplyAddMatch
  <2>1. out' = out /\ enabled' \in BOOLEAN /\ Head(in).kind = "AddMatch"
    BY <1>7 DEF ReplyAddMatch
  <2>2. ~enabled
    BY <1>2, <2>1, InvParts DEF EnabledInv
  <2>3. EnabledInv'
    BY <1>1, <1>3, <1>4, <2>1, <2>2, InvParts DEF EnabledInv, IsFirst
  <2> QED BY <1>1, <2>1, <2>3, HandledKeepsInv
<1> QED BY <1>5, <1>6, <1>7

LEMMA OfServerKeeps ==
  ASSUME NotifyType, NEW name
  PROVE  /\ OfServer(name) \in [Slots -> [id : Nat, file : Nat]]
         /\ name = server_name => OfServer(name) = contexts
         /\ \A i \in Slots : /\ OfServer(name)[i].file = contexts[i].file
                             /\ name # server_name => OfServer(name)[i].id = Awaited
<1>1. contexts \in [Slots -> [id : Nat, file : Nat]] /\ DOMAIN contexts = Slots
  BY DEF NotifyType
<1>2. CASE name = server_name
  BY <1>1, <1>2 DEF OfServer
<1>3. CASE name # server_name
  <2>1. OfServer(name) = [i \in Slots |-> [contexts[i] EXCEPT !.id = Awaited]]
    BY <1>1, <1>3 DEF OfServer
  <2>2. \A i \in Slots : [contexts[i] EXCEPT !.id = Awaited] \in [id : Nat, file : Nat]
    BY <1>1 DEF Awaited
  <2> QED BY <1>1, <1>3, <2>1, <2>2
<1> QED BY <1>2, <1>3

\* What the reply changes: either the notification is in the ring and gets its id, or it is closed.
LEMMA Replying ==
  ASSUME NotifyInv, ReplyNotify
  PROVE  LET r == Head(in)
             slot == r.sequence % Length
         IN  /\ in # <<>> /\ in' = Tail(in) /\ in' \in Seq(Replies) /\ r.kind = "Notified"
             /\ ToSet(in) = {r} \cup ToSet(in') /\ r \in ToSet(in)
             /\ \A i \in DOMAIN in' : i + 1 \in DOMAIN in /\ in'[i] = in[i + 1] /\ 1 < i + 1
             /\ r.from \in Servers /\ r.id \in Nat /\ r.file \in 1..saved /\ Age(r.file) \in Nat
             /\ server_name' = r.from
             /\ UNCHANGED <<count, enabled, saved, server, alive, asked, shown, ids>>
             /\ contexts' \in [Slots -> [id : Nat, file : Nat]]
             /\ \A i \in Slots : contexts'[i].file = contexts[i].file
             /\ \/ /\ Age(r.file) <= Length /\ out' = out
                   /\ slot \in Slots /\ contexts'[slot] = [id |-> r.id, file |-> r.file]
                   /\ contexts[slot].file = r.file
                   /\ \A i \in Slots : i # slot => contexts'[i] = OfServer(r.from)[i]
                \/ /\ Age(r.file) > Length /\ out' = out \o CloseCall(r.from, r.id)
                   /\ \A i \in Slots : contexts'[i] = OfServer(r.from)[i]
<1> DEFINE r == Head(in)
           slot == r.sequence % Length
           old == OfServer(r.from)
<1>1. /\ in # <<>> /\ in' = Tail(in) /\ r.kind = "Notified" /\ server_name' = r.from
      /\ IF IsStored(r.sequence) THEN contexts' = [old EXCEPT ![slot].id = r.id] /\ out' = out
         ELSE contexts' = old /\ out' = out \o CloseCall(r.from, r.id)
      /\ UNCHANGED <<count, enabled, saved, server, alive, asked, shown, ids>>
  BY DEF ReplyNotify
<1>2. /\ in' \in Seq(Replies) /\ r \in Replies /\ ToSet(in) = {r} \cup ToSet(in') /\ r \in ToSet(in)
      /\ \A i \in DOMAIN in' : i + 1 \in DOMAIN in /\ in'[i] = in[i + 1] /\ 1 < i + 1
  BY <1>1, InvParts, TailElements
<1>3. r.from \in Servers /\ r.id \in Nat
  BY <1>1, <1>2, MessageFields
<1>4. /\ r.file \in 1..saved /\ r.sequence \in 0..(Wrap - 1)
      /\ (count - r.sequence) % Wrap = Age(r.file)
      /\ Age(r.file) <= Length => contexts[slot].file = r.file
  BY <1>1, <1>2, InvParts DEF FlightInv, Placed, IsOwn
<1>5. /\ old \in [Slots -> [id : Nat, file : Nat]]
      /\ \A i \in Slots : old[i].file = contexts[i].file
  BY InvParts, OfServerKeeps
<1>6. saved \in Nat /\ Length \in Nat /\ Length > 0 /\ Wrap \in Nat
  BY InvParts, CountedBy
<1>7. Age(r.file) \in Nat
  BY <1>4, <1>6 DEF Age
<1>8. slot \in Slots
  <2>1. r.sequence \in Int
    BY <1>4, <1>6
  <2> QED BY <1>6, <2>1, QuotientAndRest DEF Slots
<1>9. IsStored(r.sequence) <=> Age(r.file) <= Length
  BY <1>4 DEF IsStored
<1> HIDE DEF r, slot, old
<1>10. CASE Age(r.file) <= Length
  <2>1. contexts' = [old EXCEPT ![slot].id = r.id] /\ out' = out
    BY <1>1, <1>9, <1>10
  <2>2. /\ contexts' \in [Slots -> [id : Nat, file : Nat]]
        /\ \A i \in Slots : contexts'[i].file = old[i].file /\ (i # slot => contexts'[i] = old[i])
        /\ contexts'[slot] = [id |-> r.id, file |-> old[slot].file]
    BY <1>3, <1>5, <1>8, <2>1
  <2> QED BY <1>1, <1>2, <1>3, <1>4, <1>5, <1>7, <1>8, <1>10, <2>1, <2>2 DEF r, slot, old
<1>11. CASE ~(Age(r.file) <= Length)
  <2>1. contexts' = old /\ out' = out \o CloseCall(r.from, r.id)
    BY <1>1, <1>9, <1>11
  <2>2. Age(r.file) > Length
    BY <1>6, <1>7, <1>11
  <2> QED BY <1>1, <1>2, <1>3, <1>4, <1>5, <1>7, <2>1, <2>2 DEF r, slot, old
<1> QED BY <1>10, <1>11

\* What closing a notification sends.
LEMMA CloseSent ==
  ASSUME NotifyInv, NEW to \in Nat, NEW id \in Nat
  PROVE  /\ out \o CloseCall(to, id) \in Seq(Calls)
         /\ ToSet(out \o CloseCall(to, id)) =
              ToSet(out) \cup (IF id = Awaited THEN {} ELSE {[kind |-> "Close", to |-> to, id |-> id]})
<1> DEFINE c == [kind |-> "Close", to |-> to, id |-> id]
<1>1. c \in Calls
  BY MessageTypes
<1> HIDE DEF c
<1>2. CloseCall(to, id) \in Seq(Calls) /\ ToSet(CloseCall(to, id)) = IF id = Awaited THEN {} ELSE {c}
  BY <1>1 DEF CloseCall, ToSet, c
<1> QED BY <1>2, InvParts, ConcatElements DEF c

LEMMA ReplyKeepsInv ==
  ASSUME NotifyInv, ReplyNotify
  PROVE  NotifyInv'
<1> DEFINE r == Head(in)
           slot == r.sequence % Length
           close == [kind |-> "Close", to |-> r.from, id |-> r.id]
<1>1. /\ in # <<>> /\ in' = Tail(in) /\ in' \in Seq(Replies) /\ r.kind = "Notified"
      /\ ToSet(in) = {r} \cup ToSet(in') /\ r \in ToSet(in)
      /\ \A i \in DOMAIN in' : i + 1 \in DOMAIN in /\ in'[i] = in[i + 1] /\ 1 < i + 1
      /\ r.from \in Servers /\ r.id \in Nat /\ r.file \in 1..saved /\ Age(r.file) \in Nat
      /\ server_name' = r.from
      /\ UNCHANGED <<count, enabled, saved, server, alive, asked, shown, ids>>
      /\ contexts' \in [Slots -> [id : Nat, file : Nat]]
      /\ \A i \in Slots : contexts'[i].file = contexts[i].file
  BY Replying
<1>2. \/ /\ Age(r.file) <= Length /\ out' = out
         /\ slot \in Slots /\ contexts'[slot] = [id |-> r.id, file |-> r.file]
         /\ contexts[slot].file = r.file
         /\ \A i \in Slots : i # slot => contexts'[i] = OfServer(r.from)[i]
      \/ /\ Age(r.file) > Length /\ out' = out \o CloseCall(r.from, r.id)
         /\ \A i \in Slots : contexts'[i] = OfServer(r.from)[i]
  BY Replying
<1> HIDE DEF r, slot
<1>3. r.from \in Nat /\ NotifyType
  BY <1>1, InvParts, Bounds
<1>4. /\ out' \in Seq(Calls)
      /\ \A m \in ToSet(out') : m \in ToSet(out) \/ (m = close /\ Age(r.file) > Length)
  <2>1. ASSUME out' = out \o CloseCall(r.from, r.id)
        PROVE  out' \in Seq(Calls) /\ \A m \in ToSet(out') : m \in ToSet(out) \/ m = close
    BY <1>1, <1>3, <2>1, CloseSent
  <2> HIDE DEF close
  <2> QED BY <1>2, <2>1, InvParts
<1>5. close.kind = "Close" /\ close.to = r.from /\ close.id = r.id
  OBVIOUS
<1> HIDE DEF close
<1>6. NotifyType'
  BY <1>1, <1>3, <1>4 DEF NotifyType
<1>7. \A i \in Slots : contexts'[i].id # Awaited =>
        \/ i = slot /\ contexts'[i] = [id |-> r.id, file |-> r.file]
        \/ server_name = r.from /\ contexts'[i] = contexts[i]
  BY <1>2, <1>3, OfServerKeeps
<1>8. \A i \in Slots : contexts'[i].id # Awaited => contexts'[i].file # NoFile
  <2>1. r.file # NoFile
    BY <1>1 DEF NoFile
  <2> QED BY <1>7, <2>1, InvParts DEF RingInv
<1>9. RingInv' /\ FlightInv'
  <2>1. \A m \in ToSet(out') : Placed(m)
    BY <1>4, <1>5, InvParts DEF FlightInv, Placed, IsOwn
  <2>2. /\ \A m \in ToSet(in') : Placed(m)
        /\ \A s \in Servers : \A m \in ToSet(asked'[s]) : Placed(m)
    BY <1>1, InvParts DEF FlightInv
  <2> QED BY <1>1, <1>6, <1>8, <2>1, <2>2, InvKept
<1>10. EnabledInv'
  <2>1. r \in ToSet(in) /\ IsOwn(r)
    BY <1>1 DEF IsOwn
  <2>2. enabled
    BY <2>1, InvParts DEF EnabledInv, NoneOwn
  <2> QED BY <1>1, <2>2, InvParts DEF EnabledInv
<1>11. ClaimInv'
  <2>1. ASSUME NEW n \in Notices, Stored(n)'
        PROVE  Claimed(n)
    <3>1. PICK i \in Slots : contexts'[i] = [id |-> n.id, file |-> n.file]
      BY <2>1 DEF Stored, IsStoredAt
    <3>2. n.server = r.from /\ n.id # Awaited
      BY <1>1, <2>1 DEF Stored
    <3>3. CASE contexts'[i] = [id |-> r.id, file |-> r.file]
      BY <1>1, <3>1, <3>2, <3>3 DEF Claimed, Tells
    <3>4. CASE server_name = r.from /\ contexts'[i] = contexts[i]
      BY <3>1, <3>2, <3>4 DEF Claimed, Stored, IsStoredAt
    <3> QED BY <1>7, <3>1, <3>2, <3>3, <3>4
  <2>2. \A n \in Notices : Claimed(n)' => Claimed(n)
    BY <1>1, <2>1 DEF Claimed
  <2> QED BY <1>1, <2>2, InvParts, ClaimKept DEF NotifyType
<1>12. ClickInv'
  BY <1>4, <1>5, InvParts DEF ClickInv
<1>13. CloseInv'
  <2>1. \A s, i : Overtaken(s, i) => Overtaken(s, i)'
    BY <1>1, <1>3, OvertakenKept, SMTT(30) DEF NotifyType
  <2>2. ASSUME Age(r.file) > Length
        PROVE  Overtaken(r.from, r.id)
    <3> DEFINE n == [server |-> r.from, id |-> r.id, file |-> r.file]
    <3>1. /\ n \in Notices /\ n.server = r.from /\ n.id = r.id /\ n.file = r.file
      BY <1>1 DEF Notices
    <3> HIDE DEF n
    <3>2. Claimed(n)
      BY <1>1, <3>1 DEF Claimed, Tells
    <3>3. \A o \in shown : o.server = r.from /\ o.id = r.id => o.file = r.file
      BY <1>3, <3>1, <3>2, InvParts DEF ClaimInv, Claimed, NotifyType
    <3>4. r.id \in 1..(ids[r.from] - 1)
      BY <3>1, <3>2, InvParts DEF ClaimInv
    <3>5. r.file # Foreign /\ r.file <= saved - Length
      <4>1. Length \in Nat /\ saved \in Nat
        BY <1>3, InvParts, CountedBy
      <4> QED BY <1>1, <2>2, <4>1 DEF Age, Foreign
    <3> QED BY <1>1, <3>3, <3>4, <3>5 DEF Overtaken
  <2>3. \A c \in ToSet(out') : c.kind = "Close" => Overtaken(c.to, c.id)
    BY <1>4, <1>5, <2>2, InvParts DEF CloseInv
  <2> QED BY <1>1, <2>1, <2>3, InvParts DEF CloseInv
<1> QED BY <1>6, <1>9, <1>10, <1>11, <1>12, <1>13, InvParts DEF Held

-----------------------------------------------------------------------------
(* The bus, the servers and the user                                       *)

\* Messages to scran come behind the reply to AddMatch.
LEMMA Arrives ==
  ASSUME NotifyInv, NEW e \in Replies, e.kind # "AddMatch", in' = Append(in, e), enabled' = enabled
  PROVE  /\ in' \in Seq(Replies) /\ ToSet(in') = ToSet(in) \cup {e}
         /\ \A i \in DOMAIN in' : in'[i].kind = "AddMatch" => i = 1 /\ ~enabled'
<1>1. in \in Seq(Replies) /\ \A i \in DOMAIN in : in[i].kind = "AddMatch" => i = 1 /\ ~enabled
  BY InvParts DEF EnabledInv
<1>2. /\ Append(in, e) \in Seq(Replies) /\ ToSet(Append(in, e)) = ToSet(in) \cup {e}
      /\ DOMAIN Append(in, e) = DOMAIN in \cup {Len(in) + 1} /\ Append(in, e)[Len(in) + 1] = e
      /\ \A i \in DOMAIN in : Append(in, e)[i] = in[i]
  BY <1>1, AppendedElements
<1> QED BY <1>1, <1>2

\* Steps that change no call of scran's, and nothing that scran remembers.
LEMMA BusKeepsInv ==
  ASSUME NotifyInv, UNCHANGED <<contexts, count, server_name, enabled, saved>>, NotifyType', ClaimInv',
         \A s \in Servers : ids'[s] >= ids[s],
         \A n \in shown' : n \in shown \/ n.id = ids[n.server],
         \A m \in ToSet(out') : m \in ToSet(out),
         \A s \in Servers : \A c \in ToSet(asked'[s]) :
           c \in ToSet(asked[s]) \/ (c \in ToSet(out) /\ (c.kind = "Close" => c.to = s)),
         \A m \in ToSet(in') :
           \/ m \in ToSet(in)
           \/ ~IsOwn(m)
           \/ \E s \in Servers : \E c \in ToSet(asked[s]) : IsOwn(c) /\ m.file = c.file /\ m.sequence = c.sequence,
         \A i \in DOMAIN in' : in'[i].kind = "AddMatch" => i = 1 /\ ~enabled'
  PROVE  NotifyInv'
<1>1. /\ \A m \in ToSet(out') : Placed(m)
      /\ \A s \in Servers : \A m \in ToSet(asked'[s]) : Placed(m)
  BY InvParts DEF FlightInv
<1>2. \A m \in ToSet(in') : Placed(m)
  BY InvParts DEF FlightInv, Placed
<1>3. RingInv' /\ FlightInv'
  <2>1. \A i \in Slots : contexts'[i].id # Awaited => contexts'[i].file # NoFile
    BY InvParts DEF RingInv
  <2> QED BY <1>1, <1>2, <2>1, InvKept
<1>4. EnabledInv'
  BY InvParts DEF EnabledInv, NoneOwn, IsFirst
<1>5. ClickInv'
  BY InvParts DEF ClickInv
<1>6. \A s, i : Overtaken(s, i) => Overtaken(s, i)'
  BY InvParts, OvertakenKept, SMTT(30) DEF NotifyType
<1>7. CloseInv'
  <2>1. \A s \in Servers : \A c \in ToSet(asked'[s]) : c.kind = "Close" => Overtaken(s, c.id)
    BY InvParts DEF CloseInv
  <2> QED BY <1>6, <2>1, InvParts DEF CloseInv
<1> QED BY <1>3, <1>4, <1>5, <1>7, InvParts DEF Held

LEMMA RouteKeepsInv ==
  ASSUME NotifyInv, Route
  PROVE  NotifyInv'
<1> DEFINE call == Head(out)
           to == CASE call.kind = "Notify" -> server [] call.kind = "Close" -> call.to [] OTHER -> Nobody
<1>1. /\ out # <<>> /\ out' = Tail(out)
      /\ IF to \in alive
         THEN asked' = [asked EXCEPT ![to] = Append(@, call)] /\ in' = in
         ELSE in' = (IF call.kind = "Notify" THEN Append(in, [kind |-> "Ignored"]) ELSE in) /\ asked' = asked
      /\ UNCHANGED <<contexts, count, server_name, enabled, saved, server, alive, shown, ids>>
  BY DEF Route
<1>2. /\ out' \in Seq(Calls) /\ call \in Calls /\ ToSet(out) = {call} \cup ToSet(out')
  BY <1>1, InvParts, TailElements
<1>3. /\ NotifyType /\ alive \subseteq Servers /\ Nobody \notin Servers
      /\ asked \in [Servers -> Seq(NotifyCalls \cup CloseCalls)]
  BY InvParts, Bounds DEF NotifyType
<1>4. ASSUME to \in alive
      PROVE  /\ asked' \in [Servers -> Seq(NotifyCalls \cup CloseCalls)]
             /\ call.kind = "Close" => call.to = to
             /\ \A s \in Servers : ToSet(asked'[s]) = IF s = to THEN ToSet(asked[s]) \cup {call} ELSE ToSet(asked[s])
  <2>1. call.kind \in {"Notify", "Close"} /\ (call.kind = "Close" => call.to = to)
    BY <1>2, <1>3, <1>4, MessageFields
  <2>2. call \in NotifyCalls \cup CloseCalls
    BY <1>2, <2>1, MessageFields
  <2> HIDE DEF to, call
  <2>3. to \in Servers
    BY <1>3, <1>4
  <2> DEFINE old == asked[to]
  <2>4. old \in Seq(NotifyCalls \cup CloseCalls)
    BY <1>3, <2>3
  <2> HIDE DEF old
  <2>5. /\ Append(old, call) \in Seq(NotifyCalls \cup CloseCalls)
        /\ ToSet(Append(old, call)) = ToSet(old) \cup {call}
    BY <2>2, <2>4, AppendedElements
  <2>6. asked' = [asked EXCEPT ![to] = Append(old, call)]
    BY <1>1, <1>4 DEF old
  <2> QED BY <1>3, <2>1, <2>3, <2>5, <2>6 DEF old
<1>5. /\ in' \in Seq(Replies)
      /\ \A m \in ToSet(in') : m \in ToSet(in) \/ (~IsOwn(m) /\ m.kind = "Ignored")
      /\ \A i \in DOMAIN in' : in'[i].kind = "AddMatch" => i = 1 /\ ~enabled'
  <2>1. CASE in' = in
    BY <1>1, <2>1, InvParts DEF EnabledInv
  <2>2. ASSUME in' = Append(in, [kind |-> "Ignored"])
        PROVE  /\ in' \in Seq(Replies)
               /\ \A m \in ToSet(in') : m \in ToSet(in) \/ (~IsOwn(m) /\ m.kind = "Ignored")
               /\ \A i \in DOMAIN in' : in'[i].kind = "AddMatch" => i = 1 /\ ~enabled'
    <3> DEFINE e == [kind |-> "Ignored"]
    <3>1. e \in Replies /\ e.kind = "Ignored" /\ ~IsOwn(e)
      BY MessageTypes DEF IsOwn
    <3> HIDE DEF e
    <3>2. in' = Append(in, e)
      BY <2>2 DEF e
    <3> QED BY <1>1, <3>1, <3>2, Arrives
  <2> QED BY <1>1, <2>1, <2>2
<1>6. asked' \in [Servers -> Seq(NotifyCalls \cup CloseCalls)]
  BY <1>1, <1>3, <1>4
<1>7. \A s \in Servers : \A c \in ToSet(asked'[s]) :
        c \in ToSet(asked[s]) \/ (c \in ToSet(out) /\ (c.kind = "Close" => c.to = s))
  <2> HIDE DEF to, call
  <2> QED BY <1>1, <1>2, <1>4
<1> HIDE DEF to, call
<1>8. NotifyType'
  BY <1>1, <1>2, <1>3, <1>5, <1>6 DEF NotifyType
<1>9. ClaimInv'
  <2>1. \A n \in Notices : Claimed(n)' => Claimed(n)
    <3>1. \A n \in Notices, m \in ToSet(in') : Tells(m, n) => m \in ToSet(in)
      BY <1>5 DEF Tells
    <3> QED BY <1>1, <3>1 DEF Claimed, Stored, IsStoredAt
  <2> QED BY <1>1, <1>3, <2>1, InvParts, ClaimKept DEF ClaimInv, NotifyType
<1>10. \A s \in Servers : ids'[s] >= ids[s]
  BY <1>1, <1>3 DEF NotifyType
<1> QED BY <1>1, <1>2, <1>5, <1>7, <1>8, <1>9, <1>10, BusKeepsInv

LEMMA ServeKeepsInv ==
  ASSUME NotifyInv, NEW s \in alive, Serve(s)
  PROVE  NotifyInv'
<1> DEFINE call == Head(asked[s])
           old == asked[s]
<1>1. /\ asked[s] # <<>> /\ asked' = [asked EXCEPT ![s] = Tail(@)]
      /\ UNCHANGED <<contexts, count, server_name, enabled, saved, out, server, alive>>
  BY DEF Serve
<1>2. /\ NotifyType /\ s \in Servers /\ s \in Nat /\ ids[s] \in Nat \ {0} /\ ids[s] \in Nat
      /\ asked \in [Servers -> Seq(NotifyCalls \cup CloseCalls)]
      /\ in \in Seq(Replies) /\ shown \in SUBSET Notices /\ ids \in [Servers -> Nat \ {0}]
  BY InvParts, Bounds DEF NotifyType
<1>3. /\ call \in NotifyCalls \cup CloseCalls /\ ToSet(asked[s]) = {call} \cup ToSet(asked'[s])
      /\ asked' \in [Servers -> Seq(NotifyCalls \cup CloseCalls)]
      /\ \A x \in Servers : ToSet(asked'[x]) \subseteq ToSet(asked[x])
  <2>1. old \in Seq(NotifyCalls \cup CloseCalls) /\ old # <<>>
    BY <1>1, <1>2
  <2> HIDE DEF old
  <2>2. /\ Tail(old) \in Seq(NotifyCalls \cup CloseCalls) /\ Head(old) \in NotifyCalls \cup CloseCalls
        /\ ToSet(old) = {Head(old)} \cup ToSet(Tail(old))
    BY <2>1, TailElements
  <2>3. asked' = [asked EXCEPT ![s] = Tail(old)]
    BY <1>1 DEF old
  <2>4. asked'[s] = Tail(old) /\ \A x \in Servers : x # s => asked'[x] = asked[x]
    BY <1>2, <2>3
  <2>5. asked' \in [Servers -> Seq(NotifyCalls \cup CloseCalls)]
    BY <1>2, <2>2, <2>3
  <2>6. \A x \in Servers : ToSet(asked'[x]) \subseteq ToSet(asked[x])
    BY <1>2, <2>2, <2>4 DEF old
  <2> QED BY <2>2, <2>4, <2>5, <2>6 DEF old
<1>4. ASSUME shown' \in SUBSET Notices, in' \in Seq(Replies), ids' \in [Servers -> Nat \ {0}],
             ClaimInv', \A x \in Servers : ids'[x] >= ids[x],
             \A n \in shown' : n \in shown \/ n.id = ids[n.server],
             \A m \in ToSet(in') : m \in ToSet(in) \/ ~IsOwn(m)
                                   \/ (IsOwn(call) /\ m.file = call.file /\ m.sequence = call.sequence),
             \A i \in DOMAIN in' : in'[i].kind = "AddMatch" => i = 1 /\ ~enabled'
      PROVE  NotifyInv'
  <2>1. NotifyType'
    BY <1>1, <1>2, <1>3, <1>4 DEF NotifyType
  <2>2. call \in ToSet(asked[s])
    BY <1>3
  <2> HIDE DEF call
  <2> QED BY <1>1, <1>2, <1>3, <1>4, <2>1, <2>2, BusKeepsInv
<1>5. \A n \in Notices : Stored(n)' <=> Stored(n)
  BY <1>1 DEF Stored, IsStoredAt
<1>6. \A i \in Slots : contexts'[i].id # Awaited => server_name' \in Servers
  BY <1>1, InvParts DEF ClaimInv
<1>7. CASE call.kind = "Close"
  <2>1. shown' \subseteq shown /\ UNCHANGED <<in, ids>>
    BY <1>7 DEF Serve
  <2>2. \A x \in Servers : ids'[x] >= ids[x]
    BY <1>2, <2>1
  <2>3. ClaimInv'
    <3>1. \A n \in Notices : Claimed(n)' => Claimed(n)
      BY <1>5, <2>1 DEF Claimed
    <3> QED BY <1>2, <1>6, <2>1, <2>2, <3>1, InvParts, ClaimKept
  <2> QED BY <1>1, <1>2, <1>4, <2>1, <2>2, <2>3, InvParts DEF EnabledInv
<1>8. CASE call.kind = "Notify" /\ call.file = NoFile
  <2> DEFINE e == [kind |-> "Ignored"]
  <2>1. shown' = shown /\ in' = Append(in, e) /\ ids' = [ids EXCEPT ![s] = @ + 1]
    BY <1>8 DEF Serve
  <2>2. e \in Replies /\ e.kind = "Ignored" /\ ~IsOwn(e)
    BY MessageTypes DEF IsOwn
  <2> HIDE DEF e
  <2>3. /\ in' \in Seq(Replies) /\ ToSet(in') = ToSet(in) \cup {e}
        /\ \A i \in DOMAIN in' : in'[i].kind = "AddMatch" => i = 1 /\ ~enabled'
    BY <1>1, <2>1, <2>2, Arrives
  <2>4. ids' \in [Servers -> Nat \ {0}] /\ \A x \in Servers : ids'[x] >= ids[x]
    BY <1>2, <2>1
  <2>5. ClaimInv'
    <3>1. \A n \in Notices : Claimed(n)' => Claimed(n)
      BY <1>5, <2>1, <2>2, <2>3 DEF Claimed, Tells
    <3> QED BY <1>2, <1>6, <2>4, <3>1, InvParts, ClaimKept
  <2> QED BY <1>2, <1>4, <2>1, <2>2, <2>3, <2>4, <2>5
<1>9. CASE call.kind = "Notify" /\ call.file # NoFile
  <2> DEFINE e == Replied(s, call)
             k == [server |-> s, id |-> ids[s], file |-> call.file]
  <2>1. shown' = shown \cup {k} /\ in' = Append(in, e) /\ ids' = [ids EXCEPT ![s] = @ + 1]
    BY <1>9 DEF Serve, Shows
  <2>2. IsOwn(call) /\ call.file \in Nat /\ call.sequence \in Nat
    BY <1>3, <1>9 DEF IsOwn, NotifyCalls, CloseCalls
  <2>3. /\ e \in Replies /\ e.kind = "Notified" /\ e.from = s /\ e.id = ids[s] /\ e.file = call.file
        /\ e.sequence = call.sequence
    BY <1>2, <2>2, MessageTypes DEF Replied
  <2>4. k \in Notices /\ k.server = s /\ k.id = ids[s] /\ k.file = call.file
    BY <1>2, <2>2 DEF Notices
  <2> HIDE DEF e, call
  <2>5. /\ in' \in Seq(Replies) /\ ToSet(in') = ToSet(in) \cup {e}
        /\ \A i \in DOMAIN in' : in'[i].kind = "AddMatch" => i = 1 /\ ~enabled'
    BY <1>1, <2>1, <2>3, Arrives
  <2>6. ids' \in [Servers -> Nat \ {0}] /\ \A x \in Servers : ids'[x] >= ids[x]
    BY <1>2, <2>1
  <2>7. ASSUME NEW n \in Notices, Tells(e, n)
        PROVE  n = k
    BY <2>3, <2>7 DEF Tells, Notices
  <2> HIDE DEF k
  <2>8. ClaimInv'
    <3>1. \A n \in Notices : Claimed(n)' => Claimed(n) \/ n = k
      BY <1>5, <2>1, <2>5, <2>7 DEF Claimed
    <3> QED BY <1>1, <1>2, <2>1, <2>4, <3>1, InvParts, ClaimMade
  <2> QED BY <1>2, <1>4, <2>1, <2>2, <2>3, <2>4, <2>5, <2>6, <2>8
<1> QED BY <1>7, <1>8, <1>9 DEF Serve

LEMMA OthersKeepInv ==
  ASSUME NotifyInv,
         \/ ForeignNotify
         \/ \E n \in shown : Click(n)
         \/ \E s \in alive : ServerDies(s)
         \/ \E s \in Servers : ServerStarts(s)
         \/ UNCHANGED vars
  PROVE  NotifyInv'
<1>1. /\ NotifyType /\ out \in Seq(Calls) /\ in \in Seq(Replies) /\ shown \in SUBSET Notices
      /\ ids \in [Servers -> Nat \ {0}] /\ alive \subseteq Servers /\ Foreign \in Nat
      /\ asked \in [Servers -> Seq(NotifyCalls \cup CloseCalls)]
      /\ \A i \in DOMAIN in : in[i].kind = "AddMatch" => i = 1 /\ ~enabled
      /\ \A i \in Slots : contexts[i].id # Awaited => server_name \in Servers
  BY InvParts DEF NotifyType, EnabledInv, ClaimInv, Foreign
<1>2. ASSUME UNCHANGED <<contexts, server_name>>
      PROVE  \A n \in Notices : Stored(n)' <=> Stored(n)
  BY <1>2 DEF Stored, IsStoredAt
<1>3. CASE ForeignNotify
  <2> DEFINE k == [server |-> server, id |-> ids[server], file |-> Foreign]
  <2>1. /\ server \in alive /\ shown' = shown \cup {k} /\ ids' = [ids EXCEPT ![server] = @ + 1]
        /\ UNCHANGED <<contexts, count, server_name, enabled, saved, out, in, server, alive, asked>>
    BY <1>3 DEF ForeignNotify, Shows
  <2>2. k \in Notices /\ k.server = server /\ k.id = ids[server]
    BY <1>1, <2>1 DEF Notices
  <2> HIDE DEF k
  <2>3. ids' \in [Servers -> Nat \ {0}] /\ \A x \in Servers : ids'[x] >= ids[x]
    BY <1>1, <2>1
  <2>4. ClaimInv'
    <3>1. \A n \in Notices : Claimed(n)' => Claimed(n) \/ n = k
      BY <1>2, <2>1 DEF Claimed
    <3> QED BY <1>1, <2>1, <2>2, <3>1, InvParts, ClaimMade
  <2>5. NotifyType'
    BY <1>1, <2>1, <2>2, <2>3 DEF NotifyType
  <2> QED BY <1>1, <2>1, <2>2, <2>3, <2>4, <2>5, BusKeepsInv
<1>4. ASSUME NEW n \in shown, Click(n)
      PROVE  NotifyInv'
  <2> DEFINE e == [kind |-> "Invoked", from |-> n.server, id |-> n.id, file |-> n.file]
  <2>1. /\ in' = Append(in, e) /\ shown' \subseteq shown
        /\ UNCHANGED <<contexts, count, server_name, enabled, saved, out, server, alive, asked, ids>>
    BY <1>4 DEF Click
  <2>2. n \in Notices /\ n.server \in Servers /\ n.id \in Nat /\ n.file \in Nat
    BY <1>1 DEF Notices
  <2>3. /\ e \in Replies /\ e.kind = "Invoked" /\ e.from = n.server /\ e.id = n.id /\ e.file = n.file
        /\ ~IsOwn(e)
    BY <2>2, MessageTypes DEF IsOwn
  <2> HIDE DEF e
  <2>4. /\ in' \in Seq(Replies) /\ ToSet(in') = ToSet(in) \cup {e}
        /\ \A i \in DOMAIN in' : in'[i].kind = "AddMatch" => i = 1 /\ ~enabled'
    BY <2>1, <2>3, Arrives
  <2>5. ASSUME NEW o \in Notices, Tells(e, o)
        PROVE  o = n
    <3>1. o.server = n.server /\ o.id = n.id /\ o.file = n.file
      BY <2>3, <2>5 DEF Tells
    <3>2. n \in Notices /\ o \in Notices
      BY <1>1, <1>4
    <3> QED BY <3>1, <3>2 DEF Notices
  <2>6. \A x \in Servers : ids'[x] >= ids[x]
    BY <1>1, <2>1
  <2>7. ClaimInv'
    <3>1. \A o \in Notices : Claimed(o)' => Claimed(o)
      BY <1>2, <2>1, <2>4, <2>5 DEF Claimed
    <3> QED BY <1>1, <2>1, <2>6, <3>1, InvParts, ClaimKept
  <2>8. NotifyType'
    BY <1>1, <2>1, <2>4 DEF NotifyType
  <2> QED BY <1>1, <2>1, <2>3, <2>4, <2>6, <2>7, <2>8, BusKeepsInv
<1>5. ASSUME UNCHANGED <<contexts, count, server_name, enabled, saved, out, in, ids>>,
             alive' \subseteq Servers, server' \in Servers \cup {Nobody}, shown' \subseteq shown,
             asked' \in [Servers -> Seq(NotifyCalls \cup CloseCalls)],
             \A s \in Servers : ToSet(asked'[s]) \subseteq ToSet(asked[s])
      PROVE  NotifyInv'
  <2>1. \A x \in Servers : ids'[x] >= ids[x]
    BY <1>1, <1>5
  <2>2. ClaimInv'
    <3>1. \A o \in Notices : Claimed(o)' => Claimed(o)
      BY <1>2, <1>5 DEF Claimed
    <3> QED BY <1>1, <1>5, <2>1, <3>1, InvParts, ClaimKept
  <2>3. NotifyType'
    BY <1>1, <1>5 DEF NotifyType
  <2> QED BY <1>1, <1>5, <2>1, <2>2, <2>3, BusKeepsInv
<1>6. ASSUME NEW s \in alive, ServerDies(s)
      PROVE  NotifyInv'
  <2>1. /\ alive' = alive \ {s} /\ server' = (IF server = s THEN Nobody ELSE server)
        /\ shown' \subseteq shown /\ asked' = [asked EXCEPT ![s] = <<>>]
        /\ UNCHANGED <<contexts, count, server_name, enabled, saved, out, in, ids>>
    BY <1>6 DEF ServerDies
  <2>2. /\ asked' \in [Servers -> Seq(NotifyCalls \cup CloseCalls)]
        /\ \A x \in Servers : asked'[x] = IF x = s THEN <<>> ELSE asked[x]
    BY <1>1, <2>1
  <2>3. ToSet(<<>>) = {}
    BY DEF ToSet
  <2>4. \A x \in Servers : ToSet(asked'[x]) \subseteq ToSet(asked[x])
    BY <2>2, <2>3
  <2> QED BY <1>1, <1>5, <2>1, <2>2, <2>4 DEF NotifyType
<1>7. ASSUME NEW s \in Servers, ServerStarts(s)
      PROVE  NotifyInv'
  BY <1>1, <1>5, <1>7 DEF ServerStarts
<1>8. CASE UNCHANGED vars
  <2>1. UNCHANGED <<contexts, count, server_name, enabled, saved, out, in, server, alive, asked, shown, ids>>
    BY <1>8 DEF vars
  <2> QED BY <1>1, <1>5, <2>1 DEF NotifyType
<1> QED BY <1>3, <1>4, <1>6, <1>7, <1>8

-----------------------------------------------------------------------------
(* The theorems                                                            *)

LEMMA InitNotifyInv ==
  ASSUME NotificationBounds, Init
  PROVE  NotifyInv
<1>1. /\ contexts \in [Slots -> [id : Nat, file : Nat]]
      /\ \A i \in Slots : contexts[i] = [id |-> Awaited, file |-> NoFile] /\ contexts[i].id = Awaited /\ contexts[i].file = NoFile
      /\ count = 0 /\ saved = 0 /\ server_name = Nobody /\ enabled = FALSE
      /\ out = <<>> /\ server = 1 /\ alive = {1} /\ shown = {}
      /\ in = <<[kind |-> "AddMatch"]>>
  BY DEF Init, Slots, Awaited, NoFile
<1>2. asked \in [Servers -> {<<>>}] /\ ids \in [Servers -> {1}]
  BY DEF Init, Servers
<1>3. /\ ToSet(<<>>) = {} /\ out \in Seq(Calls)
      /\ \A s \in Servers : asked[s] = <<>> /\ ids[s] = 1 /\ ToSet(asked[s]) = {}
      /\ asked \in [Servers -> Seq(NotifyCalls \cup CloseCalls)] /\ ids \in [Servers -> Nat \ {0}]
  <2>1. ToSet(<<>>) = {}
    BY DEF ToSet
  <2>2. \A s \in Servers : asked[s] = <<>> /\ ids[s] = 1
    BY <1>2
  <2>3. ids \in [Servers -> Nat \ {0}]
    BY <1>2
  <2>4. <<>> \in Seq(Calls) /\ <<>> \in Seq(NotifyCalls \cup CloseCalls)
    OBVIOUS
  <2>5. asked \in [Servers -> Seq(NotifyCalls \cup CloseCalls)]
    BY <1>2, <2>4
  <2> QED BY <1>1, <2>1, <2>2, <2>3, <2>4, <2>5
<1> DEFINE e == [kind |-> "AddMatch"]
<1>4. e \in Replies /\ e.kind = "AddMatch" /\ ~IsOwn(e)
  BY DEF Replies, IsOwn
<1>5. in = <<e>>
  BY <1>1
<1> HIDE DEF e
<1>6. in \in Seq(Replies) /\ DOMAIN in = {1} /\ in[1] = e /\ ToSet(in) = {e}
  BY <1>4, <1>5 DEF ToSet
<1>7. NotifyType
  <2>1. count \in 0..(Wrap - 1) /\ saved \in Nat /\ server_name \in Nat
    BY <1>1, Bounds DEF Nobody
  <2>2. enabled \in BOOLEAN
    BY <1>1
  <2>3. server \in Servers \cup {Nobody} /\ alive \subseteq Servers /\ shown \in SUBSET Notices
    BY <1>1, Bounds
  <2> QED BY <1>1, <1>3, <1>6, <2>1, <2>3, <2>2 DEF NotifyType
<1>8. RingInv
  BY <1>1 DEF RingInv
<1>9. FlightInv
  BY <1>1, <1>3, <1>4, <1>6 DEF FlightInv, Placed
<1>10. EnabledInv
  BY <1>1, <1>3, <1>4, <1>6 DEF EnabledInv, IsFirst, NoneOwn
<1>11. ClaimInv
  <2>1. \A n \in Notices : ~Claimed(n)
    BY <1>1, <1>4, <1>6 DEF Claimed, Tells, Stored, IsStoredAt
  <2> QED BY <1>1, <2>1 DEF ClaimInv
<1>12. ClickInv /\ CloseInv
  BY <1>1, <1>3 DEF ClickInv, CloseInv
<1> QED BY <1>7, <1>8, <1>9, <1>10, <1>11, <1>12 DEF NotifyInv

LEMMA NextKeepsNotifyInv ==
  ASSUME NotifyInv, [Next]_vars
  PROVE  NotifyInv'
<1>1. CASE NotifyFileSaved
  BY <1>1, SavedKeepsInv
<1>2. CASE ReplyAddMatch \/ ReplyIgnored \/ ActionInvoked
  BY <1>2, ClickKeepsInv
<1>3. CASE ReplyNotify
  BY <1>3, ReplyKeepsInv
<1>4. CASE Route
  BY <1>4, RouteKeepsInv
<1>5. ASSUME NEW s \in alive, Serve(s)
      PROVE  NotifyInv'
  BY <1>5, ServeKeepsInv
<1>6. ASSUME \/ ForeignNotify
             \/ \E n \in shown : Click(n)
             \/ \E s \in alive : ServerDies(s)
             \/ \E s \in Servers : ServerStarts(s)
             \/ UNCHANGED vars
      PROVE  NotifyInv'
  BY <1>6, OthersKeepInv
<1> QED BY <1>1, <1>2, <1>3, <1>4, <1>5, <1>6 DEF Next, Idle, Servers

\* The bounds are constants.
LEMMA SpecNotifyInv == Spec => [](NotificationBounds => NotifyInv)
<1>1. Init => (NotificationBounds => NotifyInv)
  BY InitNotifyInv
<1>2. (NotificationBounds => NotifyInv) /\ [Next]_vars => (NotificationBounds => NotifyInv)'
  BY NextKeepsNotifyInv DEF NotificationBounds
<1> QED BY <1>1, <1>2, PTL DEF Spec

\* A click opens the file of the notification or nothing, whatever servers come, go and number alike: what is
\* shown, answered, told and stored under an id of a server is of one file.
THEOREM ClicksAlwaysOpenTheirFile == Spec => [](NotificationBounds => ClickOpensItsFile)
<1>1. NotifyInv => ClickOpensItsFile
  BY DEF NotifyInv, ClickInv, ClickOpensItsFile, ToSet
<1> QED BY <1>1, SpecNotifyInv, PTL

\* scran closes only its own notifications, and only those that the ring has no place for any more.
THEOREM OnlyOvertakenOnesAreClosed == Spec => [](NotificationBounds => ClosesOnlyOvertaken)
<1>1. NotifyInv => ClosesOnlyOvertaken
  BY DEF NotifyInv, NotifyType, CloseInv, Overtaken, Notices, ClosesOnlyOvertaken
<1> QED BY <1>1, SpecNotifyInv, PTL

-----------------------------------------------------------------------------
(* Orders                                                                  *)

LEMMA OrderAppended ==
  ASSUME NEW S, NEW s \in Seq(S), NEW e \in S, InOrder(s),
         \A m \in ToSet(s) : IsOwn(m) /\ IsOwn(e) => m.file < e.file
  PROVE  InOrder(Append(s, e))
<1> DEFINE t == Append(s, e)
<1>1. /\ DOMAIN t = DOMAIN s \cup {Len(s) + 1} /\ t[Len(s) + 1] = e
      /\ \A i \in DOMAIN s : t[i] = s[i] /\ i \in Nat /\ i < Len(s) + 1
      /\ Len(s) + 1 \in Nat
  BY AppendedElements
<1>2. \A i \in DOMAIN s : s[i] \in ToSet(s)
  BY DEF ToSet
<1> HIDE DEF t
<1>3. \A i, j \in DOMAIN t : IsOwn(t[i]) /\ IsOwn(t[j]) /\ i < j => t[i].file < t[j].file
  <2> SUFFICES ASSUME NEW i \in DOMAIN t, NEW j \in DOMAIN t, IsOwn(t[i]), IsOwn(t[j]), i < j
               PROVE  t[i].file < t[j].file
    OBVIOUS
  <2>1. i \in DOMAIN s
    BY <1>1
  <2>2. CASE j \in DOMAIN s
    BY <1>1, <2>1, <2>2 DEF InOrder
  <2>3. CASE j = Len(s) + 1
    BY <1>1, <1>2, <2>1, <2>3
  <2> QED BY <1>1, <2>2, <2>3
<1> QED BY <1>3 DEF InOrder, t

LEMMA OrderOfTail ==
  ASSUME NEW S, NEW s \in Seq(S), s # <<>>, InOrder(s)
  PROVE  /\ InOrder(Tail(s))
         /\ \A m \in ToSet(Tail(s)) : IsOwn(Head(s)) /\ IsOwn(m) => Head(s).file < m.file
<1> DEFINE t == Tail(s)
           h == Head(s)
<1>1. /\ h = s[1] /\ 1 \in DOMAIN s
      /\ \A i \in DOMAIN t : i \in Nat /\ i + 1 \in DOMAIN s /\ t[i] = s[i + 1] /\ 1 < i + 1
  BY TailElements
<1>2. \A m \in ToSet(t) : \E i \in DOMAIN t : m = t[i]
  BY DEF ToSet
<1> HIDE DEF t, h
<1>3. \A i, j \in DOMAIN t : IsOwn(t[i]) /\ IsOwn(t[j]) /\ i < j => t[i].file < t[j].file
  <2> SUFFICES ASSUME NEW i \in DOMAIN t, NEW j \in DOMAIN t, IsOwn(t[i]), IsOwn(t[j]), i < j
               PROVE  t[i].file < t[j].file
    OBVIOUS
  <2>1. i + 1 \in DOMAIN s /\ j + 1 \in DOMAIN s /\ i + 1 < j + 1 /\ t[i] = s[i + 1] /\ t[j] = s[j + 1]
    BY <1>1
  <2> QED BY <2>1 DEF InOrder
<1>4. \A m \in ToSet(t) : IsOwn(h) /\ IsOwn(m) => h.file < m.file
  <2> SUFFICES ASSUME NEW m \in ToSet(t), IsOwn(h), IsOwn(m)
               PROVE  h.file < m.file
    OBVIOUS
  <2>1. PICK i \in DOMAIN t : m = t[i]
    BY <1>2
  <2>2. i + 1 \in DOMAIN s /\ 1 < i + 1 /\ m = s[i + 1] /\ 1 \in DOMAIN s /\ h = s[1]
    BY <1>1, <2>1
  <2> QED BY <2>2 DEF InOrder
<1> QED BY <1>3, <1>4 DEF InOrder, t, h

LEMMA OrderJoined ==
  ASSUME NEW S, NEW s \in Seq(S), NEW t \in Seq(S), InOrder(s), NoneOwn(t)
  PROVE  InOrder(s \o t)
<1> DEFINE u == s \o t
<1>1. /\ \A i \in DOMAIN s : i \in DOMAIN u /\ u[i] = s[i]
      /\ \A i \in DOMAIN u : i \in DOMAIN s \/ (i \notin DOMAIN s /\ i - Len(s) \in DOMAIN t /\ u[i] = t[i - Len(s)])
  BY ConcatElements
<1>2. \A i \in DOMAIN t : ~IsOwn(t[i])
  BY DEF NoneOwn, ToSet
<1> HIDE DEF u
<1>3. \A i \in DOMAIN u : IsOwn(u[i]) => i \in DOMAIN s /\ u[i] = s[i]
  BY <1>1, <1>2
<1> QED BY <1>3 DEF InOrder, u

-----------------------------------------------------------------------------
(* What steps leave as it is, of the servers' order                        *)

OrderHolds ==
  /\ InOrder(out)' /\ InOrder(in)' /\ \A s \in Servers : InOrder(asked[s])'

LEMMA OrderKept ==
  ASSUME OrderInv, OrderHolds,
         \A i \in Slots : contexts'[i].id # Awaited => contexts'[i] = contexts[i],
         \A m \in ToSet(out') : IsOwn(m) => m \in ToSet(out),
         \A m \in ToSet(in') : IsOwn(m) => m \in ToSet(in),
         \A s \in Servers : \A m \in ToSet(asked'[s]) : IsOwn(m) => m \in ToSet(asked[s])
  PROVE  OrderInv'
<1>1. StoredBefore(out)' /\ StoredBefore(in)' /\ \A s \in Servers : StoredBefore(asked[s])'
  BY DEF OrderInv, StoredBefore
<1>2. Before(in, out)' /\ \A s \in Servers : Before(in, asked[s])' /\ Before(asked[s], out)'
  BY DEF OrderInv, Before
<1> QED BY <1>1, <1>2 DEF OrderInv, OrderHolds

LEMMA OpenKept ==
  ASSUME OpenInv,
         \A n \in shown' : n \in shown \/ n.file = Foreign,
         \A n \in shown' : Stored(n) => Stored(n)' \/ Closing(n)',
         \A m \in ToSet(in) : IsReply(m) => m \in ToSet(in'),
         \A c \in ToSet(out) : \A n \in shown' : Closes(c, n) /\ c.to = n.server =>
           c \in ToSet(out') \/ c \in ToSet(asked'[n.server]),
         \A n \in shown' : \A c \in ToSet(asked[n.server]) : Closes(c, n) => c \in ToSet(asked'[n.server])
  PROVE  OpenInv'
<1> SUFFICES ASSUME NEW n \in shown', n.file # Foreign
             PROVE  Stored(n)' \/ Pending(n)' \/ Closing(n)'
  BY DEF OpenInv
<1>1. n \in shown /\ (Stored(n) \/ Pending(n) \/ Closing(n))
  BY DEF OpenInv
<1>2. Pending(n) => Pending(n)'
  BY DEF Pending
<1>3. Closing(n) => Closing(n)'
  BY DEF Closing
<1> QED BY <1>1, <1>2, <1>3

\* An id that was told has been given.
LEMMA IdsGiven ==
  ASSUME NotifyInv
  PROVE  /\ \A m \in ToSet(in) : IsReply(m) =>
              m.from \in Servers /\ m.id \in Nat /\ m.file \in Nat /\ ids[m.from] > 1 /\ m.id # Awaited
         /\ \A n \in shown : n \in Notices /\ n.server \in Servers /\ n.id # Awaited
<1>1. /\ in \in Seq(Replies) /\ ids \in [Servers -> Nat \ {0}] /\ shown \subseteq Notices
      /\ \A n \in Notices : Claimed(n) => n.id \in 1..(ids[n.server] - 1)
  BY InvParts DEF NotifyType, ClaimInv
<1>2. ASSUME NEW m \in ToSet(in), IsReply(m)
      PROVE  m.from \in Servers /\ m.id \in Nat /\ m.file \in Nat /\ ids[m.from] > 1 /\ m.id # Awaited
  <2>1. m \in Replies
    BY <1>1 DEF ToSet
  <2>2. m.from \in Servers /\ m.id \in Nat /\ m.file \in Nat
    BY <1>2, <2>1, MessageFields DEF IsReply
  <2> DEFINE n == [server |-> m.from, id |-> m.id, file |-> m.file]
  <2>3. n \in Notices /\ Tells(m, n) /\ n.server = m.from /\ n.id = m.id
    BY <1>2, <2>2 DEF Notices, Tells, IsReply
  <2> HIDE DEF n
  <2>4. n.id \in 1..(ids[n.server] - 1)
    BY <1>1, <1>2, <2>3 DEF Claimed
  <2> QED BY <1>1, <2>2, <2>3, <2>4 DEF Awaited
<1>3. ASSUME NEW n \in shown
      PROVE  n \in Notices /\ n.server \in Servers /\ n.id # Awaited
  <2>1. n \in Notices /\ n.server \in Servers
    BY <1>1, <1>3 DEF Notices
  <2>2. n.id \in 1..(ids[n.server] - 1)
    BY <1>1, <1>3, <2>1 DEF Claimed
  <2> QED BY <1>1, <2>1, <2>2 DEF Awaited
<1> QED BY <1>2, <1>3

LEMMA ServersKept ==
  ASSUME NotifyInv, ServersInv, UNCHANGED <<server, alive>>, \A n \in shown' : n.server \in alive,
         \A s \in Servers : s \notin alive => asked'[s] = <<>>,
         ids' = ids \/ \E s \in alive : ids' = [ids EXCEPT ![s] = @ + 1]
  PROVE  ServersInv' /\ ids' \in [Servers -> Nat \ {0}] /\ \A s \in Servers : ids'[s] >= ids[s]
<1>1. ids \in [Servers -> Nat \ {0}] /\ alive \subseteq Servers /\ Servers \subseteq Nat
  BY InvParts, Bounds DEF NotifyType
<1>2. CASE ids' = ids
  BY <1>1, <1>2 DEF ServersInv
<1>3. ASSUME NEW s \in alive, ids' = [ids EXCEPT ![s] = @ + 1]
      PROVE  ServersInv' /\ ids' \in [Servers -> Nat \ {0}] /\ \A x \in Servers : ids'[x] >= ids[x]
  <2>1. /\ ids' \in [Servers -> Nat \ {0}] /\ ids'[s] = ids[s] + 1 /\ ids'[s] > 1 /\ s \in Servers
        /\ \A x \in Servers : x # s => ids'[x] = ids[x]
        /\ \A x \in Servers : ids'[x] >= ids[x] /\ (ids[x] > 1 => ids'[x] > 1)
    BY <1>1, <1>3
  <2>2. alive \subseteq {s}
    BY <1>3 DEF ServersInv
  <2>3. \A x, y \in Servers : x < y /\ ids'[y] > 1 => ids'[x] > 1
    BY <1>1, <1>3, <2>1 DEF ServersInv
  <2>4. \A x \in Servers, y \in alive' : (x < y => ids'[x] > 1) /\ (x > y => ids'[x] = 1)
    <3> SUFFICES ASSUME NEW x \in Servers
                 PROVE  (x < s => ids'[x] > 1) /\ (x > s => ids'[x] = 1)
      BY <2>2
    <3>1. (x < s => ids[x] > 1) /\ (x > s => ids[x] = 1)
      BY <1>3 DEF ServersInv
    <3>2. x > s => x # s
      BY <1>1, <2>1
    <3> QED BY <2>1, <3>1, <3>2
  <2> QED BY <2>1, <2>3, <2>4 DEF ServersInv
<1> QED BY <1>2, <1>3

\* What is in scran's inbox, other than new replies.
LEMMA InboxKept ==
  ASSUME NotifyInv, RepliesInv, OrderInv,
         \/ in' = in
         \/ in # <<>> /\ in' = Tail(in)
         \/ \E e \in Replies : in' = Append(in, e) /\ ~IsReply(e)
  PROVE  /\ FromsInOrder' /\ InOrder(in)'
         /\ \A m \in ToSet(in') : IsOwn(m) => m \in ToSet(in)
         /\ \A m \in ToSet(in') : IsReply(m) => m \in ToSet(in)
         /\ \/ in # <<>> /\ in' = Tail(in) /\ IsReply(Head(in))
            \/ \A m \in ToSet(in) : IsReply(m) => m \in ToSet(in')
<1>1. in \in Seq(Replies) /\ FromsInOrder /\ InOrder(in)
  BY InvParts DEF RepliesInv, OrderInv
<1>2. CASE in' = in
  BY <1>1, <1>2 DEF FromsInOrder, InOrder
<1>3. CASE in # <<>> /\ in' = Tail(in)
  <2> DEFINE h == Head(in)
  <2>1. /\ \A i \in DOMAIN in' : i \in Nat /\ i + 1 \in DOMAIN in /\ in'[i] = in[i + 1]
        /\ ToSet(in) = {h} \cup ToSet(in')
    BY <1>1, <1>3, TailElements
  <2>2. InOrder(in)'
    BY <1>1, <1>3, OrderOfTail DEF InOrder
  <2>3. FromsInOrder'
    <3> SUFFICES ASSUME NEW i \in DOMAIN in', NEW j \in DOMAIN in', IsReply(in'[i]), IsReply(in'[j]), i < j
                 PROVE  in'[i].from <= in'[j].from
      BY DEF FromsInOrder
    <3>1. i + 1 \in DOMAIN in /\ j + 1 \in DOMAIN in /\ i + 1 < j + 1 /\ in'[i] = in[i + 1] /\ in'[j] = in[j + 1]
      BY <2>1
    <3> QED BY <1>1, <3>1 DEF FromsInOrder
  <2> QED BY <1>3, <2>1, <2>2, <2>3
<1>4. ASSUME NEW e \in Replies, in' = Append(in, e), ~IsReply(e)
      PROVE  /\ FromsInOrder' /\ InOrder(in)'
             /\ \A m \in ToSet(in') : IsOwn(m) => m \in ToSet(in)
             /\ \A m \in ToSet(in') : IsReply(m) => m \in ToSet(in)
             /\ \A m \in ToSet(in) : IsReply(m) => m \in ToSet(in')
  <2>1. ~IsOwn(e)
    BY <1>4, MessageFields DEF IsOwn, IsReply
  <2>2. /\ DOMAIN in' = DOMAIN in \cup {Len(in) + 1} /\ in'[Len(in) + 1] = e
        /\ \A i \in DOMAIN in : in'[i] = in[i]
        /\ ToSet(in') = ToSet(in) \cup {e}
    BY <1>1, <1>4, AppendedElements
  <2>3. \A i \in DOMAIN in' : IsOwn(in'[i]) \/ IsReply(in'[i]) => i \in DOMAIN in /\ in'[i] = in[i]
    BY <1>4, <2>1, <2>2
  <2>4. FromsInOrder' /\ InOrder(in)'
    BY <1>1, <2>3 DEF FromsInOrder, InOrder
  <2> QED BY <1>4, <2>1, <2>2, <2>4
<1> QED BY <1>2, <1>3, <1>4

\* A step that brings no new reply, and changes no name.
LEMMA RepliesKept ==
  ASSUME RepliesInv, FromsInOrder', UNCHANGED server_name,
         \A s \in Servers : ids[s] > 1 => ids'[s] > 1,
         \A m \in ToSet(in') : IsReply(m) => m \in ToSet(in)
  PROVE  RepliesInv'
BY DEF RepliesInv

LEMMA AskedInOrder ==
  ASSUME OrderInv, asked' = asked
  PROVE  \A s \in Servers : InOrder(asked[s])'
BY DEF OrderInv, InOrder

-----------------------------------------------------------------------------
(* scran's steps                                                           *)

LivingHeld == ServersInv' /\ RepliesInv' /\ OrderInv' /\ OpenInv'

LEMMA SavedUnheardOfKeepsLiving ==
  ASSUME NotifyInv, LivingInv, NotifyFileSaved, ~enabled
  PROVE  LivingHeld
<1> DEFINE e == [kind |-> "Notify", file |-> NoFile, sequence |-> 0]
<1>1. /\ out' = Append(out, e)
      /\ UNCHANGED <<contexts, server_name, in, server, alive, asked, shown, ids>>
  BY DEF NotifyFileSaved
<1>2. e \in Calls /\ ~IsOwn(e) /\ e.kind = "Notify"
  BY MessageTypes DEF IsOwn, NoFile
<1> HIDE DEF e
<1>3. ToSet(out') = ToSet(out) \cup {e}
  BY <1>1, <1>2, AppendedElements, InvParts
<1>4. InOrder(out)'
  <2>1. InOrder(Append(out, e))
    BY <1>2, InvParts, OrderAppended DEF LivingInv, OrderInv
  <2> QED BY <1>1, <2>1 DEF InOrder
<1>5. ServersInv' /\ RepliesInv'
  BY <1>1 DEF LivingInv, ServersInv, RepliesInv, FromsInOrder
<1>6. OrderInv'
  <2>1. OrderHolds
    BY <1>1, <1>4 DEF OrderHolds, LivingInv, OrderInv, InOrder
  <2> QED BY <1>1, <1>2, <1>3, <2>1, OrderKept DEF LivingInv
<1>7. OpenInv'
  <2>1. \A n : Stored(n) => Stored(n)'
    BY <1>1 DEF Stored, IsStoredAt
  <2> QED BY <1>1, <1>3, <2>1, OpenKept DEF LivingInv
<1> QED BY <1>5, <1>6, <1>7 DEF LivingHeld

LEMMA SavedKeepsLiving ==
  ASSUME NotifyInv, LivingInv, NotifyFileSaved, enabled
  PROVE  LivingHeld
<1> DEFINE slot == count % Length
           close == CloseCall(server_name, contexts[slot].id)
           e == [kind |-> "Notify", file |-> saved + 1, sequence |-> count]
           o == out \o close
<1>1. /\ saved' = saved + 1 /\ slot \in Slots
      /\ contexts'[slot] = [id |-> Awaited, file |-> saved + 1]
      /\ \A i \in Slots : i # slot => contexts'[i] = contexts[i]
      /\ UNCHANGED <<server_name, enabled, in, server, alive, asked, shown, ids>>
      /\ e \in NotifyCalls /\ e \in Calls
      /\ close \in Seq(Calls)
      /\ contexts[slot].id = Awaited => ToSet(close) = {}
      /\ contexts[slot].id # Awaited =>
           ToSet(close) = {[kind |-> "Close", to |-> server_name, id |-> contexts[slot].id]}
      /\ out' = o \o <<e>> /\ o \in Seq(Calls)
      /\ ToSet(out') = ToSet(out) \cup ToSet(close) \cup {e} /\ ToSet(o) = ToSet(out) \cup ToSet(close)
  BY SavedStored, InvParts, ConcatElements, SMTT(30)
<1>2. e.kind = "Notify" /\ e.file = saved + 1
  OBVIOUS
<1>3. NoneOwn(close)
  BY <1>1 DEF NoneOwn, IsOwn
<1>4. out' = Append(o, e)
  BY <1>1, SMTT(30)
<1> HIDE DEF o, e, close, slot
<1>5. /\ saved \in Nat /\ out \in Seq(Calls) /\ in \in Seq(Replies) /\ NotifyType
      /\ \A m \in ToSet(out) : IsOwn(m) => m.file \in 1..saved
      /\ \A m \in ToSet(in) : IsOwn(m) => m.file \in 1..saved
      /\ \A s \in Servers : \A m \in ToSet(asked[s]) : IsOwn(m) => m.file \in 1..saved
      /\ \A i \in Slots : contexts[i].id # Awaited => contexts[i].file \in 1..saved
  BY InvParts DEF FlightInv, Placed, RingInv
<1>6. InOrder(out)'
  <2>1. InOrder(o)
    BY <1>1, <1>3, <1>5, OrderJoined DEF LivingInv, OrderInv, o
  <2>2. \A m \in ToSet(o) : IsOwn(m) /\ IsOwn(e) => m.file < e.file
    BY <1>1, <1>2, <1>3, <1>5 DEF NoneOwn
  <2>3. InOrder(Append(o, e))
    BY <1>1, <2>1, <2>2, OrderAppended
  <2> QED BY <1>4, <2>3 DEF InOrder
<1>7. \A m \in ToSet(out') : IsOwn(m) => m \in ToSet(out) \/ (m = e /\ m.file = saved + 1)
  BY <1>1, <1>2, <1>3 DEF NoneOwn
<1>8. ServersInv' /\ RepliesInv'
  BY <1>1 DEF LivingInv, ServersInv, RepliesInv, FromsInOrder
<1>9. OrderInv'
  <2>1. \A i \in Slots : contexts'[i].id # Awaited => i # slot /\ contexts'[i] = contexts[i]
    BY <1>1
  <2>2. StoredBefore(out)' /\ StoredBefore(in)' /\ \A s \in Servers : StoredBefore(asked[s])'
    <3>1. StoredBefore(out)'
      BY <1>5, <1>7, <2>1 DEF LivingInv, OrderInv, StoredBefore
    <3>2. StoredBefore(in)' /\ \A s \in Servers : StoredBefore(asked[s])'
      BY <1>1, <2>1 DEF LivingInv, OrderInv, StoredBefore
    <3> QED BY <3>1, <3>2
  <2>3. Before(in, out)' /\ \A s \in Servers : Before(in, asked[s])' /\ Before(asked[s], out)'
    <3>1. ASSUME NEW t, \A m \in ToSet(t) : IsOwn(m) => m.file \in 1..saved, Before(t, out)
          PROVE  \A m \in ToSet(t), k \in ToSet(out') : IsOwn(m) /\ IsOwn(k) => m.file < k.file
      <4> SUFFICES ASSUME NEW m \in ToSet(t), NEW k \in ToSet(out'), IsOwn(m), IsOwn(k)
                   PROVE  m.file < k.file
        OBVIOUS
      <4>1. m.file \in 1..saved /\ saved \in Nat
        BY <1>5, <3>1
      <4>2. CASE k \in ToSet(out)
        BY <3>1, <4>2 DEF Before
      <4>3. CASE k.file = saved + 1
        BY <4>1, <4>3
      <4> QED BY <1>7, <4>2, <4>3
    <3>2. Before(in, out) /\ \A s \in Servers : Before(in, asked[s]) /\ Before(asked[s], out)
      BY DEF LivingInv, OrderInv
    <3>3. Before(in, out)'
      <4>1. \A m \in ToSet(in), k \in ToSet(out') : IsOwn(m) /\ IsOwn(k) => m.file < k.file
        BY <1>5, <3>1, <3>2
      <4> QED BY <1>1, <4>1 DEF Before
    <3>4. \A s \in Servers : Before(asked[s], out)'
      <4>1. \A s \in Servers : \A m \in ToSet(asked[s]), k \in ToSet(out') : IsOwn(m) /\ IsOwn(k) => m.file < k.file
        BY <1>5, <3>1, <3>2
      <4> QED BY <1>1, <4>1 DEF Before
    <3>5. \A s \in Servers : Before(in, asked[s])'
      BY <1>1, <3>2 DEF Before
    <3> QED BY <3>3, <3>4, <3>5
  <2>4. InOrder(in)' /\ \A s \in Servers : InOrder(asked[s])'
    BY <1>1 DEF LivingInv, OrderInv, InOrder
  <2> QED BY <1>6, <2>2, <2>3, <2>4 DEF OrderInv
<1>10. OpenInv'
  <2>1. ASSUME NEW n \in shown, Stored(n)
        PROVE  Stored(n)' \/ Closing(n)'
    <3>1. PICK i \in Slots : n.server = server_name /\ n.id # Awaited /\ contexts[i].id = n.id /\ IsStoredAt(i, n)
      BY <2>1 DEF Stored, IsStoredAt
    <3>2. CASE i # slot
      BY <1>1, <3>1, <3>2 DEF Stored, IsStoredAt
    <3>3. ASSUME i = slot
          PROVE  Closing(n)'
      <4> DEFINE c == [kind |-> "Close", to |-> server_name, id |-> contexts[slot].id]
      <4>1. c \in ToSet(out') /\ Closes(c, n) /\ c.to = n.server
        BY <1>1, <3>1, <3>3 DEF Closes
      <4> HIDE DEF c
      <4> QED BY <4>1 DEF Closing
    <3> QED BY <3>2, <3>3
  <2> QED BY <1>1, <2>1, OpenKept DEF LivingInv
<1> QED BY <1>8, <1>9, <1>10 DEF LivingHeld

\* A message that is no reply to a notification.
LEMMA HeardKeepsLiving ==
  ASSUME NotifyInv, LivingInv, ReplyAddMatch \/ ReplyIgnored \/ ActionInvoked
  PROVE  LivingHeld
<1>1. /\ in # <<>> /\ in' = Tail(in) /\ ~IsReply(Head(in))
      /\ UNCHANGED <<contexts, server_name, server, alive, asked, shown, ids>>
  BY DEF ReplyAddMatch, ReplyIgnored, ActionInvoked, IsReply
<1>2. \/ out' = out
      \/ \E f, g \in Nat : out' = Append(out, [kind |-> "OpenFile", file |-> f, clicked |-> g])
  <2>1. CASE ReplyAddMatch \/ ReplyIgnored
    BY <2>1 DEF ReplyAddMatch, ReplyIgnored
  <2>2. CASE ActionInvoked
    <3> DEFINE f == FileOf(Head(in).id)
               g == Head(in).file
    <3>1. out' = out \/ (f # NoFile /\ out' = Append(out, [kind |-> "OpenFile", file |-> f, clicked |-> g]))
      BY <2>2 DEF ActionInvoked
    <3>2. g \in Nat
      <4>1. Head(in) \in Replies
        BY <1>1, InvParts, TailElements
      <4>2. Head(in).kind = "Invoked"
        BY <2>2 DEF ActionInvoked
      <4> QED BY <4>1, <4>2, MessageFields
    <3>3. f \in Nat
      <4>1. contexts \in [Slots -> [id : Nat, file : Nat]] /\ NotifyType
        BY InvParts DEF NotifyType
      <4> QED BY <4>1, FileIsOfASlot DEF NoFile
    <3> HIDE DEF f, g
    <3> QED BY <3>1, <3>2, <3>3
  <2> QED BY <2>1, <2>2
<1>3. InOrder(out)' /\ ToSet(out) \subseteq ToSet(out') /\ \A m \in ToSet(out') : IsOwn(m) => m \in ToSet(out)
  <2>1. CASE out' = out
    BY <2>1 DEF LivingInv, OrderInv, InOrder
  <2>2. ASSUME NEW f \in Nat, NEW g \in Nat, out' = Append(out, [kind |-> "OpenFile", file |-> f, clicked |-> g])
        PROVE  InOrder(out)' /\ ToSet(out) \subseteq ToSet(out') /\ \A m \in ToSet(out') : IsOwn(m) => m \in ToSet(out)
    <3> DEFINE e == [kind |-> "OpenFile", file |-> f, clicked |-> g]
    <3>1. e \in Calls /\ ~IsOwn(e)
      BY MessageTypes DEF IsOwn
    <3>2. out' = Append(out, e)
      BY <2>2
    <3> HIDE DEF e
    <3>3. ToSet(out') = ToSet(out) \cup {e}
      BY <3>1, <3>2, InvParts, AppendedElements
    <3>4. InOrder(Append(out, e))
      BY <3>1, InvParts, OrderAppended DEF LivingInv, OrderInv
    <3>5. InOrder(out)'
      BY <3>2, <3>4 DEF InOrder
    <3> QED BY <3>1, <3>3, <3>5
  <2> QED BY <1>2, <2>1, <2>2
<1>4. /\ FromsInOrder' /\ InOrder(in)'
      /\ \A m \in ToSet(in') : IsOwn(m) => m \in ToSet(in)
      /\ \A m \in ToSet(in') : IsReply(m) => m \in ToSet(in)
      /\ \A m \in ToSet(in) : IsReply(m) => m \in ToSet(in')
  BY <1>1, InboxKept DEF LivingInv
<1>5. ServersInv'
  BY <1>1 DEF LivingInv, ServersInv
<1>6. RepliesInv'
  BY <1>1, <1>4, RepliesKept DEF LivingInv
<1>7. OrderInv'
  <2>1. OrderHolds
    BY <1>1, <1>3, <1>4, AskedInOrder DEF OrderHolds, LivingInv
  <2> QED BY <1>1, <1>3, <1>4, <2>1, OrderKept DEF LivingInv
<1>8. OpenInv'
  <2>1. \A n : Stored(n) => Stored(n)'
    BY <1>1 DEF Stored, IsStoredAt
  <2> QED BY <1>1, <1>3, <1>4, <2>1, OpenKept DEF LivingInv
<1> QED BY <1>5, <1>6, <1>7, <1>8 DEF LivingHeld

\* The server that replied is the one that is remembered, or a later one; one that runs, if a notification on the
\* screen is stored.
LEMMA ReplyKeepsLiving ==
  ASSUME NotifyInv, LivingInv, ReplyNotify
  PROVE  LivingHeld
<1> DEFINE r == Head(in)
           slot == r.sequence % Length
           close == CloseCall(r.from, r.id)
<1>1. /\ in # <<>> /\ in' = Tail(in) /\ IsReply(r) /\ IsOwn(r) /\ r \in ToSet(in)
      /\ ToSet(in) = {r} \cup ToSet(in')
      /\ \A i \in DOMAIN in' : i + 1 \in DOMAIN in /\ in'[i] = in[i + 1] /\ 1 < i + 1
      /\ r.from \in Servers /\ r.id \in Nat /\ server_name' = r.from
      /\ UNCHANGED <<count, enabled, saved, server, alive, asked, shown, ids>>
      /\ \/ /\ out' = out
            /\ slot \in Slots /\ contexts'[slot] = [id |-> r.id, file |-> r.file]
            /\ contexts[slot].file = r.file
            /\ \A i \in Slots : i # slot => contexts'[i] = OfServer(r.from)[i]
         \/ /\ out' = out \o close
            /\ \A i \in Slots : contexts'[i] = OfServer(r.from)[i]
  BY Replying DEF IsReply, IsOwn
<1>2. /\ r.from = server_name => OfServer(r.from) = contexts
      /\ \A i \in Slots : r.from # server_name => OfServer(r.from)[i].id = Awaited
  BY OfServerKeeps, InvParts
<1>3. /\ ToSet(out \o close) = ToSet(out) \cup (IF r.id = Awaited THEN {} ELSE {[kind |-> "Close", to |-> r.from, id |-> r.id]})
      /\ InOrder(out \o close) /\ \A m \in ToSet(out \o close) : IsOwn(m) => m \in ToSet(out)
  <2>1. r.from \in Nat
    BY <1>1, InvParts, Bounds
  <2>2. ToSet(out \o close) = ToSet(out) \cup (IF r.id = Awaited THEN {} ELSE {[kind |-> "Close", to |-> r.from, id |-> r.id]})
    BY <1>1, <2>1, CloseSent
  <2>3. close \in Seq(Calls) /\ NoneOwn(close)
    <3> DEFINE c == [kind |-> "Close", to |-> r.from, id |-> r.id]
    <3>1. c \in Calls /\ ~IsOwn(c)
      BY <1>1, <2>1, MessageTypes DEF IsOwn
    <3>2. close = <<>> \/ close = <<c>>
      BY DEF CloseCall
    <3> HIDE DEF c, close
    <3>3. <<>> \in Seq(Calls) /\ ToSet(<<>>) = {} /\ <<c>> \in Seq(Calls) /\ ToSet(<<c>>) = {c}
      BY <3>1 DEF ToSet
    <3> QED BY <3>1, <3>2, <3>3 DEF NoneOwn
  <2>4. \A m \in ToSet(out \o close) : IsOwn(m) => m \in ToSet(out)
    BY <2>2 DEF IsOwn
  <2> HIDE DEF close
  <2> QED BY <2>2, <2>3, <2>4, InvParts, OrderJoined DEF LivingInv, OrderInv
<1> HIDE DEF r, slot, close
<1>4. InOrder(out)' /\ ToSet(out) \subseteq ToSet(out') /\ \A m \in ToSet(out') : IsOwn(m) => m \in ToSet(out)
  <2>1. CASE out' = out
    BY <2>1 DEF LivingInv, OrderInv, InOrder
  <2>2. CASE out' = out \o close
    BY <1>3, <2>2 DEF InOrder
  <2> QED BY <1>1, <2>1, <2>2
<1>5. /\ FromsInOrder' /\ InOrder(in)'
      /\ \A m \in ToSet(in') : IsOwn(m) => m \in ToSet(in)
      /\ \A m \in ToSet(in') : IsReply(m) => m \in ToSet(in)
  BY <1>1, InboxKept DEF LivingInv
<1>6. ServersInv'
  BY <1>1 DEF LivingInv, ServersInv
<1>7. RepliesInv'
  <2>1. ASSUME NEW m \in ToSet(in'), IsReply(m)
        PROVE  r.from <= m.from
    <3>1. PICK i \in DOMAIN in' : m = in'[i]
      BY <2>1 DEF ToSet
    <3>2. i + 1 \in DOMAIN in /\ m = in[i + 1] /\ 1 < i + 1
      BY <1>1, <3>1
    <3>3. 1 \in DOMAIN in /\ in[1] = r
      BY <1>1, InvParts, TailElements DEF r
    <3> QED BY <1>1, <2>1, <3>2, <3>3 DEF LivingInv, RepliesInv, FromsInOrder
  <2>2. ids[r.from] > 1
    BY <1>1, IdsGiven
  <2> QED BY <1>1, <1>5, <2>1, <2>2 DEF RepliesInv
<1>8. \A n \in shown : Stored(n) => r.from = server_name
  <2> SUFFICES ASSUME NEW n \in shown, Stored(n)
               PROVE  r.from = server_name
    OBVIOUS
  <2>1. server_name \in alive /\ server_name \in Servers
    BY IdsGiven DEF LivingInv, ServersInv, Stored
  <2>2. server_name <= r.from /\ ids[r.from] > 1
    BY <1>1, IdsGiven DEF LivingInv, RepliesInv
  <2>3. r.from > server_name => ids[r.from] = 1
    BY <1>1, <2>1 DEF LivingInv, ServersInv
  <2>4. server_name \in Nat /\ r.from \in Nat
    BY <1>1, <2>1, InvParts, Bounds
  <2> QED BY <2>2, <2>3, <2>4
<1>9. \A i \in Slots : contexts'[i].id # Awaited => contexts'[i] = contexts[i] \/ contexts'[i].file = r.file
  BY <1>1, <1>2
<1>10. OrderInv'
  <2>1. StoredBefore(out)' /\ StoredBefore(in)' /\ \A s \in Servers : StoredBefore(asked[s])'
    <3>1. /\ \A m \in ToSet(in') : IsOwn(m) => r.file < m.file
          /\ \A m \in ToSet(out) : IsOwn(m) => r.file < m.file
          /\ \A s \in Servers : \A m \in ToSet(asked[s]) : IsOwn(m) => r.file < m.file
      <4>1. \A m \in ToSet(in') : IsOwn(m) => r.file < m.file
        BY <1>1, InvParts, OrderOfTail DEF LivingInv, OrderInv, r
      <4> QED BY <1>1, <4>1 DEF LivingInv, OrderInv, Before
    <3>2. /\ StoredBefore(out) /\ StoredBefore(in) /\ \A s \in Servers : StoredBefore(asked[s])
      BY DEF LivingInv, OrderInv
    <3>3. StoredBefore(out)'
      BY <1>4, <1>9, <3>1, <3>2 DEF StoredBefore
    <3>4. StoredBefore(in)'
      BY <1>5, <1>9, <3>1, <3>2 DEF StoredBefore
    <3>5. \A s \in Servers : StoredBefore(asked[s])'
      BY <1>1, <1>9, <3>1, <3>2 DEF StoredBefore
    <3> QED BY <3>3, <3>4, <3>5
  <2>2. Before(in, out)' /\ \A s \in Servers : Before(in, asked[s])' /\ Before(asked[s], out)'
    BY <1>1, <1>4, <1>5 DEF LivingInv, OrderInv, Before
  <2>3. \A s \in Servers : InOrder(asked[s])'
    BY <1>1, AskedInOrder DEF LivingInv
  <2> QED BY <1>4, <1>5, <2>1, <2>2, <2>3 DEF OrderInv
<1>11. OpenInv'
  <2> SUFFICES ASSUME NEW n \in shown', n.file # Foreign
               PROVE  Stored(n)' \/ Pending(n)' \/ Closing(n)'
    BY DEF OpenInv
  <2>1. n \in shown /\ (Stored(n) \/ Pending(n) \/ Closing(n)) /\ n.id # Awaited
    BY <1>1, IdsGiven DEF LivingInv, OpenInv
  <2>2. CASE Closing(n)
    BY <1>1, <1>4, <2>2 DEF Closing
  <2>3. CASE Stored(n)
    <3>1. r.from = server_name /\ OfServer(r.from) = contexts
      BY <1>2, <1>8, <2>1, <2>3
    <3>2. PICK i \in Slots : n.server = server_name /\ IsStoredAt(i, n)
      BY <2>3 DEF Stored
    <3>3. contexts[i].id # Awaited /\ contexts[i].file < r.file
      BY <1>1, <2>1, <3>2 DEF LivingInv, OrderInv, StoredBefore, IsStoredAt
    <3>4. contexts[i].file \in Nat
      BY <3>2, InvParts DEF NotifyType
    <3>5. contexts'[i] = contexts[i]
      BY <1>1, <3>1, <3>3, <3>4
    <3> QED BY <1>1, <2>1, <3>1, <3>2, <3>5 DEF Stored, IsStoredAt
  <2>4. ASSUME NEW m \in ToSet(in), IsReply(m), Tells(m, n)
        PROVE  Stored(n)' \/ Pending(n)' \/ Closing(n)'
    <3>1. CASE m \in ToSet(in')
      BY <2>4, <3>1 DEF Pending
    <3>2. ASSUME m = r
          PROVE  Stored(n)' \/ Pending(n)' \/ Closing(n)'
      <4>1. r.from = n.server /\ r.id = n.id /\ r.file = n.file
        BY <2>4, <3>2 DEF Tells
      <4>2. CASE slot \in Slots /\ contexts'[slot] = [id |-> r.id, file |-> r.file]
        BY <1>1, <2>1, <4>1, <4>2 DEF Stored, IsStoredAt
      <4>3. CASE out' = out \o close
        <5> DEFINE c == [kind |-> "Close", to |-> r.from, id |-> r.id]
        <5>1. c \in ToSet(out') /\ Closes(c, n) /\ c.to = n.server
          BY <1>3, <2>1, <4>1, <4>3 DEF Closes
        <5> HIDE DEF c
        <5> QED BY <5>1 DEF Closing
      <4> QED BY <1>1, <4>2, <4>3
    <3> QED BY <1>1, <3>1, <3>2
  <2> QED BY <2>1, <2>2, <2>3, <2>4 DEF Pending
<1> QED BY <1>6, <1>7, <1>10, <1>11 DEF LivingHeld

-----------------------------------------------------------------------------
(* The bus, the servers and the user                                       *)

LEMMA RouteKeepsLiving ==
  ASSUME NotifyInv, LivingInv, Route
  PROVE  LivingHeld
<1> DEFINE call == Head(out)
           to == CASE call.kind = "Notify" -> server [] call.kind = "Close" -> call.to [] OTHER -> Nobody
<1>1. /\ out # <<>> /\ out' = Tail(out)
      /\ IF to \in alive
         THEN asked' = [asked EXCEPT ![to] = Append(@, call)] /\ in' = in
         ELSE in' = (IF call.kind = "Notify" THEN Append(in, [kind |-> "Ignored"]) ELSE in) /\ asked' = asked
      /\ UNCHANGED <<contexts, server_name, server, alive, shown, ids>>
  BY DEF Route
<1>2. /\ call \in Calls /\ ToSet(out) = {call} \cup ToSet(out')
      /\ InOrder(out)' /\ \A m \in ToSet(out') : IsOwn(call) /\ IsOwn(m) => call.file < m.file
  <2>1. /\ InOrder(Tail(out)) /\ \A m \in ToSet(Tail(out)) : IsOwn(call) /\ IsOwn(m) => call.file < m.file
    BY <1>1, InvParts, OrderOfTail DEF LivingInv, OrderInv
  <2>2. call \in Calls /\ ToSet(out) = {call} \cup ToSet(out')
    BY <1>1, InvParts, TailElements
  <2> HIDE DEF call
  <2> QED BY <1>1, <2>1, <2>2 DEF InOrder
<1>3. call.kind = "Close" => call.to = to
  BY <1>2, MessageFields
<1>4. /\ alive \subseteq Servers /\ asked \in [Servers -> Seq(NotifyCalls \cup CloseCalls)]
  BY InvParts DEF NotifyType
<1>5. to \in alive => call \in NotifyCalls \cup CloseCalls
  <2>1. call.kind = "OpenFile" => to \notin alive
    BY <1>4, InvParts, Bounds
  <2> QED BY <1>2, <2>1, MessageFields
<1> HIDE DEF to, call
<1>6. /\ FromsInOrder' /\ InOrder(in)'
      /\ \A m \in ToSet(in') : IsOwn(m) => m \in ToSet(in)
      /\ \A m \in ToSet(in') : IsReply(m) => m \in ToSet(in)
      /\ \A m \in ToSet(in) : IsReply(m) => m \in ToSet(in')
  <2>1. [kind |-> "Ignored"] \in Replies /\ ~IsReply([kind |-> "Ignored"])
    BY MessageTypes DEF IsReply
  <2>2. in' = in \/ \E e \in Replies : in' = Append(in, e) /\ ~IsReply(e)
    BY <1>1, <2>1
  <2>3. CASE in' = in
    BY <2>3, InboxKept DEF LivingInv
  <2>4. ASSUME NEW e \in Replies, in' = Append(in, e), ~IsReply(e)
        PROVE  \A m \in ToSet(in) : IsReply(m) => m \in ToSet(in')
    BY <2>4, InvParts, AppendedElements
  <2> QED BY <2>2, <2>3, <2>4, InboxKept DEF LivingInv
\* What every server has been asked.
<1>7. \A s \in Servers :
        \/ asked'[s] = asked[s] /\ ~(s = to /\ to \in alive)
        \/ /\ s = to /\ to \in alive
           /\ InOrder(asked'[s]) /\ ToSet(asked'[s]) = ToSet(asked[s]) \cup {call}
  <2> SUFFICES ASSUME NEW s \in Servers, s = to, to \in alive
               PROVE  InOrder(asked'[s]) /\ ToSet(asked'[s]) = ToSet(asked[s]) \cup {call}
    BY <1>1, <1>4
  <2> DEFINE old == asked[s]
  <2>1. old \in Seq(NotifyCalls \cup CloseCalls) /\ InOrder(old)
        /\ \A m \in ToSet(old) : IsOwn(m) /\ IsOwn(call) => m.file < call.file
    BY <1>2, <1>4 DEF LivingInv, OrderInv, Before
  <2>2. asked'[s] = Append(old, call)
    BY <1>1, <1>4
  <2> HIDE DEF old
  <2>3. InOrder(Append(old, call)) /\ ToSet(Append(old, call)) = ToSet(old) \cup {call}
    BY <1>5, <2>1, OrderAppended, AppendedElements
  <2> QED BY <2>2, <2>3 DEF old
<1>8. ServersInv' /\ RepliesInv'
  <2>1. RepliesInv'
    BY <1>1, <1>6, RepliesKept DEF LivingInv
  <2>2. \A s \in Servers : s \notin alive => asked'[s] = <<>>
    BY <1>7 DEF LivingInv, ServersInv
  <2> QED BY <1>1, <2>1, <2>2 DEF LivingInv, ServersInv
<1>9. OrderInv'
  <2>1. \A s \in Servers : \A m \in ToSet(asked'[s]) : m \in ToSet(asked[s]) \/ m = call
    BY <1>7
  <2>2. /\ \A s \in Servers : InOrder(asked[s])'
    BY <1>7 DEF LivingInv, OrderInv, InOrder
  <2>3. StoredBefore(out)' /\ StoredBefore(in)' /\ \A s \in Servers : StoredBefore(asked[s])'
    BY <1>1, <1>2, <1>6, <2>1 DEF LivingInv, OrderInv, StoredBefore
  <2>4. Before(in, out)' /\ \A s \in Servers : Before(in, asked[s])' /\ Before(asked[s], out)'
    BY <1>2, <1>6, <2>1 DEF LivingInv, OrderInv, Before
  <2> QED BY <1>2, <1>6, <2>2, <2>3, <2>4 DEF OrderInv
<1>10. OpenInv'
  <2>1. \A n : Stored(n) => Stored(n)'
    BY <1>1 DEF Stored, IsStoredAt
  <2>2. \A n \in shown : n.server \in alive /\ n.server \in Servers
    BY IdsGiven DEF LivingInv, ServersInv
  <2>3. \A c \in ToSet(out) : \A n \in shown' : Closes(c, n) /\ c.to = n.server =>
          c \in ToSet(out') \/ c \in ToSet(asked'[n.server])
    BY <1>1, <1>2, <1>3, <1>7, <2>2 DEF Closes
  <2>4. \A n \in shown' : \A c \in ToSet(asked[n.server]) : Closes(c, n) => c \in ToSet(asked'[n.server])
    BY <1>1, <1>7, <2>2
  <2> QED BY <1>1, <1>6, <2>1, <2>3, <2>4, OpenKept DEF LivingInv
<1> QED BY <1>8, <1>9, <1>10 DEF LivingHeld

LEMMA ServeKeepsLiving ==
  ASSUME NotifyInv, LivingInv, NEW s \in alive, Serve(s)
  PROVE  LivingHeld
<1> DEFINE call == Head(asked[s])
           old == asked[s]
<1>1. /\ old # <<>> /\ asked' = [asked EXCEPT ![s] = Tail(old)]
      /\ UNCHANGED <<contexts, server_name, out, server, alive>>
      /\ \/ call.kind = "Close" /\ shown' = {n \in shown : ~(n.server = s /\ n.id = call.id)} /\ UNCHANGED <<in, ids>>
         \/ call.kind = "Notify" /\ in' = Append(in, [kind |-> "Ignored"]) /\ ids' = [ids EXCEPT ![s] = @ + 1] /\ shown' = shown
         \/ /\ call.kind = "Notify" /\ call.file # NoFile /\ in' = Append(in, Replied(s, call))
            /\ ids' = [ids EXCEPT ![s] = @ + 1]
            /\ shown' = shown \cup {[server |-> s, id |-> ids[s], file |-> call.file]}
  BY DEF Serve, Shows
<1>2. /\ NotifyType /\ s \in Servers /\ s \in Nat /\ ids[s] \in Nat \ {0} /\ alive \subseteq Servers
      /\ asked \in [Servers -> Seq(NotifyCalls \cup CloseCalls)] /\ ids \in [Servers -> Nat \ {0}]
  BY InvParts, Bounds DEF NotifyType
<1>3. alive = {s} /\ (\A x \in Servers : x # s => asked[x] = <<>>) /\ \A n \in shown : n.server = s
  BY DEF LivingInv, ServersInv
\* What the server has been asked.
<1>4. /\ call \in NotifyCalls \cup CloseCalls /\ call \in ToSet(asked[s]) /\ ToSet(asked[s]) = {call} \cup ToSet(asked'[s])
      /\ InOrder(asked'[s]) /\ \A m \in ToSet(asked'[s]) : IsOwn(call) /\ IsOwn(m) => call.file < m.file
      /\ \A x \in Servers : x # s => asked'[x] = <<>> /\ asked'[x] = asked[x]
  <2>1. old \in Seq(NotifyCalls \cup CloseCalls) /\ InOrder(old)
    BY <1>2 DEF LivingInv, OrderInv
  <2>2. asked'[s] = Tail(old) /\ \A x \in Servers : x # s => asked'[x] = asked[x]
    BY <1>1, <1>2
  <2> HIDE DEF old
  <2>3. /\ Head(old) \in NotifyCalls \cup CloseCalls /\ ToSet(old) = {Head(old)} \cup ToSet(Tail(old))
        /\ InOrder(Tail(old)) /\ \A m \in ToSet(Tail(old)) : IsOwn(Head(old)) /\ IsOwn(m) => Head(old).file < m.file
    BY <1>1, <2>1, OrderOfTail, TailElements
  <2> QED BY <1>3, <2>2, <2>3 DEF old
<1> HIDE DEF call, old
<1>5. \A x \in Servers : ToSet(asked'[x]) \subseteq ToSet(asked[x])
  BY <1>4
<1>6. \A x \in Servers : InOrder(asked[x])'
  BY <1>2, <1>4 DEF LivingInv, OrderInv, InOrder
<1>7. ServersInv' /\ ids' \in [Servers -> Nat \ {0}] /\ \A x \in Servers : ids'[x] >= ids[x] /\ (ids[x] > 1 => ids'[x] > 1)
  <2>1. \A n \in shown' : n.server = s
    BY <1>1, <1>3
  <2>2. \A x \in Servers : x \notin alive => asked'[x] = <<>>
    BY <1>4
  <2>3. ids' = ids \/ ids' = [ids EXCEPT ![s] = @ + 1]
    BY <1>1
  <2>4. ServersInv' /\ ids' \in [Servers -> Nat \ {0}] /\ \A x \in Servers : ids'[x] >= ids[x]
    BY <1>1, <2>1, <2>2, <2>3, ServersKept DEF LivingInv
  <2> QED BY <1>2, <2>4
<1>8. \A n : Stored(n) => Stored(n)'
  BY <1>1 DEF Stored, IsStoredAt
<1>9. OrderInv /\ OpenInv /\ RepliesInv /\ InOrder(out)'
  BY <1>1 DEF LivingInv, OrderInv, InOrder
\* No notification is shown.
<1>10. ASSUME shown' \subseteq shown, in' = in \/ \E e \in Replies : in' = Append(in, e) /\ ~IsReply(e),
              \A n \in shown' : ~Closes(call, n)
       PROVE  LivingHeld
  <2>1. /\ FromsInOrder' /\ InOrder(in)'
        /\ \A m \in ToSet(in') : IsOwn(m) => m \in ToSet(in)
        /\ \A m \in ToSet(in') : IsReply(m) => m \in ToSet(in)
    BY <1>9, <1>10, InboxKept
  <2>2. \A m \in ToSet(in) : IsReply(m) => m \in ToSet(in')
    <3>1. ASSUME NEW e \in Replies, in' = Append(in, e)
          PROVE  ToSet(in) \subseteq ToSet(in')
      BY <3>1, InvParts, AppendedElements
    <3> QED BY <1>10, <3>1
  <2>3. RepliesInv'
    BY <1>1, <1>7, <1>9, <2>1, RepliesKept
  <2>4. OrderInv'
    <3>1. OrderHolds
      BY <1>6, <1>9, <2>1 DEF OrderHolds
    <3> QED BY <1>1, <1>5, <1>9, <2>1, <3>1, OrderKept
  <2>5. OpenInv'
    <3>1. \A n \in shown' : \A c \in ToSet(asked[n.server]) : Closes(c, n) => c \in ToSet(asked'[n.server])
      BY <1>3, <1>4, <1>10
    <3> QED BY <1>1, <1>8, <1>9, <1>10, <2>2, <3>1, OpenKept
  <2> QED BY <1>7, <2>3, <2>4, <2>5 DEF LivingHeld
<1>11. CASE call.kind = "Close" /\ shown' = {n \in shown : ~(n.server = s /\ n.id = call.id)} /\ in' = in
  BY <1>3, <1>10, <1>11 DEF Closes
<1>12. CASE call.kind = "Notify" /\ in' = Append(in, [kind |-> "Ignored"]) /\ shown' = shown
  <2>1. [kind |-> "Ignored"] \in Replies /\ ~IsReply([kind |-> "Ignored"])
    BY MessageTypes DEF IsReply
  <2> QED BY <1>10, <1>12, <2>1 DEF Closes
<1>13. ASSUME call.kind = "Notify", call.file # NoFile, in' = Append(in, Replied(s, call)),
              shown' = shown \cup {[server |-> s, id |-> ids[s], file |-> call.file]},
              ids' = [ids EXCEPT ![s] = @ + 1]
       PROVE  LivingHeld
  <2> DEFINE e == Replied(s, call)
             k == [server |-> s, id |-> ids[s], file |-> call.file]
  <2>1. IsOwn(call) /\ call.file \in Nat /\ call.sequence \in Nat
    BY <1>4, <1>13 DEF IsOwn, NotifyCalls, CloseCalls
  <2>2. /\ e \in Replies /\ IsReply(e) /\ IsOwn(e) /\ e.from = s /\ e.file = call.file /\ Tells(e, k)
        /\ in' = Append(in, e) /\ shown' = shown \cup {k}
    BY <1>2, <1>13, <2>1, MessageTypes DEF Replied, IsReply, IsOwn, Tells
  <2> HIDE DEF e, k
  <2>3. /\ in \in Seq(Replies) /\ ToSet(in') = ToSet(in) \cup {e}
        /\ DOMAIN in' = DOMAIN in \cup {Len(in) + 1} /\ in'[Len(in) + 1] = e
        /\ \A i \in DOMAIN in : in'[i] = in[i] /\ i \in Nat /\ i < Len(in) + 1
        /\ Len(in) + 1 \in Nat
    BY <2>2, InvParts, AppendedElements
  <2>4. \A m \in ToSet(in) : IsOwn(m) => m.file < e.file
    BY <1>2, <1>4, <1>9, <2>1, <2>2 DEF OrderInv, Before
  <2>5. InOrder(in)'
    <3>1. InOrder(Append(in, e))
      BY <1>9, <2>2, <2>3, <2>4, OrderAppended DEF OrderInv
    <3> QED BY <2>2, <3>1 DEF InOrder
  \* Servers after this one have not replied.
  <2>6. \A m \in ToSet(in) : IsReply(m) => m.from <= s
    <3> SUFFICES ASSUME NEW m \in ToSet(in), IsReply(m)
                 PROVE  m.from <= s
      OBVIOUS
    <3>1. m.from \in Servers /\ ids[m.from] > 1
      BY IdsGiven
    <3>2. m.from > s => ids[m.from] = 1
      BY <3>1 DEF LivingInv, ServersInv
    <3>3. m.from \in Nat
      BY <3>1, InvParts, Bounds
    <3> QED BY <1>2, <3>1, <3>2, <3>3
  <2>7. server_name <= s
    <3>1. CASE server_name = Nobody
      BY <1>2, <3>1 DEF Nobody
    <3>2. CASE server_name # Nobody
      <4>1. server_name \in Servers /\ ids[server_name] > 1
        BY <1>9, <3>2 DEF RepliesInv
      <4>2. server_name > s => ids[server_name] = 1
        BY <4>1 DEF LivingInv, ServersInv
      <4>3. server_name \in Nat
        BY <4>1, InvParts, Bounds
      <4> QED BY <1>2, <4>1, <4>2, <4>3
    <3> QED BY <3>1, <3>2
  <2>8. RepliesInv'
    <3>1. FromsInOrder'
      <4> SUFFICES ASSUME NEW i \in DOMAIN in', NEW j \in DOMAIN in', IsReply(in'[i]), IsReply(in'[j]), i < j
                   PROVE  in'[i].from <= in'[j].from
        BY DEF FromsInOrder
      <4>1. i \in DOMAIN in /\ in'[i] = in[i] /\ in[i] \in ToSet(in)
        BY <2>3 DEF ToSet
      <4>2. CASE j \in DOMAIN in
        BY <1>9, <2>3, <4>1, <4>2 DEF RepliesInv, FromsInOrder
      <4>3. CASE j = Len(in) + 1
        BY <2>2, <2>3, <2>6, <4>1, <4>3
      <4> QED BY <2>3, <4>2, <4>3
    <3>2. \A m \in ToSet(in') : IsReply(m) => server_name <= m.from
      BY <1>9, <2>2, <2>3, <2>7 DEF RepliesInv
    <3> QED BY <1>1, <1>7, <1>9, <3>1, <3>2 DEF RepliesInv
  <2>9. OrderInv'
    <3>1. StoredBefore(out)' /\ StoredBefore(in)' /\ \A x \in Servers : StoredBefore(asked[x])'
      <4>1. \A i \in Slots : contexts[i].id # Awaited => contexts[i].file < e.file
        BY <1>2, <1>4, <1>9, <2>1, <2>2 DEF OrderInv, StoredBefore
      <4> QED BY <1>1, <1>5, <1>9, <2>3, <4>1 DEF OrderInv, StoredBefore
    <3>2. Before(in, out)' /\ \A x \in Servers : Before(asked[x], out)'
      <4>1. \A m \in ToSet(out) : IsOwn(m) => e.file < m.file
        BY <1>2, <1>4, <1>9, <2>1, <2>2 DEF OrderInv, Before
      <4> QED BY <1>1, <1>5, <1>9, <2>3, <4>1 DEF OrderInv, Before
    <3>3. \A x \in Servers : Before(in, asked[x])'
      <4> SUFFICES ASSUME NEW x \in Servers, NEW m \in ToSet(in'), NEW c \in ToSet(asked'[x]), IsOwn(m), IsOwn(c)
                   PROVE  m.file < c.file
        BY DEF Before
      <4>1. CASE m \in ToSet(in)
        BY <1>5, <1>9, <4>1 DEF OrderInv, Before
      <4>2. CASE m = e
        <5>1. x = s
          <6>1. ToSet(<<>>) = {}
            BY DEF ToSet
          <6> QED BY <1>4, <6>1
        <5> QED BY <1>4, <2>1, <2>2, <4>2, <5>1
      <4> QED BY <2>3, <4>1, <4>2
    <3> QED BY <1>6, <1>9, <2>5, <3>1, <3>2, <3>3 DEF OrderInv
  <2>10. OpenInv'
    <3> SUFFICES ASSUME NEW n \in shown', n.file # Foreign
                 PROVE  Stored(n)' \/ Pending(n)' \/ Closing(n)'
      BY DEF OpenInv
    <3>1. CASE n = k
      BY <2>2, <2>3, <3>1 DEF Pending
    <3>2. CASE n \in shown
      <4>1. Stored(n) \/ Pending(n) \/ Closing(n)
        BY <1>9, <3>2 DEF OpenInv
      <4>2. Pending(n) => Pending(n)'
        BY <2>3 DEF Pending
      <4>3. Closing(n) => Closing(n)'
        <5>1. n.server = s
          BY <1>3, <3>2
        <5> QED BY <1>1, <1>4, <1>13, <5>1 DEF Closing, Closes
      <4> QED BY <1>8, <4>1, <4>2, <4>3
    <3> QED BY <2>2, <3>1, <3>2
  <2> QED BY <1>7, <2>8, <2>9, <2>10 DEF LivingHeld
<1> QED BY <1>1, <1>11, <1>12, <1>13

LEMMA OthersKeepLiving ==
  ASSUME NotifyInv, LivingInv, ~Handovers,
         \/ ForeignNotify
         \/ \E n \in shown : Click(n)
         \/ \E s \in alive : ServerDies(s)
         \/ \E s \in Servers : ServerStarts(s)
         \/ UNCHANGED vars
  PROVE  LivingHeld
<1>1. /\ NotifyType /\ alive \subseteq Servers /\ ids \in [Servers -> Nat \ {0}] /\ shown \subseteq Notices
      /\ asked \in [Servers -> Seq(NotifyCalls \cup CloseCalls)] /\ server \in Servers \cup {Nobody}
      /\ Nobody \notin Servers /\ Servers \subseteq Nat
      /\ ServersInv /\ RepliesInv /\ OrderInv /\ OpenInv
  BY InvParts, Bounds DEF NotifyType, LivingInv
<1>2. ASSUME UNCHANGED <<contexts, server_name>>
      PROVE  \A n : Stored(n) => Stored(n)'
  BY <1>2 DEF Stored, IsStoredAt
\* Nobody is told or asked, and what is shown of scran was shown before.
<1>3. ASSUME UNCHANGED <<contexts, server_name, out>>, ServersInv',
             in' = in \/ \E e \in Replies : in' = Append(in, e) /\ ~IsReply(e),
             \A s \in Servers : ids[s] > 1 => ids'[s] > 1,
             \A n \in shown' : n \in shown \/ n.file = Foreign,
             asked' = asked \/ (shown' = {} /\ \E s \in Servers : asked' = [asked EXCEPT ![s] = <<>>])
      PROVE  LivingHeld
  <2>1. /\ FromsInOrder' /\ InOrder(in)'
        /\ \A m \in ToSet(in') : IsOwn(m) => m \in ToSet(in)
        /\ \A m \in ToSet(in') : IsReply(m) => m \in ToSet(in)
    BY <1>1, <1>3, InboxKept
  <2>2. \A m \in ToSet(in) : IsReply(m) => m \in ToSet(in')
    <3>1. ASSUME NEW e \in Replies, in' = Append(in, e)
          PROVE  ToSet(in) \subseteq ToSet(in')
      BY <3>1, InvParts, AppendedElements
    <3> QED BY <1>3, <3>1
  <2>3. RepliesInv'
    BY <1>1, <1>3, <2>1, RepliesKept
  <2>4. \A s \in Servers : asked'[s] = asked[s] \/ asked'[s] = <<>>
    BY <1>1, <1>3
  <2>5. ToSet(<<>>) = {} /\ DOMAIN <<>> = {}
    BY DEF ToSet
  <2>6. OrderInv'
    <3>1. OrderHolds
      <4>1. \A s \in Servers : InOrder(asked[s])'
        BY <1>1, <2>4, <2>5 DEF OrderInv, InOrder
      <4>2. InOrder(out)'
        BY <1>1, <1>3 DEF OrderInv, InOrder
      <4> QED BY <2>1, <4>1, <4>2 DEF OrderHolds
    <3>2. \A s \in Servers : ToSet(asked'[s]) \subseteq ToSet(asked[s])
      BY <2>4, <2>5
    <3> QED BY <1>1, <1>3, <2>1, <3>1, <3>2, OrderKept
  <2>7. OpenInv'
    <3>1. \A n \in shown' : asked'[n.server] = asked[n.server]
      BY <1>3
    <3> QED BY <1>1, <1>2, <1>3, <2>2, <3>1, OpenKept
  <2> QED BY <1>3, <2>3, <2>6, <2>7 DEF LivingHeld
<1>4. CASE ForeignNotify
  <2> DEFINE k == [server |-> server, id |-> ids[server], file |-> Foreign]
  <2>1. /\ server \in alive /\ shown' = shown \cup {k} /\ ids' = [ids EXCEPT ![server] = @ + 1]
        /\ UNCHANGED <<contexts, server_name, out, in, server, alive, asked>>
    BY <1>4 DEF ForeignNotify, Shows
  <2>2. k.server = server /\ k.file = Foreign
    OBVIOUS
  <2> HIDE DEF k
  <2>3. ServersInv' /\ \A s \in Servers : ids'[s] >= ids[s]
    <3>1. \A n \in shown' : n.server \in alive
      BY <1>1, <2>1, <2>2 DEF ServersInv
    <3>2. \A s \in Servers : s \notin alive => asked'[s] = <<>>
      BY <1>1, <2>1 DEF ServersInv
    <3> QED BY <1>1, <2>1, <3>1, <3>2, ServersKept
  <2>4. \A s \in Servers : ids[s] > 1 => ids'[s] > 1
    BY <1>1, <2>1
  <2> QED BY <1>3, <2>1, <2>2, <2>3, <2>4
<1>5. ASSUME NEW n \in shown, Click(n)
      PROVE  LivingHeld
  <2> DEFINE e == [kind |-> "Invoked", from |-> n.server, id |-> n.id, file |-> n.file]
  <2>1. /\ in' = Append(in, e) /\ shown' \subseteq shown
        /\ UNCHANGED <<contexts, server_name, out, server, alive, asked, ids>>
    BY <1>5 DEF Click
  <2>2. n.server \in Servers /\ n.id \in Nat /\ n.file \in Nat
    BY <1>1, <1>5 DEF Notices
  <2>3. e \in Replies /\ ~IsReply(e)
    BY <2>2, MessageTypes DEF IsReply
  <2> HIDE DEF e
  <2>4. ServersInv'
    BY <1>1, <2>1 DEF ServersInv
  <2> QED BY <1>3, <2>1, <2>3, <2>4
<1>6. ASSUME NEW s \in alive, ServerDies(s)
      PROVE  LivingHeld
  <2>1. /\ alive' = alive \ {s} /\ server' = (IF server = s THEN Nobody ELSE server)
        /\ shown' = {n \in shown : n.server # s} /\ asked' = [asked EXCEPT ![s] = <<>>]
        /\ UNCHANGED <<contexts, server_name, out, in, ids>> /\ s \in Servers
    BY <1>1, <1>6 DEF ServerDies
  <2>2. server = s /\ alive = {s} /\ server' = Nobody /\ alive' = {} /\ shown' = {}
    BY <1>1, <1>6, <2>1 DEF ServersInv
  <2>3. \A x \in Servers : asked'[x] = <<>>
    BY <1>1, <2>1, <2>2 DEF ServersInv
  <2>4. ServersInv'
    BY <1>1, <2>1, <2>2, <2>3 DEF ServersInv
  <2> QED BY <1>3, <2>1, <2>2, <2>4
<1>7. ASSUME NEW s \in Servers, ServerStarts(s)
      PROVE  LivingHeld
  <2>1. /\ \A x \in Servers : x < s => ids[x] > 1
        /\ ids[s] = 1 /\ server = Nobody /\ server' = s /\ alive' = alive \cup {s}
        /\ UNCHANGED <<contexts, server_name, out, in, asked, shown, ids>>
    BY <1>7 DEF ServerStarts, Servers
  <2>2. alive = {} /\ alive' = {s} /\ alive' = {server'} \ {Nobody} /\ shown = {}
    BY <1>1, <1>7, <2>1 DEF ServersInv
  <2>3. \A x \in Servers : x > s => ids[x] = 1
    <3> SUFFICES ASSUME NEW x \in Servers, x > s
                 PROVE  ids[x] = 1
      OBVIOUS
    <3>1. ~(ids[x] > 1)
      BY <1>1, <1>7, <2>1 DEF ServersInv
    <3> QED BY <1>1, <3>1
  <2>4. ServersInv'
    BY <1>1, <2>1, <2>2, <2>3 DEF ServersInv
  <2> QED BY <1>3, <2>1, <2>4
<1>8. CASE UNCHANGED vars
  <2>1. UNCHANGED <<contexts, server_name, out, in, server, alive, asked, shown, ids>>
    BY <1>8 DEF vars
  <2>2. ServersInv'
    BY <1>1, <2>1 DEF ServersInv
  <2> QED BY <1>3, <2>1, <2>2
<1> QED BY <1>4, <1>5, <1>6, <1>7, <1>8

LEMMA InitLiving ==
  ASSUME NotificationBounds, Init
  PROVE  LivingInv
<1>1. /\ server = 1 /\ alive = {1} /\ shown = {} /\ out = <<>> /\ server_name = Nobody
      /\ in = <<[kind |-> "AddMatch"]>>
      /\ \A i \in Slots : contexts[i].id = Awaited
      /\ \A s \in Servers : ids[s] = 1 /\ asked[s] = <<>>
      /\ 1 \in Servers /\ Servers \subseteq Nat /\ Nobody \notin Servers
  BY Bounds DEF Init, Servers, Slots
<1>2. ServersInv
  <2>1. \A x \in Servers : ~(x < 1)
    BY DEF Servers
  <2> QED BY <1>1, <2>1 DEF ServersInv
<1> DEFINE e == [kind |-> "AddMatch"]
<1>3. ~IsOwn(e) /\ ~IsReply(e)
  BY DEF IsOwn, IsReply
<1>4. in = <<e>>
  BY <1>1
<1> HIDE DEF e
<1>5. /\ DOMAIN in = {1} /\ in[1] = e /\ ToSet(in) = {e}
      /\ DOMAIN <<>> = {} /\ ToSet(<<>>) = {}
  BY <1>4 DEF ToSet
<1>6. RepliesInv
  BY <1>1, <1>3, <1>5 DEF RepliesInv, FromsInOrder
<1>7. OrderInv
  BY <1>1, <1>3, <1>5 DEF OrderInv, InOrder, Before, StoredBefore
<1>8. OpenInv
  BY <1>1 DEF OpenInv
<1> QED BY <1>2, <1>6, <1>7, <1>8 DEF LivingInv

LEMMA NextKeepsLiving ==
  ASSUME NotifyInv, LivingInv, ~Handovers, [Next]_vars
  PROVE  LivingInv'
<1>1. CASE NotifyFileSaved
  BY <1>1, SavedUnheardOfKeepsLiving, SavedKeepsLiving DEF LivingHeld, LivingInv
<1>2. CASE ReplyAddMatch \/ ReplyIgnored \/ ActionInvoked
  BY <1>2, HeardKeepsLiving DEF LivingHeld, LivingInv
<1>3. CASE ReplyNotify
  BY <1>3, ReplyKeepsLiving DEF LivingHeld, LivingInv
<1>4. CASE Route
  BY <1>4, RouteKeepsLiving DEF LivingHeld, LivingInv
<1>5. ASSUME NEW s \in alive, Serve(s)
      PROVE  LivingInv'
  BY <1>5, ServeKeepsLiving DEF LivingHeld, LivingInv
<1>6. ASSUME \/ ForeignNotify
             \/ \E n \in shown : Click(n)
             \/ \E s \in alive : ServerDies(s)
             \/ \E s \in Servers : ServerStarts(s)
             \/ UNCHANGED vars
      PROVE  LivingInv'
  BY <1>6, OthersKeepLiving DEF LivingHeld, LivingInv
<1> QED BY <1>1, <1>2, <1>3, <1>4, <1>5, <1>6 DEF Next, Idle, Servers

\* When nothing is on its way, what is open is stored: every notification in a place of its own.
LEMMA QuietOnesAreStored ==
  ASSUME NotifyInv, LivingInv
  PROVE  OpenOnesAreStored
<1> SUFFICES ASSUME Quiet
             PROVE  /\ \A n \in shown : n.file # Foreign => n.server = server_name /\ FileOf(n.id) = n.file
                    /\ Cardinality({n \in shown : n.file # Foreign}) <= Length
  BY DEF OpenOnesAreStored
<1>1. out = <<>> /\ in = <<>> /\ ToSet(<<>>) = {} /\ \A s \in Servers : asked[s] = <<>>
  BY DEF Quiet, ToSet, Servers
<1>2. \A n \in shown : n \in Notices /\ n.server \in Servers
  BY IdsGiven
<1>3. \A n \in shown : n.file # Foreign => Stored(n)
  BY <1>1, <1>2 DEF LivingInv, OpenInv, Pending, Closing
<1>4. ASSUME NEW n \in shown, n.file # Foreign
      PROVE  n.server = server_name /\ \E i \in Slots : contexts[i].id = n.id /\ contexts[i].file = n.file
  <2>1. Stored(n)
    BY <1>3, <1>4
  <2>2. PICK i \in Slots : n.server = server_name /\ IsStoredAt(i, n)
    BY <2>1 DEF Stored
  <2>3. contexts[i].id = n.id /\ contexts[i].file = n.file
    BY <2>2 DEF IsStoredAt
  <2> QED BY <2>2, <2>3
<1>5. ASSUME NEW n \in shown, n.file # Foreign
      PROVE  n.server = server_name /\ FileOf(n.id) = n.file
  <2>1. Claimed(n)
    BY <1>5 DEF Claimed
  <2> QED BY <1>2, <1>4, <1>5, <2>1, StoredFile
<1>6. Cardinality({n \in shown : n.file # Foreign}) <= Length
  <2> DEFINE f == [i \in Slots |-> [server |-> server_name, id |-> contexts[i].id, file |-> contexts[i].file]]
             T == {f[i] : i \in Slots}
             Open == {n \in shown : n.file # Foreign}
  <2>1. Length \in Nat /\ IsFiniteSet(Slots) /\ Cardinality(Slots) = Length
    <3>1. Length \in Nat /\ Length > 0
      BY InvParts, Bounds
    <3>2. IsFiniteSet(0..(Length - 1)) /\ Cardinality(0..(Length - 1)) = (IF 0 > Length - 1 THEN 0 ELSE Length - 1 - 0 + 1)
      BY <3>1, FS_Interval
    <3> QED BY <3>1, <3>2 DEF Slots
  <2>2. f \in Surjection(Slots, T)
    BY DEF Surjection
  <2>3. IsFiniteSet(T) /\ Cardinality(T) <= Cardinality(Slots)
    BY <2>1, <2>2, FS_Surjection
  <2>4. Open \subseteq T
    <3> SUFFICES ASSUME NEW n \in shown, n.file # Foreign
                 PROVE  n \in T
      OBVIOUS
    <3>1. PICK i \in Slots : n.server = server_name /\ contexts[i].id = n.id /\ contexts[i].file = n.file
      BY <1>4
    <3>2. n = [server |-> server_name, id |-> contexts[i].id, file |-> contexts[i].file]
      BY <1>2, <3>1 DEF Notices
    <3> QED BY <3>2
  <2>5. IsFiniteSet(Open) /\ Cardinality(Open) <= Cardinality(T)
    BY <2>3, <2>4, FS_Subset
  <2>6. Cardinality(T) \in Nat /\ Cardinality(Open) \in Nat
    BY <2>3, <2>5, FS_CardinalityType
  <2> HIDE DEF Open, T
  <2>7. Cardinality(Open) <= Length
    BY <2>1, <2>3, <2>5, <2>6
  <2> QED BY <2>7 DEF Open
<1> QED BY <1>5, <1>6

\* Where servers only follow each other, every notification that is open when nothing is on its way opens its file,
\* and there are no more of them than places.
THEOREM OpenOnesAreAlwaysStored == Spec => [](NotificationBounds /\ ~Handovers => OpenOnesAreStored)
<1>1. Init => (NotificationBounds /\ ~Handovers => NotifyInv /\ LivingInv)
  BY InitNotifyInv, InitLiving
<1>2. (NotificationBounds /\ ~Handovers => NotifyInv /\ LivingInv) /\ [Next]_vars
        => (NotificationBounds /\ ~Handovers => NotifyInv /\ LivingInv)'
  BY NextKeepsNotifyInv, NextKeepsLiving DEF NotificationBounds
<1>3. NotifyInv /\ LivingInv => OpenOnesAreStored
  BY QuietOnesAreStored
<1> QED BY <1>1, <1>2, <1>3, PTL DEF Spec
=============================================================================

------------------------- MODULE EventDispatchProofs -------------------------
(***************************************************************************)
(* Theorems about Dispatchers and EventDispatch, for any numbers of        *)
(* connections and fds, the three back ends, with and without the second   *)
(* thread.                                                                 *)
(***************************************************************************)
EXTENDS EventDispatch, FiniteSetTheorems, SequenceTheorems, WellFoundedInduction, TLAPS

\* An entry of a table.
Row == [fd : Fd, evs : SUBSET Events]

InHandler == {"read", "user", "enable", "done"}

Callbacks == {"none", "handle_event", "io_write_cb"}

Found == [fd : Fd, evs : SUBSET Events, owner : Io]

IoTypeOK ==
    /\ made \in 0 .. MaxIo
    /\ fd \in [Io -> Fd \cup {NoFd}]
    /\ cb \in [Io -> Callbacks]
    /\ events \in [Io -> SUBSET Events] /\ revents \in [Io -> SUBSET Events]
    /\ pending \in [Io -> BOOLEAN] /\ closed \in [Io -> BOOLEAN]
    /\ connect \in [Io -> BOOLEAN]
    /\ io_array \in [Fd -> Io \cup {NoIo}]
    /\ peer \in [Io -> {"none", "syn", "up", "gone"}] /\ unread \in [Io -> BOOLEAN]

LoopTypeOK ==
    /\ report \in Seq(Found)
    /\ list \in Seq(Io) /\ cur \in Io \cup {NoIo}
    /\ pc \in {"wait", "report", "pass"} \cup InHandler
    /\ after \in {"done", "enable"}

TypeOK ==
    /\ shared \in BOOLEAN /\ kind \in BackEnds
    /\ table \in Seq(Row)
    /\ IoTypeOK /\ LoopTypeOK
    /\ otherPc \in {"idle", "accepted", "connecting", "delete", "close"}
    /\ otherIo \in Io \cup {NoIo}
    /\ raced \in SUBSET Io /\ stale \in SUBSET Fd

\* A connection is known by its fd as long as it has one, and is nothing before
\* get_io makes it. What asks for events has a callback.
OwnerOK ==
    /\ \A i, j \in Io : fd[i] = fd[j] /\ fd[i] # NoFd => i = j
    /\ \A i \in Io : i > made => fd[i] = NoFd /\ cb[i] = "none"
    /\ \A i \in Io : fd[i] # NoFd => io_array[fd[i]] # NoIo
    /\ \A i \in Io : fd[i] = NoFd => cb[i] = "none" \/ closed[i]
    /\ \A i \in Io : cb[i] = "none" => events[i] = {} /\ ~connect[i]
    /\ \A i \in Io : connect[i] => events[i] \subseteq {"write"}
    /\ \A i \in Io : fd[i] = NoFd /\ i \notin raced => events[i] = {}

\* Where the second thread is.
OtherOK ==
    /\ otherPc # "idle" => otherIo \in Io
    /\ otherPc \in {"accepted", "connecting"} =>
           otherIo <= made /\ cb[otherIo] = "none" /\ fd[otherIo] # NoFd
    /\ otherPc \in {"delete", "close"} => cb[otherIo] # "none" /\ closed[otherIo]
    /\ otherPc = "close" =>
           \/ events[otherIo] = {}
           \/ otherIo \in raced /\ fd[otherIo] \in stale \cup {NoFd}

\* What the entries of an fd f are when its owner asks for the events evs.
Asked(backEnd, t, f, evs) ==
    /\ \A k \in EntriesOf(t, f) : t[k].evs \subseteq evs /\ t[k].evs # {}
    /\ evs # {} => EntriesOf(t, f) # {}
    /\ backEnd # "epoll" => \A e \in evs : \E k \in EntriesOf(t, f) : e \in t[k].evs
    /\ backEnd = "poll" =>
        /\ \A k \in EntriesOf(t, f) : \E e \in Events : t[k].evs = {e}
        /\ \A k, l \in EntriesOf(t, f) : t[k].evs = t[l].evs => k = l

\* epoll and select have one entry for an fd.
NoneTwice(backEnd, t) ==
    backEnd # "poll" => \A k, l \in 1 .. Len(t) : t[k].fd = t[l].fd => k = l

TableOK ==
    /\ NoneTwice(kind, table)
    /\ \A k \in 1 .. Len(table) : io_array[table[k].fd] # NoIo
    /\ \A f \in Fd \ stale : f \notin OpenFds => EntriesOf(table, f) = {}
    /\ \A i \in Io : fd[i] # NoFd /\ fd[i] \notin stale => Asked(kind, table, fd[i], events[i])

\* What was reported of a connection remains true until the loop comes to it,
\* unless it is closed.
Evidence(i, evs) ==
    i \notin raced /\ fd[i] # NoFd =>
        /\ "read" \in evs => Readable(i)
        /\ "write" \in evs => peer[i] # "syn"

ReportOK ==
    /\ pc = "report" <=> report # << >>
    /\ \A n \in 1 .. Len(report) :
        /\ io_array[report[n].fd] # NoIo /\ report[n].owner <= made
        /\ report[n].fd \notin stale => cb[report[n].owner] # "none"
        /\ Evidence(report[n].owner, report[n].evs)

\* The list of pending events.
ListOK ==
    /\ \A m, n \in 1 .. Len(list) : list[m] = list[n] => m = n
    /\ \A n \in 1 .. Len(list) :
        /\ pending[list[n]] /\ list[n] # cur
        /\ cb[list[n]] = "none" => list[n] \in raced
    /\ \A i \in Io : pending[i] =>
           i \in raced \/ i = cur \/ \E n \in 1 .. Len(list) : list[n] = i

\* The connection that the loop is at.
CurOK ==
    /\ pc \in InHandler <=> cur # NoIo
    /\ cur # NoIo => cb[cur] # "none"
    /\ pc = "enable" \/ (pc = "user" /\ after = "enable") => ~connect[cur]

\* The connections whose revents will still be looked at.
Awaiting(i) ==
    \/ \E n \in 1 .. Len(list) : list[n] = i
    \/ i = cur /\ (pc \in {"read", "enable"} \/ (pc = "user" /\ after = "enable"))

EvidenceOK == \A i \in Io : Awaiting(i) => Evidence(i, revents[i])

Inv == TypeOK /\ OwnerOK /\ OtherOK /\ TableOK /\ ReportOK /\ ListOK /\ CurOK /\ EvidenceOK

-----------------------------------------------------------------------------
(* The operators of the back ends.                                         *)

\* Induction over the natural numbers, as the existence of a least element.
LEMMA Least ==
    ASSUME NEW S \in SUBSET Nat, S # {}
    PROVE  \E k \in S : \A l \in S : k <= l
<1> DEFINE R == OpToRel(<, Nat)
<1>1. IsWellFoundedOn(R, Nat)
  BY NatLessThanWellFounded
<1>2. R = {ss \in Nat \X Nat : ss[1] < ss[2]}
  BY DEF OpToRel
<1> HIDE DEF R
<1>3. PICK k \in S : \A l \in S : ~ (<<l, k>> \in R)
  BY <1>1, WFMin
<1>4. ASSUME NEW l \in S PROVE k <= l
  <2>1. <<l, k>> \in Nat \X Nat /\ ~ (<<l, k>> \in R)
    BY <1>3
  <2>2. ~ (l < k)
    BY <1>2, <2>1
  <2> QED BY <2>2
<1> QED
  BY <1>3, <1>4

LEMMA Entries ==
    ASSUME NEW t \in Seq(Row), NEW f
    PROVE  EntriesOf(t, f) = {k \in 1 .. Len(t) : t[k].fd = f}
BY DEF EntriesOf

LEMMA FirstIsEntry ==
    ASSUME NEW t \in Seq(Row), NEW f, EntriesOf(t, f) # {}
    PROVE  FirstEntry(t, f) \in 1 .. Len(t) /\ t[FirstEntry(t, f)].fd = f
<1>1. EntriesOf(t, f) \in SUBSET Nat
  BY Entries
<1>2. \E k \in EntriesOf(t, f) : \A l \in EntriesOf(t, f) : k <= l
  BY <1>1, Least
<1>3. FirstEntry(t, f) \in EntriesOf(t, f)
  BY <1>2 DEF FirstEntry
<1> QED
  BY <1>3, Entries

\* The table u is t without its entry k, in whatever order.
Dropped(t, k, u) ==
    \E p \in [1 .. Len(u) -> 1 .. Len(t)] :
        /\ \A m \in 1 .. Len(u) : u[m] = t[p[m]] /\ p[m] # k
        /\ \A m, n \in 1 .. Len(u) : p[m] = p[n] => m = n
        /\ \A l \in 1 .. Len(t) : l # k => \E m \in 1 .. Len(u) : p[m] = l

LEMMA RemoveAtDrops ==
    ASSUME NEW t \in Seq(Row), NEW k \in 1 .. Len(t)
    PROVE  RemoveAt(t, k) \in Seq(Row) /\ Dropped(t, k, RemoveAt(t, k))
<1> DEFINE a == SubSeq(t, 1, k - 1)
           b == SubSeq(t, k + 1, Len(t))
           u == a \o b
           p == [m \in 1 .. Len(t) - 1 |-> IF m < k THEN m ELSE m + 1]
<1>1. Len(t) \in Nat /\ k \in Nat /\ 1 <= k /\ k <= Len(t)
  OBVIOUS
<1>2. a \in Seq(Row) /\ Len(a) = k - 1 /\ \A m \in 1 .. k - 1 : a[m] = t[m]
  BY <1>1, SubSeqProperties
<1>3. b \in Seq(Row) /\ Len(b) = Len(t) - k /\ \A m \in 1 .. Len(t) - k : b[m] = t[k + m]
  BY <1>1, SubSeqProperties
<1> HIDE DEF a, b
<1>4. /\ u \in Seq(Row) /\ Len(u) = Len(t) - 1
      /\ \A m \in 1 .. Len(u) : u[m] = IF m < k THEN t[m] ELSE t[m + 1]
  <2>1. /\ u \in Seq(Row) /\ Len(u) = Len(a) + Len(b)
        /\ \A m \in 1 .. Len(a) + Len(b) : u[m] = IF m <= Len(a) THEN a[m] ELSE b[m - Len(a)]
    BY <1>2, <1>3, ConcatProperties
  <2>2. ASSUME NEW m \in 1 .. Len(t) - 1
        PROVE  u[m] = IF m < k THEN t[m] ELSE t[m + 1]
    <3>1. CASE m < k
      BY <1>1, <1>2, <1>3, <2>1, <3>1
    <3>2. CASE ~(m < k)
      <4>1. m - (k - 1) \in 1 .. Len(t) - k /\ k + (m - (k - 1)) = m + 1
        BY <1>1, <3>2
      <4>2. u[m] = b[m - (k - 1)]
        BY <1>1, <1>2, <1>3, <2>1, <3>2
      <4>3. b[m - (k - 1)] = t[m + 1]
        BY <1>3, <4>1
      <4> QED BY <3>2, <4>2, <4>3
    <3> QED BY <3>1, <3>2
  <2> QED BY <1>1, <1>2, <1>3, <2>1, <2>2
<1> HIDE DEF u
<1>5. p \in [1 .. Len(u) -> 1 .. Len(t)]
  BY <1>1, <1>4
<1>6. \A m \in 1 .. Len(u) : p[m] = IF m < k THEN m ELSE m + 1
  BY <1>1, <1>4
<1> HIDE DEF p
<1>7. \A m \in 1 .. Len(u) : u[m] = t[p[m]] /\ p[m] # k
  BY <1>1, <1>4, <1>6
<1>8. \A m, n \in 1 .. Len(u) : p[m] = p[n] => m = n
  BY <1>1, <1>4, <1>6
<1>9. ASSUME NEW l \in 1 .. Len(t), l # k
      PROVE  \E m \in 1 .. Len(u) : p[m] = l
  <2>1. CASE l < k
    BY <1>1, <1>4, <1>6, <2>1
  <2>2. CASE l > k
    <3>1. l - 1 \in 1 .. Len(u) /\ p[l - 1] = l
      BY <1>1, <1>4, <1>6, <2>2
    <3> QED BY <3>1
  <2> QED BY <1>1, <1>9, <2>1, <2>2
<1>10. Dropped(t, k, u)
  BY <1>5, <1>7, <1>8, <1>9 DEF Dropped
<1> QED
  BY <1>4, <1>10 DEF u, a, b, RemoveAt

LEMMA MoveLastDrops ==
    ASSUME NEW t \in Seq(Row), NEW k \in 1 .. Len(t)
    PROVE  MoveLast(t, k) \in Seq(Row) /\ Dropped(t, k, MoveLast(t, k))
<1> DEFINE n == Len(t)
           a == [t EXCEPT ![k] = t[n]]
           u == SubSeq(a, 1, n - 1)
           p == [m \in 1 .. n - 1 |-> IF m = k THEN n ELSE m]
<1>1. n \in Nat /\ k \in Nat /\ 1 <= k /\ k <= n /\ t[n] \in Row
  BY ElementOfSeq
<1>2. a \in Seq(Row) /\ Len(a) = n /\ \A m \in 1 .. n : a[m] = IF m = k THEN t[n] ELSE t[m]
  BY <1>1, ExceptSeq
<1> HIDE DEF a
<1>3. /\ u \in Seq(Row) /\ Len(u) = n - 1
      /\ \A m \in 1 .. n - 1 : u[m] = IF m = k THEN t[n] ELSE t[m]
  <2>1. /\ u \in Seq(Row) /\ Len(u) = n - 1
        /\ \A m \in 1 .. n - 1 : u[m] = a[1 + m - 1]
    BY <1>1, <1>2, SubSeqProperties
  <2> QED BY <1>1, <1>2, <2>1
<1> HIDE DEF u
<1>4. p \in [1 .. Len(u) -> 1 .. Len(t)]
  BY <1>1, <1>3
<1>5. \A m \in 1 .. Len(u) : p[m] = IF m = k THEN n ELSE m
  BY <1>1, <1>3
<1> HIDE DEF p
<1>6. \A m \in 1 .. Len(u) : u[m] = t[p[m]] /\ p[m] # k
  BY <1>1, <1>3, <1>5
<1>7. \A m, l \in 1 .. Len(u) : p[m] = p[l] => m = l
  BY <1>1, <1>3, <1>5
<1>8. ASSUME NEW l \in 1 .. Len(t), l # k
      PROVE  \E m \in 1 .. Len(u) : p[m] = l
  <2>1. CASE l = n
    <3>1. k \in 1 .. Len(u) /\ p[k] = n
      BY <1>1, <1>3, <1>5, <1>8, <2>1
    <3> QED BY <2>1, <3>1
  <2>2. CASE l # n
    <3>1. l \in 1 .. Len(u) /\ p[l] = l
      BY <1>1, <1>3, <1>5, <1>8, <2>2
    <3> QED BY <3>1
  <2> QED BY <2>1, <2>2
<1>9. Dropped(t, k, u)
  BY <1>4, <1>6, <1>7, <1>8 DEF Dropped
<1> QED
  BY <1>3, <1>9 DEF u, a, MoveLast

FdsOf(t) == {t[k].fd : k \in 1 .. Len(t)}

\* The table u is t but for what it says of f.
Kept(backEnd, t, u, f) ==
    /\ u \in Seq(Row)
    /\ FdsOf(u) \subseteq FdsOf(t) \cup {f}
    /\ NoneTwice(backEnd, t) => NoneTwice(backEnd, u)
    /\ \A g \in Fd : \A evs \in SUBSET Events :
           g # f /\ Asked(backEnd, t, g, evs) => Asked(backEnd, u, g, evs)

LEMMA RowsOf ==
    ASSUME NEW t \in Seq(Row), NEW k \in 1 .. Len(t)
    PROVE  t[k] \in Row /\ t[k].fd \in Fd /\ t[k].evs \in SUBSET Events
<1>1. t[k] \in Row
  BY ElementOfSeq
<1> QED
  BY <1>1 DEF Row

LEMMA DroppedKeeps ==
    ASSUME NEW backEnd, NEW t \in Seq(Row), NEW u \in Seq(Row), NEW k \in 1 .. Len(t),
           Dropped(t, k, u)
    PROVE  /\ FdsOf(u) \subseteq FdsOf(t)
           /\ NoneTwice(backEnd, t) => NoneTwice(backEnd, u)
           /\ \A g : \A evs : g # t[k].fd /\ Asked(backEnd, t, g, evs) => Asked(backEnd, u, g, evs)
<1>1. PICK p \in [1 .. Len(u) -> 1 .. Len(t)] :
          /\ \A m \in 1 .. Len(u) : u[m] = t[p[m]] /\ p[m] # k
          /\ \A m, n \in 1 .. Len(u) : p[m] = p[n] => m = n
          /\ \A l \in 1 .. Len(t) : l # k => \E m \in 1 .. Len(u) : p[m] = l
  BY DEF Dropped
<1>2. FdsOf(u) \subseteq FdsOf(t)
  BY <1>1 DEF FdsOf
<1>3. ASSUME NoneTwice(backEnd, t) PROVE NoneTwice(backEnd, u)
  <2>1. ASSUME backEnd # "poll", NEW m \in 1 .. Len(u), NEW n \in 1 .. Len(u), u[m].fd = u[n].fd
        PROVE  m = n
    <3>1. p[m] \in 1 .. Len(t) /\ p[n] \in 1 .. Len(t)
      OBVIOUS
    <3>2. t[p[m]].fd = t[p[n]].fd
      BY <1>1, <2>1
    <3>3. p[m] = p[n]
      BY <1>3, <2>1, <3>1, <3>2 DEF NoneTwice
    <3> QED BY <1>1, <3>3
  <2> QED BY <2>1 DEF NoneTwice
<1>4. ASSUME NEW g, NEW evs, g # t[k].fd, Asked(backEnd, t, g, evs)
      PROVE  Asked(backEnd, u, g, evs)
  <2> DEFINE T == EntriesOf(t, g)
             U == EntriesOf(u, g)
  <2>1. \A l \in T : l \in 1 .. Len(t) /\ t[l].fd = g /\ l # k
    BY <1>4, Entries
  <2>2. \A m \in U : m \in 1 .. Len(u) /\ u[m].fd = g
    BY Entries
  <2>3. \A m \in U : p[m] \in T /\ u[m] = t[p[m]]
    BY <1>1, <2>2, Entries
  <2>4. \A l \in T : \E m \in U : p[m] = l /\ u[m] = t[l]
    <3>1. ASSUME NEW l \in T PROVE \E m \in U : p[m] = l /\ u[m] = t[l]
      <4>1. PICK m \in 1 .. Len(u) : p[m] = l
        BY <1>1, <2>1
      <4>2. u[m] = t[l] /\ u[m].fd = g
        BY <1>1, <2>1, <4>1
      <4>3. m \in U
        BY <4>2, Entries
      <4> QED BY <4>1, <4>2, <4>3
    <3> QED BY <3>1
  <2>5. \A m, n \in U : p[m] = p[n] => m = n
    BY <1>1, <2>2
  <2>6. /\ \A l \in T : t[l].evs \subseteq evs /\ t[l].evs # {}
        /\ evs # {} => T # {}
        /\ backEnd # "epoll" => \A e \in evs : \E l \in T : e \in t[l].evs
        /\ backEnd = "poll" =>
            /\ \A l \in T : \E e \in Events : t[l].evs = {e}
            /\ \A l, m \in T : t[l].evs = t[m].evs => l = m
    BY <1>4 DEF Asked
  <2> HIDE DEF T, U
  <2>7. \A m \in U : u[m].evs \subseteq evs /\ u[m].evs # {}
    BY <2>3, <2>6
  <2>8. evs # {} => U # {}
    BY <2>4, <2>6
  <2>9. backEnd # "epoll" => \A e \in evs : \E m \in U : e \in u[m].evs
    <3>1. ASSUME backEnd # "epoll", NEW e \in evs PROVE \E m \in U : e \in u[m].evs
      <4>1. PICK l \in T : e \in t[l].evs
        BY <2>6, <3>1
      <4>2. PICK m \in U : u[m] = t[l]
        BY <2>4
      <4> QED BY <4>1, <4>2
    <3> QED BY <3>1
  <2>10. backEnd = "poll" =>
            /\ \A m \in U : \E e \in Events : u[m].evs = {e}
            /\ \A m, n \in U : u[m].evs = u[n].evs => m = n
    <3>1. ASSUME backEnd = "poll", NEW m \in U PROVE \E e \in Events : u[m].evs = {e}
      <4>1. p[m] \in T /\ u[m] = t[p[m]]
        BY <2>3
      <4> QED BY <2>6, <3>1, <4>1
    <3>2. ASSUME backEnd = "poll", NEW m \in U, NEW n \in U, u[m].evs = u[n].evs PROVE m = n
      <4>1. p[m] \in T /\ p[n] \in T /\ t[p[m]].evs = t[p[n]].evs
        BY <2>3, <3>2
      <4>2. p[m] = p[n]
        BY <2>6, <3>2, <4>1
      <4> QED BY <2>5, <4>2
    <3> QED BY <3>1, <3>2
  <2> QED
    BY <2>7, <2>8, <2>9, <2>10 DEF Asked, U
<1> QED
  BY <1>2, <1>3, <1>4

\* What is left of the entries of the fd whose entry was dropped.
LEMMA DroppedLeaves ==
    ASSUME NEW t \in Seq(Row), NEW u \in Seq(Row), NEW k \in 1 .. Len(t),
           Dropped(t, k, u)
    PROVE  /\ \A f : (\A l \in EntriesOf(t, f) : l = k) => EntriesOf(u, f) = {}
           /\ \A f : \A evs : Asked("poll", t, f, evs) /\ t[k].fd = f
                 => \A m, n \in EntriesOf(u, f) : m = n
<1>1. PICK p \in [1 .. Len(u) -> 1 .. Len(t)] :
          /\ \A m \in 1 .. Len(u) : u[m] = t[p[m]] /\ p[m] # k
          /\ \A m, n \in 1 .. Len(u) : p[m] = p[n] => m = n
  BY DEF Dropped
<1>2. ASSUME NEW f, NEW m \in EntriesOf(u, f)
      PROVE  m \in 1 .. Len(u) /\ p[m] \in EntriesOf(t, f) /\ p[m] # k
  BY <1>1, Entries
<1>3. ASSUME NEW f, \A l \in EntriesOf(t, f) : l = k
      PROVE  EntriesOf(u, f) = {}
  BY <1>2, <1>3
<1>4. ASSUME NEW f, NEW evs, Asked("poll", t, f, evs), t[k].fd = f,
             NEW m \in EntriesOf(u, f), NEW n \in EntriesOf(u, f)
      PROVE  m = n
  <2>1. k \in EntriesOf(t, f)
    BY <1>4, Entries
  <2>2. /\ \A l \in EntriesOf(t, f) : \E e \in Events : t[l].evs = {e}
        /\ \A l, j \in EntriesOf(t, f) : t[l].evs = t[j].evs => l = j
    BY <1>4 DEF Asked
  <2>3. PICK a \in Events : t[k].evs = {a}
    BY <2>1, <2>2
  <2>4. PICK b \in Events : t[p[m]].evs = {b}
    BY <1>2, <2>2
  <2>5. PICK c \in Events : t[p[n]].evs = {c}
    BY <1>2, <2>2
  <2>6. a # b /\ a # c
    BY <1>2, <2>1, <2>2, <2>3, <2>4, <2>5
  <2>7. b = c
    BY <2>6 DEF Events
  <2>8. p[m] = p[n]
    BY <1>2, <2>2, <2>4, <2>5, <2>7
  <2> QED
    BY <1>1, <1>2, <2>8
<1> QED
  BY <1>3, <1>4

\* Only the events of an entry change.
Edited(t, k, evs) == [t EXCEPT ![k].evs = evs]

LEMMA EditKeeps ==
    ASSUME NEW backEnd, NEW t \in Seq(Row), NEW k \in 1 .. Len(t), NEW evs \in SUBSET Events
    PROVE  /\ Kept(backEnd, t, Edited(t, k, evs), t[k].fd)
           /\ FdsOf(Edited(t, k, evs)) \subseteq FdsOf(t)
           /\ Edited(t, k, evs)[k].evs = evs
           /\ \A g : EntriesOf(Edited(t, k, evs), g) = EntriesOf(t, g)
<1> DEFINE row == [t[k] EXCEPT !.evs = evs]
           u == Edited(t, k, evs)
<1>1. row \in Row /\ row.fd = t[k].fd /\ row.evs = evs
  BY RowsOf DEF Row
<1>8. u = [t EXCEPT ![k] = row]
  BY DEF Edited
<1> HIDE DEF row, u
<1>2. u \in Seq(Row) /\ Len(u) = Len(t) /\ \A m \in 1 .. Len(t) : u[m] = IF m = k THEN row ELSE t[m]
  BY <1>1, <1>8, ExceptSeq
<1>3. \A m \in 1 .. Len(t) : u[m].fd = t[m].fd /\ u[m].evs = IF m = k THEN evs ELSE t[m].evs
  BY <1>1, <1>2
<1>4. ASSUME NEW g PROVE EntriesOf(u, g) = EntriesOf(t, g)
  <2>1. EntriesOf(u, g) = {m \in 1 .. Len(t) : u[m].fd = g}
    BY <1>2, Entries
  <2>2. EntriesOf(t, g) = {m \in 1 .. Len(t) : t[m].fd = g}
    BY Entries
  <2> QED BY <1>3, <2>1, <2>2
<1>5. FdsOf(u) \subseteq FdsOf(t)
  BY <1>2, <1>3 DEF FdsOf
<1>6. ASSUME NoneTwice(backEnd, t) PROVE NoneTwice(backEnd, u)
  BY <1>2, <1>3, <1>6 DEF NoneTwice
<1>7. ASSUME NEW g, NEW asked, g # t[k].fd, Asked(backEnd, t, g, asked)
      PROVE  Asked(backEnd, u, g, asked)
  <2>1. \A m \in EntriesOf(t, g) : m \in 1 .. Len(t) /\ m # k /\ u[m].evs = t[m].evs
    BY <1>3, <1>7, Entries
  <2>2. EntriesOf(u, g) = EntriesOf(t, g)
    BY <1>4
  <2> QED
    BY <1>7, <2>1, <2>2 DEF Asked
<1>9. Kept(backEnd, t, u, t[k].fd)
  BY <1>2, <1>5, <1>6, <1>7 DEF Kept
<1> QED
  BY <1>3, <1>4, <1>5, <1>9 DEF u

LEMMA DelKeeps ==
    ASSUME NEW backEnd, NEW t \in Seq(Row), NEW f, NEW e
    PROVE  /\ Kept(backEnd, t, DelEvent(backEnd, t, f, e), f)
           /\ FdsOf(DelEvent(backEnd, t, f, e)) \subseteq FdsOf(t)
<1> DEFINE k == FirstEntry(t, f)
           u == DelEvent(backEnd, t, f, e)
<1>1. CASE EntriesOf(t, f) = {}
  <2>1. u = t
    BY <1>1 DEF DelEvent
  <2> QED BY <2>1 DEF Kept
<1>2. CASE EntriesOf(t, f) # {}
  <2>1. k \in 1 .. Len(t) /\ t[k].fd = f
    BY <1>2, FirstIsEntry
  <2> HIDE DEF k
  <2>2. CASE backEnd = "poll"
    <3>1. u = MoveLast(t, k)
      BY <1>2, <2>2 DEF DelEvent, k
    <3>2. u \in Seq(Row) /\ Dropped(t, k, u)
      BY <2>1, <3>1, MoveLastDrops
    <3> HIDE DEF u
    <3>3. Kept(backEnd, t, u, f) /\ FdsOf(u) \subseteq FdsOf(t)
      BY <2>1, <3>2, DroppedKeeps DEF Kept
    <3> QED BY <3>3 DEF u
  <2>3. CASE backEnd # "poll" /\ (backEnd = "epoll" \/ t[k].evs = {e})
    <3>1. u = RemoveAt(t, k)
      BY <1>2, <2>3 DEF DelEvent, k
    <3>2. u \in Seq(Row) /\ Dropped(t, k, u)
      BY <2>1, <3>1, RemoveAtDrops
    <3> HIDE DEF u
    <3>3. Kept(backEnd, t, u, f) /\ FdsOf(u) \subseteq FdsOf(t)
      BY <2>1, <3>2, DroppedKeeps DEF Kept
    <3> QED BY <3>3 DEF u
  <2>4. CASE backEnd # "poll" /\ ~(backEnd = "epoll" \/ t[k].evs = {e})
    <3> DEFINE evs == t[k].evs \ {e}
    <3>1. u = Edited(t, k, evs)
      BY <1>2, <2>4 DEF DelEvent, Edited, k
    <3>2. evs \in SUBSET Events
      BY <2>1, RowsOf
    <3> HIDE DEF evs, u
    <3>3. Kept(backEnd, t, u, f) /\ FdsOf(u) \subseteq FdsOf(t)
      BY <2>1, <3>1, <3>2, EditKeeps
    <3> QED BY <3>3 DEF u
  <2> QED BY <2>2, <2>3, <2>4
<1> QED BY <1>1, <1>2

\* The only entry of an fd, watched for this event only, is gone.
LEMMA DelClears ==
    ASSUME NEW backEnd \in BackEnds, NEW t \in Seq(Row), NEW f, NEW e,
           \A l, m \in EntriesOf(t, f) : l = m,
           backEnd = "select" => \A l \in EntriesOf(t, f) : t[l].evs = {e}
    PROVE  EntriesOf(DelEvent(backEnd, t, f, e), f) = {}
<1> DEFINE k == FirstEntry(t, f)
           u == DelEvent(backEnd, t, f, e)
<1>1. CASE EntriesOf(t, f) = {}
  BY <1>1 DEF DelEvent
<1>2. CASE EntriesOf(t, f) # {}
  <2>1. k \in 1 .. Len(t) /\ t[k].fd = f
    BY <1>2, FirstIsEntry
  <2>2. k \in EntriesOf(t, f)
    BY <2>1, Entries
  <2> HIDE DEF k
  <2>3. \A l \in EntriesOf(t, f) : l = k
    BY <2>2
  <2>4. u \in Seq(Row) /\ Dropped(t, k, u)
    <3>1. CASE backEnd = "poll"
      <4>1. u = MoveLast(t, k)
        BY <1>2, <3>1 DEF DelEvent, k
      <4> QED BY <2>1, <4>1, MoveLastDrops
    <3>2. CASE backEnd # "poll"
      <4>1. backEnd = "epoll" \/ t[k].evs = {e}
        BY <2>2, <3>2 DEF BackEnds
      <4>2. u = RemoveAt(t, k)
        BY <1>2, <3>2, <4>1 DEF DelEvent, k
      <4> QED BY <2>1, <4>2, RemoveAtDrops
    <3> QED BY <3>1, <3>2
  <2> HIDE DEF u
  <2>5. EntriesOf(u, f) = {}
    BY <2>1, <2>3, <2>4, DroppedLeaves
  <2> QED BY <2>5 DEF u
<1> QED BY <1>1, <1>2

LEMMA OneEntry ==
    ASSUME NEW backEnd, NEW t \in Seq(Row), NEW f, NoneTwice(backEnd, t), backEnd # "poll"
    PROVE  \A l, m \in EntriesOf(t, f) : l = m
BY Entries DEF NoneTwice

\* io_del of the last event an io asks for.
LEMMA DelOneClears ==
    ASSUME NEW backEnd \in BackEnds, NEW t \in Seq(Row), NEW f, NEW e,
           NoneTwice(backEnd, t), Asked(backEnd, t, f, {e})
    PROVE  EntriesOf(DelEvent(backEnd, t, f, e), f) = {}
<1>1. \A l \in EntriesOf(t, f) : t[l].evs = {e}
  BY DEF Asked
<1>2. \A l, m \in EntriesOf(t, f) : l = m
  <2>1. CASE backEnd = "poll"
    BY <1>1, <2>1 DEF Asked
  <2>2. CASE backEnd # "poll"
    BY <2>2, OneEntry
  <2> QED BY <2>1, <2>2
<1> QED
  BY <1>1, <1>2, DelClears

\* DeletedBoth, of any table.
Without(backEnd, t, f, evs, e) == IF e \in evs THEN DelEvent(backEnd, t, f, e) ELSE t

BothGone(backEnd, t, f, evs) ==
    Without(backEnd, Without(backEnd, t, f, evs, "read"), f, evs, "write")

LEMMA KeptTransitive ==
    ASSUME NEW backEnd, NEW t, NEW u, NEW v, NEW f,
           Kept(backEnd, t, u, f), Kept(backEnd, u, v, f)
    PROVE  Kept(backEnd, t, v, f)
BY DEF Kept

LEMMA WithoutKeeps ==
    ASSUME NEW backEnd, NEW t \in Seq(Row), NEW f, NEW evs, NEW e
    PROVE  /\ Kept(backEnd, t, Without(backEnd, t, f, evs, e), f)
           /\ FdsOf(Without(backEnd, t, f, evs, e)) \subseteq FdsOf(t)
<1>1. CASE e \in evs
  <2>1. Without(backEnd, t, f, evs, e) = DelEvent(backEnd, t, f, e)
    BY <1>1 DEF Without
  <2> QED BY <2>1, DelKeeps
<1>2. CASE e \notin evs
  <2>1. Without(backEnd, t, f, evs, e) = t
    BY <1>2 DEF Without
  <2> QED BY <2>1 DEF Kept
<1> QED BY <1>1, <1>2

LEMMA BothKeeps ==
    ASSUME NEW backEnd, NEW t \in Seq(Row), NEW f, NEW evs
    PROVE  /\ Kept(backEnd, t, BothGone(backEnd, t, f, evs), f)
           /\ FdsOf(BothGone(backEnd, t, f, evs)) \subseteq FdsOf(t)
<1> DEFINE u == Without(backEnd, t, f, evs, "read")
           v == Without(backEnd, u, f, evs, "write")
<1>1. Kept(backEnd, t, u, f) /\ FdsOf(u) \subseteq FdsOf(t) /\ u \in Seq(Row)
  BY WithoutKeeps DEF Kept
<1> HIDE DEF u
<1>2. Kept(backEnd, u, v, f) /\ FdsOf(v) \subseteq FdsOf(u)
  BY <1>1, WithoutKeeps
<1> HIDE DEF v
<1>3. Kept(backEnd, t, v, f) /\ FdsOf(v) \subseteq FdsOf(t)
  BY <1>1, <1>2, KeptTransitive
<1> QED
  BY <1>3 DEF u, v, BothGone

\* After the two io_del of io_close the fd is not watched: for poll one entry
\* is left after the first of them, whichever event that was for.
LEMMA BothClears ==
    ASSUME NEW backEnd \in BackEnds, NEW t \in Seq(Row), NEW f, NEW evs \in SUBSET Events,
           NoneTwice(backEnd, t), Asked(backEnd, t, f, evs)
    PROVE  EntriesOf(BothGone(backEnd, t, f, evs), f) = {}
<1> DEFINE r == DelEvent(backEnd, t, f, "read")
           w == DelEvent(backEnd, r, f, "write")
<1>1. CASE evs = {}
  <2>1. BothGone(backEnd, t, f, evs) = t
    BY <1>1 DEF BothGone, Without
  <2> QED BY <1>1, <2>1 DEF Asked
<1>2. CASE evs = {"read"}
  <2>1. BothGone(backEnd, t, f, evs) = r
    BY <1>2 DEF BothGone, Without
  <2> QED BY <1>2, <2>1, DelOneClears
<1>3. CASE evs = {"write"}
  <2>1. BothGone(backEnd, t, f, evs) = DelEvent(backEnd, t, f, "write")
    BY <1>3 DEF BothGone, Without
  <2> QED BY <1>3, <2>1, DelOneClears
<1>4. CASE evs = {"read", "write"}
  <2> DEFINE k == FirstEntry(t, f)
  <2>1. BothGone(backEnd, t, f, evs) = w
    BY <1>4 DEF BothGone, Without
  <2>2. r \in Seq(Row)
    BY DelKeeps DEF Kept
  <2>3. k \in 1 .. Len(t) /\ t[k].fd = f
    BY <1>4, FirstIsEntry DEF Asked
  <2>4. k \in EntriesOf(t, f)
    BY <2>3, Entries
  <2> HIDE DEF k
  <2>5. /\ \A l, m \in EntriesOf(r, f) : l = m
        /\ backEnd = "select" => \A l \in EntriesOf(r, f) : r[l].evs = {"write"}
    <3>1. CASE backEnd = "poll"
      <4>1. r = MoveLast(t, k)
        BY <2>4, <3>1 DEF DelEvent, k
      <4>2. Dropped(t, k, r)
        BY <2>3, <4>1, MoveLastDrops
      <4> HIDE DEF r
      <4>3. \A l, m \in EntriesOf(r, f) : l = m
        <5>1. Asked("poll", t, f, evs)
          BY <3>1
        <5>2. \A g : \A asked : Asked("poll", t, g, asked) /\ t[k].fd = g
                              => \A l, m \in EntriesOf(r, g) : l = m
          BY <2>2, <2>3, <4>2, DroppedLeaves
        <5> QED BY <2>3, <5>1, <5>2
      <4> QED BY <3>1, <4>3
    <3>2. CASE backEnd = "epoll"
      <4>1. \A l, m \in EntriesOf(t, f) : l = m
        BY <3>2, OneEntry
      <4>2. EntriesOf(r, f) = {}
        BY <3>2, <4>1, DelClears
      <4> QED BY <4>2
    <3>3. CASE backEnd = "select"
      <4>1. \A l, m \in EntriesOf(t, f) : l = m
        BY <3>3, OneEntry
      <4>2. t[k].evs = {"read", "write"}
        BY <1>4, <2>4, <3>3, <4>1 DEF Asked
      <4>3. t[k].evs # {"read"}
        BY <4>2
      <4>4. r = Edited(t, k, t[k].evs \ {"read"})
        BY <2>4, <3>3, <4>3 DEF DelEvent, Edited, k
      <4>5. t[k].evs \ {"read"} = {"write"}
        BY <4>2
      <4>6. {"write"} \in SUBSET Events
        BY DEF Events
      <4>7. r = Edited(t, k, {"write"})
        BY <4>4, <4>5
      <4> HIDE DEF r
      <4>8. /\ EntriesOf(r, f) = EntriesOf(t, f)
            /\ r[k].evs = {"write"}
        <5> DEFINE left == {"write"}
        <5>1. left \in SUBSET Events /\ r = Edited(t, k, left)
          BY <4>6, <4>7
        <5>2. left = {"write"}
          OBVIOUS
        <5> HIDE DEF left
        <5>3. /\ EntriesOf(r, f) = EntriesOf(t, f)
              /\ r[k].evs = left
          BY <2>3, <5>1, EditKeeps
        <5> QED BY <5>2, <5>3
      <4> QED BY <2>4, <4>1, <4>8
    <3> QED BY <3>1, <3>2, <3>3 DEF BackEnds
  <2> HIDE DEF r
  <2>6. EntriesOf(w, f) = {}
    BY <2>2, <2>5, DelClears
  <2> QED BY <2>1, <2>6
<1> QED
  BY <1>1, <1>2, <1>3, <1>4 DEF Events

\* What close(2) removes is an entry of epoll's.
LEMMA CloseKeeps ==
    ASSUME NEW backEnd, NEW t \in Seq(Row), NEW f
    PROVE  /\ Kept(backEnd, t, CloseFd(backEnd, t, f), f)
           /\ FdsOf(CloseFd(backEnd, t, f)) \subseteq FdsOf(t)
           /\ EntriesOf(t, f) = {} => CloseFd(backEnd, t, f) = t
<1> DEFINE k == FirstEntry(t, f)
           u == CloseFd(backEnd, t, f)
<1>1. CASE backEnd = "epoll" /\ EntriesOf(t, f) # {}
  <2>1. k \in 1 .. Len(t) /\ t[k].fd = f
    BY <1>1, FirstIsEntry
  <2> HIDE DEF k
  <2>2. u = RemoveAt(t, k)
    BY <1>1 DEF CloseFd, k
  <2>3. u \in Seq(Row) /\ Dropped(t, k, u)
    BY <2>1, <2>2, RemoveAtDrops
  <2> HIDE DEF u
  <2>4. Kept(backEnd, t, u, f) /\ FdsOf(u) \subseteq FdsOf(t)
    BY <2>1, <2>3, DroppedKeeps DEF Kept
  <2> QED BY <1>1, <2>4 DEF u
<1>2. CASE ~(backEnd = "epoll" /\ EntriesOf(t, f) # {})
  <2>1. u = t
    BY <1>2 DEF CloseFd
  <2> QED BY <2>1 DEF Kept
<1> QED BY <1>1, <1>2

LEMMA AddKeeps ==
    ASSUME NEW backEnd \in BackEnds, NEW t \in Seq(Row), NEW f \in Fd, NEW e \in Events
    PROVE  /\ Kept(backEnd, t, AddEvent(backEnd, t, f, e), f)
           /\ NoneTwice(backEnd, t) => \A evs \in SUBSET Events :
                Asked(backEnd, t, f, evs) /\ e \notin evs =>
                    Asked(backEnd, AddEvent(backEnd, t, f, e), f, evs \cup {e})
<1> DEFINE u == AddEvent(backEnd, t, f, e)
           row == Entry(f, {e})
           n == Len(t) + 1
           k == FirstEntry(t, f)
<1>1. CASE backEnd = "poll" \/ EntriesOf(t, f) = {}
  <2>1. u = Append(t, row)
    BY <1>1 DEF AddEvent
  <2>2. row \in Row /\ row.fd = f /\ row.evs = {e}
    BY DEF Entry, Row
  <2> HIDE DEF row
  <2>3. Len(t) \in Nat /\ n \in Nat /\ n = Len(t) + 1
    OBVIOUS
  <2>4. /\ u \in Seq(Row) /\ Len(u) = n /\ u[n] = row
        /\ \A m \in 1 .. Len(t) : u[m] = t[m]
    BY <2>1, <2>2, AppendProperties
  <2> HIDE DEF u, n
  <2>5. \A m \in 1 .. Len(u) : m = n \/ m \in 1 .. Len(t)
    BY <2>3, <2>4
  <2>6. \A g : g # f => EntriesOf(u, g) = EntriesOf(t, g)
    <3>1. ASSUME NEW g, g # f PROVE EntriesOf(u, g) = EntriesOf(t, g)
      <4>1. EntriesOf(t, g) = {m \in 1 .. Len(t) : t[m].fd = g}
        BY Entries
      <4>2. EntriesOf(u, g) = {m \in 1 .. n : u[m].fd = g}
        BY <2>4, Entries
      <4>3. u[n].fd # g /\ \A m \in 1 .. Len(t) : m \in 1 .. n /\ u[m].fd = t[m].fd
        BY <2>2, <2>3, <2>4, <3>1
      <4> QED BY <2>4, <2>5, <4>1, <4>2, <4>3
    <3> QED BY <3>1
  <2>7. EntriesOf(u, f) = EntriesOf(t, f) \cup {n}
    <3>1. EntriesOf(t, f) = {m \in 1 .. Len(t) : t[m].fd = f}
      BY Entries
    <3>2. EntriesOf(u, f) = {m \in 1 .. n : u[m].fd = f}
      BY <2>4, Entries
    <3>3. u[n].fd = f /\ n \in 1 .. n
          /\ \A m \in 1 .. Len(t) : m \in 1 .. n /\ u[m].fd = t[m].fd
      BY <2>2, <2>3, <2>4
    <3> QED BY <2>4, <2>5, <3>1, <3>2, <3>3
  <2>8. \A g : \A m \in EntriesOf(t, g) : u[m] = t[m]
    BY <2>4, Entries
  <2>9. FdsOf(u) \subseteq FdsOf(t) \cup {f}
    BY <2>2, <2>4, <2>5 DEF FdsOf
  <2>10. ASSUME NoneTwice(backEnd, t) PROVE NoneTwice(backEnd, u)
    <3>1. ASSUME backEnd # "poll", NEW l \in 1 .. Len(u), NEW m \in 1 .. Len(u), u[l].fd = u[m].fd
          PROVE  l = m
      <4>1. \A j \in 1 .. Len(t) : t[j].fd # f
        BY <1>1, <3>1, Entries
      <4>2. CASE l \in 1 .. Len(t) /\ m \in 1 .. Len(t)
        BY <2>4, <2>10, <3>1, <4>2 DEF NoneTwice
      <4> QED BY <2>2, <2>4, <2>5, <3>1, <4>1, <4>2
    <3> QED BY <3>1 DEF NoneTwice
  <2>11. \A g \in Fd : \A evs \in SUBSET Events :
             g # f /\ Asked(backEnd, t, g, evs) => Asked(backEnd, u, g, evs)
    <3>1. ASSUME NEW g \in Fd, NEW evs \in SUBSET Events, g # f, Asked(backEnd, t, g, evs)
          PROVE  Asked(backEnd, u, g, evs)
      <4>1. EntriesOf(u, g) = EntriesOf(t, g) /\ \A m \in EntriesOf(t, g) : u[m] = t[m]
        BY <2>6, <2>8, <3>1
      <4> QED BY <3>1, <4>1 DEF Asked
    <3> QED BY <3>1
  <2>12. ASSUME NEW evs \in SUBSET Events, Asked(backEnd, t, f, evs), e \notin evs
         PROVE  Asked(backEnd, u, f, evs \cup {e})
    <3>1. u[n].evs = {e} /\ \A m \in EntriesOf(t, f) : u[m].evs = t[m].evs
      BY <2>2, <2>4, <2>8
    <3>2. \A m \in EntriesOf(t, f) : t[m].evs \subseteq evs /\ t[m].evs # {}
      BY <2>12 DEF Asked
    <3>3. \A m \in EntriesOf(u, f) : u[m].evs \subseteq evs \cup {e} /\ u[m].evs # {}
      BY <2>7, <3>1, <3>2
    <3>4. EntriesOf(u, f) # {}
      BY <2>7
    <3>5. backEnd # "epoll" =>
              \A ev \in evs \cup {e} : \E m \in EntriesOf(u, f) : ev \in u[m].evs
      <4>1. ASSUME backEnd # "epoll", NEW ev \in evs
            PROVE  \E m \in EntriesOf(u, f) : ev \in u[m].evs
        BY <2>7, <2>12, <3>1, <4>1 DEF Asked
      <4>2. \E m \in EntriesOf(u, f) : e \in u[m].evs
        BY <2>7, <3>1
      <4> QED BY <4>1, <4>2
    <3>6. ASSUME backEnd = "poll"
          PROVE  /\ \A m \in EntriesOf(u, f) : \E ev \in Events : u[m].evs = {ev}
                 /\ \A l, m \in EntriesOf(u, f) : u[l].evs = u[m].evs => l = m
      <4>1. /\ \A m \in EntriesOf(t, f) : \E ev \in Events : t[m].evs = {ev}
            /\ \A l, m \in EntriesOf(t, f) : t[l].evs = t[m].evs => l = m
        BY <2>12, <3>6 DEF Asked
      <4>2. \A m \in EntriesOf(t, f) : t[m].evs # {e}
        BY <2>12, <3>2
      <4>3. \A m \in EntriesOf(u, f) : \E ev \in Events : u[m].evs = {ev}
        BY <2>7, <3>1, <4>1
      <4>4. \A l, m \in EntriesOf(u, f) : u[l].evs = u[m].evs => l = m
        BY <2>7, <3>1, <4>1, <4>2
      <4> QED BY <4>3, <4>4
    <3> QED BY <3>3, <3>4, <3>5, <3>6 DEF Asked
  <2>13. Kept(backEnd, t, u, f)
    BY <2>4, <2>9, <2>10, <2>11 DEF Kept
  <2> QED BY <2>12, <2>13 DEF u
<1>2. CASE backEnd = "epoll" /\ EntriesOf(t, f) # {}
  <2>1. u = t
    BY <1>2 DEF AddEvent
  <2>2. ASSUME NEW evs \in SUBSET Events, Asked(backEnd, t, f, evs)
        PROVE  Asked(backEnd, t, f, evs \cup {e})
    BY <1>2, <2>2 DEF Asked
  <2>3. Kept(backEnd, t, t, f)
    BY DEF Kept
  <2> QED BY <2>1, <2>2, <2>3
<1>3. CASE backEnd = "select" /\ EntriesOf(t, f) # {}
  <2> DEFINE all == t[k].evs \cup {e}
  <2>1. u = Edited(t, k, all)
    BY <1>3 DEF AddEvent, Edited
  <2>2. k \in 1 .. Len(t) /\ t[k].fd = f
    BY <1>3, FirstIsEntry
  <2>3. k \in EntriesOf(t, f)
    BY <2>2, Entries
  <2> HIDE DEF k
  <2>4. all \in SUBSET Events
    BY <2>2, RowsOf
  <2> HIDE DEF all, u
  <2>5. /\ Kept(backEnd, t, u, f)
        /\ u[k].evs = all
        /\ EntriesOf(u, f) = EntriesOf(t, f)
    BY <2>1, <2>2, <2>4, EditKeeps
  <2>6. ASSUME NoneTwice(backEnd, t), NEW evs \in SUBSET Events, Asked(backEnd, t, f, evs)
        PROVE  Asked(backEnd, u, f, evs \cup {e})
    <3>1. \A l \in EntriesOf(t, f) : l = k
      BY <1>3, <2>3, <2>6, OneEntry
    <3>2. t[k].evs = evs
      BY <1>3, <2>3, <2>6, <3>1 DEF Asked
    <3>3. u[k].evs = evs \cup {e}
      BY <2>5, <3>2 DEF all
    <3> QED BY <1>3, <2>3, <2>5, <3>1, <3>3 DEF Asked
  <2> QED BY <2>5, <2>6 DEF u
<1> QED BY <1>1, <1>2, <1>3 DEF BackEnds

\* What a back end reports is in its table, and was found by the kernel.
FromTable(found, t, ready) ==
    \E n \in Nat :
        /\ DOMAIN found = 1 .. n
        /\ \A m \in 1 .. n : \E k \in 1 .. Len(t) :
             /\ found[m].fd = t[k].fd
             /\ found[m].evs \subseteq t[k].evs \cap ready[t[k].fd]
             /\ found[m].evs # {}

LEMMA ReportsFound ==
    ASSUME NEW backEnd, NEW t \in Seq(Row), NEW ready \in [Fd -> SUBSET Events],
           NEW found \in Reports(backEnd, t, ready)
    PROVE  FromTable(found, t, ready)
<1> DEFINE F(k) == t[k].evs \cap ready[t[k].fd]
           hits == {k \in DOMAIN t : F(k) # {}}
           D == 1 .. Cardinality(hits)
<1>1. PICK o \in SetToSeqs(hits) : found = [n \in DOMAIN o |-> Entry(t[o[n]].fd, F(o[n]))]
  BY DEF Reports
<1>2. o \in [D -> hits]
  BY <1>1 DEF SetToSeqs
<1>3. hits \subseteq 1 .. Len(t)
  OBVIOUS
<1>4. Cardinality(hits) \in Nat
  <2>1. IsFiniteSet(1 .. Len(t))
    BY FS_Interval
  <2> HIDE DEF hits
  <2>2. IsFiniteSet(hits)
    BY <1>3, <2>1, FS_Subset
  <2> QED BY <2>2, FS_CardinalityType
<1>5. DOMAIN found = D
  BY <1>1, <1>2
<1>6. ASSUME NEW m \in D
      PROVE  /\ o[m] \in 1 .. Len(t) /\ F(o[m]) # {}
             /\ found[m] = Entry(t[o[m]].fd, F(o[m]))
  <2>1. o[m] \in hits
    BY <1>2
  <2>2. found[m] = Entry(t[o[m]].fd, F(o[m]))
    BY <1>1, <1>2
  <2> QED BY <1>3, <2>1, <2>2
<1>7. ASSUME NEW m \in D
      PROVE  found[m].fd = t[o[m]].fd /\ found[m].evs = F(o[m])
  <2> HIDE DEF F
  <2>1. found[m] = Entry(t[o[m]].fd, F(o[m]))
    BY <1>6
  <2>2. \A x, y : Entry(x, y).fd = x /\ Entry(x, y).evs = y
    BY DEF Entry
  <2> QED BY <2>1, <2>2
<1>8. ASSUME NEW m \in D
      PROVE  \E k \in 1 .. Len(t) :
               /\ found[m].fd = t[k].fd
               /\ found[m].evs \subseteq t[k].evs \cap ready[t[k].fd]
               /\ found[m].evs # {}
  BY <1>6, <1>7
<1> HIDE DEF hits
<1> QED
  BY <1>4, <1>5, <1>8 DEF FromTable

-----------------------------------------------------------------------------
(* What the operations of both threads do to an io.                        *)

LEMMA Bounds == MaxIo \in Nat /\ MaxShared \in Nat /\ MaxShared <= MaxIo
BY BoundsArePositive

LEMMA GetIoEffect ==
    ASSUME TypeOK, OwnerOK, NEW f \in Fd, NEW state \in {"syn", "up"}, GetIo(f, state)
    PROVE  LET n == made + 1
           IN  /\ n \in Io /\ made' = n /\ made' \in 0 .. MaxIo
               /\ fd' \in [Io -> Fd \cup {NoFd}] /\ fd'[n] = f
               /\ \A i \in Io : i # n => fd'[i] = fd[i] /\ peer'[i] = peer[i]
               /\ io_array' \in [Fd -> Io \cup {NoIo}]
               /\ \A g \in Fd : io_array'[g] = IF g = f THEN n ELSE io_array[g]
               /\ peer' \in [Io -> {"none", "syn", "up", "gone"}] /\ peer'[n] = state
               /\ fd[n] = NoFd /\ cb[n] = "none" /\ events[n] = {} /\ ~connect[n]
               /\ f \notin OpenFds /\ \A i \in Io : fd[i] # f
               /\ UNCHANGED <<revents, pending, closed, unread>>
<1> DEFINE n == made + 1
<1>1. made \in Nat /\ made < MaxIo /\ MaxIo \in Nat
  BY Bounds DEF TypeOK, IoTypeOK, GetIo
<1>2. n \in Io /\ n > made /\ made' = n /\ n \in 0 .. MaxIo
  BY <1>1 DEF GetIo, Io
<1>3. /\ fd' = [fd EXCEPT ![n] = f] /\ io_array' = [io_array EXCEPT ![f] = n]
      /\ peer' = [peer EXCEPT ![n] = state]
      /\ f \notin OpenFds /\ UNCHANGED <<revents, pending, closed, unread>>
  BY DEF GetIo
<1> HIDE DEF n
<1>4. fd[n] = NoFd /\ cb[n] = "none"
  BY <1>2 DEF OwnerOK
<1>5. events[n] = {} /\ ~connect[n]
  BY <1>2, <1>4 DEF OwnerOK
<1>6. f # NoFd
  BY DEF Fd, NoFd
<1>7. \A i \in Io : fd[i] # f
  BY <1>3, <1>6 DEF OpenFds
<1>8. /\ fd' \in [Io -> Fd \cup {NoFd}] /\ fd'[n] = f
      /\ \A i \in Io : i # n => fd'[i] = fd[i] /\ peer'[i] = peer[i]
      /\ peer' \in [Io -> {"none", "syn", "up", "gone"}] /\ peer'[n] = state
  BY <1>2, <1>3 DEF TypeOK, IoTypeOK
<1>9. /\ io_array' \in [Fd -> Io \cup {NoIo}]
      /\ \A g \in Fd : io_array'[g] = IF g = f THEN n ELSE io_array[g]
  BY <1>2, <1>3 DEF TypeOK, IoTypeOK
<1> QED
  BY <1>2, <1>3, <1>4, <1>5, <1>7, <1>8, <1>9 DEF n

LEMMA CloseSocketEffect ==
    ASSUME TypeOK, NEW i \in Io, CloseSocket(i)
    PROVE  /\ fd' \in [Io -> Fd \cup {NoFd}] /\ fd'[i] = NoFd
           /\ peer' \in [Io -> {"none", "syn", "up", "gone"}]
           /\ unread' \in [Io -> BOOLEAN]
           /\ \A j \in Io : j # i =>
                fd'[j] = fd[j] /\ peer'[j] = peer[j] /\ unread'[j] = unread[j]
BY DEF CloseSocket, TypeOK, IoTypeOK

LEMMA IoCloseEffect ==
    ASSUME TypeOK, NEW i \in Io, IoClose(i)
    PROVE  /\ closed' \in [Io -> BOOLEAN] /\ closed'[i]
           /\ events' \in [Io -> SUBSET Events] /\ events'[i] = {}
           /\ fd' \in [Io -> Fd \cup {NoFd}] /\ fd'[i] = NoFd
           /\ peer' \in [Io -> {"none", "syn", "up", "gone"}]
           /\ unread' \in [Io -> BOOLEAN]
           /\ \A j \in Io : j # i =>
                /\ closed'[j] = closed[j] /\ events'[j] = events[j]
                /\ fd'[j] = fd[j] /\ peer'[j] = peer[j] /\ unread'[j] = unread[j]
           /\ table' = CloseFd(kind, BothGone(kind, table, fd[i], events[i]), fd[i])
           /\ table' \in Seq(Row)
           /\ Kept(kind, table, table', fd[i]) /\ FdsOf(table') \subseteq FdsOf(table)
<1> DEFINE f == fd[i]
           u == BothGone(kind, table, f, events[i])
           v == CloseFd(kind, u, f)
<1>1. /\ closed' = [closed EXCEPT ![i] = TRUE] /\ events' = [events EXCEPT ![i] = {}]
      /\ table' = CloseFd(kind, DeletedBoth(i), fd[i]) /\ CloseSocket(i)
  BY DEF IoClose
<1>2. DeletedBoth(i) = u
  BY DEF DeletedBoth, Deleted, BothGone, Without
<1>3. table \in Seq(Row)
  BY DEF TypeOK
<1>4. Kept(kind, table, u, f) /\ FdsOf(u) \subseteq FdsOf(table) /\ u \in Seq(Row)
  BY <1>3, BothKeeps DEF Kept
<1> HIDE DEF u
<1>5. Kept(kind, u, v, f) /\ FdsOf(v) \subseteq FdsOf(u) /\ v \in Seq(Row)
  BY <1>4, CloseKeeps DEF Kept
<1> HIDE DEF v
<1>6. Kept(kind, table, v, f) /\ FdsOf(v) \subseteq FdsOf(table)
  BY <1>4, <1>5, KeptTransitive
<1>7. table' = v
  BY <1>1, <1>2 DEF v
<1>8. /\ closed' \in [Io -> BOOLEAN] /\ closed'[i]
      /\ events' \in [Io -> SUBSET Events] /\ events'[i] = {}
      /\ \A j \in Io : j # i => closed'[j] = closed[j] /\ events'[j] = events[j]
  BY <1>1 DEF TypeOK, IoTypeOK
<1> HIDE DEF f
<1>9. table' \in Seq(Row) /\ Kept(kind, table, table', f) /\ FdsOf(table') \subseteq FdsOf(table)
  BY <1>5, <1>6, <1>7
<1> QED
  BY <1>1, <1>7, <1>8, <1>9, CloseSocketEffect DEF u, v, f

LEMMA IoAddEffect ==
    ASSUME TypeOK, NEW i \in Io, NEW callback \in Callbacks, NEW e \in Events,
           IoAdd(i, fd[i], callback, e)
    PROVE  /\ cb' \in [Io -> Callbacks] /\ cb'[i] = callback
           /\ events' \in [Io -> SUBSET Events] /\ events'[i] = events[i] \cup {e}
           /\ \A j \in Io : j # i => cb'[j] = cb[j] /\ events'[j] = events[j]
           /\ table' \in Seq(Row) /\ Kept(kind, table, table', fd[i])
           /\ fd[i] = NoFd => FdsOf(table') \subseteq FdsOf(table)
           /\ NoneTwice(kind, table) /\ fd[i] # NoFd /\ Asked(kind, table, fd[i], events[i])
                => Asked(kind, table', fd[i], events'[i])
<1> DEFINE f == fd[i]
           evs == events[i]
<1>1. /\ cb' = [cb EXCEPT ![i] = callback] /\ events' = [events EXCEPT ![i] = events[i] \cup {e}]
      /\ table' = IF e \in events[i] \/ fd[i] = NoFd THEN table
                  ELSE AddEvent(kind, table, fd[i], e)
  BY DEF IoAdd
<1>2. /\ cb' \in [Io -> Callbacks] /\ cb'[i] = callback
      /\ events' \in [Io -> SUBSET Events] /\ events'[i] = events[i] \cup {e}
      /\ \A j \in Io : j # i => cb'[j] = cb[j] /\ events'[j] = events[j]
  BY <1>1 DEF TypeOK, IoTypeOK
<1>3. /\ table \in Seq(Row) /\ kind \in BackEnds /\ f \in Fd \cup {NoFd}
      /\ evs \in SUBSET Events
  BY DEF TypeOK, IoTypeOK
<1>4. CASE e \in events[i] \/ fd[i] = NoFd
  <2>1. table' = table
    BY <1>1, <1>4
  <2>2. Kept(kind, table, table', f) /\ FdsOf(table') \subseteq FdsOf(table)
    BY <1>3, <2>1 DEF Kept
  <2>3. f # NoFd => events'[i] = evs
    BY <1>2, <1>4
  <2> QED BY <1>2, <1>3, <2>1, <2>2, <2>3
<1>5. CASE ~(e \in events[i] \/ fd[i] = NoFd)
  <2>1. table' = AddEvent(kind, table, f, e) /\ f \in Fd /\ e \notin evs /\ events'[i] = evs \cup {e}
    BY <1>1, <1>2, <1>3, <1>5
  <2> HIDE DEF f, evs
  <2>2. /\ Kept(kind, table, table', f)
        /\ NoneTwice(kind, table) /\ Asked(kind, table, f, evs) => Asked(kind, table', f, evs \cup {e})
    BY <1>3, <2>1, AddKeeps
  <2>3. table' \in Seq(Row)
    BY <2>2 DEF Kept
  <2> QED BY <1>2, <1>5, <2>1, <2>2, <2>3 DEF f, evs
<1> QED BY <1>4, <1>5

LEMMA IoDelEffect ==
    ASSUME TypeOK, NEW i \in Io, NEW e \in Events, e \in events[i], IoDel(i, e)
    PROVE  /\ events' \in [Io -> SUBSET Events] /\ events'[i] = events[i] \ {e}
           /\ \A j \in Io : j # i => events'[j] = events[j]
           /\ table' = DelEvent(kind, table, fd[i], e)
           /\ table' \in Seq(Row)
           /\ Kept(kind, table, table', fd[i]) /\ FdsOf(table') \subseteq FdsOf(table)
<1>1. events' = [events EXCEPT ![i] = events[i] \ {e}] /\ table' = DelEvent(kind, table, fd[i], e)
  BY DEF IoDel, Deleted
<1>2. /\ events' \in [Io -> SUBSET Events] /\ events'[i] = events[i] \ {e}
      /\ \A j \in Io : j # i => events'[j] = events[j]
  BY <1>1 DEF TypeOK, IoTypeOK
<1>3. table \in Seq(Row)
  BY DEF TypeOK
<1>4. Kept(kind, table, table', fd[i]) /\ FdsOf(table') \subseteq FdsOf(table)
  BY <1>1, <1>3, DelKeeps
<1> QED
  BY <1>1, <1>2, <1>4 DEF Kept

\* What the loop has from the back end.
Reported(r) ==
    \A n \in 1 .. Len(r) :
        /\ fd[r[n].owner] = r[n].fd
        /\ \E k \in 1 .. Len(table) :
             table[k].fd = r[n].fd /\ r[n].evs \subseteq table[k].evs /\ r[n].evs # {}
        /\ "read" \in r[n].evs => Readable(r[n].owner)
        /\ "write" \in r[n].evs => peer[r[n].owner] # "syn"

LEMMA FoundReports ==
    ASSUME TypeOK, OwnerOK, NEW room \in SUBSET {f \in OpenFds : peer[OwnerOf(f)] = "up"},
           NEW found \in Reports(kind, table, Ready(room)), NEW r,
           r = IF IsBlind(kind, table, OpenFds) THEN << >>
               ELSE [k \in DOMAIN found |->
                       [fd |-> found[k].fd, evs |-> found[k].evs,
                        owner |-> OwnerOf(found[k].fd)]]
    PROVE  r \in Seq(Found) /\ Reported(r)
<1>1. CASE IsBlind(kind, table, OpenFds)
  <2>1. r = << >> /\ << >> \in Seq(Found) /\ Len(r) = 0
    BY <1>1
  <2> QED BY <2>1 DEF Reported
<1>2. CASE ~IsBlind(kind, table, OpenFds)
  <2>1. Ready(room) \in [Fd -> SUBSET Events]
    BY DEF Ready, Events
  <2>2. PICK n \in Nat :
             /\ DOMAIN found = 1 .. n
             /\ \A m \in 1 .. n : \E k \in 1 .. Len(table) :
                  /\ found[m].fd = table[k].fd
                  /\ found[m].evs \subseteq table[k].evs \cap Ready(room)[table[k].fd]
                  /\ found[m].evs # {}
    <3>1. table \in Seq(Row)
      BY DEF TypeOK
    <3>2. FromTable(found, table, Ready(room))
      BY <2>1, <3>1, ReportsFound
    <3> QED BY <3>2 DEF FromTable
  <2>3. ASSUME NEW m \in 1 .. n
        PROVE  /\ r[m] = [fd |-> found[m].fd, evs |-> found[m].evs, owner |-> OwnerOf(found[m].fd)]
               /\ r[m] \in Found /\ fd[r[m].owner] = r[m].fd
               /\ \E k \in 1 .. Len(table) :
                     table[k].fd = r[m].fd /\ r[m].evs \subseteq table[k].evs /\ r[m].evs # {}
               /\ "read" \in r[m].evs => Readable(r[m].owner)
               /\ "write" \in r[m].evs => peer[r[m].owner] # "syn"
    <3> DEFINE f == found[m].fd
               evs == found[m].evs
               o == OwnerOf(f)
    <3>1. PICK k \in 1 .. Len(table) :
               f = table[k].fd /\ evs \subseteq table[k].evs \cap Ready(room)[table[k].fd] /\ evs # {}
      BY <2>2
    <3>2. r[m] = [fd |-> f, evs |-> evs, owner |-> o]
      BY <1>2, <2>2
    <3>3. f \in Fd /\ table[k].evs \in SUBSET Events
      BY <3>1, RowsOf DEF TypeOK
    <3> HIDE DEF f, evs
    <3>4. f \in OpenFds
      BY <3>1, <3>3 DEF Ready
    <3>5. o \in Io /\ fd[o] = f
      BY <3>4 DEF OpenFds, OwnerOf
    <3>6. evs \subseteq (IF Readable(o) THEN {"read"} ELSE {})
                        \cup (IF f \in room \/ peer[o] = "gone" THEN {"write"} ELSE {})
      BY <3>1, <3>3, <3>4 DEF Ready
    <3>7. f \in room => peer[o] = "up"
      OBVIOUS
    <3> HIDE DEF o
    <3>8. evs \in SUBSET Events
      BY <3>1, <3>3
    <3>9. r[m] \in Found /\ r[m].fd = f /\ r[m].evs = evs /\ r[m].owner = o
      <4> DEFINE row == [fd |-> f, evs |-> evs, owner |-> o]
      <4>1. row \in Found /\ row.fd = f /\ row.evs = evs /\ row.owner = o
        BY <3>3, <3>5, <3>8 DEF Found
      <4> HIDE DEF row
      <4>2. r[m] = row
        BY <3>2 DEF row
      <4> QED BY <4>1, <4>2
    <3>10. "read" \in evs => Readable(o)
      BY <3>6
    <3>11. "write" \in evs => peer[o] # "syn"
      BY <3>6, <3>7
    <3> QED BY <3>1, <3>2, <3>5, <3>9, <3>10, <3>11 DEF f, evs, o
  <2>4. r = [k \in 1 .. n |-> r[k]]
    BY <1>2, <2>2
  <2>5. r \in [1 .. n -> Found]
    BY <2>3, <2>4
  <2>6. r \in Seq(Found) /\ Len(r) = n
    BY <2>5, SeqDef, LenProperties
  <2> QED BY <2>3, <2>6 DEF Reported
<1> QED BY <1>1, <1>2

LEMMA OtherDeleteEffect ==
    ASSUME TypeOK, OtherDelete
    PROVE  /\ table' = BothGone(kind, table, fd[otherIo], events[otherIo])
           /\ table' \in Seq(Row)
           /\ Kept(kind, table, table', fd[otherIo]) /\ FdsOf(table') \subseteq FdsOf(table)
<1>1. table' = BothGone(kind, table, fd[otherIo], events[otherIo])
  BY DEF OtherDelete, DeletedBoth, Deleted, BothGone, Without
<1> QED
  BY <1>1, BothKeeps DEF TypeOK, Kept

-----------------------------------------------------------------------------
(* Types.                                                                  *)

LEMMA InvInit == Init => Inv
<1> SUFFICES ASSUME Init PROVE Inv
  OBVIOUS
<1> USE DEF Init
<1>1. TypeOK
  <2>1. shared \in BOOLEAN /\ kind \in BackEnds
    BY KnownBackEnds
  <2>2. << >> \in Seq(Row) /\ << >> \in Seq(Found) /\ << >> \in Seq(Io)
    OBVIOUS
  <2>3. IoTypeOK
    BY Bounds DEF IoTypeOK, Callbacks
  <2>4. LoopTypeOK
    BY <2>2 DEF LoopTypeOK
  <2> QED BY <2>1, <2>2, <2>3, <2>4 DEF TypeOK
<1>2. OwnerOK /\ OtherOK /\ CurOK
  BY DEF OwnerOK, OtherOK, CurOK, InHandler
<1>3. TableOK
  <2>1. Len(table) = 0 /\ \A f : EntriesOf(table, f) = {}
    BY DEF EntriesOf
  <2>2. \A i \in Io : fd[i] = NoFd
    OBVIOUS
  <2> QED BY <2>1, <2>2 DEF TableOK, NoneTwice
<1>4. ReportOK /\ ListOK /\ EvidenceOK
  <2>1. Len(report) = 0 /\ Len(list) = 0
    OBVIOUS
  <2>2. \A i \in Io : ~Awaiting(i)
    BY <2>1 DEF Awaiting, Io, NoIo
  <2> QED BY <2>1, <2>2 DEF ReportOK, ListOK, EvidenceOK
<1> QED
  BY <1>1, <1>2, <1>3, <1>4 DEF Inv

LEMMA TypeStep == Inv /\ [Next]_vars => TypeOK'
<1> SUFFICES ASSUME Inv, [Next]_vars
             PROVE  TypeOK'
  OBVIOUS
<1>0. TypeOK /\ OwnerOK /\ OtherOK /\ CurOK
  BY DEF Inv
<1> USE DEF TypeOK, ios, kernel, setting, other
<1>1. CASE Return
  BY <1>0, <1>1 DEF Return, IoTypeOK, LoopTypeOK, InHandler
<1>2. CASE Wait
  <2>1. PICK room \in SUBSET {f \in OpenFds : peer[OwnerOf(f)] = "up"} :
          \E found \in Reports(kind, table, Ready(room)) :
            report' = IF IsBlind(kind, table, OpenFds) THEN << >>
                      ELSE [k \in DOMAIN found |->
                              [fd |-> found[k].fd, evs |-> found[k].evs,
                               owner |-> OwnerOf(found[k].fd)]]
    BY <1>2 DEF Wait
  <2>2. report' \in Seq(Found)
    BY <1>0, <2>1, FoundReports
  <2>3. pc' \in {"wait", "report"}
    BY <1>2 DEF Wait
  <2>4. LoopTypeOK'
    BY <1>0, <1>2, <2>2, <2>3 DEF Wait, LoopTypeOK
  <2>5. UNCHANGED <<setting, table, ios, io_array, kernel, other, raced, stale>>
    BY <1>2 DEF Wait
  <2> QED BY <1>0, <2>4, <2>5 DEF IoTypeOK
<1>3. CASE Report
  <2> DEFINE hit == Head(report)
             i == io_array[hit.fd]
  <2>1. report # << >> /\ ReportOK
    BY <1>3 DEF Report, Inv, ReportOK
  <2>2. hit \in Found /\ Tail(report) \in Seq(Found)
    BY <1>0, <2>1, HeadTailProperties DEF LoopTypeOK
  <2>3. hit = report[1] /\ 1 \in 1 .. Len(report)
    BY <1>0, <2>1, EmptySeq DEF LoopTypeOK
  <2>4. i \in Io
    BY <1>0, <2>1, <2>2, <2>3 DEF IoTypeOK, ReportOK, Found
  <2>5. /\ revents' = [revents EXCEPT ![i] = hit.evs]
        /\ pending' = [pending EXCEPT ![i] = TRUE]
        /\ list' = IF pending[i] THEN list ELSE <<i>> \o list
        /\ raced' \in {raced, raced \cup {i}} /\ report' = Tail(report)
        /\ pc' \in {"pass", "report"}
    BY <1>3 DEF Report, Mark
  <2>6. UNCHANGED <<setting, table, made, fd, cb, events, closed, connect, io_array,
                    kernel, cur, after, other, stale>>
    BY <1>3 DEF Report
  <2>7. hit.evs \in SUBSET Events
    BY <2>2 DEF Found
  <2> HIDE DEF i, hit
  <2>8. IoTypeOK'
    BY <1>0, <2>4, <2>5, <2>6, <2>7 DEF IoTypeOK
  <2>9. list' \in Seq(Io)
    <3>1. <<i>> \in Seq(Io) /\ list \in Seq(Io)
      BY <1>0, <2>4 DEF LoopTypeOK
    <3>2. <<i>> \o list \in Seq(Io)
      BY <3>1, ConcatProperties
    <3> QED BY <2>5, <3>1, <3>2
  <2>10. LoopTypeOK'
    BY <1>0, <2>2, <2>5, <2>6, <2>9 DEF LoopTypeOK
  <2> QED BY <1>0, <2>4, <2>5, <2>6, <2>8, <2>10
<1>4. CASE Take
  <2> DEFINE i == Head(list)
  <2>1. i \in Io /\ Tail(list) \in Seq(Io)
    BY <1>0, <1>4, HeadTailProperties DEF Take, LoopTypeOK
  <2>2. list' = Tail(list) /\ UNCHANGED <<setting, report, other, raced, stale>>
    BY <1>4 DEF Take
  <2>3. \/ /\ cb[i] = "none"
           /\ UNCHANGED <<table, ios, io_array, kernel, cur, pc, after>>
        \/ /\ cb[i] = "io_write_cb"
           /\ Unmark(i)
           /\ UNCHANGED <<table, made, fd, cb, events, closed, connect, io_array,
                          kernel, cur, pc, after>>
        \/ /\ cur' = i /\ pc' = "read"
           /\ UNCHANGED <<table, ios, io_array, kernel, after>>
        \/ /\ IsReported(i, "write") /\ cur' = i /\ connect' = [connect EXCEPT ![i] = FALSE]
           /\ \/ /\ IoDel(i, "write")
                 /\ pc' = "user" /\ after' = "enable"
                 /\ UNCHANGED <<fd, closed, kernel>>
              \/ IoClose(i) /\ pc' = "read" /\ UNCHANGED after
           /\ UNCHANGED <<made, cb, revents, pending, io_array>>
    BY <1>4 DEF Take
  <2> HIDE DEF i
  <2>4. CASE cb[i] = "none" /\ UNCHANGED <<table, ios, io_array, kernel, cur, pc, after>>
    BY <1>0, <2>1, <2>2, <2>4 DEF IoTypeOK, LoopTypeOK
  <2>5. CASE /\ Unmark(i)
             /\ UNCHANGED <<table, made, fd, cb, events, closed, connect, io_array,
                            kernel, cur, pc, after>>
    BY <1>0, <2>1, <2>2, <2>5 DEF IoTypeOK, LoopTypeOK, Unmark
  <2>6. CASE cur' = i /\ pc' = "read" /\ UNCHANGED <<table, ios, io_array, kernel, after>>
    BY <1>0, <2>1, <2>2, <2>6 DEF IoTypeOK, LoopTypeOK, InHandler
  <2>7. CASE /\ IsReported(i, "write") /\ cur' = i /\ connect' = [connect EXCEPT ![i] = FALSE]
             /\ IoDel(i, "write") /\ pc' = "user" /\ after' = "enable"
             /\ UNCHANGED <<fd, closed, kernel>>
             /\ UNCHANGED <<made, cb, revents, pending, io_array>>
    <3>1. events' \in [Io -> SUBSET Events] /\ table' \in Seq(Row)
      BY <1>0, <2>1, <2>7, IoDelEffect DEF IsReported, Events
    <3>2. IoTypeOK'
      BY <1>0, <2>1, <2>7, <3>1 DEF IoTypeOK
    <3>3. LoopTypeOK'
      BY <1>0, <2>1, <2>2, <2>7 DEF LoopTypeOK, InHandler
    <3> QED BY <1>0, <2>2, <3>1, <3>2, <3>3
  <2>8. CASE /\ cur' = i /\ connect' = [connect EXCEPT ![i] = FALSE]
             /\ IoClose(i) /\ pc' = "read" /\ UNCHANGED after
             /\ UNCHANGED <<made, cb, revents, pending, io_array>>
    <3>1. /\ closed' \in [Io -> BOOLEAN] /\ events' \in [Io -> SUBSET Events]
          /\ fd' \in [Io -> Fd \cup {NoFd}] /\ peer' \in [Io -> {"none", "syn", "up", "gone"}]
          /\ unread' \in [Io -> BOOLEAN] /\ table' \in Seq(Row)
      BY <1>0, <2>1, <2>8, IoCloseEffect
    <3>2. IoTypeOK'
      BY <1>0, <2>1, <2>8, <3>1 DEF IoTypeOK
    <3>3. LoopTypeOK'
      BY <1>0, <2>1, <2>2, <2>8 DEF LoopTypeOK, InHandler
    <3> QED BY <1>0, <2>2, <3>1, <3>2, <3>3
  <2> QED BY <2>3, <2>4, <2>5, <2>6, <2>7, <2>8
<1>5. CASE EndPass
  BY <1>0, <1>5 DEF EndPass, IoTypeOK, LoopTypeOK, InHandler
<1>6. CASE ReadEnable
  <2>1. cur \in Io
    BY <1>0, <1>6 DEF ReadEnable, CurOK, InHandler, LoopTypeOK
  <2>2. IoAdd(cur, fd[cur], "handle_event", "read")
    BY <1>6 DEF ReadEnable
  <2>3. cb' \in [Io -> Callbacks] /\ events' \in [Io -> SUBSET Events] /\ table' \in Seq(Row)
    BY <1>0, <2>1, <2>2, IoAddEffect DEF Callbacks, Events
  <2>4. /\ UNCHANGED <<setting, made, fd, revents, pending, closed, connect, io_array,
                       kernel, report, list, cur, after, other>>
        /\ pc' = "read"
        /\ raced' \in {raced, raced \cup {cur}} /\ stale' \in {stale, stale \cup ({fd[cur]} \ {NoFd})}
    BY <1>6 DEF ReadEnable
  <2>5. IoTypeOK'
    BY <1>0, <2>3, <2>4 DEF IoTypeOK
  <2>6. LoopTypeOK'
    BY <1>0, <2>4 DEF LoopTypeOK, InHandler
  <2>7. raced' \in SUBSET Io /\ stale' \in SUBSET Fd
    BY <1>0, <2>1, <2>4 DEF IoTypeOK
  <2> QED BY <1>0, <2>3, <2>4, <2>5, <2>6, <2>7
<1>7. CASE ReadSome
  BY <1>0, <1>7 DEF ReadSome, IoTypeOK, LoopTypeOK, InHandler
<1>8. CASE ReadEnd
  <2>1. cur \in Io
    BY <1>0, <1>8 DEF ReadEnd, CurOK, InHandler, LoopTypeOK
  <2>2. IoClose(cur)
    BY <1>8 DEF ReadEnd
  <2>3. /\ closed' \in [Io -> BOOLEAN] /\ events' \in [Io -> SUBSET Events]
        /\ fd' \in [Io -> Fd \cup {NoFd}] /\ peer' \in [Io -> {"none", "syn", "up", "gone"}]
        /\ unread' \in [Io -> BOOLEAN] /\ table' \in Seq(Row)
    BY <1>0, <2>1, <2>2, IoCloseEffect
  <2>4. IoTypeOK'
    BY <1>0, <1>8, <2>1, <2>3 DEF ReadEnd, Unmark, IoTypeOK
  <2>5. LoopTypeOK'
    BY <1>0, <1>8 DEF ReadEnd, LoopTypeOK
  <2> QED BY <1>0, <1>8, <2>3, <2>4, <2>5 DEF ReadEnd
<1>9. CASE ReadNothing
  BY <1>0, <1>9 DEF ReadNothing, Unmark, IoTypeOK, LoopTypeOK
<1>10. CASE Done
  BY <1>0, <1>10 DEF Done, Unmark, IoTypeOK, LoopTypeOK
<1>11. CASE OtherAdd
  <2>1. otherIo \in Io
    BY <1>0, <1>11 DEF OtherAdd, OtherOK
  <2>2. PICK e \in Events : IoAdd(otherIo, fd[otherIo], "handle_event", e)
    BY <1>11 DEF OtherAdd, Events
  <2>3. cb' \in [Io -> Callbacks] /\ events' \in [Io -> SUBSET Events] /\ table' \in Seq(Row)
    BY <1>0, <2>1, <2>2, IoAddEffect DEF Callbacks
  <2>4. connect' \in [Io -> BOOLEAN]
    BY <1>0, <2>1, <1>11 DEF OtherAdd, IoTypeOK
  <2>5. UNCHANGED <<setting, made, fd, revents, pending, closed, io_array, kernel,
                    report, list, cur, pc, after, raced, stale>>
    BY <1>11 DEF OtherAdd
  <2>6. IoTypeOK'
    BY <1>0, <2>3, <2>4, <2>5 DEF IoTypeOK
  <2>7. LoopTypeOK'
    BY <1>0, <2>5 DEF LoopTypeOK
  <2> QED BY <1>0, <1>11, <2>3, <2>5, <2>6, <2>7 DEF OtherAdd
<1>12. CASE OtherDelete
  <2>1. otherIo \in Io
    BY <1>0, <1>12 DEF OtherDelete, OtherOK
  <2>2. table' \in Seq(Row)
    BY <1>0, <1>12, OtherDeleteEffect
  <2>3. IoTypeOK'
    BY <1>0, <2>1, <1>12 DEF OtherDelete, IoTypeOK
  <2>4. LoopTypeOK'
    BY <1>0, <1>12 DEF OtherDelete, LoopTypeOK
  <2> QED BY <1>0, <1>12, <2>2, <2>3, <2>4 DEF OtherDelete
<1>13. CASE OtherCloseFd
  <2>1. otherIo \in Io
    BY <1>0, <1>13 DEF OtherCloseFd, OtherOK
  <2>2. table' = CloseFd(kind, table, fd[otherIo]) /\ CloseSocket(otherIo)
    BY <1>13 DEF OtherCloseFd
  <2>3. table' \in Seq(Row)
    BY <1>0, <2>2, CloseKeeps DEF Kept
  <2>4. /\ fd' \in [Io -> Fd \cup {NoFd}] /\ peer' \in [Io -> {"none", "syn", "up", "gone"}]
        /\ unread' \in [Io -> BOOLEAN]
    BY <1>0, <2>1, <2>2, CloseSocketEffect
  <2>5. IoTypeOK'
    BY <1>0, <1>13, <2>4 DEF OtherCloseFd, IoTypeOK
  <2>6. LoopTypeOK'
    BY <1>0, <1>13 DEF OtherCloseFd, LoopTypeOK
  <2> QED BY <1>0, <1>13, <2>3, <2>5, <2>6 DEF OtherCloseFd
<1>14. ASSUME NEW i \in Io, Close(i) PROVE TypeOK'
  <2>1. i \in Io
    BY <1>14
  <2>2. IoClose(i)
    BY <1>14 DEF Close
  <2>3. /\ closed' \in [Io -> BOOLEAN] /\ events' \in [Io -> SUBSET Events]
        /\ fd' \in [Io -> Fd \cup {NoFd}] /\ peer' \in [Io -> {"none", "syn", "up", "gone"}]
        /\ unread' \in [Io -> BOOLEAN] /\ table' \in Seq(Row)
    BY <1>0, <2>1, <2>2, IoCloseEffect
  <2>4. IoTypeOK'
    BY <1>0, <1>14, <2>3 DEF Close, IoTypeOK
  <2>5. LoopTypeOK'
    BY <1>0, <1>14 DEF Close, LoopTypeOK
  <2> QED BY <1>0, <1>14, <2>3, <2>4, <2>5 DEF Close
<1>15. ASSUME NEW i \in Io, WriteRest(i) PROVE TypeOK'
  <2>1. IoAdd(i, fd[i], "io_write_cb", "write")
    BY <1>15 DEF WriteRest
  <2>2. cb' \in [Io -> Callbacks] /\ events' \in [Io -> SUBSET Events] /\ table' \in Seq(Row)
    BY <1>0, <1>15, <2>1, IoAddEffect DEF Callbacks, Events
  <2>3. IoTypeOK'
    BY <1>0, <1>15, <2>2 DEF WriteRest, IoTypeOK
  <2>4. LoopTypeOK'
    BY <1>0, <1>15 DEF WriteRest, LoopTypeOK
  <2> QED BY <1>0, <1>15, <2>2, <2>3, <2>4 DEF WriteRest
<1>16. ASSUME NEW i \in Io, OtherClose(i) PROVE TypeOK'
  BY <1>0, <1>16 DEF OtherClose, IoTypeOK, LoopTypeOK, InHandler
<1>17. ASSUME NEW i \in Io, PeerAnswers(i) PROVE TypeOK'
  BY <1>0, <1>17 DEF PeerAnswers, IoTypeOK, LoopTypeOK, InHandler
<1>18. ASSUME NEW i \in Io, PeerSends(i) PROVE TypeOK'
  BY <1>0, <1>18 DEF PeerSends, IoTypeOK, LoopTypeOK, InHandler
<1>19. ASSUME NEW i \in Io, PeerCloses(i) PROVE TypeOK'
  BY <1>0, <1>19 DEF PeerCloses, IoTypeOK, LoopTypeOK, InHandler
<1>20. ASSUME NEW f \in Fd, Accept(f) PROVE TypeOK'
  <2> DEFINE n == made + 1
  <2>1. GetIo(f, "up")
    BY <1>20 DEF Accept
  <2>2. /\ n \in Io /\ made' \in 0 .. MaxIo
        /\ fd' \in [Io -> Fd \cup {NoFd}] /\ io_array' \in [Fd -> Io \cup {NoIo}]
        /\ peer' \in [Io -> {"none", "syn", "up", "gone"}]
        /\ UNCHANGED <<revents, pending, closed, unread>>
    BY <1>0, <1>20, <2>1, GetIoEffect
  <2> HIDE DEF n
  <2>3. /\ cb' = [cb EXCEPT ![n] = "handle_event"]
        /\ events' = [events EXCEPT ![n] = {"read"}]
        /\ table' = AddEvent(kind, table, f, "read")
        /\ connect' \in {connect, [connect EXCEPT ![n] = TRUE]}
        /\ UNCHANGED <<setting, report, list, cur, pc, after, other, raced, stale>>
    BY <1>20 DEF Accept, n
  <2>4. table' \in Seq(Row)
    BY <1>0, <1>20, <2>3, AddKeeps DEF Kept, Events
  <2>5. cb' \in [Io -> Callbacks] /\ events' \in [Io -> SUBSET Events]
    BY <1>0, <2>2, <2>3 DEF IoTypeOK, Callbacks, Events
  <2>6. connect' \in [Io -> BOOLEAN]
    BY <1>0, <2>2, <2>3 DEF IoTypeOK
  <2>7. IoTypeOK'
    BY <1>0, <2>2, <2>5, <2>6 DEF IoTypeOK
  <2>8. LoopTypeOK'
    BY <1>0, <2>3 DEF LoopTypeOK
  <2> QED BY <1>0, <2>3, <2>4, <2>7, <2>8
<1>21. ASSUME NEW f \in Fd, Connect(f) PROVE TypeOK'
  <2> DEFINE n == made + 1
  <2>1. GetIo(f, "syn")
    BY <1>21 DEF Connect
  <2>2. /\ n \in Io /\ made' \in 0 .. MaxIo
        /\ fd' \in [Io -> Fd \cup {NoFd}] /\ io_array' \in [Fd -> Io \cup {NoIo}]
        /\ peer' \in [Io -> {"none", "syn", "up", "gone"}]
        /\ UNCHANGED <<revents, pending, closed, unread>>
    BY <1>0, <1>21, <2>1, GetIoEffect
  <2> HIDE DEF n
  <2>3. /\ cb' = [cb EXCEPT ![n] = "handle_event"]
        /\ events' = [events EXCEPT ![n] = {"write"}]
        /\ table' = AddEvent(kind, table, f, "write")
        /\ connect' \in {connect, [connect EXCEPT ![n] = TRUE]}
        /\ UNCHANGED <<setting, report, list, cur, pc, after, other, raced, stale>>
    BY <1>21 DEF Connect, n
  <2>4. table' \in Seq(Row)
    BY <1>0, <1>21, <2>3, AddKeeps DEF Kept, Events
  <2>5. cb' \in [Io -> Callbacks] /\ events' \in [Io -> SUBSET Events]
    BY <1>0, <2>2, <2>3 DEF IoTypeOK, Callbacks, Events
  <2>6. connect' \in [Io -> BOOLEAN]
    BY <1>0, <2>2, <2>3 DEF IoTypeOK
  <2>7. IoTypeOK'
    BY <1>0, <2>2, <2>5, <2>6 DEF IoTypeOK
  <2>8. LoopTypeOK'
    BY <1>0, <2>3 DEF LoopTypeOK
  <2> QED BY <1>0, <2>3, <2>4, <2>7, <2>8
<1>22. ASSUME NEW f \in Fd, OtherGetIo(f) PROVE TypeOK'
  <2>1. GetIo(f, "up") \/ GetIo(f, "syn")
    BY <1>22 DEF OtherGetIo
  <2>2. /\ made + 1 \in Io /\ made' \in 0 .. MaxIo
        /\ fd' \in [Io -> Fd \cup {NoFd}] /\ io_array' \in [Fd -> Io \cup {NoIo}]
        /\ peer' \in [Io -> {"none", "syn", "up", "gone"}]
        /\ UNCHANGED <<revents, pending, closed, unread>>
    BY <1>0, <1>22, <2>1, GetIoEffect
  <2>3. /\ otherIo' = made + 1 /\ otherPc' \in {"accepted", "connecting"}
        /\ UNCHANGED <<setting, table, cb, events, connect, report, list, cur, pc, after,
                       raced, stale>>
    BY <1>22 DEF OtherGetIo
  <2>4. IoTypeOK'
    BY <1>0, <2>2, <2>3 DEF IoTypeOK
  <2>5. LoopTypeOK'
    BY <1>0, <2>3 DEF LoopTypeOK
  <2> QED BY <1>0, <2>2, <2>3, <2>4, <2>5
<1>23. CASE UNCHANGED vars
  BY <1>0, <1>23 DEF vars, IoTypeOK, LoopTypeOK
<1> QED
  BY <1>1, <1>2, <1>3, <1>4, <1>5, <1>6, <1>7, <1>8, <1>9, <1>10, <1>11, <1>12, <1>13, <1>14, <1>15, <1>16, <1>17, <1>18, <1>19, <1>20, <1>21, <1>22, <1>23 DEF Next, LoopStep, OtherStep

-----------------------------------------------------------------------------
(* The fields of an io.                                                    *)

LEMMA OwnerStep == Inv /\ [Next]_vars => OwnerOK'
<1> SUFFICES ASSUME Inv, [Next]_vars
             PROVE  OwnerOK'
  OBVIOUS
<1>0. TypeOK /\ OwnerOK /\ OtherOK /\ CurOK
  BY DEF Inv
<1>1. CASE Return
  <2>1. UNCHANGED <<made, fd, cb, events, closed, connect, io_array>> /\ raced \subseteq raced'
    BY <1>1 DEF Return, ios
  <2> QED BY <1>0, <2>1 DEF OwnerOK
<1>2. CASE Wait
  <2>1. UNCHANGED <<made, fd, cb, events, closed, connect, io_array>> /\ raced \subseteq raced'
    BY <1>2 DEF Wait, ios
  <2> QED BY <1>0, <2>1 DEF OwnerOK
<1>3. CASE Report
  <2>1. UNCHANGED <<made, fd, cb, events, closed, connect, io_array>> /\ raced \subseteq raced'
    BY <1>3 DEF Report
  <2> QED BY <1>0, <2>1 DEF OwnerOK
<1>4. CASE Take
  <2> DEFINE i == Head(list)
  <2>1. i \in Io
    BY <1>0, <1>4, HeadTailProperties DEF Take, TypeOK, LoopTypeOK
  <2>2. \/ UNCHANGED <<made, fd, cb, events, closed, connect, io_array, raced>>
        \/ /\ IsReported(i, "write") /\ connect[i] /\ connect' = [connect EXCEPT ![i] = FALSE]
           /\ cb[i] = "handle_event"
           /\ (IoDel(i, "write") /\ UNCHANGED <<fd, closed>>) \/ IoClose(i)
           /\ UNCHANGED <<made, cb, io_array, raced>>
    BY <1>4 DEF Take, ios, Unmark
  <2> HIDE DEF i
  <2>3. CASE UNCHANGED <<made, fd, cb, events, closed, connect, io_array, raced>>
    BY <1>0, <2>3 DEF OwnerOK
  <2>4. ASSUME connect' = [connect EXCEPT ![i] = FALSE]
        PROVE  ~connect'[i] /\ \A j \in Io : j # i => connect'[j] = connect[j]
    BY <1>0, <2>1, <2>4 DEF TypeOK, IoTypeOK
  <2>5. CASE /\ IsReported(i, "write") /\ connect[i] /\ connect' = [connect EXCEPT ![i] = FALSE]
             /\ cb[i] = "handle_event"
             /\ IoDel(i, "write") /\ UNCHANGED <<fd, closed, made, cb, io_array, raced>>
    <3>1. events'[i] \subseteq events[i] /\ \A j \in Io : j # i => events'[j] = events[j]
      BY <1>0, <2>1, <2>5, IoDelEffect DEF IsReported, Events
    <3> QED BY <1>0, <2>1, <2>4, <2>5, <3>1 DEF OwnerOK
  <2>6. CASE /\ connect' = [connect EXCEPT ![i] = FALSE] /\ cb[i] = "handle_event"
             /\ IoClose(i) /\ UNCHANGED <<made, cb, io_array, raced>>
    <3>1. /\ closed'[i] /\ events'[i] = {} /\ fd'[i] = NoFd
          /\ \A j \in Io : j # i =>
               closed'[j] = closed[j] /\ events'[j] = events[j] /\ fd'[j] = fd[j]
      BY <1>0, <2>1, <2>6, IoCloseEffect
    <3> QED BY <1>0, <2>1, <2>4, <2>6, <3>1 DEF OwnerOK
  <2> QED BY <2>2, <2>3, <2>5, <2>6
<1>5. CASE EndPass
  <2>1. UNCHANGED <<made, fd, cb, events, closed, connect, io_array>> /\ raced \subseteq raced'
    BY <1>5 DEF EndPass, ios
  <2> QED BY <1>0, <2>1 DEF OwnerOK
<1>6. CASE ReadEnable
  <2>1. cur \in Io /\ cb[cur] # "none" /\ ~connect[cur]
    BY <1>0, <1>6 DEF ReadEnable, CurOK, InHandler, TypeOK, LoopTypeOK
  <2>2. IoAdd(cur, fd[cur], "handle_event", "read")
    BY <1>6 DEF ReadEnable
  <2>3. /\ cb'[cur] = "handle_event" /\ events'[cur] = events[cur] \cup {"read"}
        /\ \A j \in Io : j # cur => cb'[j] = cb[j] /\ events'[j] = events[j]
    BY <1>0, <2>1, <2>2, IoAddEffect DEF Callbacks, Events
  <2>4. /\ UNCHANGED <<made, fd, closed, connect, io_array>>
        /\ raced' = IF closed[cur] THEN raced \cup {cur} ELSE raced
    BY <1>6 DEF ReadEnable
  <2>5. closed[cur] \/ fd[cur] # NoFd
    BY <1>0, <2>1 DEF OwnerOK
  <2> QED BY <1>0, <2>1, <2>3, <2>4, <2>5 DEF OwnerOK
<1>7. CASE ReadSome
  <2>1. UNCHANGED <<made, fd, cb, events, closed, connect, io_array>> /\ raced \subseteq raced'
    BY <1>7 DEF ReadSome, ios
  <2> QED BY <1>0, <2>1 DEF OwnerOK
<1>8. CASE ReadEnd
  <2>1. cur \in Io
    BY <1>0, <1>8 DEF ReadEnd, CurOK, InHandler, TypeOK, LoopTypeOK
  <2>2. IoClose(cur) /\ UNCHANGED <<made, cb, io_array, raced>>
    BY <1>8 DEF ReadEnd, ios
  <2>3. /\ closed'[cur] /\ events'[cur] = {} /\ fd'[cur] = NoFd
        /\ \A j \in Io : j # cur =>
             closed'[j] = closed[j] /\ events'[j] = events[j] /\ fd'[j] = fd[j]
    BY <1>0, <2>1, <2>2, IoCloseEffect
  <2>4. UNCHANGED connect
    BY <1>8 DEF ReadEnd
  <2> QED BY <1>0, <2>1, <2>2, <2>3, <2>4 DEF OwnerOK
<1>9. CASE ReadNothing
  <2>1. UNCHANGED <<made, fd, cb, events, closed, connect, io_array>> /\ raced \subseteq raced'
    BY <1>9 DEF ReadNothing, ios
  <2> QED BY <1>0, <2>1 DEF OwnerOK
<1>10. CASE Done
  <2>1. UNCHANGED <<made, fd, cb, events, closed, connect, io_array>> /\ raced \subseteq raced'
    BY <1>10 DEF Done, ios
  <2> QED BY <1>0, <2>1 DEF OwnerOK
<1>11. CASE OtherAdd
  <2>1. otherIo \in Io /\ otherIo <= made /\ fd[otherIo] # NoFd /\ cb[otherIo] = "none"
    BY <1>0, <1>11 DEF OtherAdd, OtherOK
  <2>2. PICK e \in Events :
          /\ IoAdd(otherIo, fd[otherIo], "handle_event", e)
          /\ connect' = connect \/ (e = "write" /\ connect' = [connect EXCEPT ![otherIo] = TRUE])
    BY <1>11 DEF OtherAdd, Events
  <2>3. /\ cb'[otherIo] = "handle_event" /\ events'[otherIo] = events[otherIo] \cup {e}
        /\ \A j \in Io : j # otherIo => cb'[j] = cb[j] /\ events'[j] = events[j]
    BY <1>0, <2>1, <2>2, IoAddEffect DEF Callbacks
  <2>4. UNCHANGED <<made, fd, closed, io_array, raced>>
    BY <1>11 DEF OtherAdd
  <2>5. events[otherIo] = {} /\ ~connect[otherIo] /\ ~ (otherIo > made)
    BY <1>0, <2>1 DEF OwnerOK, TypeOK, IoTypeOK, Io
  <2>6. connect'[otherIo] => e = "write"
    BY <2>2, <2>5
  <2>7. \A j \in Io : j # otherIo => connect'[j] = connect[j]
    BY <1>0, <2>1, <2>2 DEF TypeOK, IoTypeOK
  <2> QED BY <1>0, <2>1, <2>3, <2>4, <2>5, <2>6, <2>7 DEF OwnerOK
<1>12. CASE OtherDelete
  <2>1. events' = [events EXCEPT ![otherIo] = {}]
    BY <1>12 DEF OtherDelete
  <2>2. UNCHANGED <<made, fd, cb, closed, connect, io_array, raced>>
    BY <1>12 DEF OtherDelete
  <2>3. \A j \in Io : events'[j] = events[j] \/ events'[j] = {}
    BY <1>0, <2>1 DEF TypeOK, IoTypeOK
  <2> QED BY <1>0, <2>2, <2>3 DEF OwnerOK
<1>13. CASE OtherCloseFd
  <2>1. otherIo \in Io /\ closed[otherIo] /\ (events[otherIo] = {} \/ otherIo \in raced)
    BY <1>0, <1>13 DEF OtherCloseFd, OtherOK
  <2>2. CloseSocket(otherIo) /\ UNCHANGED <<made, cb, events, closed, connect, io_array, raced>>
    BY <1>13 DEF OtherCloseFd
  <2>3. fd'[otherIo] = NoFd /\ \A j \in Io : j # otherIo => fd'[j] = fd[j]
    BY <1>0, <2>1, <2>2, CloseSocketEffect
  <2> QED BY <1>0, <2>1, <2>2, <2>3 DEF OwnerOK
<1>14. ASSUME NEW i \in Io, Close(i) PROVE OwnerOK'
  <2>1. i \in Io
    BY <1>14
  <2>2. IoClose(i) /\ UNCHANGED <<made, cb, io_array, raced>>
    BY <1>14 DEF Close, ios
  <2>3. /\ closed'[i] /\ events'[i] = {} /\ fd'[i] = NoFd
        /\ \A j \in Io : j # i =>
             closed'[j] = closed[j] /\ events'[j] = events[j] /\ fd'[j] = fd[j]
    BY <1>0, <2>1, <2>2, IoCloseEffect
  <2>4. UNCHANGED connect
    BY <1>14 DEF Close
  <2> QED BY <1>0, <2>1, <2>2, <2>3, <2>4 DEF OwnerOK
<1>15. ASSUME NEW i \in Io, WriteRest(i) PROVE OwnerOK'
  <2>1. fd[i] # NoFd /\ ~connect[i] /\ cb[i] # "none" /\ IoAdd(i, fd[i], "io_write_cb", "write")
    BY <1>15 DEF WriteRest
  <2>2. /\ cb'[i] = "io_write_cb"
        /\ \A j \in Io : j # i => cb'[j] = cb[j] /\ events'[j] = events[j]
    BY <1>0, <1>15, <2>1, IoAddEffect DEF Callbacks, Events
  <2>3. UNCHANGED <<made, fd, closed, connect, io_array, raced>>
    BY <1>15 DEF WriteRest
  <2> QED BY <1>0, <1>15, <2>1, <2>2, <2>3 DEF OwnerOK
<1>16. ASSUME NEW i \in Io, OtherClose(i) PROVE OwnerOK'
  <2>1. closed' = [closed EXCEPT ![i] = TRUE] /\ UNCHANGED <<made, fd, cb, events, connect, io_array, raced>>
    BY <1>16 DEF OtherClose
  <2>2. \A j \in Io : closed[j] => closed'[j]
    BY <1>0, <1>16, <2>1 DEF TypeOK, IoTypeOK
  <2> QED BY <1>0, <2>1, <2>2 DEF OwnerOK
<1>17. ASSUME NEW i \in Io, PeerAnswers(i) PROVE OwnerOK'
  <2>1. UNCHANGED <<made, fd, cb, events, closed, connect, io_array>> /\ raced \subseteq raced'
    BY <1>17 DEF PeerAnswers, ios
  <2> QED BY <1>0, <2>1 DEF OwnerOK
<1>18. ASSUME NEW i \in Io, PeerSends(i) PROVE OwnerOK'
  <2>1. UNCHANGED <<made, fd, cb, events, closed, connect, io_array>> /\ raced \subseteq raced'
    BY <1>18 DEF PeerSends, ios
  <2> QED BY <1>0, <2>1 DEF OwnerOK
<1>19. ASSUME NEW i \in Io, PeerCloses(i) PROVE OwnerOK'
  <2>1. UNCHANGED <<made, fd, cb, events, closed, connect, io_array>> /\ raced \subseteq raced'
    BY <1>19 DEF PeerCloses, ios
  <2> QED BY <1>0, <2>1 DEF OwnerOK
<1>20. ASSUME NEW f \in Fd, Accept(f) PROVE OwnerOK'
  <2> DEFINE n == made + 1
  <2>1. GetIo(f, "syn") \/ GetIo(f, "up")
    BY <1>20 DEF Accept
  <2>2. /\ n \in Io /\ made' = n /\ fd'[n] = f /\ fd[n] = NoFd
        /\ \A i \in Io : i # n => fd'[i] = fd[i]
        /\ \A g \in Fd : io_array'[g] = IF g = f THEN n ELSE io_array[g]
        /\ cb[n] = "none" /\ events[n] = {} /\ ~connect[n]
        /\ \A i \in Io : fd[i] # f
        /\ UNCHANGED closed
    BY <1>0, <1>20, <2>1, GetIoEffect
  <2>3. n = made + 1 /\ made \in Nat
    BY <1>0 DEF TypeOK, IoTypeOK
  <2>4. n # NoIo /\ f # NoFd /\ \A i \in Io : fd[i] \in Fd \cup {NoFd} /\ i \in Nat
    <3>1. n # NoIo /\ \A i \in Io : i \in Nat
      BY <2>2 DEF Io, NoIo
    <3>2. f # NoFd
      BY <1>20 DEF Fd, NoFd
    <3>3. \A i \in Io : fd[i] \in Fd \cup {NoFd}
      BY <1>0 DEF TypeOK, IoTypeOK
    <3> QED BY <3>1, <3>2, <3>3
  <2> HIDE DEF n
  <2>5. /\ cb'[n] = "handle_event" /\ events'[n] = {"read"} /\ ~connect'[n]
        /\ \A i \in Io : i # n => cb'[i] = cb[i] /\ events'[i] = events[i] /\ connect'[i] = connect[i]
        /\ UNCHANGED raced
    <3>1. /\ cb' = [cb EXCEPT ![n] = "handle_event"] /\ events' = [events EXCEPT ![n] = {"read"}]
          /\ connect' = connect /\ UNCHANGED raced
      BY <1>20 DEF Accept, n
    <3> QED BY <1>0, <2>2, <3>1 DEF TypeOK, IoTypeOK
  <2> QED
    <3>1. \A i, j \in Io : fd'[i] = fd'[j] /\ fd'[i] # NoFd => i = j
      BY <1>0, <2>2 DEF OwnerOK
    <3>2. \A i \in Io : i > made' => fd'[i] = NoFd /\ cb'[i] = "none"
      <4>1. ASSUME NEW i \in Io, i > made' PROVE i > made /\ i # n
        BY <2>2, <2>3, <2>4, <4>1
      <4> QED BY <1>0, <2>2, <2>5, <4>1 DEF OwnerOK
    <3>3. \A i \in Io : fd'[i] # NoFd => io_array'[fd'[i]] # NoIo
      BY <1>0, <1>20, <2>2, <2>4 DEF OwnerOK
    <3>4. \A i \in Io : /\ fd'[i] = NoFd => cb'[i] = "none" \/ closed'[i]
                        /\ cb'[i] = "none" => events'[i] = {} /\ ~connect'[i]
                        /\ fd'[i] = NoFd /\ i \notin raced' => events'[i] = {}
      BY <1>0, <2>2, <2>4, <2>5 DEF OwnerOK
    <3>5. \A i \in Io : connect'[i] => events'[i] \subseteq {"write"}
      BY <1>0, <2>2, <2>5 DEF OwnerOK
    <3> QED BY <3>1, <3>2, <3>3, <3>4, <3>5 DEF OwnerOK
<1>21. ASSUME NEW f \in Fd, Connect(f) PROVE OwnerOK'
  <2> DEFINE n == made + 1
  <2>1. GetIo(f, "syn") \/ GetIo(f, "up")
    BY <1>21 DEF Connect
  <2>2. /\ n \in Io /\ made' = n /\ fd'[n] = f /\ fd[n] = NoFd
        /\ \A i \in Io : i # n => fd'[i] = fd[i]
        /\ \A g \in Fd : io_array'[g] = IF g = f THEN n ELSE io_array[g]
        /\ cb[n] = "none" /\ events[n] = {} /\ ~connect[n]
        /\ \A i \in Io : fd[i] # f
        /\ UNCHANGED closed
    BY <1>0, <1>21, <2>1, GetIoEffect
  <2>3. n = made + 1 /\ made \in Nat
    BY <1>0 DEF TypeOK, IoTypeOK
  <2>4. n # NoIo /\ f # NoFd /\ \A i \in Io : fd[i] \in Fd \cup {NoFd} /\ i \in Nat
    <3>1. n # NoIo /\ \A i \in Io : i \in Nat
      BY <2>2 DEF Io, NoIo
    <3>2. f # NoFd
      BY <1>21 DEF Fd, NoFd
    <3>3. \A i \in Io : fd[i] \in Fd \cup {NoFd}
      BY <1>0 DEF TypeOK, IoTypeOK
    <3> QED BY <3>1, <3>2, <3>3
  <2> HIDE DEF n
  <2>5. /\ cb'[n] = "handle_event" /\ events'[n] = {"write"} /\ connect'[n]
        /\ \A i \in Io : i # n => cb'[i] = cb[i] /\ events'[i] = events[i] /\ connect'[i] = connect[i]
        /\ UNCHANGED raced
    <3>1. /\ cb' = [cb EXCEPT ![n] = "handle_event"] /\ events' = [events EXCEPT ![n] = {"write"}]
          /\ connect' = [connect EXCEPT ![n] = TRUE] /\ UNCHANGED raced
      BY <1>21 DEF Connect, n
    <3> QED BY <1>0, <2>2, <3>1 DEF TypeOK, IoTypeOK
  <2> QED
    <3>1. \A i, j \in Io : fd'[i] = fd'[j] /\ fd'[i] # NoFd => i = j
      BY <1>0, <2>2 DEF OwnerOK
    <3>2. \A i \in Io : i > made' => fd'[i] = NoFd /\ cb'[i] = "none"
      <4>1. ASSUME NEW i \in Io, i > made' PROVE i > made /\ i # n
        BY <2>2, <2>3, <2>4, <4>1
      <4> QED BY <1>0, <2>2, <2>5, <4>1 DEF OwnerOK
    <3>3. \A i \in Io : fd'[i] # NoFd => io_array'[fd'[i]] # NoIo
      BY <1>0, <1>21, <2>2, <2>4 DEF OwnerOK
    <3>4. \A i \in Io : /\ fd'[i] = NoFd => cb'[i] = "none" \/ closed'[i]
                        /\ cb'[i] = "none" => events'[i] = {} /\ ~connect'[i]
                        /\ fd'[i] = NoFd /\ i \notin raced' => events'[i] = {}
      BY <1>0, <2>2, <2>4, <2>5 DEF OwnerOK
    <3>5. \A i \in Io : connect'[i] => events'[i] \subseteq {"write"}
      BY <1>0, <2>2, <2>5 DEF OwnerOK
    <3> QED BY <3>1, <3>2, <3>3, <3>4, <3>5 DEF OwnerOK
<1>22. ASSUME NEW f \in Fd, OtherGetIo(f) PROVE OwnerOK'
  <2> DEFINE n == made + 1
  <2>1. GetIo(f, "syn") \/ GetIo(f, "up")
    BY <1>22 DEF OtherGetIo
  <2>2. /\ n \in Io /\ made' = n /\ fd'[n] = f /\ fd[n] = NoFd
        /\ \A i \in Io : i # n => fd'[i] = fd[i]
        /\ \A g \in Fd : io_array'[g] = IF g = f THEN n ELSE io_array[g]
        /\ cb[n] = "none" /\ events[n] = {} /\ ~connect[n]
        /\ \A i \in Io : fd[i] # f
        /\ UNCHANGED closed
    BY <1>0, <1>22, <2>1, GetIoEffect
  <2>3. n = made + 1 /\ made \in Nat
    BY <1>0 DEF TypeOK, IoTypeOK
  <2>4. n # NoIo /\ f # NoFd /\ \A i \in Io : fd[i] \in Fd \cup {NoFd} /\ i \in Nat
    <3>1. n # NoIo /\ \A i \in Io : i \in Nat
      BY <2>2 DEF Io, NoIo
    <3>2. f # NoFd
      BY <1>22 DEF Fd, NoFd
    <3>3. \A i \in Io : fd[i] \in Fd \cup {NoFd}
      BY <1>0 DEF TypeOK, IoTypeOK
    <3> QED BY <3>1, <3>2, <3>3
  <2>5. UNCHANGED <<cb, events, connect, raced>>
    BY <1>22 DEF OtherGetIo
  <2> HIDE DEF n
  <2> QED
    <3>1. \A i, j \in Io : fd'[i] = fd'[j] /\ fd'[i] # NoFd => i = j
      BY <1>0, <2>2 DEF OwnerOK
    <3>2. \A i \in Io : i > made' => fd'[i] = NoFd /\ cb'[i] = "none"
      <4>1. ASSUME NEW i \in Io, i > made' PROVE i > made /\ i # n
        BY <2>2, <2>3, <2>4, <4>1
      <4> QED BY <1>0, <2>2, <2>5, <4>1 DEF OwnerOK
    <3>3. \A i \in Io : fd'[i] # NoFd => io_array'[fd'[i]] # NoIo
      BY <1>0, <1>22, <2>2, <2>4 DEF OwnerOK
    <3>4. \A i \in Io : /\ fd'[i] = NoFd => cb'[i] = "none" \/ closed'[i]
                        /\ cb'[i] = "none" => events'[i] = {} /\ ~connect'[i]
                        /\ fd'[i] = NoFd /\ i \notin raced' => events'[i] = {}
      BY <1>0, <2>2, <2>4, <2>5 DEF OwnerOK
    <3>5. \A i \in Io : connect'[i] => events'[i] \subseteq {"write"}
      BY <1>0, <2>2, <2>5 DEF OwnerOK
    <3> QED BY <3>1, <3>2, <3>3, <3>4, <3>5 DEF OwnerOK
<1>23. CASE UNCHANGED vars
  <2>1. UNCHANGED <<made, fd, cb, events, closed, connect, io_array>> /\ UNCHANGED raced
    BY <1>23 DEF vars, ios
  <2> QED BY <1>0, <2>1 DEF OwnerOK
<1> QED
  BY <1>1, <1>2, <1>3, <1>4, <1>5, <1>6, <1>7, <1>8, <1>9, <1>10, <1>11, <1>12, <1>13, <1>14, <1>15, <1>16, <1>17, <1>18, <1>19, <1>20, <1>21, <1>22, <1>23 DEF Next, LoopStep, OtherStep

LEMMA OtherOKStep == Inv /\ [Next]_vars => OtherOK'
<1> SUFFICES ASSUME Inv, [Next]_vars
             PROVE  OtherOK'
  OBVIOUS
<1>0. TypeOK /\ OwnerOK /\ OtherOK /\ CurOK
  BY DEF Inv
<1>1. CASE Return
  <2>1. UNCHANGED <<made, fd, cb, closed, events, stale>> /\ UNCHANGED other /\ raced \subseteq raced'
    BY <1>1 DEF Return, ios
  <2> QED BY <1>0, <2>1 DEF OtherOK, other
<1>2. CASE Wait
  <2>1. UNCHANGED <<made, fd, cb, closed, events, stale>> /\ UNCHANGED other /\ raced \subseteq raced'
    BY <1>2 DEF Wait, ios
  <2> QED BY <1>0, <2>1 DEF OtherOK, other
<1>3. CASE Report
  <2>1. UNCHANGED <<made, fd, cb, closed, events, stale>> /\ UNCHANGED other /\ raced \subseteq raced'
    BY <1>3 DEF Report, ios
  <2> QED BY <1>0, <2>1 DEF OtherOK, other
<1>4. CASE Take
  <2> DEFINE i == Head(list)
  <2>1. i \in Io
    BY <1>0, <1>4, HeadTailProperties DEF Take, TypeOK, LoopTypeOK
  <2>2. UNCHANGED <<raced, stale>> /\ UNCHANGED other
    BY <1>4 DEF Take
  <2>3. \/ UNCHANGED <<made, fd, cb, closed, events>>
        \/ /\ IsReported(i, "write") /\ cb[i] = "handle_event" /\ UNCHANGED <<made, cb>>
           /\ (IoDel(i, "write") /\ UNCHANGED <<fd, closed>>) \/ IoClose(i)
    BY <1>4 DEF Take, ios, Unmark
  <2> HIDE DEF i
  <2>4. CASE UNCHANGED <<made, fd, cb, closed, events>>
    BY <1>0, <2>2, <2>4 DEF OtherOK, other
  <2>5. CASE /\ IsReported(i, "write") /\ IoDel(i, "write")
             /\ UNCHANGED <<fd, closed, made, cb>>
    <3>1. events'[i] \subseteq events[i] /\ \A j \in Io : j # i => events'[j] = events[j]
      BY <1>0, <2>1, <2>5, IoDelEffect DEF IsReported, Events
    <3> QED BY <1>0, <2>1, <2>2, <2>5, <3>1 DEF OtherOK, other
  <2>6. CASE cb[i] = "handle_event" /\ IoClose(i) /\ UNCHANGED <<made, cb>>
    <3>1. /\ closed'[i] /\ events'[i] = {} /\ fd'[i] = NoFd
          /\ \A j \in Io : j # i =>
               closed'[j] = closed[j] /\ events'[j] = events[j] /\ fd'[j] = fd[j]
      BY <1>0, <2>1, <2>6, IoCloseEffect
    <3> QED BY <1>0, <2>1, <2>2, <2>6, <3>1 DEF OtherOK, other
  <2> QED BY <2>3, <2>4, <2>5, <2>6
<1>5. CASE EndPass
  <2>1. UNCHANGED <<made, fd, cb, closed, events, stale>> /\ UNCHANGED other /\ raced \subseteq raced'
    BY <1>5 DEF EndPass, ios
  <2> QED BY <1>0, <2>1 DEF OtherOK, other
<1>6. CASE ReadEnable
  <2>1. cur \in Io /\ cb[cur] # "none"
    BY <1>0, <1>6 DEF ReadEnable, CurOK, InHandler, TypeOK, LoopTypeOK
  <2>2. IoAdd(cur, fd[cur], "handle_event", "read")
    BY <1>6 DEF ReadEnable
  <2>3. /\ cb'[cur] = "handle_event"
        /\ \A j \in Io : j # cur => cb'[j] = cb[j] /\ events'[j] = events[j]
    BY <1>0, <2>1, <2>2, IoAddEffect DEF Callbacks, Events
  <2>4. /\ UNCHANGED <<made, fd, closed>> /\ UNCHANGED other
        /\ stale' = IF closed[cur] THEN stale \cup ({fd[cur]} \ {NoFd}) ELSE stale
        /\ raced' = IF closed[cur] THEN raced \cup {cur} ELSE raced
    BY <1>6 DEF ReadEnable
  <2> QED BY <1>0, <2>1, <2>3, <2>4 DEF OtherOK, other
<1>7. CASE ReadSome
  <2>1. UNCHANGED <<made, fd, cb, closed, events, stale>> /\ UNCHANGED other /\ raced \subseteq raced'
    BY <1>7 DEF ReadSome, ios
  <2> QED BY <1>0, <2>1 DEF OtherOK, other
<1>8. CASE ReadEnd
  <2>1. cur \in Io /\ cb[cur] # "none"
    BY <1>0, <1>8 DEF ReadEnd, CurOK, InHandler, TypeOK, LoopTypeOK
  <2>2. IoClose(cur) /\ UNCHANGED <<made, cb, raced, stale>> /\ UNCHANGED other
    BY <1>8 DEF ReadEnd, ios
  <2>3. /\ closed'[cur] /\ events'[cur] = {} /\ fd'[cur] = NoFd
        /\ \A j \in Io : j # cur =>
             closed'[j] = closed[j] /\ events'[j] = events[j] /\ fd'[j] = fd[j]
    BY <1>0, <2>1, <2>2, IoCloseEffect
  <2> QED BY <1>0, <2>1, <2>2, <2>3 DEF OtherOK, other
<1>9. CASE ReadNothing
  <2>1. UNCHANGED <<made, fd, cb, closed, events, stale>> /\ UNCHANGED other /\ raced \subseteq raced'
    BY <1>9 DEF ReadNothing, ios
  <2> QED BY <1>0, <2>1 DEF OtherOK, other
<1>10. CASE Done
  <2>1. UNCHANGED <<made, fd, cb, closed, events, stale>> /\ UNCHANGED other /\ raced \subseteq raced'
    BY <1>10 DEF Done, ios
  <2> QED BY <1>0, <2>1 DEF OtherOK, other
<1>11. CASE OtherAdd
  BY <1>11 DEF OtherAdd, OtherOK
<1>12. CASE OtherDelete
  <2>1. /\ otherPc' = "close" /\ UNCHANGED <<otherIo, cb, closed>>
        /\ events' = [events EXCEPT ![otherIo] = {}]
    BY <1>12 DEF OtherDelete
  <2>2. otherIo \in Io /\ cb[otherIo] # "none" /\ closed[otherIo]
    BY <1>0, <1>12 DEF OtherDelete, OtherOK
  <2>3. events'[otherIo] = {}
    BY <1>0, <2>1, <2>2 DEF TypeOK, IoTypeOK
  <2> QED BY <2>1, <2>2, <2>3 DEF OtherOK
<1>13. CASE OtherCloseFd
  BY <1>13 DEF OtherCloseFd, OtherOK
<1>14. ASSUME NEW i \in Io, Close(i) PROVE OtherOK'
  <2>1. i \in Io /\ cb[i] # "none"
    BY <1>14 DEF Close
  <2>2. IoClose(i) /\ UNCHANGED <<made, cb, raced, stale>> /\ UNCHANGED other
    BY <1>14 DEF Close, ios
  <2>3. /\ closed'[i] /\ events'[i] = {} /\ fd'[i] = NoFd
        /\ \A j \in Io : j # i =>
             closed'[j] = closed[j] /\ events'[j] = events[j] /\ fd'[j] = fd[j]
    BY <1>0, <2>1, <2>2, IoCloseEffect
  <2> QED BY <1>0, <2>1, <2>2, <2>3 DEF OtherOK, other
<1>15. ASSUME NEW i \in Io, WriteRest(i) PROVE OtherOK'
  <2>1. ~closed[i] /\ cb[i] # "none" /\ IoAdd(i, fd[i], "io_write_cb", "write")
    BY <1>15 DEF WriteRest
  <2>2. /\ cb'[i] = "io_write_cb"
        /\ \A j \in Io : j # i => cb'[j] = cb[j] /\ events'[j] = events[j]
    BY <1>0, <1>15, <2>1, IoAddEffect DEF Callbacks, Events
  <2>3. UNCHANGED <<made, fd, closed, raced, stale>> /\ UNCHANGED other
    BY <1>15 DEF WriteRest
  <2> QED BY <1>0, <1>15, <2>1, <2>2, <2>3 DEF OtherOK, other
<1>16. ASSUME NEW i \in Io, OtherClose(i) PROVE OtherOK'
  <2>1. /\ otherPc' = "delete" /\ otherIo' = i /\ cb' = cb /\ cb[i] # "none"
        /\ closed' = [closed EXCEPT ![i] = TRUE]
    BY <1>16 DEF OtherClose
  <2>2. closed'[i]
    BY <1>0, <1>16, <2>1 DEF TypeOK, IoTypeOK
  <2> QED BY <1>16, <2>1, <2>2 DEF OtherOK
<1>17. ASSUME NEW i \in Io, PeerAnswers(i) PROVE OtherOK'
  <2>1. UNCHANGED <<made, fd, cb, closed, events, stale>> /\ UNCHANGED other /\ raced \subseteq raced'
    BY <1>17 DEF PeerAnswers, ios
  <2> QED BY <1>0, <2>1 DEF OtherOK, other
<1>18. ASSUME NEW i \in Io, PeerSends(i) PROVE OtherOK'
  <2>1. UNCHANGED <<made, fd, cb, closed, events, stale>> /\ UNCHANGED other /\ raced \subseteq raced'
    BY <1>18 DEF PeerSends, ios
  <2> QED BY <1>0, <2>1 DEF OtherOK, other
<1>19. ASSUME NEW i \in Io, PeerCloses(i) PROVE OtherOK'
  <2>1. UNCHANGED <<made, fd, cb, closed, events, stale>> /\ UNCHANGED other /\ raced \subseteq raced'
    BY <1>19 DEF PeerCloses, ios
  <2> QED BY <1>0, <2>1 DEF OtherOK, other
<1>20. ASSUME NEW f \in Fd, Accept(f) PROVE OtherOK'
  <2> DEFINE n == made + 1
  <2>1. GetIo(f, "syn") \/ GetIo(f, "up")
    BY <1>20 DEF Accept
  <2>2. /\ n \in Io /\ made' = n /\ fd'[n] = f /\ cb[n] = "none"
        /\ \A i \in Io : i # n => fd'[i] = fd[i]
        /\ UNCHANGED closed
    BY <1>0, <1>20, <2>1, GetIoEffect
  <2>3. n = made + 1 /\ made \in Nat /\ f # NoFd
    BY <1>0, <1>20 DEF TypeOK, IoTypeOK, Fd, NoFd
  <2>4. \A i \in Io : i \in Nat
    BY DEF Io
  <2> HIDE DEF n
  <2>5. /\ \A i \in Io : i # n => cb'[i] = cb[i] /\ events'[i] = events[i]
        /\ UNCHANGED <<raced, stale, otherPc, otherIo>>
    <3>1. /\ cb' = [cb EXCEPT ![n] = "handle_event"] /\ events' = [events EXCEPT ![n] = {"read"}]
          /\ UNCHANGED <<raced, stale, otherPc, otherIo>>
      BY <1>20 DEF Accept, n, other
    <3> QED BY <1>0, <2>2, <3>1 DEF TypeOK, IoTypeOK
  <2>6. otherPc # "idle" => otherIo # n
    <3>1. CASE otherPc \in {"accepted", "connecting"}
      <4>1. otherIo \in Io /\ otherIo <= made
        BY <1>0, <3>1 DEF OtherOK
      <4> QED BY <2>3, <2>4, <4>1
    <3>2. CASE otherPc \in {"delete", "close"}
      BY <1>0, <2>2, <3>2 DEF OtherOK
    <3> QED BY <1>0, <3>1, <3>2 DEF TypeOK
  <2>7. otherPc \in {"accepted", "connecting"} => otherIo <= made'
    <3>1. ASSUME otherPc \in {"accepted", "connecting"}
          PROVE  otherIo \in Io /\ otherIo <= made
      BY <1>0, <3>1 DEF OtherOK
    <3>2. made \in Nat /\ made' = made + 1
      BY <2>2, <2>3
    <3>3. ASSUME otherPc \in {"accepted", "connecting"}
          PROVE  otherIo <= made'
      <4>1. otherIo \in Nat /\ otherIo <= made
        BY <2>4, <3>1, <3>3
      <4> QED BY <3>2, <4>1
    <3> QED BY <3>3
  <2> QED BY <1>0, <2>2, <2>5, <2>6, <2>7 DEF OtherOK
<1>21. ASSUME NEW f \in Fd, Connect(f) PROVE OtherOK'
  <2> DEFINE n == made + 1
  <2>1. GetIo(f, "syn") \/ GetIo(f, "up")
    BY <1>21 DEF Connect
  <2>2. /\ n \in Io /\ made' = n /\ fd'[n] = f /\ cb[n] = "none"
        /\ \A i \in Io : i # n => fd'[i] = fd[i]
        /\ UNCHANGED closed
    BY <1>0, <1>21, <2>1, GetIoEffect
  <2>3. n = made + 1 /\ made \in Nat /\ f # NoFd
    BY <1>0, <1>21 DEF TypeOK, IoTypeOK, Fd, NoFd
  <2>4. \A i \in Io : i \in Nat
    BY DEF Io
  <2> HIDE DEF n
  <2>5. /\ \A i \in Io : i # n => cb'[i] = cb[i] /\ events'[i] = events[i]
        /\ UNCHANGED <<raced, stale, otherPc, otherIo>>
    <3>1. /\ cb' = [cb EXCEPT ![n] = "handle_event"] /\ events' = [events EXCEPT ![n] = {"write"}]
          /\ UNCHANGED <<raced, stale, otherPc, otherIo>>
      BY <1>21 DEF Connect, n, other
    <3> QED BY <1>0, <2>2, <3>1 DEF TypeOK, IoTypeOK
  <2>6. otherPc # "idle" => otherIo # n
    <3>1. CASE otherPc \in {"accepted", "connecting"}
      <4>1. otherIo \in Io /\ otherIo <= made
        BY <1>0, <3>1 DEF OtherOK
      <4> QED BY <2>3, <2>4, <4>1
    <3>2. CASE otherPc \in {"delete", "close"}
      BY <1>0, <2>2, <3>2 DEF OtherOK
    <3> QED BY <1>0, <3>1, <3>2 DEF TypeOK
  <2>7. otherPc \in {"accepted", "connecting"} => otherIo <= made'
    <3>1. ASSUME otherPc \in {"accepted", "connecting"}
          PROVE  otherIo \in Io /\ otherIo <= made
      BY <1>0, <3>1 DEF OtherOK
    <3>2. made \in Nat /\ made' = made + 1
      BY <2>2, <2>3
    <3>3. ASSUME otherPc \in {"accepted", "connecting"}
          PROVE  otherIo <= made'
      <4>1. otherIo \in Nat /\ otherIo <= made
        BY <2>4, <3>1, <3>3
      <4> QED BY <3>2, <4>1
    <3> QED BY <3>3
  <2> QED BY <1>0, <2>2, <2>5, <2>6, <2>7 DEF OtherOK
<1>22. ASSUME NEW f \in Fd, OtherGetIo(f) PROVE OtherOK'
  <2> DEFINE n == made + 1
  <2>1. GetIo(f, "syn") \/ GetIo(f, "up")
    BY <1>22 DEF OtherGetIo
  <2>2. /\ n \in Io /\ made' = n /\ fd'[n] = f /\ cb[n] = "none"
        /\ \A i \in Io : i # n => fd'[i] = fd[i]
        /\ UNCHANGED closed
    BY <1>0, <1>22, <2>1, GetIoEffect
  <2>3. n = made + 1 /\ made \in Nat /\ f # NoFd
    BY <1>0, <1>22 DEF TypeOK, IoTypeOK, Fd, NoFd
  <2>4. \A i \in Io : i \in Nat
    BY DEF Io
  <2>5. /\ UNCHANGED <<cb, raced, stale>>
        /\ otherPc' \in {"accepted", "connecting"} /\ otherIo' = n
    BY <1>22 DEF OtherGetIo
  <2> HIDE DEF n
  <2> QED BY <2>2, <2>3, <2>4, <2>5 DEF OtherOK
<1>23. CASE UNCHANGED vars
  <2>1. UNCHANGED <<made, fd, cb, closed, events, stale>> /\ UNCHANGED other /\ UNCHANGED raced
    BY <1>23 DEF vars, ios
  <2> QED BY <1>0, <2>1 DEF OtherOK, other
<1> QED
  BY <1>1, <1>2, <1>3, <1>4, <1>5, <1>6, <1>7, <1>8, <1>9, <1>10, <1>11, <1>12, <1>13, <1>14, <1>15, <1>16, <1>17, <1>18, <1>19, <1>20, <1>21, <1>22, <1>23 DEF Next, LoopStep, OtherStep

-----------------------------------------------------------------------------
(* The table of the back end and what the ios ask for.                     *)

LEMMA AskedNothing ==
    ASSUME NEW backEnd, NEW t, NEW f
    PROVE  Asked(backEnd, t, f, {}) <=> EntriesOf(t, f) = {}
BY DEF Asked

LEMMA TableMoves ==
    ASSUME TypeOK, TypeOK', TableOK, NEW f, kind' = kind,
           Kept(kind, table, table', f),
           f \in FdsOf(table') => io_array'[f] # NoIo,
           \A g \in Fd : g # f => io_array'[g] = io_array[g],
           stale \subseteq stale',
           \A j \in Io : \A g \in Fd : g # f =>
               /\ fd'[j] = g <=> fd[j] = g
               /\ fd[j] = g => events'[j] = events[j],
           f \in Fd \ stale' =>
               /\ f \notin OpenFds' => EntriesOf(table', f) = {}
               /\ \A j \in Io : fd'[j] = f => Asked(kind, table', f, events'[j])
    PROVE  TableOK'
<1>1. table \in Seq(Row) /\ table' \in Seq(Row)
  BY DEF TypeOK
<1>2. NoneTwice(kind, table')
  BY DEF Kept, TableOK
<1>3. ASSUME NEW k \in 1 .. Len(table') PROVE io_array'[table'[k].fd] # NoIo
  <2>1. table'[k].fd \in Fd
    BY <1>1, RowsOf
  <2>2. table'[k].fd \in FdsOf(table')
    BY DEF FdsOf
  <2>3. CASE table'[k].fd = f
    BY <2>2, <2>3
  <2>4. CASE table'[k].fd # f
    <3>1. table'[k].fd \in FdsOf(table)
      BY <2>2, <2>4 DEF Kept
    <3>2. io_array[table'[k].fd] # NoIo
      BY <3>1 DEF FdsOf, TableOK
    <3> QED BY <2>1, <2>4, <3>2
  <2> QED BY <2>3, <2>4
<1>4. ASSUME NEW g \in Fd \ stale', g \notin OpenFds' PROVE EntriesOf(table', g) = {}
  <2>1. CASE g = f
    BY <1>4, <2>1
  <2>2. CASE g # f
    <3>1. g \notin OpenFds
      BY <1>4, <2>2 DEF OpenFds
    <3>2. Asked(kind, table, g, {})
      BY <1>4, <3>1, AskedNothing DEF TableOK
    <3>3. Asked(kind, table', g, {})
      BY <2>2, <3>2 DEF Kept
    <3> QED BY <3>3, AskedNothing
  <2> QED BY <2>1, <2>2
<1>5. ASSUME NEW j \in Io, fd'[j] # NoFd, fd'[j] \notin stale'
      PROVE  Asked(kind, table', fd'[j], events'[j])
  <2>1. fd'[j] \in Fd /\ events[j] \in SUBSET Events
    BY <1>5 DEF TypeOK, IoTypeOK
  <2>2. CASE fd'[j] = f
    BY <1>5, <2>1, <2>2
  <2>3. CASE fd'[j] # f
    <3>1. fd[j] = fd'[j] /\ events'[j] = events[j]
      BY <2>1, <2>3
    <3>2. Asked(kind, table, fd'[j], events[j])
      BY <1>5, <3>1 DEF TableOK
    <3>3. Asked(kind, table', fd'[j], events[j])
      BY <2>1, <2>3, <3>2 DEF Kept
    <3> QED BY <3>1, <3>3
  <2> QED BY <2>2, <2>3
<1> QED
  BY <1>2, <1>3, <1>4, <1>5 DEF TableOK

LEMMA TableAfterClose ==
    ASSUME TypeOK, TypeOK', OwnerOK, TableOK, NEW i \in Io, IoClose(i),
           UNCHANGED <<kind, io_array, stale>>
    PROVE  TableOK'
<1> DEFINE f == fd[i]
<1>1. /\ fd'[i] = NoFd
      /\ \A j \in Io : j # i => events'[j] = events[j] /\ fd'[j] = fd[j]
      /\ table' = CloseFd(kind, BothGone(kind, table, f, events[i]), f)
      /\ Kept(kind, table, table', f) /\ FdsOf(table') \subseteq FdsOf(table)
  BY IoCloseEffect
<1>2. NoFd \notin Fd
  BY DEF NoFd, Fd
<1>3. f \in FdsOf(table') => io_array'[f] # NoIo
  BY <1>1 DEF FdsOf, TableOK
<1>4. ASSUME NEW j \in Io, NEW g \in Fd, g # f
      PROVE  /\ fd'[j] = g <=> fd[j] = g
             /\ fd[j] = g => events'[j] = events[j]
  BY <1>1, <1>2, <1>4
<1>5. ASSUME f \in Fd \ stale'
      PROVE  /\ EntriesOf(table', f) = {}
             /\ \A j \in Io : fd'[j] # f
  <2>1. table \in Seq(Row) /\ kind \in BackEnds /\ events[i] \in SUBSET Events
    BY DEF TypeOK, IoTypeOK
  <2>2. NoneTwice(kind, table) /\ Asked(kind, table, f, events[i])
    BY <1>2, <1>5 DEF TableOK
  <2> DEFINE u == BothGone(kind, table, f, events[i])
  <2>3. EntriesOf(u, f) = {}
    BY <2>1, <2>2, BothClears
  <2>4. u \in Seq(Row)
    BY <2>1, BothKeeps DEF Kept
  <2> HIDE DEF u
  <2>5. CloseFd(kind, u, f) = u
    BY <2>3, <2>4, CloseKeeps
  <2>6. table' = u
    BY <1>1, <2>5 DEF u
  <2>7. \A j \in Io : fd'[j] # f
    BY <1>1, <1>2, <1>5 DEF OwnerOK
  <2> QED BY <2>3, <2>6, <2>7
<1> HIDE DEF f
<1> QED
  BY <1>1, <1>3, <1>4, <1>5, TableMoves

LEMMA TableAfterAdd ==
    ASSUME TypeOK, TypeOK', OwnerOK, TableOK, NEW i \in Io, NEW callback \in Callbacks,
           NEW e \in Events, IoAdd(i, fd[i], callback, e),
           UNCHANGED <<kind, io_array, fd>>, stale \subseteq stale'
    PROVE  TableOK'
<1> DEFINE f == fd[i]
<1>1. /\ \A j \in Io : j # i => events'[j] = events[j]
      /\ Kept(kind, table, table', f)
      /\ f = NoFd => FdsOf(table') \subseteq FdsOf(table)
      /\ NoneTwice(kind, table) /\ f # NoFd /\ Asked(kind, table, f, events[i])
            => Asked(kind, table', f, events'[i])
  BY IoAddEffect
<1>2. NoFd \notin Fd /\ f \in Fd \cup {NoFd}
  BY DEF NoFd, Fd, TypeOK, IoTypeOK
<1>3. f \in FdsOf(table') => io_array'[f] # NoIo
  <2>1. CASE f = NoFd
    BY <1>1, <2>1 DEF FdsOf, TableOK
  <2>2. CASE f # NoFd
    BY <2>2 DEF OwnerOK
  <2> QED BY <2>1, <2>2
<1>4. ASSUME NEW j \in Io, NEW g \in Fd, g # f
      PROVE  /\ fd'[j] = g <=> fd[j] = g
             /\ fd[j] = g => events'[j] = events[j]
  BY <1>1, <1>4
<1>5. ASSUME f \in Fd \ stale'
      PROVE  /\ f \in OpenFds'
             /\ \A j \in Io : fd'[j] = f => Asked(kind, table', f, events'[j])
  <2>1. f # NoFd /\ f \notin stale
    BY <1>2, <1>5
  <2>2. f \in OpenFds'
    BY <2>1 DEF OpenFds
  <2>3. Asked(kind, table', f, events'[i])
    BY <1>1, <2>1 DEF TableOK
  <2>4. \A j \in Io : fd'[j] = f => j = i
    BY <2>1 DEF OwnerOK
  <2> QED BY <2>2, <2>3, <2>4
<1> HIDE DEF f
<1> QED
  BY <1>1, <1>3, <1>4, <1>5, TableMoves

LEMMA TableStep == Inv /\ [Next]_vars => TableOK'
<1> SUFFICES ASSUME Inv, [Next]_vars
             PROVE  TableOK'
  OBVIOUS
<1>0. TypeOK /\ TypeOK' /\ OwnerOK /\ OtherOK /\ TableOK /\ CurOK
  BY TypeStep DEF Inv
<1>1. CASE Return
  <2>1. UNCHANGED <<kind, table, io_array, stale, fd, events>>
    BY <1>1 DEF Return, ios, setting
  <2> QED BY <1>0, <2>1 DEF TableOK, OpenFds
<1>2. CASE Wait
  <2>1. UNCHANGED <<kind, table, io_array, stale, fd, events>>
    BY <1>2 DEF Wait, ios, setting
  <2> QED BY <1>0, <2>1 DEF TableOK, OpenFds
<1>3. CASE Report
  <2>1. UNCHANGED <<kind, table, io_array, stale, fd, events>>
    BY <1>3 DEF Report, ios, setting
  <2> QED BY <1>0, <2>1 DEF TableOK, OpenFds
<1>4. CASE Take
  <2> DEFINE i == Head(list)
             f == fd[i]
  <2>1. i \in Io
    BY <1>0, <1>4, HeadTailProperties DEF Take, TypeOK, LoopTypeOK
  <2>2. UNCHANGED <<kind, io_array, stale>>
    BY <1>4 DEF Take, setting, ios
  <2>3. \/ UNCHANGED <<table, fd, events>>
        \/ /\ IsReported(i, "write") /\ connect[i]
           /\ (IoDel(i, "write") /\ UNCHANGED fd) \/ IoClose(i)
    BY <1>4 DEF Take, ios, Unmark
  <2> HIDE DEF i
  <2>4. CASE UNCHANGED <<table, fd, events>>
    BY <1>0, <2>2, <2>4 DEF TableOK, OpenFds
  <2>5. CASE IsReported(i, "write") /\ connect[i] /\ IoDel(i, "write") /\ UNCHANGED fd
    <3>1. /\ events'[i] = events[i] \ {"write"} /\ \A j \in Io : j # i => events'[j] = events[j]
          /\ table' = DelEvent(kind, table, f, "write")
          /\ Kept(kind, table, table', f) /\ FdsOf(table') \subseteq FdsOf(table)
      BY <1>0, <2>1, <2>5, IoDelEffect DEF IsReported, Events
    <3>2. events[i] = {"write"}
      BY <1>0, <2>1, <2>5 DEF IsReported, OwnerOK
    <3>3. events'[i] = {}
      BY <3>1, <3>2
    <3>4. f \in FdsOf(table') => io_array'[f] # NoIo
      <4>1. f \in FdsOf(table) => io_array[f] # NoIo
        BY <1>0 DEF FdsOf, TableOK
      <4> QED BY <2>2, <3>1, <4>1
    <3>5. ASSUME NEW j \in Io, NEW g \in Fd, g # f
          PROVE  /\ fd'[j] = g <=> fd[j] = g
                 /\ fd[j] = g => events'[j] = events[j]
      BY <2>5, <3>1, <3>5
    <3>6. ASSUME f \in Fd \ stale'
          PROVE  /\ EntriesOf(table', f) = {}
                 /\ \A j \in Io : fd'[j] = f => Asked(kind, table', f, events'[j])
      <4>1. f # NoFd /\ f \notin stale
        BY <2>2, <3>6 DEF Fd, NoFd
      <4>2. NoneTwice(kind, table) /\ Asked(kind, table, f, {"write"})
        BY <1>0, <2>1, <3>2, <4>1 DEF TableOK
      <4>3. EntriesOf(table', f) = {}
        BY <1>0, <3>1, <4>2, DelOneClears DEF TypeOK
      <4>4. \A j \in Io : fd'[j] = f => j = i
        BY <1>0, <2>1, <2>5, <4>1 DEF OwnerOK
      <4> QED BY <3>3, <4>3, <4>4, AskedNothing
    <3> HIDE DEF f
    <3> QED BY <1>0, <2>2, <3>1, <3>4, <3>5, <3>6, TableMoves
  <2>6. CASE IoClose(i)
    BY <1>0, <2>1, <2>2, <2>6, TableAfterClose
  <2> QED BY <2>3, <2>4, <2>5, <2>6
<1>5. CASE EndPass
  <2>1. UNCHANGED <<kind, table, io_array, stale, fd, events>>
    BY <1>5 DEF EndPass, ios, setting
  <2> QED BY <1>0, <2>1 DEF TableOK, OpenFds
<1>6. CASE ReadEnable
  <2>1. cur \in Io
    BY <1>0, <1>6 DEF ReadEnable, CurOK, InHandler, TypeOK, LoopTypeOK
  <2>2. /\ IoAdd(cur, fd[cur], "handle_event", "read")
        /\ UNCHANGED <<kind, io_array, fd>> /\ stale \subseteq stale'
    BY <1>6 DEF ReadEnable, setting
  <2> QED BY <1>0, <2>1, <2>2, TableAfterAdd DEF Callbacks, Events
<1>7. CASE ReadSome
  <2>1. UNCHANGED <<kind, table, io_array, stale, fd, events>>
    BY <1>7 DEF ReadSome, ios, setting
  <2> QED BY <1>0, <2>1 DEF TableOK, OpenFds
<1>8. CASE ReadEnd
  <2>1. cur \in Io
    BY <1>0, <1>8 DEF ReadEnd, CurOK, InHandler, TypeOK, LoopTypeOK
  <2>2. IoClose(cur) /\ UNCHANGED <<kind, io_array, stale>>
    BY <1>8 DEF ReadEnd, setting
  <2> QED BY <1>0, <2>1, <2>2, TableAfterClose
<1>9. CASE ReadNothing
  <2>1. UNCHANGED <<kind, table, io_array, stale, fd, events>>
    BY <1>9 DEF ReadNothing, ios, setting
  <2> QED BY <1>0, <2>1 DEF TableOK, OpenFds
<1>10. CASE Done
  <2>1. UNCHANGED <<kind, table, io_array, stale, fd, events>>
    BY <1>10 DEF Done, ios, setting
  <2> QED BY <1>0, <2>1 DEF TableOK, OpenFds
<1>11. CASE OtherAdd
  <2>1. otherIo \in Io
    BY <1>0, <1>11 DEF OtherAdd, OtherOK
  <2>2. PICK e \in Events : IoAdd(otherIo, fd[otherIo], "handle_event", e)
    BY <1>11 DEF OtherAdd, Events
  <2>3. UNCHANGED <<kind, io_array, fd, stale>>
    BY <1>11 DEF OtherAdd, setting
  <2> QED BY <1>0, <2>1, <2>2, <2>3, TableAfterAdd DEF Callbacks
<1>12. CASE OtherDelete
  <2> DEFINE f == fd[otherIo]
  <2>1. otherIo \in Io
    BY <1>0, <1>12 DEF OtherDelete, OtherOK
  <2>2. UNCHANGED <<kind, io_array, stale, fd>>
    BY <1>12 DEF OtherDelete, setting
  <2>3. events'[otherIo] = {} /\ \A j \in Io : j # otherIo => events'[j] = events[j]
    BY <1>0, <1>12, <2>1 DEF OtherDelete, TypeOK, IoTypeOK
  <2>4. /\ table' = BothGone(kind, table, f, events[otherIo])
        /\ Kept(kind, table, table', f) /\ FdsOf(table') \subseteq FdsOf(table)
    BY <1>0, <1>12, OtherDeleteEffect
  <2>5. f \in FdsOf(table') => io_array'[f] # NoIo
    BY <1>0, <2>2, <2>4 DEF FdsOf, TableOK
  <2>6. ASSUME NEW j \in Io, NEW g \in Fd, g # f
        PROVE  /\ fd'[j] = g <=> fd[j] = g
               /\ fd[j] = g => events'[j] = events[j]
    BY <2>2, <2>3, <2>6
  <2>7. ASSUME f \in Fd \ stale'
        PROVE  /\ EntriesOf(table', f) = {}
               /\ \A j \in Io : fd'[j] = f => Asked(kind, table', f, events'[j])
    <3>1. f # NoFd /\ f \notin stale
      BY <2>2, <2>7 DEF Fd, NoFd
    <3>2. NoneTwice(kind, table) /\ Asked(kind, table, f, events[otherIo])
      BY <1>0, <2>1, <3>1 DEF TableOK
    <3>3. EntriesOf(table', f) = {}
      BY <1>0, <2>1, <2>4, <3>2, BothClears DEF TypeOK, IoTypeOK
    <3>4. \A j \in Io : fd'[j] = f => j = otherIo
      BY <1>0, <2>1, <2>2, <3>1 DEF OwnerOK
    <3> QED BY <2>3, <3>3, <3>4, AskedNothing
  <2> HIDE DEF f
  <2> QED BY <1>0, <2>2, <2>4, <2>5, <2>6, <2>7, TableMoves
<1>13. CASE OtherCloseFd
  <2> DEFINE f == fd[otherIo]
  <2>1. /\ otherIo \in Io
        /\ events[otherIo] = {} \/ f \in stale \cup {NoFd}
    BY <1>0, <1>13 DEF OtherCloseFd, OtherOK
  <2>2. /\ table' = CloseFd(kind, table, f) /\ CloseSocket(otherIo)
        /\ UNCHANGED <<kind, io_array, stale, events>>
    BY <1>13 DEF OtherCloseFd, setting
  <2>3. fd'[otherIo] = NoFd /\ \A j \in Io : j # otherIo => fd'[j] = fd[j]
    BY <1>0, <2>1, <2>2, CloseSocketEffect
  <2>4. /\ Kept(kind, table, table', f) /\ FdsOf(table') \subseteq FdsOf(table)
        /\ EntriesOf(table, f) = {} => table' = table
    BY <1>0, <2>2, CloseKeeps DEF TypeOK
  <2>5. f \in FdsOf(table') => io_array'[f] # NoIo
    BY <1>0, <2>2, <2>4 DEF FdsOf, TableOK
  <2>6. NoFd \notin Fd
    BY DEF NoFd, Fd
  <2>7. ASSUME NEW j \in Io, NEW g \in Fd, g # f
        PROVE  /\ fd'[j] = g <=> fd[j] = g
               /\ fd[j] = g => events'[j] = events[j]
    BY <2>2, <2>3, <2>6, <2>7
  <2>8. ASSUME f \in Fd \ stale'
        PROVE  /\ EntriesOf(table', f) = {}
               /\ \A j \in Io : fd'[j] # f
    <3>1. f # NoFd /\ f \notin stale
      BY <2>2, <2>6, <2>8
    <3>2. Asked(kind, table, f, {})
      BY <1>0, <2>1, <3>1 DEF TableOK
    <3>3. EntriesOf(table, f) = {}
      BY <3>2, AskedNothing
    <3>4. \A j \in Io : fd'[j] # f
      BY <1>0, <2>1, <2>3, <3>1 DEF OwnerOK
    <3> QED BY <2>4, <3>3, <3>4
  <2> HIDE DEF f
  <2> QED BY <1>0, <2>2, <2>4, <2>5, <2>7, <2>8, TableMoves
<1>14. ASSUME NEW i \in Io, Close(i) PROVE TableOK'
  <2>1. IoClose(i) /\ UNCHANGED <<kind, io_array, stale>>
    BY <1>14 DEF Close, setting
  <2> QED BY <1>0, <1>14, <2>1, TableAfterClose
<1>15. ASSUME NEW i \in Io, WriteRest(i) PROVE TableOK'
  <2>1. IoAdd(i, fd[i], "io_write_cb", "write") /\ UNCHANGED <<kind, io_array, fd, stale>>
    BY <1>15 DEF WriteRest, setting
  <2> QED BY <1>0, <1>15, <2>1, TableAfterAdd DEF Callbacks, Events
<1>16. ASSUME NEW i \in Io, OtherClose(i) PROVE TableOK'
  <2>1. UNCHANGED <<kind, table, io_array, stale, fd, events>>
    BY <1>16 DEF OtherClose, ios, setting
  <2> QED BY <1>0, <2>1 DEF TableOK, OpenFds
<1>17. ASSUME NEW i \in Io, PeerAnswers(i) PROVE TableOK'
  <2>1. UNCHANGED <<kind, table, io_array, stale, fd, events>>
    BY <1>17 DEF PeerAnswers, ios, setting
  <2> QED BY <1>0, <2>1 DEF TableOK, OpenFds
<1>18. ASSUME NEW i \in Io, PeerSends(i) PROVE TableOK'
  <2>1. UNCHANGED <<kind, table, io_array, stale, fd, events>>
    BY <1>18 DEF PeerSends, ios, setting
  <2> QED BY <1>0, <2>1 DEF TableOK, OpenFds
<1>19. ASSUME NEW i \in Io, PeerCloses(i) PROVE TableOK'
  <2>1. UNCHANGED <<kind, table, io_array, stale, fd, events>>
    BY <1>19 DEF PeerCloses, ios, setting
  <2> QED BY <1>0, <2>1 DEF TableOK, OpenFds
<1>20. ASSUME NEW f \in Fd, Accept(f) PROVE TableOK'
  <2> DEFINE n == made + 1
  <2>1. GetIo(f, "syn") \/ GetIo(f, "up")
    BY <1>20 DEF Accept
  <2>2. /\ n \in Io /\ fd'[n] = f /\ fd[n] = NoFd
        /\ \A i \in Io : i # n => fd'[i] = fd[i]
        /\ \A g \in Fd : io_array'[g] = IF g = f THEN n ELSE io_array[g]
        /\ events[n] = {} /\ f \notin OpenFds /\ \A i \in Io : fd[i] # f
    BY <1>0, <1>20, <2>1, GetIoEffect
  <2> HIDE DEF n
  <2>3. kind' = kind /\ Kept(kind, table, table', f) /\ table' = AddEvent(kind, table, f, "read")
    <3>1. table' = AddEvent(kind, table, f, "read") /\ kind' = kind
      BY <1>20 DEF Accept, setting
    <3> QED BY <1>0, <1>20, <3>1, AddKeeps DEF TypeOK, Events
  <2>4. /\ events'[n] = {"read"} /\ \A i \in Io : i # n => events'[i] = events[i]
        /\ UNCHANGED stale
    <3>1. events' = [events EXCEPT ![n] = {"read"}] /\ UNCHANGED stale
      BY <1>20 DEF Accept, n
    <3> QED BY <1>0, <2>2, <3>1 DEF TypeOK, IoTypeOK
  <2>5. n # NoIo /\ f # NoFd /\ NoFd \notin Fd
    BY <1>20, <2>2 DEF Io, NoIo, Fd, NoFd
  <2>6. ASSUME NEW j \in Io, NEW g \in Fd, g # f
        PROVE  /\ fd'[j] = g <=> fd[j] = g
               /\ fd[j] = g => events'[j] = events[j]
    BY <2>2, <2>4, <2>5, <2>6
  <2>7. ASSUME f \in Fd \ stale'
        PROVE  /\ f \in OpenFds'
               /\ \A j \in Io : fd'[j] = f => Asked(kind, table', f, events'[j])
    <3>1. f \notin stale
      BY <2>4, <2>7
    <3>2. Asked(kind, table, f, {})
      BY <1>0, <2>2, <2>7, <3>1, AskedNothing DEF TableOK
    <3>3. Asked(kind, table', f, events'[n])
      <4>1. {} \in SUBSET Events /\ "read" \in Events /\ {} \cup {"read"} = {"read"} /\ "read" \notin {}
        BY DEF Events
      <4>2. table \in Seq(Row) /\ kind \in BackEnds /\ NoneTwice(kind, table)
        BY <1>0 DEF TypeOK, TableOK
      <4>3. Asked(kind, table', f, {} \cup {"read"})
        BY <1>20, <2>3, <3>2, <4>1, <4>2, AddKeeps
      <4> QED BY <2>4, <4>1, <4>3
    <3>4. \A j \in Io : fd'[j] = f => j = n
      BY <2>2
    <3>5. f \in OpenFds'
      BY <2>2, <2>5 DEF OpenFds
    <3> QED BY <3>3, <3>4, <3>5
  <2>8. io_array'[f] # NoIo /\ \A g \in Fd : g # f => io_array'[g] = io_array[g]
    BY <1>20, <2>2, <2>5
  <2> QED BY <1>0, <1>20, <2>3, <2>4, <2>6, <2>7, <2>8, TableMoves
<1>21. ASSUME NEW f \in Fd, Connect(f) PROVE TableOK'
  <2> DEFINE n == made + 1
  <2>1. GetIo(f, "syn") \/ GetIo(f, "up")
    BY <1>21 DEF Connect
  <2>2. /\ n \in Io /\ fd'[n] = f /\ fd[n] = NoFd
        /\ \A i \in Io : i # n => fd'[i] = fd[i]
        /\ \A g \in Fd : io_array'[g] = IF g = f THEN n ELSE io_array[g]
        /\ events[n] = {} /\ f \notin OpenFds /\ \A i \in Io : fd[i] # f
    BY <1>0, <1>21, <2>1, GetIoEffect
  <2> HIDE DEF n
  <2>3. kind' = kind /\ Kept(kind, table, table', f) /\ table' = AddEvent(kind, table, f, "write")
    <3>1. table' = AddEvent(kind, table, f, "write") /\ kind' = kind
      BY <1>21 DEF Connect, setting
    <3> QED BY <1>0, <1>21, <3>1, AddKeeps DEF TypeOK, Events
  <2>4. /\ events'[n] = {"write"} /\ \A i \in Io : i # n => events'[i] = events[i]
        /\ UNCHANGED stale
    <3>1. events' = [events EXCEPT ![n] = {"write"}] /\ UNCHANGED stale
      BY <1>21 DEF Connect, n
    <3> QED BY <1>0, <2>2, <3>1 DEF TypeOK, IoTypeOK
  <2>5. n # NoIo /\ f # NoFd /\ NoFd \notin Fd
    BY <1>21, <2>2 DEF Io, NoIo, Fd, NoFd
  <2>6. ASSUME NEW j \in Io, NEW g \in Fd, g # f
        PROVE  /\ fd'[j] = g <=> fd[j] = g
               /\ fd[j] = g => events'[j] = events[j]
    BY <2>2, <2>4, <2>5, <2>6
  <2>7. ASSUME f \in Fd \ stale'
        PROVE  /\ f \in OpenFds'
               /\ \A j \in Io : fd'[j] = f => Asked(kind, table', f, events'[j])
    <3>1. f \notin stale
      BY <2>4, <2>7
    <3>2. Asked(kind, table, f, {})
      BY <1>0, <2>2, <2>7, <3>1, AskedNothing DEF TableOK
    <3>3. Asked(kind, table', f, events'[n])
      <4>1. {} \in SUBSET Events /\ "write" \in Events /\ {} \cup {"write"} = {"write"} /\ "write" \notin {}
        BY DEF Events
      <4>2. table \in Seq(Row) /\ kind \in BackEnds /\ NoneTwice(kind, table)
        BY <1>0 DEF TypeOK, TableOK
      <4>3. Asked(kind, table', f, {} \cup {"write"})
        BY <1>21, <2>3, <3>2, <4>1, <4>2, AddKeeps
      <4> QED BY <2>4, <4>1, <4>3
    <3>4. \A j \in Io : fd'[j] = f => j = n
      BY <2>2
    <3>5. f \in OpenFds'
      BY <2>2, <2>5 DEF OpenFds
    <3> QED BY <3>3, <3>4, <3>5
  <2>8. io_array'[f] # NoIo /\ \A g \in Fd : g # f => io_array'[g] = io_array[g]
    BY <1>21, <2>2, <2>5
  <2> QED BY <1>0, <1>21, <2>3, <2>4, <2>6, <2>7, <2>8, TableMoves
<1>22. ASSUME NEW f \in Fd, OtherGetIo(f) PROVE TableOK'
  <2> DEFINE n == made + 1
  <2>1. GetIo(f, "syn") \/ GetIo(f, "up")
    BY <1>22 DEF OtherGetIo
  <2>2. /\ n \in Io /\ fd'[n] = f /\ fd[n] = NoFd
        /\ \A i \in Io : i # n => fd'[i] = fd[i]
        /\ \A g \in Fd : io_array'[g] = IF g = f THEN n ELSE io_array[g]
        /\ events[n] = {} /\ f \notin OpenFds /\ \A i \in Io : fd[i] # f
    BY <1>0, <1>22, <2>1, GetIoEffect
  <2> HIDE DEF n
  <2>3. kind' = kind /\ Kept(kind, table, table', f) /\ table' = table
    <3>1. kind' = kind /\ table' = table
      BY <1>22 DEF OtherGetIo, setting
    <3> QED BY <1>0, <3>1 DEF Kept, TypeOK
  <2>4. UNCHANGED <<events, stale>>
    BY <1>22 DEF OtherGetIo
  <2>5. n # NoIo /\ f # NoFd /\ NoFd \notin Fd
    BY <1>22, <2>2 DEF Io, NoIo, Fd, NoFd
  <2>6. ASSUME NEW j \in Io, NEW g \in Fd, g # f
        PROVE  /\ fd'[j] = g <=> fd[j] = g
               /\ fd[j] = g => events'[j] = events[j]
    BY <2>2, <2>4, <2>5, <2>6
  <2>7. ASSUME f \in Fd \ stale'
        PROVE  /\ f \in OpenFds'
               /\ \A j \in Io : fd'[j] = f => Asked(kind, table', f, events'[j])
    <3>1. f \notin stale
      BY <2>4, <2>7
    <3>2. Asked(kind, table, f, {})
      BY <1>0, <2>2, <2>7, <3>1, AskedNothing DEF TableOK
    <3>3. Asked(kind, table', f, events'[n])
      BY <2>2, <2>3, <2>4, <3>2
    <3>4. \A j \in Io : fd'[j] = f => j = n
      BY <2>2
    <3>5. f \in OpenFds'
      BY <2>2, <2>5 DEF OpenFds
    <3> QED BY <3>3, <3>4, <3>5
  <2>8. io_array'[f] # NoIo /\ \A g \in Fd : g # f => io_array'[g] = io_array[g]
    BY <1>22, <2>2, <2>5
  <2> QED BY <1>0, <1>22, <2>3, <2>4, <2>6, <2>7, <2>8, TableMoves
<1>23. CASE UNCHANGED vars
  <2>1. UNCHANGED <<kind, table, io_array, stale, fd, events>>
    BY <1>23 DEF vars, ios, setting
  <2> QED BY <1>0, <2>1 DEF TableOK, OpenFds
<1> QED
  BY <1>1, <1>2, <1>3, <1>4, <1>5, <1>6, <1>7, <1>8, <1>9, <1>10, <1>11, <1>12, <1>13, <1>14, <1>15, <1>16, <1>17, <1>18, <1>19, <1>20, <1>21, <1>22, <1>23 DEF Next, LoopStep, OtherStep

-----------------------------------------------------------------------------
(* What a step never takes back.                                           *)

\* What was found of i remains true.
Persists(i) ==
    \/ i \in raced' \/ fd'[i] = NoFd
    \/ /\ fd'[i] = fd[i]
       /\ Readable(i) => Readable(i)'
       /\ peer[i] # "syn" => peer'[i] # "syn"

Grows ==
    /\ \A i \in Io : i <= made => i <= made'
    /\ raced \subseteq raced' /\ stale \subseteq stale'
    /\ \A i \in Io : cb[i] # "none" => cb'[i] # "none"
    /\ \A f \in Fd : io_array[f] # NoIo => io_array'[f] # NoIo
    /\ \A i \in Io : (cb[i] # "none" \/ i <= made \/ i \in raced) /\ (ReadSome => i # cur) => Persists(i)

LEMMA NothingMoves ==
    ASSUME UNCHANGED <<made, cb, io_array, fd>>, UNCHANGED kernel,
           raced \subseteq raced', stale \subseteq stale'
    PROVE  Grows
BY DEF Grows, Persists, kernel, Readable

LEMMA SocketCloses ==
    ASSUME NEW i \in Io, UNCHANGED <<made, cb, io_array, raced, stale>>,
           fd'[i] = NoFd,
           \A j \in Io : j # i => fd'[j] = fd[j] /\ peer'[j] = peer[j] /\ unread'[j] = unread[j]
    PROVE  Grows
BY DEF Grows, Persists, Readable

LEMMA GrowsStep == Inv /\ [Next]_vars => Grows
<1> SUFFICES ASSUME Inv, [Next]_vars
             PROVE  Grows
  OBVIOUS
<1>0. TypeOK /\ OwnerOK /\ OtherOK /\ CurOK
  BY DEF Inv
<1>1. CASE Return
  BY <1>1, NothingMoves DEF Return, ios, kernel
<1>2. CASE Wait
  BY <1>2, NothingMoves DEF Wait, ios, kernel
<1>3. CASE Report
  <2>1. /\ UNCHANGED <<made, cb, io_array, fd>> /\ UNCHANGED kernel
        /\ raced \subseteq raced' /\ stale \subseteq stale'
    BY <1>3 DEF Report
  <2> QED BY <2>1, NothingMoves
<1>4. CASE Take
  <2> DEFINE i == Head(list)
  <2>1. i \in Io
    BY <1>0, <1>4, HeadTailProperties DEF Take, TypeOK, LoopTypeOK
  <2>2. UNCHANGED <<made, cb, io_array, raced, stale>>
    BY <1>4 DEF Take, ios
  <2>3. (UNCHANGED fd /\ UNCHANGED kernel) \/ IoClose(i)
    BY <1>4 DEF Take, ios
  <2> HIDE DEF i
  <2>4. CASE UNCHANGED fd /\ UNCHANGED kernel
    BY <2>2, <2>4, NothingMoves
  <2>5. CASE IoClose(i)
    <3>1. /\ fd'[i] = NoFd
          /\ \A j \in Io : j # i => fd'[j] = fd[j] /\ peer'[j] = peer[j] /\ unread'[j] = unread[j]
      BY <1>0, <2>1, <2>5, IoCloseEffect
    <3> QED BY <2>1, <2>2, <3>1, SocketCloses
  <2> QED BY <2>3, <2>4, <2>5
<1>5. CASE EndPass
  BY <1>5, NothingMoves DEF EndPass, ios, kernel
<1>6. CASE ReadEnable
  <2>1. cur \in Io
    BY <1>0, <1>6 DEF ReadEnable, CurOK, InHandler, TypeOK, LoopTypeOK
  <2>2. IoAdd(cur, fd[cur], "handle_event", "read")
    BY <1>6 DEF ReadEnable
  <2>3. /\ UNCHANGED <<made, fd, io_array>> /\ UNCHANGED kernel
        /\ raced \subseteq raced' /\ stale \subseteq stale'
    BY <1>6 DEF ReadEnable
  <2>4. \A j \in Io : cb[j] # "none" => cb'[j] # "none"
    BY <1>0, <2>1, <2>2, IoAddEffect DEF Callbacks, Events
  <2> QED BY <2>3, <2>4 DEF Grows, Persists, kernel, Readable
<1>7. CASE ReadSome
  <2>1. cur \in Io
    BY <1>0, <1>7 DEF ReadSome, CurOK, InHandler, TypeOK, LoopTypeOK
  <2>2. unread' = [unread EXCEPT ![cur] = FALSE] /\ UNCHANGED <<made, cb, io_array, fd, peer, raced, stale>>
    BY <1>7 DEF ReadSome, ios
  <2>3. \A j \in Io : j # cur => unread'[j] = unread[j]
    BY <1>0, <2>1, <2>2 DEF TypeOK, IoTypeOK
  <2> QED BY <1>7, <2>2, <2>3 DEF Grows, Persists, Readable
<1>8. CASE ReadEnd
  <2>1. cur \in Io
    BY <1>0, <1>8 DEF ReadEnd, CurOK, InHandler, TypeOK, LoopTypeOK
  <2>2. IoClose(cur) /\ UNCHANGED <<made, cb, io_array, raced, stale>>
    BY <1>8 DEF ReadEnd, ios
  <2>3. /\ fd'[cur] = NoFd
        /\ \A j \in Io : j # cur => fd'[j] = fd[j] /\ peer'[j] = peer[j] /\ unread'[j] = unread[j]
    BY <1>0, <2>1, <2>2, IoCloseEffect
  <2> QED BY <2>1, <2>2, <2>3, SocketCloses
<1>9. CASE ReadNothing
  BY <1>9, NothingMoves DEF ReadNothing, ios, kernel
<1>10. CASE Done
  BY <1>10, NothingMoves DEF Done, ios, kernel
<1>11. CASE OtherAdd
  <2>1. otherIo \in Io
    BY <1>0, <1>11 DEF OtherAdd, OtherOK
  <2>2. PICK e \in Events : IoAdd(otherIo, fd[otherIo], "handle_event", e)
    BY <1>11 DEF OtherAdd, Events
  <2>3. /\ UNCHANGED <<made, fd, io_array>> /\ UNCHANGED kernel
        /\ raced \subseteq raced' /\ stale \subseteq stale'
    BY <1>11 DEF OtherAdd
  <2>4. \A j \in Io : cb[j] # "none" => cb'[j] # "none"
    BY <1>0, <2>1, <2>2, IoAddEffect DEF Callbacks, Events
  <2> QED BY <2>3, <2>4 DEF Grows, Persists, kernel, Readable
<1>12. CASE OtherDelete
  BY <1>12, NothingMoves DEF OtherDelete, ios, kernel
<1>13. CASE OtherCloseFd
  <2>1. otherIo \in Io
    BY <1>0, <1>13 DEF OtherCloseFd, OtherOK
  <2>2. CloseSocket(otherIo) /\ UNCHANGED <<made, cb, io_array, raced, stale>>
    BY <1>13 DEF OtherCloseFd
  <2>3. /\ fd'[otherIo] = NoFd
        /\ \A j \in Io : j # otherIo => fd'[j] = fd[j] /\ peer'[j] = peer[j] /\ unread'[j] = unread[j]
    BY <1>0, <2>1, <2>2, CloseSocketEffect
  <2> QED BY <2>1, <2>2, <2>3, SocketCloses
<1>14. ASSUME NEW i \in Io, Close(i) PROVE Grows
  <2>1. i \in Io
    BY <1>14
  <2>2. IoClose(i) /\ UNCHANGED <<made, cb, io_array, raced, stale>>
    BY <1>14 DEF Close, ios
  <2>3. /\ fd'[i] = NoFd
        /\ \A j \in Io : j # i => fd'[j] = fd[j] /\ peer'[j] = peer[j] /\ unread'[j] = unread[j]
    BY <1>0, <2>1, <2>2, IoCloseEffect
  <2> QED BY <2>1, <2>2, <2>3, SocketCloses
<1>15. ASSUME NEW i \in Io, WriteRest(i) PROVE Grows
  <2>1. i \in Io
    BY <1>15
  <2>2. IoAdd(i, fd[i], "io_write_cb", "write")
    BY <1>15 DEF WriteRest
  <2>3. /\ UNCHANGED <<made, fd, io_array>> /\ UNCHANGED kernel
        /\ raced \subseteq raced' /\ stale \subseteq stale'
    BY <1>15 DEF WriteRest
  <2>4. \A j \in Io : cb[j] # "none" => cb'[j] # "none"
    BY <1>0, <2>1, <2>2, IoAddEffect DEF Callbacks, Events
  <2> QED BY <2>3, <2>4 DEF Grows, Persists, kernel, Readable
<1>16. ASSUME NEW i \in Io, OtherClose(i) PROVE Grows
  BY <1>16, NothingMoves DEF OtherClose, ios, kernel
<1>17. ASSUME NEW i \in Io, PeerAnswers(i) PROVE Grows
  <2>1. UNCHANGED <<made, cb, io_array, fd, raced, stale>>
    BY <1>17 DEF PeerAnswers, ios
  <2>2. \A j \in Io : /\ Readable(j) => Readable(j)'
                      /\ peer[j] # "syn" => peer'[j] # "syn"
    BY <1>0, <1>17 DEF PeerAnswers, Readable, TypeOK, IoTypeOK
  <2> QED BY <2>1, <2>2 DEF Grows, Persists
<1>18. ASSUME NEW i \in Io, PeerSends(i) PROVE Grows
  <2>1. UNCHANGED <<made, cb, io_array, fd, raced, stale>>
    BY <1>18 DEF PeerSends, ios
  <2>2. \A j \in Io : /\ Readable(j) => Readable(j)'
                      /\ peer[j] # "syn" => peer'[j] # "syn"
    BY <1>0, <1>18 DEF PeerSends, Readable, TypeOK, IoTypeOK
  <2> QED BY <2>1, <2>2 DEF Grows, Persists
<1>19. ASSUME NEW i \in Io, PeerCloses(i) PROVE Grows
  <2>1. UNCHANGED <<made, cb, io_array, fd, raced, stale>>
    BY <1>19 DEF PeerCloses, ios
  <2>2. \A j \in Io : /\ Readable(j) => Readable(j)'
                      /\ peer[j] # "syn" => peer'[j] # "syn"
    BY <1>0, <1>19 DEF PeerCloses, Readable, TypeOK, IoTypeOK
  <2> QED BY <2>1, <2>2 DEF Grows, Persists
<1>20. ASSUME NEW f \in Fd, Accept(f) PROVE Grows
  <2> DEFINE n == made + 1
  <2>1. GetIo(f, "syn") \/ GetIo(f, "up")
    BY <1>20 DEF Accept
  <2>2. /\ n \in Io /\ made' = n
        /\ \A i \in Io : i # n => fd'[i] = fd[i] /\ peer'[i] = peer[i]
        /\ \A g \in Fd : io_array'[g] = IF g = f THEN n ELSE io_array[g]
        /\ cb[n] = "none" /\ UNCHANGED unread
    BY <1>0, <1>20, <2>1, GetIoEffect
  <2>3. UNCHANGED <<raced, stale>>
    BY <1>20 DEF Accept
  <2>4. made \in Nat /\ n = made + 1 /\ n # NoIo
    BY <1>0, <2>2 DEF TypeOK, IoTypeOK, Io, NoIo
  <2>5. \A i \in Io : cb[i] # "none" => cb'[i] # "none"
    <3>1. cb' = [cb EXCEPT ![n] = "handle_event"]
      BY <1>20 DEF Accept
    <3> QED BY <1>0, <2>2, <3>1 DEF TypeOK, IoTypeOK
  <2> HIDE DEF n
  <2>6. ~ (n <= made)
    BY <2>4
  <2>7. \A i \in Io : i <= made => i <= made'
    BY <2>2, <2>4 DEF Io
  <2>8. \A i \in Io : i # n => Persists(i)
    BY <2>2 DEF Persists, Readable
  <2>9. n \in raced => Persists(n)
    BY <2>3 DEF Persists
  <2> QED BY <2>2, <2>3, <2>4, <2>5, <2>6, <2>7, <2>8, <2>9 DEF Grows
<1>21. ASSUME NEW f \in Fd, Connect(f) PROVE Grows
  <2> DEFINE n == made + 1
  <2>1. GetIo(f, "syn") \/ GetIo(f, "up")
    BY <1>21 DEF Connect
  <2>2. /\ n \in Io /\ made' = n
        /\ \A i \in Io : i # n => fd'[i] = fd[i] /\ peer'[i] = peer[i]
        /\ \A g \in Fd : io_array'[g] = IF g = f THEN n ELSE io_array[g]
        /\ cb[n] = "none" /\ UNCHANGED unread
    BY <1>0, <1>21, <2>1, GetIoEffect
  <2>3. UNCHANGED <<raced, stale>>
    BY <1>21 DEF Connect
  <2>4. made \in Nat /\ n = made + 1 /\ n # NoIo
    BY <1>0, <2>2 DEF TypeOK, IoTypeOK, Io, NoIo
  <2>5. \A i \in Io : cb[i] # "none" => cb'[i] # "none"
    <3>1. cb' = [cb EXCEPT ![n] = "handle_event"]
      BY <1>21 DEF Connect
    <3> QED BY <1>0, <2>2, <3>1 DEF TypeOK, IoTypeOK
  <2> HIDE DEF n
  <2>6. ~ (n <= made)
    BY <2>4
  <2>7. \A i \in Io : i <= made => i <= made'
    BY <2>2, <2>4 DEF Io
  <2>8. \A i \in Io : i # n => Persists(i)
    BY <2>2 DEF Persists, Readable
  <2>9. n \in raced => Persists(n)
    BY <2>3 DEF Persists
  <2> QED BY <2>2, <2>3, <2>4, <2>5, <2>6, <2>7, <2>8, <2>9 DEF Grows
<1>22. ASSUME NEW f \in Fd, OtherGetIo(f) PROVE Grows
  <2> DEFINE n == made + 1
  <2>1. GetIo(f, "syn") \/ GetIo(f, "up")
    BY <1>22 DEF OtherGetIo
  <2>2. /\ n \in Io /\ made' = n
        /\ \A i \in Io : i # n => fd'[i] = fd[i] /\ peer'[i] = peer[i]
        /\ \A g \in Fd : io_array'[g] = IF g = f THEN n ELSE io_array[g]
        /\ cb[n] = "none" /\ UNCHANGED unread
    BY <1>0, <1>22, <2>1, GetIoEffect
  <2>3. UNCHANGED <<raced, stale>>
    BY <1>22 DEF OtherGetIo
  <2>4. made \in Nat /\ n = made + 1 /\ n # NoIo
    BY <1>0, <2>2 DEF TypeOK, IoTypeOK, Io, NoIo
  <2>5. \A i \in Io : cb[i] # "none" => cb'[i] # "none"
    BY <1>22 DEF OtherGetIo
  <2> HIDE DEF n
  <2>6. ~ (n <= made)
    BY <2>4
  <2>7. \A i \in Io : i <= made => i <= made'
    BY <2>2, <2>4 DEF Io
  <2>8. \A i \in Io : i # n => Persists(i)
    BY <2>2 DEF Persists, Readable
  <2>9. n \in raced => Persists(n)
    BY <2>3 DEF Persists
  <2> QED BY <2>2, <2>3, <2>4, <2>5, <2>6, <2>7, <2>8, <2>9 DEF Grows
<1>23. CASE UNCHANGED vars
  BY <1>23, NothingMoves DEF vars, ios, kernel
<1> QED
  BY <1>1, <1>2, <1>3, <1>4, <1>5, <1>6, <1>7, <1>8, <1>9, <1>10, <1>11, <1>12, <1>13, <1>14, <1>15, <1>16, <1>17, <1>18, <1>19, <1>20, <1>21, <1>22, <1>23 DEF Next, LoopStep, OtherStep

-----------------------------------------------------------------------------
(* The pass of the loop.                                                   *)

LEMMA CurStep == Inv /\ [Next]_vars => CurOK'
<1> SUFFICES ASSUME Inv, [Next]_vars
             PROVE  CurOK'
  OBVIOUS
<1>0. TypeOK /\ OwnerOK /\ OtherOK /\ CurOK /\ Grows
  BY GrowsStep DEF Inv
<1>1. CASE Return
  BY <1>0, <1>1 DEF Return, ios, CurOK, InHandler, TypeOK, LoopTypeOK
<1>2. CASE Wait
  <2>1. /\ pc \in {"wait", "report", "pass"} /\ pc' \in {"wait", "report", "pass"}
        /\ cur' = cur
    BY <1>2 DEF Wait
  <2>2. cur = NoIo
    BY <1>0, <2>1 DEF CurOK, InHandler
  <2> QED BY <2>1, <2>2 DEF CurOK, InHandler
<1>3. CASE Report
  <2>1. /\ pc \in {"wait", "report", "pass"} /\ pc' \in {"wait", "report", "pass"}
        /\ cur' = cur
    BY <1>3 DEF Report
  <2>2. cur = NoIo
    BY <1>0, <2>1 DEF CurOK, InHandler
  <2> QED BY <2>1, <2>2 DEF CurOK, InHandler
<1>4. CASE Take
  <2> DEFINE i == Head(list)
  <2>1. i \in Io /\ i # NoIo
    <3>1. i \in Io
      BY <1>0, <1>4, HeadTailProperties DEF Take, TypeOK, LoopTypeOK
    <3>2. NoIo \notin Io
      BY DEF Io, NoIo
    <3> QED BY <3>1, <3>2
  <2>2. pc = "pass" /\ cb' = cb
    BY <1>4 DEF Take, ios
  <2>3. cur = NoIo
    BY <1>0, <2>2 DEF CurOK, InHandler
  <2>4. \/ UNCHANGED <<cur, pc>>
        \/ cb[i] = "handle_event" /\ cur' = i /\ pc' = "read"
        \/ cb[i] = "handle_event" /\ cur' = i /\ pc' = "user" /\ connect' = [connect EXCEPT ![i] = FALSE]
    BY <1>4 DEF Take
  <2> HIDE DEF i
  <2>5. CASE UNCHANGED <<cur, pc>>
    BY <2>2, <2>3, <2>5 DEF CurOK, InHandler
  <2>6. CASE cb[i] = "handle_event" /\ cur' = i /\ pc' = "read"
    BY <2>1, <2>2, <2>6 DEF CurOK, InHandler
  <2>7. CASE cb[i] = "handle_event" /\ cur' = i /\ pc' = "user" /\ connect' = [connect EXCEPT ![i] = FALSE]
    <3>1. ~connect'[i]
      BY <1>0, <2>1, <2>7 DEF TypeOK, IoTypeOK
    <3> QED BY <2>1, <2>2, <2>7, <3>1 DEF CurOK, InHandler
  <2> QED BY <2>4, <2>5, <2>6, <2>7
<1>5. CASE EndPass
  <2>1. /\ pc \in {"wait", "report", "pass"} /\ pc' \in {"wait", "report", "pass"}
        /\ cur' = cur
    BY <1>5 DEF EndPass
  <2>2. cur = NoIo
    BY <1>0, <2>1 DEF CurOK, InHandler
  <2> QED BY <2>1, <2>2 DEF CurOK, InHandler
<1>6. CASE ReadEnable
  <2>1. pc = "enable" /\ pc' = "read" /\ UNCHANGED <<cur, connect>>
    BY <1>6 DEF ReadEnable
  <2>2. cur \in Io /\ cb[cur] # "none"
    BY <1>0, <2>1 DEF CurOK, InHandler, TypeOK, LoopTypeOK
  <2>3. cb'[cur] # "none"
    BY <1>0, <2>2 DEF Grows
  <2> QED BY <1>0, <2>1, <2>3 DEF CurOK, InHandler
<1>7. CASE ReadSome
  <2>1. pc = "read" /\ pc' = "user" /\ after' = "done" /\ UNCHANGED <<cur, cb, connect>>
    BY <1>7 DEF ReadSome, ios
  <2> QED BY <1>0, <2>1 DEF CurOK, InHandler
<1>8. CASE ReadEnd
  BY <1>8 DEF ReadEnd, CurOK, InHandler
<1>9. CASE ReadNothing
  BY <1>9 DEF ReadNothing, CurOK, InHandler
<1>10. CASE Done
  BY <1>10 DEF Done, CurOK, InHandler
<1>11. CASE OtherAdd
  <2>1. UNCHANGED <<pc, cur, after>>
    BY <1>11 DEF OtherAdd
  <2>2. \A j \in Io : cb[j] # "none" => connect'[j] = connect[j]
    <3>1. otherIo \in Io /\ cb[otherIo] = "none"
      BY <1>0, <1>11 DEF OtherAdd, OtherOK
    <3>2. connect' = connect \/ connect' = [connect EXCEPT ![otherIo] = TRUE]
      BY <1>11 DEF OtherAdd
    <3> QED BY <1>0, <3>1, <3>2 DEF TypeOK, IoTypeOK
  <2> QED
    <3>1. CASE cur = NoIo
      BY <1>0, <2>1, <3>1 DEF CurOK, InHandler
    <3>2. CASE cur # NoIo
      <4>1. cur \in Io /\ cb[cur] # "none"
        BY <1>0, <3>2 DEF CurOK, TypeOK, LoopTypeOK
      <4>2. cb'[cur] # "none"
        BY <1>0, <4>1 DEF Grows
      <4>3. connect'[cur] = connect[cur]
        BY <2>2, <4>1
      <4> QED BY <1>0, <2>1, <4>2, <4>3 DEF CurOK
    <3> QED BY <3>1, <3>2
<1>12. CASE OtherDelete
  <2>1. UNCHANGED <<pc, cur, cb, after, connect>>
    BY <1>12 DEF OtherDelete, ios
  <2> QED BY <1>0, <2>1 DEF CurOK
<1>13. CASE OtherCloseFd
  <2>1. UNCHANGED <<pc, cur, cb, after, connect>>
    BY <1>13 DEF OtherCloseFd, ios
  <2> QED BY <1>0, <2>1 DEF CurOK
<1>14. ASSUME NEW i \in Io, Close(i) PROVE CurOK'
  <2>1. UNCHANGED <<pc, cur, cb, after, connect>>
    BY <1>14 DEF Close, ios
  <2> QED BY <1>0, <2>1 DEF CurOK
<1>15. ASSUME NEW i \in Io, WriteRest(i) PROVE CurOK'
  <2>1. UNCHANGED <<pc, cur, after>>
    BY <1>15 DEF WriteRest
  <2>2. UNCHANGED connect
    BY <1>15 DEF WriteRest
  <2> QED
    <3>1. CASE cur = NoIo
      BY <1>0, <2>1, <3>1 DEF CurOK, InHandler
    <3>2. CASE cur # NoIo
      <4>1. cur \in Io /\ cb[cur] # "none"
        BY <1>0, <3>2 DEF CurOK, TypeOK, LoopTypeOK
      <4>2. cb'[cur] # "none"
        BY <1>0, <4>1 DEF Grows
      <4>3. connect'[cur] = connect[cur]
        BY <2>2, <4>1
      <4> QED BY <1>0, <2>1, <4>2, <4>3 DEF CurOK
    <3> QED BY <3>1, <3>2
<1>16. ASSUME NEW i \in Io, OtherClose(i) PROVE CurOK'
  <2>1. UNCHANGED <<pc, cur, cb, after, connect>>
    BY <1>16 DEF OtherClose, ios
  <2> QED BY <1>0, <2>1 DEF CurOK
<1>17. ASSUME NEW i \in Io, PeerAnswers(i) PROVE CurOK'
  <2>1. UNCHANGED <<pc, cur, cb, after, connect>>
    BY <1>17 DEF PeerAnswers, ios
  <2> QED BY <1>0, <2>1 DEF CurOK
<1>18. ASSUME NEW i \in Io, PeerSends(i) PROVE CurOK'
  <2>1. UNCHANGED <<pc, cur, cb, after, connect>>
    BY <1>18 DEF PeerSends, ios
  <2> QED BY <1>0, <2>1 DEF CurOK
<1>19. ASSUME NEW i \in Io, PeerCloses(i) PROVE CurOK'
  <2>1. UNCHANGED <<pc, cur, cb, after, connect>>
    BY <1>19 DEF PeerCloses, ios
  <2> QED BY <1>0, <2>1 DEF CurOK
<1>20. ASSUME NEW f \in Fd, Accept(f) PROVE CurOK'
  <2>1. UNCHANGED <<pc, cur, after>>
    BY <1>20 DEF Accept
  <2>2. UNCHANGED connect
    BY <1>20 DEF Accept
  <2> QED
    <3>1. CASE cur = NoIo
      BY <1>0, <2>1, <3>1 DEF CurOK, InHandler
    <3>2. CASE cur # NoIo
      <4>1. cur \in Io /\ cb[cur] # "none"
        BY <1>0, <3>2 DEF CurOK, TypeOK, LoopTypeOK
      <4>2. cb'[cur] # "none"
        BY <1>0, <4>1 DEF Grows
      <4>3. connect'[cur] = connect[cur]
        BY <2>2, <4>1
      <4> QED BY <1>0, <2>1, <4>2, <4>3 DEF CurOK
    <3> QED BY <3>1, <3>2
<1>21. ASSUME NEW f \in Fd, Connect(f) PROVE CurOK'
  <2>1. UNCHANGED <<pc, cur, after>>
    BY <1>21 DEF Connect
  <2>2. \A j \in Io : cb[j] # "none" => connect'[j] = connect[j]
    <3>1. made + 1 \in Io /\ cb[made + 1] = "none"
      BY <1>0, <1>21, GetIoEffect DEF Connect
    <3>2. connect' = [connect EXCEPT ![made + 1] = TRUE]
      BY <1>21 DEF Connect
    <3> QED BY <1>0, <3>1, <3>2 DEF TypeOK, IoTypeOK
  <2> QED
    <3>1. CASE cur = NoIo
      BY <1>0, <2>1, <3>1 DEF CurOK, InHandler
    <3>2. CASE cur # NoIo
      <4>1. cur \in Io /\ cb[cur] # "none"
        BY <1>0, <3>2 DEF CurOK, TypeOK, LoopTypeOK
      <4>2. cb'[cur] # "none"
        BY <1>0, <4>1 DEF Grows
      <4>3. connect'[cur] = connect[cur]
        BY <2>2, <4>1
      <4> QED BY <1>0, <2>1, <4>2, <4>3 DEF CurOK
    <3> QED BY <3>1, <3>2
<1>22. ASSUME NEW f \in Fd, OtherGetIo(f) PROVE CurOK'
  <2>1. UNCHANGED <<pc, cur, cb, after, connect>>
    BY <1>22 DEF OtherGetIo, ios
  <2> QED BY <1>0, <2>1 DEF CurOK
<1>23. CASE UNCHANGED vars
  BY <1>0, <1>23 DEF vars, ios, CurOK
<1> QED
  BY <1>1, <1>2, <1>3, <1>4, <1>5, <1>6, <1>7, <1>8, <1>9, <1>10, <1>11, <1>12, <1>13, <1>14, <1>15, <1>16, <1>17, <1>18, <1>19, <1>20, <1>21, <1>22, <1>23 DEF Next, LoopStep, OtherStep

\* What the reports say remains so.
LEMMA StillTrue ==
    ASSUME TypeOK, ReportOK, Grows, report # << >>, CurOK, NEW n \in 1 .. Len(report)
    PROVE  /\ io_array'[report[n].fd] # NoIo /\ report[n].owner <= made'
           /\ report[n].fd \notin stale' => cb'[report[n].owner] # "none"
           /\ \A i, evs : i = report[n].owner /\ evs = report[n].evs => Evidence(i, evs)'
<1> DEFINE f == report[n].fd
           o == report[n].owner
<1>1. f \in Fd /\ o \in Io
  <2>1. report[n] \in Found
    BY ElementOfSeq DEF TypeOK, LoopTypeOK
  <2> QED BY <2>1 DEF Found
<1>2. /\ io_array[f] # NoIo /\ o <= made
      /\ f \notin stale => cb[o] # "none"
      /\ Evidence(o, report[n].evs)
  BY DEF ReportOK
<1>3. ~ReadSome
  BY DEF ReportOK, ReadSome
<1> HIDE DEF f, o
<1>4. Persists(o)
  BY <1>1, <1>2, <1>3 DEF Grows
<1>5. ASSUME NEW i, NEW evs, i = o, evs = report[n].evs
      PROVE  Evidence(i, evs)'
  <2>1. i \in Io /\ Evidence(i, evs) /\ Persists(i)
    BY <1>1, <1>2, <1>4, <1>5
  <2>2. raced \subseteq raced'
    BY DEF Grows
  <2> QED BY <2>1, <2>2 DEF Persists, Evidence
<1>6. io_array'[f] # NoIo /\ o <= made' /\ (f \notin stale' => cb'[o] # "none")
  BY <1>1, <1>2 DEF Grows
<1> QED
  BY <1>5, <1>6 DEF f, o

LEMMA ReportStays ==
    ASSUME TypeOK, ReportOK, CurOK, Grows, UNCHANGED report, pc = "report" <=> pc' = "report"
    PROVE  ReportOK'
<1>1. pc' = "report" <=> report' # << >>
  BY DEF ReportOK
<1>2. ASSUME NEW n \in 1 .. Len(report')
      PROVE  /\ io_array'[report'[n].fd] # NoIo /\ report'[n].owner <= made'
             /\ report'[n].fd \notin stale' => cb'[report'[n].owner] # "none"
             /\ Evidence(report[n].owner, report[n].evs)'
  <2>1. n \in 1 .. Len(report) /\ report # << >> /\ report'[n] = report[n]
    BY <1>2
  <2>2. /\ io_array'[report[n].fd] # NoIo /\ report[n].owner <= made'
        /\ report[n].fd \notin stale' => cb'[report[n].owner] # "none"
        /\ \A j, ev : j = report[n].owner /\ ev = report[n].evs => Evidence(j, ev)'
    BY <2>1, StillTrue
  <2>3. Evidence(report[n].owner, report[n].evs)'
    <3>1. \A j, ev : j = report'[n].owner /\ ev = report'[n].evs => Evidence(j, ev)'
      BY <2>1, <2>2
    <3> QED BY <3>1 DEF Evidence
  <2> QED BY <2>1, <2>2, <2>3
<1> QED
  BY <1>1, <1>2 DEF ReportOK

LEMMA ReportOKStep == Inv /\ [Next]_vars => ReportOK'
<1> SUFFICES ASSUME Inv, [Next]_vars
             PROVE  ReportOK'
  OBVIOUS
<1>0. TypeOK /\ TypeOK' /\ OwnerOK /\ TableOK /\ ReportOK /\ CurOK /\ Grows
  BY TypeStep, GrowsStep DEF Inv
<1>1. CASE Return
  <2>1. UNCHANGED report /\ (pc = "report" <=> pc' = "report")
    BY <1>0, <1>1 DEF Return, LoopTypeOK, TypeOK
  <2> QED BY <1>0, <2>1, ReportStays
<1>2. CASE Wait
  <2>1. PICK room \in SUBSET {f \in OpenFds : peer[OwnerOf(f)] = "up"} :
          \E found \in Reports(kind, table, Ready(room)) :
            report' = IF IsBlind(kind, table, OpenFds) THEN << >>
                      ELSE [k \in DOMAIN found |->
                              [fd |-> found[k].fd, evs |-> found[k].evs,
                               owner |-> OwnerOf(found[k].fd)]]
    BY <1>2 DEF Wait
  <2>2. \A n \in 1 .. Len(report') :
          /\ fd[report'[n].owner] = report'[n].fd
          /\ \E k \in 1 .. Len(table) :
               table[k].fd = report'[n].fd /\ report'[n].evs \subseteq table[k].evs /\ report'[n].evs # {}
          /\ "read" \in report'[n].evs => Readable(report'[n].owner)
          /\ "write" \in report'[n].evs => peer[report'[n].owner] # "syn"
    <3>1. Reported(report')
      BY <1>0, <2>1, FoundReports
    <3> QED BY <3>1 DEF Reported
  <2>3. pc' = IF report' = << >> THEN "wait" ELSE "report"
    BY <1>2 DEF Wait
  <2>4. /\ UNCHANGED <<made, fd, cb, io_array, peer, unread, raced, stale>>
    BY <1>2 DEF Wait, ios, kernel
  <2>5. ASSUME NEW n \in 1 .. Len(report')
        PROVE  /\ io_array[report'[n].fd] # NoIo /\ report'[n].owner <= made
               /\ report'[n].fd \notin stale => cb[report'[n].owner] # "none"
               /\ Evidence(report'[n].owner, report'[n].evs)
    <3> DEFINE f == report'[n].fd
               evs == report'[n].evs
               o == report'[n].owner
    <3>1. f \in Fd /\ o \in Io
      <4>1. report' \in Seq(Found)
        BY <1>0 DEF TypeOK, LoopTypeOK
      <4>2. report'[n] \in Found
        BY <4>1, ElementOfSeq
      <4> QED BY <4>2 DEF Found
    <3>2. /\ fd[o] = f
          /\ "read" \in evs => Readable(o)
          /\ "write" \in evs => peer[o] # "syn"
      BY <2>2
    <3>3. PICK k \in 1 .. Len(table) : table[k].fd = f /\ evs \subseteq table[k].evs /\ evs # {}
      BY <2>2
    <3> HIDE DEF f, evs, o
    <3>4. f # NoFd
      BY <3>1 DEF Fd, NoFd
    <3>5. io_array[f] # NoIo
      BY <1>0, <3>3 DEF TableOK
    <3>6. ~ (o > made) /\ o <= made
      <4>1. ~ (o > made)
        BY <1>0, <3>1, <3>2, <3>4 DEF OwnerOK
      <4>2. o \in Int /\ made \in Int
        BY <1>0, <3>1 DEF TypeOK, IoTypeOK, Io
      <4> QED BY <4>1, <4>2
    <3>7. ASSUME f \notin stale PROVE cb[o] # "none"
      <4>1. Asked(kind, table, f, events[o])
        BY <1>0, <3>1, <3>2, <3>4, <3>7 DEF TableOK
      <4>2. k \in EntriesOf(table, f)
        BY <1>0, <3>3, Entries DEF TypeOK
      <4>3. events[o] # {}
        BY <3>3, <4>1, <4>2 DEF Asked
      <4> QED BY <1>0, <3>1, <4>3 DEF OwnerOK
    <3>8. Evidence(o, evs)
      BY <3>2 DEF Evidence
    <3> QED BY <3>5, <3>6, <3>7, <3>8 DEF f, evs, o
  <2>6. \A n \in 1 .. Len(report') : Evidence(report'[n].owner, report'[n].evs)
            => Evidence(report[n].owner, report[n].evs)'
    BY <2>4 DEF Evidence, Readable
  <2> QED BY <2>3, <2>4, <2>5, <2>6 DEF ReportOK
<1>3. CASE Report
  <2>1. /\ report # << >> /\ report' = Tail(report)
        /\ pc' = IF report' = << >> THEN "pass" ELSE "report"
    BY <1>0, <1>3 DEF Report, ReportOK
  <2>2. /\ Tail(report) \in Seq(Found) /\ Len(Tail(report)) = Len(report) - 1
        /\ \A n \in 1 .. Len(Tail(report)) : n + 1 \in 1 .. Len(report) /\ Tail(report)[n] = report[n + 1]
    <3>1. report \in Seq(Found)
      BY <1>0 DEF TypeOK, LoopTypeOK
    <3>2. /\ Tail(report) \in Seq(Found) /\ Len(Tail(report)) = Len(report) - 1
          /\ \A n \in 1 .. Len(Tail(report)) : Tail(report)[n] = report[n + 1]
      BY <2>1, <3>1, HeadTailProperties
    <3> QED BY <3>1, <3>2
  <2>3. ASSUME NEW n \in 1 .. Len(report')
        PROVE  /\ io_array'[report'[n].fd] # NoIo /\ report'[n].owner <= made'
               /\ report'[n].fd \notin stale' => cb'[report'[n].owner] # "none"
               /\ Evidence(report[n].owner, report[n].evs)'
    <3>1. n + 1 \in 1 .. Len(report) /\ report'[n] = report[n + 1]
      BY <2>1, <2>2
    <3>2. /\ io_array'[report[n + 1].fd] # NoIo /\ report[n + 1].owner <= made'
          /\ report[n + 1].fd \notin stale' => cb'[report[n + 1].owner] # "none"
          /\ \A j, ev : j = report[n + 1].owner /\ ev = report[n + 1].evs => Evidence(j, ev)'
      BY <1>0, <2>1, <3>1, StillTrue
    <3>3. Evidence(report[n].owner, report[n].evs)'
      <4>1. \A j, ev : j = report'[n].owner /\ ev = report'[n].evs => Evidence(j, ev)'
        BY <3>1, <3>2
      <4> QED BY <4>1 DEF Evidence
    <3> QED BY <3>1, <3>2, <3>3
  <2> QED BY <2>1, <2>3 DEF ReportOK
<1>4. CASE Take
  <2>1. UNCHANGED report /\ (pc = "report" <=> pc' = "report")
    BY <1>0, <1>4 DEF Take, LoopTypeOK, TypeOK
  <2> QED BY <1>0, <2>1, ReportStays
<1>5. CASE EndPass
  <2>1. UNCHANGED report /\ (pc = "report" <=> pc' = "report")
    BY <1>0, <1>5 DEF EndPass, LoopTypeOK, TypeOK
  <2> QED BY <1>0, <2>1, ReportStays
<1>6. CASE ReadEnable
  <2>1. UNCHANGED report /\ (pc = "report" <=> pc' = "report")
    BY <1>0, <1>6 DEF ReadEnable, LoopTypeOK, TypeOK
  <2> QED BY <1>0, <2>1, ReportStays
<1>7. CASE ReadSome
  <2>1. UNCHANGED report /\ pc = "read" /\ pc' = "user"
    BY <1>7 DEF ReadSome
  <2>2. report = << >>
    BY <1>0, <2>1 DEF ReportOK
  <2> QED BY <2>1, <2>2 DEF ReportOK
<1>8. CASE ReadEnd
  <2>1. UNCHANGED report /\ (pc = "report" <=> pc' = "report")
    BY <1>0, <1>8 DEF ReadEnd, LoopTypeOK, TypeOK
  <2> QED BY <1>0, <2>1, ReportStays
<1>9. CASE ReadNothing
  <2>1. UNCHANGED report /\ (pc = "report" <=> pc' = "report")
    BY <1>0, <1>9 DEF ReadNothing, LoopTypeOK, TypeOK
  <2> QED BY <1>0, <2>1, ReportStays
<1>10. CASE Done
  <2>1. UNCHANGED report /\ (pc = "report" <=> pc' = "report")
    BY <1>0, <1>10 DEF Done, LoopTypeOK, TypeOK
  <2> QED BY <1>0, <2>1, ReportStays
<1>11. CASE OtherAdd
  <2>1. UNCHANGED report /\ (pc = "report" <=> pc' = "report")
    BY <1>0, <1>11 DEF OtherAdd, LoopTypeOK, TypeOK
  <2> QED BY <1>0, <2>1, ReportStays
<1>12. CASE OtherDelete
  <2>1. UNCHANGED report /\ (pc = "report" <=> pc' = "report")
    BY <1>0, <1>12 DEF OtherDelete, LoopTypeOK, TypeOK
  <2> QED BY <1>0, <2>1, ReportStays
<1>13. CASE OtherCloseFd
  <2>1. UNCHANGED report /\ (pc = "report" <=> pc' = "report")
    BY <1>0, <1>13 DEF OtherCloseFd, LoopTypeOK, TypeOK
  <2> QED BY <1>0, <2>1, ReportStays
<1>14. ASSUME NEW i \in Io, Close(i) PROVE ReportOK'
  <2>1. UNCHANGED report /\ (pc = "report" <=> pc' = "report")
    BY <1>0, <1>14 DEF Close, LoopTypeOK, TypeOK
  <2> QED BY <1>0, <2>1, ReportStays
<1>15. ASSUME NEW i \in Io, WriteRest(i) PROVE ReportOK'
  <2>1. UNCHANGED report /\ (pc = "report" <=> pc' = "report")
    BY <1>0, <1>15 DEF WriteRest, LoopTypeOK, TypeOK
  <2> QED BY <1>0, <2>1, ReportStays
<1>16. ASSUME NEW i \in Io, OtherClose(i) PROVE ReportOK'
  <2>1. UNCHANGED report /\ (pc = "report" <=> pc' = "report")
    BY <1>0, <1>16 DEF OtherClose, LoopTypeOK, TypeOK
  <2> QED BY <1>0, <2>1, ReportStays
<1>17. ASSUME NEW i \in Io, PeerAnswers(i) PROVE ReportOK'
  <2>1. UNCHANGED report /\ (pc = "report" <=> pc' = "report")
    BY <1>0, <1>17 DEF PeerAnswers, LoopTypeOK, TypeOK
  <2> QED BY <1>0, <2>1, ReportStays
<1>18. ASSUME NEW i \in Io, PeerSends(i) PROVE ReportOK'
  <2>1. UNCHANGED report /\ (pc = "report" <=> pc' = "report")
    BY <1>0, <1>18 DEF PeerSends, LoopTypeOK, TypeOK
  <2> QED BY <1>0, <2>1, ReportStays
<1>19. ASSUME NEW i \in Io, PeerCloses(i) PROVE ReportOK'
  <2>1. UNCHANGED report /\ (pc = "report" <=> pc' = "report")
    BY <1>0, <1>19 DEF PeerCloses, LoopTypeOK, TypeOK
  <2> QED BY <1>0, <2>1, ReportStays
<1>20. ASSUME NEW f \in Fd, Accept(f) PROVE ReportOK'
  <2>1. UNCHANGED report /\ (pc = "report" <=> pc' = "report")
    BY <1>0, <1>20 DEF Accept, LoopTypeOK, TypeOK
  <2> QED BY <1>0, <2>1, ReportStays
<1>21. ASSUME NEW f \in Fd, Connect(f) PROVE ReportOK'
  <2>1. UNCHANGED report /\ (pc = "report" <=> pc' = "report")
    BY <1>0, <1>21 DEF Connect, LoopTypeOK, TypeOK
  <2> QED BY <1>0, <2>1, ReportStays
<1>22. ASSUME NEW f \in Fd, OtherGetIo(f) PROVE ReportOK'
  <2>1. UNCHANGED report /\ (pc = "report" <=> pc' = "report")
    BY <1>0, <1>22 DEF OtherGetIo, LoopTypeOK, TypeOK
  <2> QED BY <1>0, <2>1, ReportStays
<1>23. CASE UNCHANGED vars
  <2>1. UNCHANGED report /\ (pc = "report" <=> pc' = "report")
    BY <1>23 DEF vars
  <2> QED BY <1>0, <2>1, ReportStays
<1> QED
  BY <1>1, <1>2, <1>3, <1>4, <1>5, <1>6, <1>7, <1>8, <1>9, <1>10, <1>11, <1>12, <1>13, <1>14, <1>15, <1>16, <1>17, <1>18, <1>19, <1>20, <1>21, <1>22, <1>23 DEF Next, LoopStep, OtherStep

LEMMA ListStays ==
    ASSUME TypeOK, ListOK, Grows, UNCHANGED <<list, pending, cur>>
    PROVE  ListOK'
<1>1. \A n \in 1 .. Len(list) : list[n] \in Io
  BY ElementOfSeq DEF TypeOK, LoopTypeOK
<1> QED
  BY <1>1 DEF ListOK, Grows

\* The event that the loop was at is done.
LEMMA Unlisted ==
    ASSUME TypeOK, ListOK, CurOK, Grows, pc \in InHandler, cur' = NoIo, list' = list,
           pending' = [pending EXCEPT ![cur] = FALSE]
    PROVE  ListOK'
<1>1. \A n \in 1 .. Len(list) : list[n] \in Io
  BY ElementOfSeq DEF TypeOK, LoopTypeOK
<1>2. cur \in Io /\ NoIo \notin Io
  BY DEF CurOK, TypeOK, LoopTypeOK, NoIo, Io
<1>3. ~pending'[cur] /\ \A j \in Io : j # cur => pending'[j] = pending[j]
  BY <1>2 DEF TypeOK, IoTypeOK
<1> QED
  BY <1>1, <1>2, <1>3 DEF ListOK, Grows

LEMMA ListStep == Inv /\ [Next]_vars => ListOK'
<1> SUFFICES ASSUME Inv, [Next]_vars
             PROVE  ListOK'
  OBVIOUS
<1>0. TypeOK /\ OwnerOK /\ ReportOK /\ ListOK /\ CurOK /\ Grows
  BY GrowsStep DEF Inv
<1>1. CASE Return
  <2>1. UNCHANGED <<list, pending, cur>>
    BY <1>1 DEF Return, ios
  <2> QED BY <1>0, <2>1, ListStays
<1>2. CASE Wait
  <2>1. UNCHANGED <<list, pending, cur>>
    BY <1>2 DEF Wait, ios
  <2> QED BY <1>0, <2>1, ListStays
<1>3. CASE Report
  <2> DEFINE hit == Head(report)
             i == io_array[hit.fd]
  <2>1. /\ pc = "report" /\ report # << >>
        /\ pending' = [pending EXCEPT ![i] = TRUE]
        /\ list' = IF pending[i] THEN list ELSE <<i>> \o list
        /\ raced' = IF i = hit.owner /\ hit.fd \notin stale THEN raced ELSE raced \cup {i}
        /\ UNCHANGED <<cb, cur>>
    BY <1>0, <1>3 DEF Report, Mark, ReportOK
  <2>2. hit \in Found /\ hit = report[1] /\ 1 \in 1 .. Len(report)
    BY <1>0, <2>1, HeadTailProperties, EmptySeq DEF TypeOK, LoopTypeOK
  <2>3. i \in Io
    BY <1>0, <2>2 DEF TypeOK, IoTypeOK, ReportOK, Found
  <2>4. cb[i] = "none" => i \in raced'
    BY <1>0, <2>1, <2>2 DEF ReportOK
  <2> HIDE DEF i, hit
  <2>5. cur = NoIo
    BY <1>0, <2>1 DEF CurOK, InHandler
  <2>6. pending'[i] /\ \A j \in Io : j # i => pending'[j] = pending[j]
    BY <1>0, <2>1, <2>3 DEF TypeOK, IoTypeOK
  <2>7. raced \subseteq raced'
    BY <2>1
  <2>8. NoIo \notin Io
    BY DEF NoIo, Io
  <2>9. CASE pending[i]
    <3>1. UNCHANGED <<list, cur, cb>> /\ \A j \in Io : pending'[j] = pending[j]
      BY <1>0, <2>1, <2>3, <2>6, <2>9 DEF TypeOK, IoTypeOK
    <3>2. \A n \in 1 .. Len(list) : list[n] \in Io
      BY <1>0, ElementOfSeq DEF TypeOK, LoopTypeOK
    <3> QED BY <1>0, <2>7, <3>1, <3>2 DEF ListOK
  <2>10. CASE ~pending[i]
    <3>1. list \in Seq(Io) /\ Len(list) \in Nat
      BY <1>0 DEF TypeOK, LoopTypeOK
    <3>2. list' = <<i>> \o list
      BY <2>1, <2>10
    <3>3. /\ Len(list') = Len(list) + 1 /\ list'[1] = i
          /\ \A n \in 1 .. Len(list) : list'[n + 1] = list[n]
      <4>1. <<i>> \in Seq(Io) /\ Len(<<i>>) = 1 /\ <<i>>[1] = i
        BY <2>3
      <4>2. /\ Len(list') = 1 + Len(list)
            /\ \A n \in 1 .. 1 + Len(list) : list'[n] = IF n <= 1 THEN <<i>>[n] ELSE list[n - 1]
        BY <3>1, <3>2, <4>1, ConcatProperties
      <4>3. ASSUME NEW n \in 1 .. Len(list) PROVE list'[n + 1] = list[n]
        <5>1. n + 1 \in 1 .. 1 + Len(list) /\ ~ (n + 1 <= 1) /\ (n + 1) - 1 = n
          BY <3>1
        <5> QED BY <4>2, <5>1
      <4>4. 1 \in 1 .. 1 + Len(list) /\ 1 + Len(list) = Len(list) + 1
        BY <3>1
      <4> QED BY <4>1, <4>2, <4>3, <4>4
    <3>4. \A m \in 1 .. Len(list') : m = 1 \/ \E n \in 1 .. Len(list) : m = n + 1
      <4>1. ASSUME NEW m \in 1 .. Len(list'), m # 1 PROVE m - 1 \in 1 .. Len(list) /\ m = (m - 1) + 1
        BY <3>1, <3>3, <4>1
      <4> QED BY <4>1
    <3>5. \A n \in 1 .. Len(list) : list[n] \in Io /\ pending[list[n]] /\ list[n] # i
      <4>1. ASSUME NEW n \in 1 .. Len(list) PROVE list[n] \in Io /\ pending[list[n]]
        BY <1>0, <3>1, ElementOfSeq DEF ListOK
      <4> QED BY <2>10, <4>1
    <3>6. ASSUME NEW m \in 1 .. Len(list'), NEW n \in 1 .. Len(list'), list'[m] = list'[n]
          PROVE  m = n
      <4>1. \A k, l \in 1 .. Len(list) : list[k] = list[l] => k = l
        BY <1>0 DEF ListOK
      <4>2. CASE m = 1 \/ n = 1
        BY <3>3, <3>4, <3>5, <3>6, <4>2
      <4>3. CASE m # 1 /\ n # 1
        <5>1. PICK k \in 1 .. Len(list) : m = k + 1
          BY <3>4, <4>3
        <5>2. PICK l \in 1 .. Len(list) : n = l + 1
          BY <3>4, <4>3
        <5>3. list[k] = list[l]
          BY <3>3, <3>6, <5>1, <5>2
        <5>4. k = l
          BY <4>1, <5>3
        <5> QED BY <5>1, <5>2, <5>4
      <4> QED BY <4>2, <4>3
    <3>7. ASSUME NEW m \in 1 .. Len(list')
          PROVE  /\ pending'[list'[m]] /\ list'[m] # cur'
                 /\ cb'[list'[m]] = "none" => list'[m] \in raced'
      BY <1>0, <2>1, <2>3, <2>4, <2>5, <2>6, <2>7, <2>8, <3>3, <3>4, <3>5 DEF ListOK
    <3>8. ASSUME NEW j \in Io, pending'[j], j \notin raced', j # cur'
          PROVE  \E m \in 1 .. Len(list') : list'[m] = j
      <4>1. CASE j = i
        <5>1. 1 \in 1 .. Len(list')
          BY <3>1, <3>3
        <5> QED BY <3>3, <4>1, <5>1
      <4>2. CASE j # i
        <5>1. PICK n \in 1 .. Len(list) : list[n] = j
          BY <1>0, <2>1, <2>6, <2>7, <3>8, <4>2 DEF ListOK
        <5>2. n + 1 \in 1 .. Len(list')
          BY <3>1, <3>3
        <5> QED BY <3>3, <5>1, <5>2
      <4> QED BY <4>1, <4>2
    <3> QED BY <3>6, <3>7, <3>8 DEF ListOK
  <2> QED BY <2>9, <2>10
<1>4. CASE Take
  <2> DEFINE i == Head(list)
  <2>1. /\ list \in Seq(Io) /\ list # << >> /\ Len(list) \in Nat
    BY <1>0, <1>4 DEF Take, TypeOK, LoopTypeOK
  <2>2. /\ i \in Io /\ Len(Tail(list)) = Len(list) - 1
        /\ \A n \in 1 .. Len(Tail(list)) : Tail(list)[n] = list[n + 1]
    BY <2>1, HeadTailProperties
  <2>3. i = list[1] /\ 1 \in 1 .. Len(list)
    BY <2>1, EmptySeq
  <2>4. pc = "pass" /\ list' = Tail(list) /\ UNCHANGED <<cb, raced>>
    BY <1>4 DEF Take, ios
  <2>5. \/ cb[i] = "none" /\ UNCHANGED <<pending, cur>>
        \/ pending' = [pending EXCEPT ![i] = FALSE] /\ UNCHANGED cur
        \/ cur' = i /\ UNCHANGED pending
    BY <1>4 DEF Take, ios, Unmark
  <2> HIDE DEF i
  <2>6. cur = NoIo /\ NoIo \notin Io
    BY <1>0, <2>4 DEF CurOK, InHandler, NoIo, Io
  <2>7. cb[i] = "none" => i \in raced
    BY <1>0, <2>3 DEF ListOK
  <2>8. \A j \in Io : j # i => pending'[j] = pending[j]
    BY <1>0, <2>2, <2>5 DEF TypeOK, IoTypeOK
  <2>9. \A n \in 1 .. Len(list') : n + 1 \in 1 .. Len(list) /\ list'[n] = list[n + 1] /\ n + 1 # 1
    BY <2>1, <2>2, <2>4
  <2>10. \A n \in 1 .. Len(list) : list[n] \in Io
    BY <2>1, ElementOfSeq
  <2>11. \A n \in 1 .. Len(list') : list'[n] # i /\ list'[n] \in Io
    BY <1>0, <2>3, <2>9, <2>10 DEF ListOK
  <2>12. ASSUME NEW m \in 1 .. Len(list'), NEW n \in 1 .. Len(list'), list'[m] = list'[n]
         PROVE  m = n
    BY <1>0, <2>9, <2>12 DEF ListOK
  <2>13. ASSUME NEW m \in 1 .. Len(list')
         PROVE  /\ pending'[list'[m]] /\ list'[m] # cur'
                /\ cb'[list'[m]] = "none" => list'[m] \in raced'
    <3>1. list'[m] # cur'
      BY <2>5, <2>6, <2>11
    <3>2. pending[list[m + 1]] /\ (cb[list[m + 1]] = "none" => list[m + 1] \in raced)
      BY <1>0, <2>9 DEF ListOK
    <3> QED BY <2>4, <2>8, <2>9, <2>11, <3>1, <3>2
  <2>14. ASSUME NEW j \in Io, pending'[j], j \notin raced', j # cur'
         PROVE  \E m \in 1 .. Len(list') : list'[m] = j
    <3>1. j # i
      BY <1>0, <2>2, <2>4, <2>5, <2>7, <2>14 DEF TypeOK, IoTypeOK
    <3>2. pending[j] /\ j # cur
      BY <2>6, <2>8, <2>14, <3>1
    <3>3. PICK n \in 1 .. Len(list) : list[n] = j
      BY <1>0, <2>4, <2>14, <3>2 DEF ListOK
    <3>4. n # 1
      BY <2>3, <3>1, <3>3
    <3>5. n - 1 \in 1 .. Len(list') /\ (n - 1) + 1 = n
      BY <2>1, <2>2, <2>4, <3>4
    <3>6. list'[n - 1] = j
      BY <2>9, <3>3, <3>5
    <3> QED BY <3>5, <3>6
  <2> QED BY <2>12, <2>13, <2>14 DEF ListOK
<1>5. CASE EndPass
  <2>1. UNCHANGED <<list, pending, cur>>
    BY <1>5 DEF EndPass, ios
  <2> QED BY <1>0, <2>1, ListStays
<1>6. CASE ReadEnable
  <2>1. UNCHANGED <<list, pending, cur>>
    BY <1>6 DEF ReadEnable, ios
  <2> QED BY <1>0, <2>1, ListStays
<1>7. CASE ReadSome
  <2>1. UNCHANGED <<list, pending, cur>>
    BY <1>7 DEF ReadSome, ios
  <2> QED BY <1>0, <2>1, ListStays
<1>8. CASE ReadEnd
  <2>1. /\ pc \in InHandler /\ cur' = NoIo /\ list' = list
        /\ pending' = [pending EXCEPT ![cur] = FALSE]
    BY <1>8 DEF ReadEnd, Unmark, InHandler
  <2> QED BY <1>0, <2>1, Unlisted
<1>9. CASE ReadNothing
  <2>1. /\ pc \in InHandler /\ cur' = NoIo /\ list' = list
        /\ pending' = [pending EXCEPT ![cur] = FALSE]
    BY <1>9 DEF ReadNothing, Unmark, InHandler
  <2> QED BY <1>0, <2>1, Unlisted
<1>10. CASE Done
  <2>1. /\ pc \in InHandler /\ cur' = NoIo /\ list' = list
        /\ pending' = [pending EXCEPT ![cur] = FALSE]
    BY <1>10 DEF Done, Unmark, InHandler
  <2> QED BY <1>0, <2>1, Unlisted
<1>11. CASE OtherAdd
  <2>1. UNCHANGED <<list, pending, cur>>
    BY <1>11 DEF OtherAdd, ios
  <2> QED BY <1>0, <2>1, ListStays
<1>12. CASE OtherDelete
  <2>1. UNCHANGED <<list, pending, cur>>
    BY <1>12 DEF OtherDelete, ios
  <2> QED BY <1>0, <2>1, ListStays
<1>13. CASE OtherCloseFd
  <2>1. UNCHANGED <<list, pending, cur>>
    BY <1>13 DEF OtherCloseFd, ios
  <2> QED BY <1>0, <2>1, ListStays
<1>14. ASSUME NEW i \in Io, Close(i) PROVE ListOK'
  <2>1. UNCHANGED <<list, pending, cur>>
    BY <1>14 DEF Close, ios
  <2> QED BY <1>0, <2>1, ListStays
<1>15. ASSUME NEW i \in Io, WriteRest(i) PROVE ListOK'
  <2>1. UNCHANGED <<list, pending, cur>>
    BY <1>15 DEF WriteRest, ios
  <2> QED BY <1>0, <2>1, ListStays
<1>16. ASSUME NEW i \in Io, OtherClose(i) PROVE ListOK'
  <2>1. UNCHANGED <<list, pending, cur>>
    BY <1>16 DEF OtherClose, ios
  <2> QED BY <1>0, <2>1, ListStays
<1>17. ASSUME NEW i \in Io, PeerAnswers(i) PROVE ListOK'
  <2>1. UNCHANGED <<list, pending, cur>>
    BY <1>17 DEF PeerAnswers, ios
  <2> QED BY <1>0, <2>1, ListStays
<1>18. ASSUME NEW i \in Io, PeerSends(i) PROVE ListOK'
  <2>1. UNCHANGED <<list, pending, cur>>
    BY <1>18 DEF PeerSends, ios
  <2> QED BY <1>0, <2>1, ListStays
<1>19. ASSUME NEW i \in Io, PeerCloses(i) PROVE ListOK'
  <2>1. UNCHANGED <<list, pending, cur>>
    BY <1>19 DEF PeerCloses, ios
  <2> QED BY <1>0, <2>1, ListStays
<1>20. ASSUME NEW f \in Fd, Accept(f) PROVE ListOK'
  <2>1. UNCHANGED <<list, pending, cur>>
    BY <1>20 DEF Accept, GetIo
  <2> QED BY <1>0, <2>1, ListStays
<1>21. ASSUME NEW f \in Fd, Connect(f) PROVE ListOK'
  <2>1. UNCHANGED <<list, pending, cur>>
    BY <1>21 DEF Connect, GetIo
  <2> QED BY <1>0, <2>1, ListStays
<1>22. ASSUME NEW f \in Fd, OtherGetIo(f) PROVE ListOK'
  <2>1. UNCHANGED <<list, pending, cur>>
    BY <1>22 DEF OtherGetIo, GetIo
  <2> QED BY <1>0, <2>1, ListStays
<1>23. CASE UNCHANGED vars
  <2>1. UNCHANGED <<list, pending, cur>>
    BY <1>23 DEF vars, ios
  <2> QED BY <1>0, <2>1, ListStays
<1> QED
  BY <1>1, <1>2, <1>3, <1>4, <1>5, <1>6, <1>7, <1>8, <1>9, <1>10, <1>11, <1>12, <1>13, <1>14, <1>15, <1>16, <1>17, <1>18, <1>19, <1>20, <1>21, <1>22, <1>23 DEF Next, LoopStep, OtherStep

\* What was found of the awaiting ios stays, but for i, of which something
\* was reported now.
LEMMA EvidenceStaysBut ==
    ASSUME TypeOK, OwnerOK, ListOK, CurOK, EvidenceOK, Grows, NEW i,
           \A k, evs : k = i /\ evs = revents'[i] => Evidence(k, evs)',
           \A j \in Io : Awaiting(j)' /\ j # i =>
               Awaiting(j) /\ revents'[j] = revents[j] /\ (ReadSome => j # cur)
    PROVE  EvidenceOK'
<1>1. ASSUME NEW j \in Io, Awaiting(j)', j # i
      PROVE  \A evs : evs = revents'[j] => Evidence(j, evs)'
  <2>1. Awaiting(j) /\ revents'[j] = revents[j] /\ (ReadSome => j # cur)
    BY <1>1
  <2>2. Evidence(j, revents[j])
    BY <2>1 DEF EvidenceOK
  <2>3. cb[j] # "none" \/ j \in raced
    BY <2>1 DEF Awaiting, ListOK, CurOK, Io, NoIo
  <2>4. Persists(j)
    BY <2>1, <2>3 DEF Grows
  <2>5. raced \subseteq raced'
    BY DEF Grows
  <2> QED BY <2>1, <2>2, <2>4, <2>5 DEF Evidence, Persists
<1>2. ASSUME NEW j \in Io, Awaiting(j)'
      PROVE  Evidence(j, revents[j])'
  <2>1. \A evs : evs = revents'[j] => Evidence(j, evs)'
    BY <1>1, <1>2
  <2> QED BY <2>1 DEF Evidence
<1> QED
  BY <1>2 DEF EvidenceOK

LEMMA EvidenceStays ==
    ASSUME TypeOK, OwnerOK, ListOK, CurOK, EvidenceOK, Grows,
           \A j \in Io : Awaiting(j)' =>
               Awaiting(j) /\ revents'[j] = revents[j] /\ (ReadSome => j # cur)
    PROVE  EvidenceOK'
<1>1. ASSUME NEW j \in Io, Awaiting(j)'
      PROVE  Evidence(j, revents[j])'
  <2>1. Awaiting(j) /\ revents'[j] = revents[j] /\ (ReadSome => j # cur)
    BY <1>1
  <2>2. Evidence(j, revents[j])
    BY <2>1 DEF EvidenceOK
  <2>3. cb[j] # "none" \/ j \in raced
    BY <2>1 DEF Awaiting, ListOK, CurOK, Io, NoIo
  <2>4. Persists(j)
    BY <2>1, <2>3 DEF Grows
  <2>5. raced \subseteq raced'
    BY DEF Grows
  <2> QED BY <2>1, <2>2, <2>4, <2>5 DEF Evidence, Persists
<1> QED
  BY <1>1 DEF EvidenceOK

LEMMA EvidenceStep == Inv /\ [Next]_vars => EvidenceOK'
<1> SUFFICES ASSUME Inv, [Next]_vars
             PROVE  EvidenceOK'
  OBVIOUS
<1>0. TypeOK /\ OwnerOK /\ ReportOK /\ ListOK /\ CurOK /\ EvidenceOK /\ Grows
  BY GrowsStep DEF Inv
<1>1. CASE Return
  <2>1. UNCHANGED <<list, cur, after, revents>> /\ pc = "user" /\ pc' = after /\ ~ReadSome
    BY <1>1 DEF Return, ios, ReadSome
  <2>2. \A i \in Io : Awaiting(i)' => Awaiting(i)
    BY <1>0, <2>1 DEF Awaiting, TypeOK, LoopTypeOK
  <2> QED BY <1>0, <2>1, <2>2, EvidenceStays
<1>2. CASE Wait
  <2>1. /\ UNCHANGED <<list, cur, after, revents>> /\ ~ReadSome
        /\ pc' \in {"wait", "report"}
    BY <1>2 DEF Wait, ios, ReadSome
  <2>2. \A i \in Io : Awaiting(i)' => Awaiting(i)
    BY <2>1 DEF Awaiting
  <2> QED BY <1>0, <2>1, <2>2, EvidenceStays
<1>3. CASE Report
  <2> DEFINE hit == Head(report)
             i == io_array[hit.fd]
  <2>1. /\ pc = "report" /\ report # << >>
        /\ revents' = [revents EXCEPT ![i] = hit.evs]
        /\ list' = IF pending[i] THEN list ELSE <<i>> \o list
        /\ raced' = IF i = hit.owner /\ hit.fd \notin stale THEN raced ELSE raced \cup {i}
        /\ cur' = cur /\ pc' \in {"pass", "report"} /\ ~ReadSome
    BY <1>0, <1>3 DEF Report, Mark, ReportOK, ReadSome
  <2>2. hit \in Found /\ hit = report[1] /\ 1 \in 1 .. Len(report)
    BY <1>0, <2>1, HeadTailProperties, EmptySeq DEF TypeOK, LoopTypeOK
  <2>3. i \in Io
    BY <1>0, <2>2 DEF TypeOK, IoTypeOK, ReportOK, Found
  <2>4. \A k, evs : k = hit.owner /\ evs = hit.evs => Evidence(k, evs)'
    BY <1>0, <2>1, <2>2, StillTrue
  <2> HIDE DEF i, hit
  <2>5. revents'[i] = hit.evs /\ \A j \in Io : j # i => revents'[j] = revents[j]
    BY <1>0, <2>1, <2>3 DEF TypeOK, IoTypeOK
  <2>6. \A k, evs : k = i /\ evs = hit.evs => Evidence(k, evs)'
    BY <2>1, <2>4 DEF Evidence
  <2>7. ASSUME NEW j \in Io, Awaiting(j)', j # i
        PROVE  Awaiting(j) /\ revents'[j] = revents[j]
    <3>1. PICK n \in 1 .. Len(list') : list'[n] = j
      BY <2>1, <2>7 DEF Awaiting
    <3>2. CASE pending[i]
      BY <2>1, <2>5, <2>7, <3>1, <3>2 DEF Awaiting
    <3>3. CASE ~pending[i]
      <4>1. list \in Seq(Io) /\ Len(list) \in Nat
        BY <1>0 DEF TypeOK, LoopTypeOK
      <4>2. list' = <<i>> \o list
        BY <2>1, <3>3
      <4>3. <<i>> \in Seq(Io) /\ Len(<<i>>) = 1 /\ <<i>>[1] = i
        BY <2>3
      <4>4. /\ Len(list') = 1 + Len(list)
            /\ \A m \in 1 .. 1 + Len(list) : list'[m] = IF m <= 1 THEN <<i>>[m] ELSE list[m - 1]
        BY <4>1, <4>2, <4>3, ConcatProperties
      <4>5. n # 1
        BY <2>7, <3>1, <4>1, <4>3, <4>4
      <4>6. n - 1 \in 1 .. Len(list) /\ list[n - 1] = j
        BY <3>1, <4>1, <4>4, <4>5
      <4> QED BY <2>5, <2>7, <4>6 DEF Awaiting
    <3> QED BY <3>2, <3>3
  <2> QED BY <1>0, <2>1, <2>5, <2>6, <2>7, EvidenceStaysBut
<1>4. CASE Take
  <2> DEFINE i == Head(list)
  <2>1. /\ list \in Seq(Io) /\ list # << >> /\ Len(list) \in Nat
    BY <1>0, <1>4 DEF Take, TypeOK, LoopTypeOK
  <2>2. /\ i \in Io /\ Len(Tail(list)) = Len(list) - 1
        /\ \A n \in 1 .. Len(Tail(list)) : Tail(list)[n] = list[n + 1]
    BY <2>1, HeadTailProperties
  <2>3. i = list[1] /\ 1 \in 1 .. Len(list)
    BY <2>1, EmptySeq
  <2>4. pc = "pass" /\ list' = Tail(list) /\ ~ReadSome
    BY <1>4 DEF Take, ReadSome
  <2>5. \/ UNCHANGED <<cur, pc, revents>>
        \/ UNCHANGED <<cur, pc>> /\ revents' = [revents EXCEPT ![i] = {}]
        \/ cur' = i /\ UNCHANGED revents
    BY <1>4 DEF Take, ios, Unmark
  <2> HIDE DEF i
  <2>6. \A n \in 1 .. Len(list') : n + 1 \in 1 .. Len(list) /\ list'[n] = list[n + 1] /\ n + 1 # 1
    BY <2>1, <2>2, <2>4
  <2>7. \A n \in 1 .. Len(list') : list'[n] # i
    BY <1>0, <2>3, <2>6 DEF ListOK
  <2>8. ASSUME NEW j \in Io, Awaiting(j)'
        PROVE  Awaiting(j) /\ revents'[j] = revents[j]
    <3>1. CASE \E n \in 1 .. Len(list') : list'[n] = j
      <4>1. j # i /\ Awaiting(j)
        BY <2>6, <2>7, <3>1 DEF Awaiting
      <4>2. revents'[j] = revents[j]
        BY <1>0, <2>2, <2>5, <4>1 DEF TypeOK, IoTypeOK
      <4> QED BY <4>1, <4>2
    <3>2. CASE ~ \E n \in 1 .. Len(list') : list'[n] = j
      <4>1. j = cur' /\ pc' # "pass"
        BY <2>8, <3>2 DEF Awaiting
      <4>2. j = i /\ UNCHANGED revents
        BY <2>4, <2>5, <4>1
      <4> QED BY <2>3, <4>2 DEF Awaiting
    <3> QED BY <3>1, <3>2
  <2> QED BY <1>0, <2>4, <2>8, EvidenceStays
<1>5. CASE EndPass
  <2>1. /\ UNCHANGED <<list, cur, after, revents>> /\ ~ReadSome
        /\ pc' \in {"wait", "report"}
    BY <1>5 DEF EndPass, ios, ReadSome
  <2>2. \A i \in Io : Awaiting(i)' => Awaiting(i)
    BY <2>1 DEF Awaiting
  <2> QED BY <1>0, <2>1, <2>2, EvidenceStays
<1>6. CASE ReadEnable
  <2>1. UNCHANGED <<list, cur, after, revents>> /\ pc = "enable" /\ pc' = "read" /\ ~ReadSome
    BY <1>6 DEF ReadEnable, ReadSome
  <2>2. \A i \in Io : Awaiting(i)' => Awaiting(i)
    BY <2>1 DEF Awaiting
  <2> QED BY <1>0, <2>1, <2>2, EvidenceStays
<1>7. CASE ReadSome
  <2>1. /\ UNCHANGED <<list, cur, revents>>
        /\ pc' = "user" /\ after' = "done"
    BY <1>7 DEF ReadSome, ios
  <2>2. \A i \in Io : Awaiting(i)' => Awaiting(i) /\ i # cur
    BY <1>0, <2>1 DEF Awaiting, ListOK
  <2> QED BY <1>0, <2>1, <2>2, EvidenceStays
<1>8. CASE ReadEnd
  <2>1. /\ cur' = NoIo /\ list' = list
        /\ revents' = [revents EXCEPT ![cur] = {}]
    BY <1>8 DEF ReadEnd, Unmark
  <2>2. ~ReadSome
    BY <1>8 DEF ReadEnd, ReadSome, IsReported
  <2>3. NoIo \notin Io
    BY DEF NoIo, Io
  <2>4. \A i \in Io : Awaiting(i)' => Awaiting(i) /\ i # cur
    BY <1>0, <2>1, <2>3 DEF Awaiting, ListOK
  <2>5. \A i \in Io : i # cur => revents'[i] = revents[i]
    BY <1>0, <2>1 DEF TypeOK, IoTypeOK
  <2> QED BY <1>0, <2>2, <2>4, <2>5, EvidenceStays
<1>9. CASE ReadNothing
  <2>1. /\ cur' = NoIo /\ list' = list
        /\ revents' = [revents EXCEPT ![cur] = {}]
    BY <1>9 DEF ReadNothing, Unmark
  <2>2. ~ReadSome
    BY <1>9 DEF ReadNothing, ReadSome, IsReported
  <2>3. NoIo \notin Io
    BY DEF NoIo, Io
  <2>4. \A i \in Io : Awaiting(i)' => Awaiting(i) /\ i # cur
    BY <1>0, <2>1, <2>3 DEF Awaiting, ListOK
  <2>5. \A i \in Io : i # cur => revents'[i] = revents[i]
    BY <1>0, <2>1 DEF TypeOK, IoTypeOK
  <2> QED BY <1>0, <2>2, <2>4, <2>5, EvidenceStays
<1>10. CASE Done
  <2>1. /\ cur' = NoIo /\ list' = list
        /\ revents' = [revents EXCEPT ![cur] = {}]
    BY <1>10 DEF Done, Unmark
  <2>2. ~ReadSome
    BY <1>10 DEF Done, ReadSome, IsReported
  <2>3. NoIo \notin Io
    BY DEF NoIo, Io
  <2>4. \A i \in Io : Awaiting(i)' => Awaiting(i) /\ i # cur
    BY <1>0, <2>1, <2>3 DEF Awaiting, ListOK
  <2>5. \A i \in Io : i # cur => revents'[i] = revents[i]
    BY <1>0, <2>1 DEF TypeOK, IoTypeOK
  <2> QED BY <1>0, <2>2, <2>4, <2>5, EvidenceStays
<1>11. CASE OtherAdd
  <2>1. UNCHANGED <<list, cur, pc, after, revents>> /\ ~ReadSome
    BY <1>11 DEF OtherAdd, ios, ReadSome
  <2> QED BY <1>0, <2>1, EvidenceStays DEF Awaiting
<1>12. CASE OtherDelete
  <2>1. UNCHANGED <<list, cur, pc, after, revents>> /\ ~ReadSome
    BY <1>12 DEF OtherDelete, ios, ReadSome
  <2> QED BY <1>0, <2>1, EvidenceStays DEF Awaiting
<1>13. CASE OtherCloseFd
  <2>1. UNCHANGED <<list, cur, pc, after, revents>> /\ ~ReadSome
    BY <1>13 DEF OtherCloseFd, ios, ReadSome
  <2> QED BY <1>0, <2>1, EvidenceStays DEF Awaiting
<1>14. ASSUME NEW i \in Io, Close(i) PROVE EvidenceOK'
  <2>1. UNCHANGED <<list, cur, pc, after, revents>> /\ ~ReadSome
    BY <1>14 DEF Close, ios, ReadSome
  <2> QED BY <1>0, <2>1, EvidenceStays DEF Awaiting
<1>15. ASSUME NEW i \in Io, WriteRest(i) PROVE EvidenceOK'
  <2>1. UNCHANGED <<list, cur, pc, after, revents>> /\ ~ReadSome
    BY <1>15 DEF WriteRest, ios, ReadSome
  <2> QED BY <1>0, <2>1, EvidenceStays DEF Awaiting
<1>16. ASSUME NEW i \in Io, OtherClose(i) PROVE EvidenceOK'
  <2>1. UNCHANGED <<list, cur, pc, after, revents>> /\ ~ReadSome
    BY <1>16 DEF OtherClose, ios, ReadSome
  <2> QED BY <1>0, <2>1, EvidenceStays DEF Awaiting
<1>17. ASSUME NEW i \in Io, PeerAnswers(i) PROVE EvidenceOK'
  <2>1. UNCHANGED <<list, cur, pc, after, revents>> /\ ~ReadSome
    BY <1>17 DEF PeerAnswers, ios, ReadSome
  <2> QED BY <1>0, <2>1, EvidenceStays DEF Awaiting
<1>18. ASSUME NEW i \in Io, PeerSends(i) PROVE EvidenceOK'
  <2>1. UNCHANGED <<list, cur, pc, after, revents>> /\ ~ReadSome
    BY <1>18 DEF PeerSends, ios, ReadSome
  <2> QED BY <1>0, <2>1, EvidenceStays DEF Awaiting
<1>19. ASSUME NEW i \in Io, PeerCloses(i) PROVE EvidenceOK'
  <2>1. UNCHANGED <<list, cur, pc, after, revents>> /\ ~ReadSome
    BY <1>19 DEF PeerCloses, ios, ReadSome
  <2> QED BY <1>0, <2>1, EvidenceStays DEF Awaiting
<1>20. ASSUME NEW f \in Fd, Accept(f) PROVE EvidenceOK'
  <2>1. UNCHANGED <<list, cur, pc, after, revents>> /\ ~ReadSome
    BY <1>20 DEF Accept, GetIo, ReadSome
  <2> QED BY <1>0, <2>1, EvidenceStays DEF Awaiting
<1>21. ASSUME NEW f \in Fd, Connect(f) PROVE EvidenceOK'
  <2>1. UNCHANGED <<list, cur, pc, after, revents>> /\ ~ReadSome
    BY <1>21 DEF Connect, GetIo, ReadSome
  <2> QED BY <1>0, <2>1, EvidenceStays DEF Awaiting
<1>22. ASSUME NEW f \in Fd, OtherGetIo(f) PROVE EvidenceOK'
  <2>1. UNCHANGED <<list, cur, pc, after, revents>> /\ ~ReadSome
    BY <1>22 DEF OtherGetIo, GetIo, ReadSome
  <2> QED BY <1>0, <2>1, EvidenceStays DEF Awaiting
<1>23. CASE UNCHANGED vars
  <2>1. UNCHANGED <<list, cur, pc, after, revents>> /\ ~ReadSome
    BY <1>23 DEF vars, ios, ReadSome
  <2> QED BY <1>0, <2>1, EvidenceStays DEF Awaiting
<1> QED
  BY <1>1, <1>2, <1>3, <1>4, <1>5, <1>6, <1>7, <1>8, <1>9, <1>10, <1>11, <1>12, <1>13, <1>14, <1>15, <1>16, <1>17, <1>18, <1>19, <1>20, <1>21, <1>22, <1>23 DEF Next, LoopStep, OtherStep

LEMMA InvStep == Inv /\ [Next]_vars => Inv'
BY TypeStep, OwnerStep, OtherOKStep, TableStep, ReportOKStep, ListStep, CurStep, EvidenceStep
   DEF Inv

LEMMA InvHolds == Spec => []Inv
BY InvInit, InvStep, PTL DEF Spec

-----------------------------------------------------------------------------
(* Theorems.                                                               *)

LEMMA ListedOnce == Inv => MarkedIsListed
<1> SUFFICES ASSUME Inv PROVE MarkedIsListed
  OBVIOUS
<1>1. list \in Seq(Io) /\ DOMAIN list = 1 .. Len(list) /\ cur \in Io \cup {NoIo} /\ ListOK
  BY DEF Inv, TypeOK, LoopTypeOK
<1>2. \A x : x \in ToSet(list) <=> \E n \in 1 .. Len(list) : list[n] = x
  BY <1>1 DEF ToSet
<1>3. \A k, l \in DOMAIN list : list[k] = list[l] => k = l
  BY <1>1 DEF ListOK
<1>4. ASSUME NEW i \in Io, pending[i]
      PROVE  i \in ToSet(list) \/ i = cur \/ i \in raced
  BY <1>1, <1>2, <1>4 DEF ListOK
<1>5. cur \notin ToSet(list)
  BY <1>1, <1>2 DEF ListOK
<1> QED
  BY <1>3, <1>4, <1>5 DEF MarkedIsListed

\* event_pending lists an io once, and process_pending_event clears the mark of
\* whatever it takes off the list: no event of an io is lost because it is
\* marked without being listed, unless it was given another one's report.
THEOREM MarksAreListed == Spec => []MarkedIsListed
<1> QED
  BY ListedOnce, InvHolds, PTL

\* An entry for every event that is asked for, at most.
LEMMA EntriesAreFew ==
    ASSUME NEW backEnd \in BackEnds, NEW t \in Seq(Row), NEW f, NEW evs \in SUBSET Events,
           NoneTwice(backEnd, t), Asked(backEnd, t, f, evs)
    PROVE  Cardinality(EntriesOf(t, f)) <= Cardinality(evs)
<1> DEFINE E == EntriesOf(t, f)
           g == [k \in E |-> CHOOSE e \in evs : e \in t[k].evs]
<1>1. \A k \in E : t[k].evs \subseteq evs /\ t[k].evs # {}
  BY DEF Asked
<1>2. \A k \in E : g[k] \in evs /\ g[k] \in t[k].evs
  BY <1>1
<1>3. g \in [E -> evs]
  BY <1>2
<1>4. ASSUME NEW k \in E, NEW l \in E, g[k] = g[l]
      PROVE  k = l
  <2>1. CASE backEnd = "poll"
    <3>1. PICK a \in Events : t[k].evs = {a}
      BY <2>1 DEF Asked
    <3>2. PICK b \in Events : t[l].evs = {b}
      BY <2>1 DEF Asked
    <3>3. t[k].evs = t[l].evs
      BY <1>2, <1>4, <3>1, <3>2
    <3> QED BY <2>1, <3>3 DEF Asked
  <2>2. CASE backEnd # "poll"
    BY <2>2, OneEntry
  <2> QED BY <2>1, <2>2
<1>5. IsFiniteSet(evs)
  <2>1. IsFiniteSet({"read", "write"})
    <3>1. IsFiniteSet({} \cup {"read"})
      BY FS_EmptySet, FS_AddElement
    <3>2. IsFiniteSet(({} \cup {"read"}) \cup {"write"})
      BY <3>1, FS_AddElement
    <3>3. ({} \cup {"read"}) \cup {"write"} = {"read", "write"}
      OBVIOUS
    <3> QED BY <3>2, <3>3
  <2> QED BY <2>1, FS_Subset DEF Events
<1> HIDE DEF g, E
<1>6. g \in Injection(E, evs)
  BY <1>3, <1>4 DEF Injection, IsInjective
<1>7. Cardinality(E) <= Cardinality(evs)
  BY <1>5, <1>6, FS_Injection
<1> QED
  BY <1>7 DEF E

LEMMA TableIsRight == Inv => WatchedAsAsked
<1> SUFFICES ASSUME Inv, NEW f \in Fd \ stale
             PROVE  LET asked == IF f \in OpenFds THEN events[OwnerOf(f)] ELSE {}
                        got == Watched(table, f)
                    IN  /\ got \subseteq asked
                        /\ IF kind = "epoll" THEN got = {} => asked = {} ELSE got = asked
                        /\ Cardinality(EntriesOf(table, f)) <= Cardinality(asked)
  BY DEF WatchedAsAsked
<1> DEFINE asked == IF f \in OpenFds THEN events[OwnerOf(f)] ELSE {}
           got == Watched(table, f)
<1>1. TypeOK /\ TableOK
  BY DEF Inv
<1>2. Asked(kind, table, f, asked) /\ asked \in SUBSET Events
  <2>1. CASE f \in OpenFds
    <3> DEFINE o == OwnerOf(f)
    <3>1. o \in Io /\ fd[o] = f /\ f # NoFd
      BY <2>1 DEF OpenFds, OwnerOf
    <3> HIDE DEF o
    <3>2. Asked(kind, table, f, events[o]) /\ events[o] \in SUBSET Events
      BY <1>1, <3>1 DEF TableOK, TypeOK, IoTypeOK
    <3> QED BY <2>1, <3>2 DEF o
  <2>2. CASE f \notin OpenFds
    BY <1>1, <2>2, AskedNothing DEF TableOK
  <2> QED BY <2>1, <2>2
<1> HIDE DEF asked
<1>3. \A e : e \in got <=> \E k \in EntriesOf(table, f) : e \in table[k].evs
  BY DEF Watched
<1>4. got \subseteq asked
  BY <1>2, <1>3 DEF Asked
<1>5. kind # "epoll" => got = asked
  BY <1>2, <1>3, <1>4 DEF Asked
<1>6. got = {} => asked = {}
  BY <1>2, <1>3 DEF Asked
<1>7. Cardinality(EntriesOf(table, f)) <= Cardinality(asked)
  BY <1>1, <1>2, EntriesAreFew DEF TypeOK, TableOK
<1> QED
  BY <1>4, <1>5, <1>6, <1>7 DEF asked

\* What epoll, poll or select watches is what the ios ask for, with at most one
\* entry for an event, however io_add, io_del and io_close of the two threads
\* interleave and fds are reused; an fd that io_read_enable registered for an
\* io that the other thread was closing is the exception.
THEOREM TableMatchesIos == Spec => []WatchedAsAsked
<1> QED
  BY TableIsRight, InvHolds, PTL

LEMMA ReadsAreOwn ==
    ASSUME Inv, ReadSome \/ ReadNothing \/ ReadEnd
    PROVE  cur \in raced \/ (fd[cur] # NoFd /\ Readable(cur))
<1>1. pc = "read" /\ IsReported(cur, "read")
  BY DEF ReadSome, ReadNothing, ReadEnd
<1>2. cur \in Io
  BY <1>1 DEF Inv, CurOK, InHandler, TypeOK, LoopTypeOK
<1>3. fd[cur] = NoFd => cur \in raced
  BY <1>1, <1>2 DEF Inv, OwnerOK, IsReported
<1>4. Evidence(cur, revents[cur])
  BY <1>1, <1>2 DEF Inv, EvidenceOK, Awaiting
<1> QED
  BY <1>1, <1>3, <1>4 DEF Evidence, IsReported

LEMMA ConnectsAreAnswered ==
    ASSUME Inv, [Next]_vars, NEW i \in Io, connect[i], ~connect'[i]
    PROVE  i \in raced \/ peer[i] # "syn"
<1>0. TypeOK /\ OwnerOK /\ ListOK /\ EvidenceOK
  BY DEF Inv
<1>1. CASE Return
  <2>1. UNCHANGED connect
    BY <1>1 DEF Return, ios
  <2> QED BY <1>0, <2>1
<1>2. CASE Wait
  <2>1. UNCHANGED connect
    BY <1>2 DEF Wait, ios
  <2> QED BY <1>0, <2>1
<1>3. CASE Report
  <2>1. UNCHANGED connect
    BY <1>3 DEF Report, ios
  <2> QED BY <1>0, <2>1
<1>4. CASE Take
  <2> DEFINE h == Head(list)
  <2>1. list \in Seq(Io) /\ list # << >>
    BY <1>0, <1>4 DEF Take, TypeOK, LoopTypeOK
  <2>2. h \in Io /\ h = list[1] /\ 1 \in 1 .. Len(list)
    BY <2>1, HeadTailProperties, EmptySeq
  <2>3. \/ UNCHANGED connect
        \/ IsReported(h, "write") /\ connect' = [connect EXCEPT ![h] = FALSE]
    BY <1>4 DEF Take, ios
  <2> HIDE DEF h
  <2>4. i = h /\ IsReported(i, "write")
    BY <1>0, <2>2, <2>3 DEF TypeOK, IoTypeOK
  <2>5. Evidence(i, revents[i])
    BY <1>0, <2>2, <2>4 DEF EvidenceOK, Awaiting
  <2>6. fd[i] = NoFd => i \in raced
    BY <1>0, <2>4 DEF OwnerOK, IsReported
  <2> QED BY <2>4, <2>5, <2>6 DEF Evidence, IsReported
<1>5. CASE EndPass
  <2>1. UNCHANGED connect
    BY <1>5 DEF EndPass, ios
  <2> QED BY <1>0, <2>1
<1>6. CASE ReadEnable
  <2>1. UNCHANGED connect
    BY <1>6 DEF ReadEnable, ios
  <2> QED BY <1>0, <2>1
<1>7. CASE ReadSome
  <2>1. UNCHANGED connect
    BY <1>7 DEF ReadSome, ios
  <2> QED BY <1>0, <2>1
<1>8. CASE ReadEnd
  <2>1. UNCHANGED connect
    BY <1>8 DEF ReadEnd, ios
  <2> QED BY <1>0, <2>1
<1>9. CASE ReadNothing
  <2>1. UNCHANGED connect
    BY <1>9 DEF ReadNothing, ios
  <2> QED BY <1>0, <2>1
<1>10. CASE Done
  <2>1. UNCHANGED connect
    BY <1>10 DEF Done, ios
  <2> QED BY <1>0, <2>1
<1>11. CASE OtherAdd
  <2>1. connect' = connect \/ connect' = [connect EXCEPT ![otherIo] = TRUE]
    BY <1>11 DEF OtherAdd
  <2> QED BY <1>0, <2>1 DEF TypeOK, IoTypeOK
<1>12. CASE OtherDelete
  <2>1. UNCHANGED connect
    BY <1>12 DEF OtherDelete, ios
  <2> QED BY <1>0, <2>1
<1>13. CASE OtherCloseFd
  <2>1. UNCHANGED connect
    BY <1>13 DEF OtherCloseFd, ios
  <2> QED BY <1>0, <2>1
<1>14. ASSUME NEW j \in Io, Close(j) PROVE i \in raced \/ peer[i] # "syn"
  <2>1. UNCHANGED connect
    BY <1>14 DEF Close, ios
  <2> QED BY <1>0, <2>1
<1>15. ASSUME NEW j \in Io, WriteRest(j) PROVE i \in raced \/ peer[i] # "syn"
  <2>1. UNCHANGED connect
    BY <1>15 DEF WriteRest, ios
  <2> QED BY <1>0, <2>1
<1>16. ASSUME NEW j \in Io, OtherClose(j) PROVE i \in raced \/ peer[i] # "syn"
  <2>1. UNCHANGED connect
    BY <1>16 DEF OtherClose, ios
  <2> QED BY <1>0, <2>1
<1>17. ASSUME NEW j \in Io, PeerAnswers(j) PROVE i \in raced \/ peer[i] # "syn"
  <2>1. UNCHANGED connect
    BY <1>17 DEF PeerAnswers, ios
  <2> QED BY <1>0, <2>1
<1>18. ASSUME NEW j \in Io, PeerSends(j) PROVE i \in raced \/ peer[i] # "syn"
  <2>1. UNCHANGED connect
    BY <1>18 DEF PeerSends, ios
  <2> QED BY <1>0, <2>1
<1>19. ASSUME NEW j \in Io, PeerCloses(j) PROVE i \in raced \/ peer[i] # "syn"
  <2>1. UNCHANGED connect
    BY <1>19 DEF PeerCloses, ios
  <2> QED BY <1>0, <2>1
<1>20. ASSUME NEW f \in Fd, Accept(f) PROVE i \in raced \/ peer[i] # "syn"
  <2>1. UNCHANGED connect
    BY <1>20 DEF Accept, ios
  <2> QED BY <1>0, <2>1
<1>21. ASSUME NEW f \in Fd, Connect(f) PROVE i \in raced \/ peer[i] # "syn"
  <2>1. connect' = [connect EXCEPT ![made + 1] = TRUE]
    BY <1>21 DEF Connect
  <2> QED BY <1>0, <2>1 DEF TypeOK, IoTypeOK
<1>22. ASSUME NEW f \in Fd, OtherGetIo(f) PROVE i \in raced \/ peer[i] # "syn"
  <2>1. UNCHANGED connect
    BY <1>22 DEF OtherGetIo, ios
  <2> QED BY <1>0, <2>1
<1>23. CASE UNCHANGED vars
  BY <1>0, <1>23 DEF vars, ios
<1> QED
  BY <1>1, <1>2, <1>3, <1>4, <1>5, <1>6, <1>7, <1>8, <1>9, <1>10, <1>11, <1>12, <1>13, <1>14, <1>15, <1>16, <1>17, <1>18, <1>19, <1>20, <1>21, <1>22, <1>23 DEF Next, LoopStep, OtherStep

\* No io is given an event that was another's: io_read_cb runs only for an open
\* connection with something to read, and a connection attempt ends only when
\* the peer has answered, although fds are given out again and callbacks close
\* connections that are in the list. The exceptions are an io that another
\* thread put into io_array while a report for its fd was on its way, and one
\* that io_read_enable found closed.
THEOREM EventsAreOwn == Spec => OwnEventsOnly
<1>1. ASSUME Inv, [Next]_vars
      PROVE  [/\ ReadSome \/ ReadNothing \/ ReadEnd =>
                   cur \in raced \/ (fd[cur] # NoFd /\ Readable(cur))
              /\ \A i \in Io : connect[i] /\ ~connect'[i] =>
                   i \in raced \/ peer[i] # "syn"]_vars
  BY <1>1, ReadsAreOwn, ConnectsAreAnswered
<1> QED
  BY <1>1, InvHolds, PTL DEF Spec, OwnEventsOnly

=============================================================================

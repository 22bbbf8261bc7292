---------------------------- MODULE IoConnProofs ----------------------------
(***************************************************************************)
(* Theorems about IoConn, for any number of sending threads, any lengths   *)
(* of messages and buffers, and either protocol.                           *)
(***************************************************************************)
EXTENDS IoConn, SequenceTheorems, TLAPS

\* A thread is inside io_write or io_close.
Calling(t) == pc[t] \in Labels \ {"idle"}

\* What the threads keep between the steps of a call: a sender returns to
\* where it called from.
CallsOK ==
    \A t \in Sender : home[t] = "idle"

\* write_mutex protects io_write up to its end, and closed with it.
LockOK ==
    /\ \A t \in Thread : pc[t] \in {"write", "add"} => mutex = t /\ ~closed
    /\ pc[Loop] = "flush" => mutex = Loop

\* How far a thread that closes the connection has come.
Closing == {"unregister", "close_cb", "release"}

CloseOK ==
    /\ ~closed => closer = Nobody /\ closes = 0 /\ ~freed
    /\ closed => closer \in Thread
    /\ \A t \in Thread : pc[t] \in Closing => closed /\ closer = t /\ ~freed
    /\ \A t \in Thread : pc[t] \in {"unregister", "close_cb"} => closes = 0
    /\ \A t \in Thread : pc[t] = "release" => closes = 1
    /\ closed /\ ~freed => pc[closer] \in Closing
    /\ freed => closes = 1
    /\ \A t \in Thread : pc[t] \in {"close_cb", "release"} => "write" \notin events
    /\ freed => "write" \notin events /\ epoll = {}
    /\ fdOpen = ~freed

\* Nothing is read before a connection attempt has succeeded and connect_cb
\* has returned.
ConnectOK ==
    /\ connecting => "read" \notin events \cup epoll \cup revents
    /\ pc[Loop] = "on_connect" => ~connecting /\ "read" \notin revents
    /\ Calling(Loop) /\ home[Loop] = "on_connect" =>
           ~connecting /\ "read" \notin revents
    /\ pc[Loop] \in {"flush_lock", "flush"} => home[Loop] # "on_connect"

\* After a close of its own the loop's thread finds no event to handle.
LoopCloseOK ==
    closer = Loop =>
        \/ pc[Loop] = "unregister"
        \/ pc[Loop] \in {"close_cb", "release"} /\ events = {}
        \/ /\ freed
           /\ pc[Loop] \in {"idle", "dispatch", "he_write", "he_read",
                            "on_connect", "on_read"}
           /\ events = {} \/ "read" \notin revents

\* How full the socket may be: a connection that speaks SSL is accepted, so what
\* the peer has not read is all that keeps a byte from being taken.
SocketOK ==
    /\ unread <= Len(wire)
    /\ protocol = "ssl" => peer # "syn"
    /\ \A t \in Thread : pc[t] \in {"lock", "write"} => len[t] \in Lengths

-----------------------------------------------------------------------------
(* The numbered bytes.                                                     *)

LEMMA NumbersType ==
    ASSUME NEW m \in Nat, NEW n \in Nat, m <= n
    PROVE  /\ Numbers(m, n) \in Seq(Nat)
           /\ Len(Numbers(m, n)) = n - m
           /\ \A a \in 1 .. n - m : Numbers(m, n)[a] = m + a
<1>1. \A a \in 1 .. n - m : m + a \in Nat
  OBVIOUS
<1>2. Numbers(m, n) \in Seq(Nat)
  BY <1>1, IsASeq DEF Numbers
<1>3. DOMAIN Numbers(m, n) = 1 .. n - m
  BY DEF Numbers
<1>4. Len(Numbers(m, n)) = n - m
  BY <1>2, <1>3, LenProperties
<1> QED
  BY <1>2, <1>4 DEF Numbers

LEMMA NumbersEmpty == \A m \in Nat : Numbers(m, m) = << >>
<1> TAKE m \in Nat
<1>1. Numbers(m, m) \in Seq(Nat) /\ Len(Numbers(m, m)) = 0
  BY NumbersType
<1> QED
  BY <1>1, EmptySeq

LEMMA NumbersFromZero ==
    ASSUME NEW n \in Nat
    PROVE  /\ Numbers(0, n) \in Seq(Nat) /\ Len(Numbers(0, n)) = n
           /\ \A a \in 1 .. n : Numbers(0, n)[a] = a
<1>1. \A m \in Nat :
        m = 0 => /\ Numbers(m, n) \in Seq(Nat) /\ Len(Numbers(m, n)) = n
                 /\ \A a \in 1 .. n : Numbers(m, n)[a] = a
  <2> TAKE m \in Nat
  <2> HAVE m = 0
  <2>1. m <= n /\ n - m = n /\ \A a \in 1 .. n : m + a = a
    OBVIOUS
  <2> QED BY <2>1, NumbersType
<1> QED
  BY <1>1

\* The numbers of k more bytes.
LEMMA NextNumbers ==
    ASSUME NEW m \in Nat, NEW k \in Nat
    PROVE  Numbers(m, m + k) \in Seq(Nat) /\ Len(Numbers(m, m + k)) = k
<1>1. m + k \in Nat /\ m <= m + k /\ (m + k) - m = k
  OBVIOUS
<1> QED
  BY <1>1, NumbersType

LEMMA NumbersConcat ==
    ASSUME NEW k \in Nat, NEW m \in Nat, NEW n \in Nat, k <= m, m <= n
    PROVE  Numbers(k, m) \o Numbers(m, n) = Numbers(k, n)
<1> DEFINE s == Numbers(k, m)  t == Numbers(m, n)
<1>1. /\ s \in Seq(Nat) /\ Len(s) = m - k
      /\ \A a \in 1 .. m - k : s[a] = k + a
  BY NumbersType
<1>2. /\ t \in Seq(Nat) /\ Len(t) = n - m
      /\ \A a \in 1 .. n - m : t[a] = m + a
  BY NumbersType
<1>3. /\ Numbers(k, n) \in Seq(Nat) /\ Len(Numbers(k, n)) = n - k
      /\ \A a \in 1 .. n - k : Numbers(k, n)[a] = k + a
  BY NumbersType
<1> HIDE DEF s, t
<1>4. s \o t \in Seq(Nat) /\ Len(s \o t) = n - k
  <2>1. s \o t \in Seq(Nat) /\ Len(s \o t) = Len(s) + Len(t)
    BY <1>1, <1>2, ConcatProperties
  <2> QED BY <1>1, <1>2, <2>1
<1>5. \A a \in 1 .. n - k : (s \o t)[a] = k + a
  <2> TAKE a \in 1 .. n - k
  <2>1. (s \o t)[a] = IF a <= Len(s) THEN s[a] ELSE t[a - Len(s)]
    BY <1>1, <1>2, ConcatProperties
  <2>2. CASE a <= m - k
    BY <1>1, <2>1, <2>2
  <2>3. CASE ~(a <= m - k)
    <3>1. a - (m - k) \in 1 .. n - m
      BY <2>3
    <3> QED BY <1>1, <1>2, <2>1, <2>3, <3>1
  <2> QED BY <2>2, <2>3
<1>6. s \o t = Numbers(k, n)
  BY <1>3, <1>4, <1>5, SeqEqual
<1> QED
  BY <1>6 DEF s, t

\* Two pieces that together are the bytes up to n are themselves numbered.
LEMMA NumbersSplit ==
    ASSUME NEW s \in Seq(Nat), NEW t \in Seq(Nat), NEW n \in Nat,
           s \o t = Numbers(0, n)
    PROVE  s = Numbers(0, Len(s)) /\ t = Numbers(Len(s), n) /\ Len(s) <= n
<1>1. Len(s) \in Nat /\ Len(t) \in Nat /\ Len(s) + Len(t) = n
  <2>1. Len(s \o t) = Len(s) + Len(t)
    BY ConcatProperties
  <2>2. Len(s \o t) = n
    BY NumbersFromZero
  <2> QED BY <2>1, <2>2, LenProperties
<1>2. \A a \in 1 .. n : (s \o t)[a] = a
  BY NumbersFromZero
<1>3. \A a \in 1 .. Len(s) : s[a] = a
  BY <1>1, <1>2, ConcatProperties
<1>4. \A a \in 1 .. Len(t) : t[a] = Len(s) + a
  <2> TAKE a \in 1 .. Len(t)
  <2>1. Len(s) + a \in 1 .. n /\ ~(Len(s) + a <= Len(s)) /\ (Len(s) + a) - Len(s) = a
    BY <1>1
  <2> QED BY <1>1, <1>2, <2>1, ConcatProperties
<1>5. /\ Numbers(0, Len(s)) \in Seq(Nat) /\ Len(Numbers(0, Len(s))) = Len(s)
      /\ \A a \in 1 .. Len(s) : Numbers(0, Len(s))[a] = a
  BY <1>1, NumbersFromZero
<1>6. /\ Numbers(Len(s), n) \in Seq(Nat) /\ Len(Numbers(Len(s), n)) = Len(t)
      /\ \A a \in 1 .. Len(t) : Numbers(Len(s), n)[a] = Len(s) + a
  <2>1. \A m \in Nat : m <= n =>
            /\ Numbers(m, n) \in Seq(Nat) /\ Len(Numbers(m, n)) = n - m
            /\ \A a \in 1 .. n - m : Numbers(m, n)[a] = m + a
    BY NumbersType
  <2>2. Len(s) \in Nat /\ Len(s) <= n /\ n - Len(s) = Len(t)
    BY <1>1
  <2>3. /\ Numbers(Len(s), n) \in Seq(Nat) /\ Len(Numbers(Len(s), n)) = n - Len(s)
        /\ \A a \in 1 .. n - Len(s) : Numbers(Len(s), n)[a] = Len(s) + a
    BY <2>1, <2>2
  <2> QED BY <2>2, <2>3
<1>7. s = Numbers(0, Len(s))
  BY <1>3, <1>5, SeqEqual
<1>8. t = Numbers(Len(s), n)
  BY <1>4, <1>6, SeqEqual
<1> QED
  BY <1>1, <1>7, <1>8

LEMMA BytesAssociative ==
    \A s, t, u \in Seq(Nat) : (s \o t) \o u = s \o (t \o u)
<1> TAKE s \in Seq(Nat), t \in Seq(Nat), u \in Seq(Nat)
<1> QED OBVIOUS

\* A sequence cut in two.
LEMMA CutInTwo ==
    ASSUME NEW s \in Seq(Nat), NEW n \in 1 .. Len(s)
    PROVE  /\ SubSeq(s, 1, n) \in Seq(Nat) /\ Len(SubSeq(s, 1, n)) = n
           /\ SubSeq(s, n + 1, Len(s)) \in Seq(Nat)
           /\ Len(SubSeq(s, n + 1, Len(s))) = Len(s) - n
           /\ SubSeq(s, 1, n) \o SubSeq(s, n + 1, Len(s)) = s
<1>1. Len(s) \in Nat /\ \A a \in 1 .. Len(s) : s[a] \in Nat
  BY LenProperties, ElementOfSeq
<1>2. SubSeq(s, 1, n) \in Seq(Nat) /\ Len(SubSeq(s, 1, n)) = n
  BY <1>1, SubSeqProperties
<1>3. /\ SubSeq(s, n + 1, Len(s)) \in Seq(Nat)
      /\ Len(SubSeq(s, n + 1, Len(s))) = Len(s) - n
  BY <1>1, SubSeqProperties
<1>4. SubSeq(s, 1, n) \o SubSeq(s, n + 1, Len(s)) = SubSeq(s, 1, Len(s))
  BY <1>1, ConcatAdjacentSubSeq
<1> QED
  BY <1>2, <1>3, <1>4, SubSeqFull

-----------------------------------------------------------------------------
(* Type correctness.                                                       *)

LEMMA TypeInit == Init => TypeOK /\ CallsOK
<1> SUFFICES ASSUME Init PROVE TypeOK /\ CallsOK
  OBVIOUS
<1> USE SizesAreNatural, LoopIsNoSender DEF Init, Thread
<1>1. /\ << >> \in Seq(Nat) /\ Len(<< >>) = 0
      /\ wbuf \in Seq(Nat) /\ wire \in Seq(Nat)
      /\ tail \in 0 .. BufSize /\ Len(wbuf) <= tail
  BY EmptySeq
<1>2. /\ protocol \in Protocols /\ {connecting, closed, freed, fdOpen} \subseteq BOOLEAN
      /\ {events, revents, epoll} \subseteq SUBSET {"read", "write"}
      /\ cb \in {"handle_event", "io_write_cb"}
      /\ peer \in {"syn", "up", "closed", "reset"}
  OBVIOUS
<1>3. /\ unread \in 0 .. SockCap /\ {accepted, inbox, sent, closes} \subseteq Nat
      /\ mutex \in Thread \cup {Nobody} /\ closer \in Thread \cup {Nobody}
  OBVIOUS
<1>4. /\ pc \in [Thread -> Labels \cup LoopLabels]
      /\ \A t \in Sender : pc[t] \in Labels
      /\ home \in [Thread -> {"idle", "dispatch", "he_read", "on_connect", "on_read"}]
      /\ len \in [Thread -> Nat]
  BY DEF Labels, LoopLabels
<1>5. CallsOK
  BY DEF CallsOK
<1> QED
  BY <1>1, <1>2, <1>3, <1>4, <1>5 DEF TypeOK

LEMMA RoomType ==
    TypeOK => Room \in Nat /\ unread + Room \in 0 .. SockCap
<1> SUFFICES ASSUME TypeOK PROVE Room \in Nat /\ unread + Room \in 0 .. SockCap
  OBVIOUS
<1>1. SockCap \in Nat /\ unread \in 0 .. SockCap
  BY SizesAreNatural DEF TypeOK
<1> QED
  BY <1>1 DEF Room

LEMMA TypeStep == TypeOK /\ CallsOK /\ [Next]_vars => TypeOK' /\ CallsOK'
<1> SUFFICES ASSUME TypeOK, CallsOK, [Next]_vars
             PROVE  TypeOK' /\ CallsOK'
  OBVIOUS
<1> USE SizesAreNatural, LoopIsNoSender
        DEF TypeOK, CallsOK, Thread, Labels, LoopLabels, At, Goto,
            state, kernel, buffer, calls, ghosts
<1>1. ASSUME NEW t \in Thread, NEW n \in Lengths, Send(t, n)
      PROVE  TypeOK' /\ CallsOK'
  BY <1>1 DEF Send, InUserCode
<1>2. ASSUME NEW t \in Thread, Close(t)
      PROVE  TypeOK' /\ CallsOK'
  BY <1>2 DEF Close, InUserCode
<1>3. ASSUME NEW t \in Thread, WriteLock(t)
      PROVE  TypeOK' /\ CallsOK'
  <2>1. /\ UNCHANGED <<state, kernel, buffer, calls, ghosts>>
        /\ \/ pc' = [pc EXCEPT ![t] = home[t]] /\ mutex' = mutex
           \/ pc' = [pc EXCEPT ![t] = "write"] /\ mutex' = t
    <3> HIDE DEF TypeOK, CallsOK, Labels, LoopLabels, state, kernel, buffer, calls, ghosts
    <3> QED BY <1>3 DEF WriteLock
  <2>2. /\ pc' \in [Thread -> Labels \cup LoopLabels]
        /\ \A u \in Sender : pc'[u] \in Labels
        /\ mutex' \in Thread \cup {Nobody}
    <3> HIDE DEF CallsOK, state, kernel, buffer, calls, ghosts
    <3>1. /\ pc \in [Thread -> Labels \cup LoopLabels] /\ mutex \in Thread \cup {Nobody}
          /\ \A u \in Sender : pc[u] \in Labels
          /\ home[t] \in Labels \cup LoopLabels /\ "write" \in Labels
      OBVIOUS
    <3>2. t \in Sender => home[t] \in Labels
      BY DEF CallsOK
    <3>3. mutex' \in Thread \cup {Nobody}
      <4> HIDE DEF TypeOK
      <4> QED BY <2>1, <3>1
    <3> HIDE DEF TypeOK, Thread, Labels, LoopLabels
    <3>4. PICK l \in Labels \cup LoopLabels :
              pc' = [pc EXCEPT ![t] = l] /\ (t \in Sender => l \in Labels)
      BY <2>1, <3>1, <3>2
    <3>5. Sender \subseteq Thread
      BY DEF Thread
    <3> QED BY <3>1, <3>3, <3>4, <3>5
  <2>3. UNCHANGED <<protocol, connecting, closed, freed, events, revents, cb, epoll, fdOpen,
                    wire, unread, inbox, sent, peer, wbuf, tail, accepted, home, len,
                    closes, closer>>
    <3> HIDE DEF TypeOK, CallsOK, Labels, LoopLabels
    <3> QED BY <2>1
  <2> HIDE DEF Thread, Labels, LoopLabels
  <2>4. CallsOK'
    <3> HIDE DEF TypeOK
    <3> QED BY <2>3
  <2>5. TypeOK'
    <3> HIDE DEF CallsOK, state, kernel, buffer, calls, ghosts
    <3> QED BY <2>2, <2>3
  <2> QED BY <2>4, <2>5
<1>4. ASSUME NEW t \in Thread, WriteBehind(t)
      PROVE  TypeOK' /\ CallsOK'
  <2> DEFINE new == Numbers(accepted, accepted + len[t])
  <2>1. new \in Seq(Nat) /\ Len(new) = len[t]
    <3>1. accepted \in Nat /\ len[t] \in Nat
      OBVIOUS
    <3> HIDE DEF TypeOK, CallsOK
    <3> QED BY <3>1, NextNumbers
  <2> HIDE DEF new
  <2>2. /\ wbuf \o new \in Seq(Nat) /\ Len(wbuf \o new) = Len(wbuf) + len[t]
        /\ Len(wbuf) \in Nat
    <3>1. wbuf \in Seq(Nat)
      OBVIOUS
    <3> HIDE DEF TypeOK, CallsOK
    <3>2. wbuf \o new \in Seq(Nat) /\ Len(wbuf \o new) = Len(wbuf) + Len(new)
      BY <2>1, <3>1, ConcatProperties
    <3>3. Len(wbuf) \in Nat
      BY <3>1, LenProperties
    <3> QED BY <2>1, <3>2, <3>3
  <2>3. wbuf' = wbuf \o new
    BY <1>4 DEF WriteBehind, new
  <2>4. Len(wbuf') <= tail' /\ tail' \in 0 .. BufSize /\ accepted' \in Nat
    <3>1. tail' = tail + len[t] /\ accepted' = accepted + len[t] /\ tail + len[t] <= BufSize
      BY <1>4 DEF WriteBehind
    <3>2. /\ tail \in Nat /\ accepted \in Nat /\ len[t] \in Nat /\ Len(wbuf) <= tail
          /\ BufSize \in Nat
      OBVIOUS
    <3> HIDE DEF TypeOK, CallsOK, Thread, Labels, LoopLabels, At, Goto, state, kernel,
                 buffer, calls, ghosts
    <3>3. Len(wbuf') = Len(wbuf) + len[t] /\ Len(wbuf) \in Nat
      BY <2>2, <2>3
    <3>4. Len(wbuf') <= tail' /\ 0 <= tail'
      BY <3>1, <3>2, <3>3
    <3>5. accepted' \in Nat
      BY <3>1, <3>2
    <3>6. tail' \in 0 .. BufSize
      BY <3>1, <3>2, <3>4
    <3> QED BY <3>4, <3>5, <3>6
  <2> QED BY <1>4, <2>2, <2>3, <2>4 DEF WriteBehind
<1>5. ASSUME NEW t \in Thread, WriteOverflow(t)
      PROVE  TypeOK' /\ CallsOK'
  BY <1>5 DEF WriteOverflow
<1>6. ASSUME NEW t \in Thread, WriteAll(t)
      PROVE  TypeOK' /\ CallsOK'
  <2> DEFINE new == Numbers(accepted, accepted + len[t])
  <2>1. new \in Seq(Nat) /\ Len(new) = len[t]
    <3>1. accepted \in Nat /\ len[t] \in Nat
      OBVIOUS
    <3> HIDE DEF TypeOK, CallsOK
    <3> QED BY <3>1, NextNumbers
  <2> HIDE DEF new
  <2>2. wire' = wire \o new /\ unread' = unread + Len(new)
    BY <1>6 DEF WriteAll, Transmit, new
  <2>3. wire' \in Seq(Nat)
    BY <2>1, <2>2, ConcatProperties
  <2>4. unread' \in 0 .. SockCap
    <3>1. unread' = unread + len[t] /\ len[t] <= Room
      BY <1>6, <2>1, <2>2 DEF WriteAll
    <3>2. unread \in Nat /\ len[t] \in Nat /\ SockCap \in Nat
      OBVIOUS
    <3> HIDE DEF TypeOK, CallsOK
    <3> QED BY <3>1, <3>2, RoomType
  <2>5. accepted' \in Nat
    <3>1. accepted' = accepted + len[t] /\ accepted \in Nat /\ len[t] \in Nat
      BY <1>6 DEF WriteAll
    <3> HIDE DEF TypeOK, CallsOK
    <3> QED BY <3>1
  <2> QED BY <1>6, <2>3, <2>4, <2>5 DEF WriteAll, Transmit
<1>7. ASSUME NEW t \in Thread, WriteSome(t)
      PROVE  TypeOK' /\ CallsOK'
  <2> DEFINE new  == Numbers(accepted, accepted + Room)
             rest == Numbers(accepted + Room, accepted + len[t])
  <2>1. /\ accepted \in Nat /\ Room \in Nat /\ Room < len[t] /\ len[t] - Room <= BufSize
        /\ unread + Room \in 0 .. SockCap
    BY <1>7, RoomType DEF WriteSome
  <2>2. new \in Seq(Nat) /\ Len(new) = Room
    <3> HIDE DEF TypeOK, CallsOK
    <3> QED BY <2>1, NextNumbers
  <2>3. rest \in Seq(Nat) /\ Len(rest) = len[t] - Room
    <3>1. /\ accepted + Room \in Nat /\ accepted + len[t] \in Nat
          /\ accepted + Room <= accepted + len[t]
          /\ (accepted + len[t]) - (accepted + Room) = len[t] - Room
      <4> HIDE DEF TypeOK
      <4>1. accepted \in Nat /\ len[t] \in Nat
        BY DEF TypeOK
      <4> QED BY <2>1, <4>1
    <3> QED BY <3>1, NumbersType
  <2> HIDE DEF new, rest
  <2>4. wire' = wire \o new /\ unread' = unread + Len(new) /\ wbuf' = rest
    BY <1>7 DEF WriteSome, Transmit, new, rest
  <2>5. wire' \in Seq(Nat)
    BY <2>2, <2>4, ConcatProperties
  <2>6. /\ unread' \in 0 .. SockCap /\ tail' \in 0 .. BufSize /\ accepted' \in Nat
        /\ wbuf' \in Seq(Nat) /\ Len(wbuf') <= tail'
    <3>1. tail' = len[t] - Room /\ accepted' = accepted + len[t] /\ len[t] \in Nat
      BY <1>7 DEF WriteSome
    <3>2. unread' = unread + Room
      BY <2>2, <2>4
    <3> HIDE DEF TypeOK, CallsOK
    <3>3. unread' \in 0 .. SockCap /\ wbuf' \in Seq(Nat)
      BY <2>1, <2>3, <2>4, <3>2
    <3>4. accepted' \in Nat
      BY <2>1, <3>1
    <3>5. tail' = len[t] - Room /\ Len(wbuf') = tail'
      BY <2>3, <2>4, <3>1
    <3>6. tail' \in 0 .. BufSize
      BY <2>1, <3>1, <3>5
    <3> QED BY <3>3, <3>4, <3>5, <3>6
  <2> QED BY <1>7, <2>5, <2>6 DEF WriteSome, Transmit
<1>7a. ASSUME NEW t \in Thread, WriteTooLong(t)
      PROVE  TypeOK' /\ CallsOK'
  <2> DEFINE new == Numbers(accepted, accepted + Room)
  <2>1. accepted \in Nat /\ Room \in Nat /\ unread + Room \in 0 .. SockCap
    BY RoomType
  <2>2. new \in Seq(Nat) /\ Len(new) = Room
    <3> HIDE DEF TypeOK, CallsOK
    <3> QED BY <2>1, NextNumbers
  <2> HIDE DEF new
  <2>3. /\ wire' = wire \o new /\ unread' = unread + Len(new)
        /\ accepted' = accepted + Room
    BY <1>7a DEF WriteTooLong, Transmit, new
  <2>4. wire' \in Seq(Nat)
    BY <2>2, <2>3, ConcatProperties
  <2>5. unread' \in 0 .. SockCap /\ accepted' \in Nat
    <3> HIDE DEF TypeOK, CallsOK
    <3> QED BY <2>1, <2>2, <2>3
  <2> QED BY <1>7a, <2>4, <2>5 DEF WriteTooLong, Transmit
<1>8. ASSUME NEW t \in Thread, WriteAdd(t)
      PROVE  TypeOK' /\ CallsOK'
  <2>1. {events', epoll'} \subseteq SUBSET {"read", "write"} /\ cb' = "io_write_cb"
    BY <1>8 DEF WriteAdd, IoAdd, EpollAdd
  <2> QED BY <1>8, <2>1 DEF WriteAdd
<1>9. ASSUME NEW t \in Thread, WriteWant(t)
      PROVE  TypeOK' /\ CallsOK'
  BY <1>9 DEF WriteWant
<1>10. ASSUME NEW t \in Thread, WriteError(t)
      PROVE  TypeOK' /\ CallsOK'
  BY <1>10 DEF WriteError
<1>11. ASSUME NEW t \in Thread, CloseMark(t)
      PROVE  TypeOK' /\ CallsOK'
  <2>1. CASE closed
    BY <1>11, <2>1, ZenonT(60) DEF CloseMark
  <2>2. CASE ~closed
    BY <1>11, <2>2, ZenonT(60) DEF CloseMark
  <2> QED BY <2>1, <2>2
<1>12. ASSUME NEW t \in Thread, CloseUnregister(t)
      PROVE  TypeOK' /\ CallsOK'
  BY <1>12 DEF CloseUnregister, IoDel
<1>13. ASSUME NEW t \in Thread, CloseCallback(t)
      PROVE  TypeOK' /\ CallsOK'
  <2>1. /\ closes' = closes + 1 /\ pc' = [pc EXCEPT ![t] = "release"]
        /\ UNCHANGED <<state, kernel, buffer, mutex, calls, closer>>
    <3> HIDE DEF TypeOK, CallsOK, Labels, LoopLabels, state, kernel, buffer, calls
    <3> QED BY <1>13 DEF CloseCallback
  <2>2. closes' \in Nat
    <3>1. closes \in Nat
      OBVIOUS
    <3> QED BY <2>1, <3>1
  <2>3. /\ pc' \in [Thread -> Labels \cup LoopLabels]
        /\ \A u \in Sender : pc'[u] \in Labels
    <3> HIDE DEF state, kernel, buffer, calls, ghosts
    <3> QED BY <2>1
  <2> HIDE DEF Thread, Labels, LoopLabels
  <2> QED BY <2>1, <2>2, <2>3
<1>14. ASSUME NEW t \in Thread, CloseRelease(t)
      PROVE  TypeOK' /\ CallsOK'
  <2>1. wbuf' \in Seq(Nat) /\ tail' \in 0 .. BufSize /\ Len(wbuf') <= tail'
    BY <1>14, EmptySeq DEF CloseRelease
  <2>2. freed' \in BOOLEAN /\ fdOpen' \in BOOLEAN /\ epoll' \in SUBSET {"read", "write"}
    BY <1>14 DEF CloseRelease
  <2>3. wire' \in Seq(Nat) /\ unread' = unread /\ accepted' = accepted
    BY <1>14 DEF CloseRelease
  <2> QED BY <1>14, <2>1, <2>2, <2>3 DEF CloseRelease
<1>15. CASE Poll
  BY <1>15 DEF Poll
<1>16. CASE Dispatch
  BY <1>16 DEF Dispatch, FlushThen
<1>17. CASE HeNoWrite
  BY <1>17 DEF HeNoWrite
<1>18. CASE HeWrite
  BY <1>18 DEF HeWrite, FlushThen
<1>19. CASE HeRefused
  BY <1>19 DEF HeRefused
<1>20. CASE HeConnected
  BY <1>20 DEF HeConnected, IoDel
<1>21. CASE ConnectReturn
  <2>1. {events', epoll'} \subseteq SUBSET {"read", "write"} /\ cb' = "handle_event"
    BY <1>21 DEF ConnectReturn, IoAdd, EpollAdd
  <2> QED BY <1>21, <2>1 DEF ConnectReturn
<1>22. CASE HeRead
  BY <1>22 DEF HeRead
<1>23. CASE ReadEnd
  BY <1>23 DEF ReadEnd
<1>24. CASE ReadData
  BY <1>24, SMTT(60) DEF ReadData
<1>25. CASE ReadReturn
  BY <1>25 DEF ReadReturn
<1>26. CASE FlushLock
  BY <1>26 DEF FlushLock
<1>27. CASE FlushNothing
  BY <1>27 DEF FlushNothing
<1>28. CASE FlushBytes
  <2> DEFINE n == IF Room < Len(wbuf) THEN Room ELSE Len(wbuf)
  <2>1. /\ Len(wbuf) \in Nat \ {0} /\ Room \in Nat \ {0} /\ unread + Room \in 0 .. SockCap
    <3>1. Room > 0 /\ wbuf # << >>
      BY <1>28 DEF FlushBytes
    <3> QED BY <3>1, EmptySeq, RoomType
  <2>2. n \in 1 .. Len(wbuf) /\ n <= Room
    <3> HIDE DEF TypeOK, CallsOK
    <3> QED BY <2>1
  <2> HIDE DEF n
  <2>3. /\ SubSeq(wbuf, 1, n) \in Seq(Nat) /\ Len(SubSeq(wbuf, 1, n)) = n
        /\ SubSeq(wbuf, n + 1, Len(wbuf)) \in Seq(Nat)
        /\ Len(SubSeq(wbuf, n + 1, Len(wbuf))) = Len(wbuf) - n
    BY <2>2, CutInTwo
  <2>4. /\ wire' = wire \o SubSeq(wbuf, 1, n) /\ unread' = unread + Len(SubSeq(wbuf, 1, n))
        /\ wbuf' = SubSeq(wbuf, n + 1, Len(wbuf))
        /\ tail' = IF n = Len(wbuf) THEN 0 ELSE tail
    BY <1>28 DEF FlushBytes, Transmit, n
  <2>5. wire' \in Seq(Nat)
    BY <2>3, <2>4, ConcatProperties
  <2>6. unread' \in 0 .. SockCap /\ wbuf' \in Seq(Nat)
    <3>1. unread' = unread + n
      BY <2>3, <2>4
    <3>2. unread \in Nat /\ SockCap \in Nat /\ Len(wbuf) \in Nat
      BY <2>1
    <3> HIDE DEF TypeOK, CallsOK
    <3> QED BY <2>1, <2>2, <2>3, <2>4, <3>1, <3>2
  <2>7. tail' \in 0 .. BufSize /\ Len(wbuf') <= tail'
    <3>1. tail \in 0 .. BufSize /\ Len(wbuf) <= tail /\ Len(wbuf) \in Nat
      BY <2>1
    <3>2. Len(wbuf') = Len(wbuf) - n
      BY <2>3, <2>4
    <3> HIDE DEF TypeOK, CallsOK
    <3>3. CASE n = Len(wbuf)
      BY <2>4, <3>1, <3>2, <3>3
    <3>4. CASE n # Len(wbuf)
      BY <2>2, <2>4, <3>1, <3>2, <3>4
    <3> QED BY <3>3, <3>4
  <2> QED BY <1>28, <2>5, <2>6, <2>7 DEF FlushBytes, Transmit
<1>29. CASE FlushError
  BY <1>29 DEF FlushError
<1>30. CASE UseAfterFree
  BY <1>30 DEF UseAfterFree
<1>31. CASE PeerAccept
  BY <1>31 DEF PeerAccept, PeerDoes
<1>32. CASE PeerSend
  <2>1. inbox' \in Nat /\ sent' \in Nat
    <3>1. inbox \in Nat /\ sent \in Nat
      OBVIOUS
    <3> HIDE DEF TypeOK, CallsOK
    <3> QED BY <1>32, <3>1 DEF PeerSend
  <2> QED BY <1>32, <2>1 DEF PeerSend, PeerDoes
<1>33. CASE PeerRead
  <2>1. unread' \in 0 .. SockCap
    BY <1>33 DEF PeerRead
  <2> QED BY <1>33, <2>1 DEF PeerRead, PeerDoes
<1>34. CASE PeerClose
  BY <1>34 DEF PeerClose, PeerDoes
<1>35. CASE PeerReset
  BY <1>35 DEF PeerReset, PeerDoes
<1>36. CASE UNCHANGED vars
  BY <1>36 DEF vars
<1> QED
  BY <1>1, <1>2, <1>3, <1>4, <1>5, <1>6, <1>7, <1>7a, <1>8, <1>9, <1>10, <1>11,
     <1>12, <1>13, <1>14, <1>15, <1>16, <1>17, <1>18, <1>19, <1>20, <1>21,
     <1>22, <1>23, <1>24, <1>25, <1>26, <1>27, <1>28, <1>29, <1>30, <1>31,
     <1>32, <1>33, <1>34, <1>35, <1>36
  DEF Next, WriteStep, CloseStep, LoopStep, Peer

-----------------------------------------------------------------------------
(* The lock, the close and the connection attempt.                         *)

Control == LockOK /\ CloseOK /\ ConnectOK /\ LoopCloseOK

LEMMA ControlInit == Init => Control
BY SizesAreNatural, LoopIsNoSender, NobodyIsNoThread
DEF Init, Control, LockOK, CloseOK, ConnectOK, LoopCloseOK, Thread, Calling, Closing, Labels

\* The owner of write_mutex leaves its critical section.
LEMMA UnlockKeepsLock ==
    ASSUME TypeOK, LockOK, NEW t \in Thread, mutex = t,
           NEW l, l \notin {"write", "add", "flush"},
           pc' = [pc EXCEPT ![t] = l]
    PROVE  LockOK'
<1>1. \A u \in Thread : pc'[u] = IF u = t THEN l ELSE pc[u]
  BY DEF TypeOK
<1>2. Loop \in Thread
  BY DEF Thread
<1>3. \A u \in Thread : pc'[u] \notin {"write", "add"}
  BY <1>1 DEF LockOK
<1>4. pc'[Loop] # "flush"
  BY <1>1, <1>2 DEF LockOK
<1> QED BY <1>3, <1>4 DEF LockOK

LEMMA ControlStep ==
    TypeOK /\ CallsOK /\ Control /\ [Next]_vars => Control'
<1> SUFFICES ASSUME TypeOK, CallsOK, Control, [Next]_vars
             PROVE  Control'
  OBVIOUS
<1> USE LoopIsNoSender, NobodyIsNoThread
        DEF TypeOK, CallsOK, Control, LockOK, CloseOK, ConnectOK, LoopCloseOK,
            Thread, Labels, LoopLabels, Calling, Closing, At, Goto,
            state, kernel, buffer, calls, ghosts, CanLock, Alive
<1>1. ASSUME NEW t \in Thread, NEW n \in Lengths, Send(t, n)
      PROVE  Control'
  BY <1>1 DEF Send, InUserCode
<1>2. ASSUME NEW t \in Thread, Close(t)
      PROVE  Control'
  BY <1>2 DEF Close, InUserCode
<1>3. ASSUME NEW t \in Thread, WriteLock(t)
      PROVE  Control'
  <2>1. CASE closed
    <3>1. pc' = [pc EXCEPT ![t] = home[t]]
          /\ UNCHANGED <<state, kernel, buffer, mutex, calls, ghosts>>
      BY <1>3, <2>1 DEF WriteLock
    <3>2. LockOK'
      BY <1>3, <2>1, <3>1 DEF WriteLock
    <3>3. CloseOK'
      <4>1. pc[t] \notin Closing /\ home[t] \notin Closing
        BY <1>3 DEF WriteLock
      <4>2. /\ \A u \in Thread : pc'[u] \in Closing => pc'[u] = pc[u]
            /\ \A u \in Thread : pc[u] \in Closing => pc'[u] = pc[u]
        BY <3>1, <4>1
      <4>3. closed /\ ~freed => pc'[closer] \in Closing
        BY <4>2
      <4> QED BY <3>1, <4>2, <4>3
    <3>4. ConnectOK'
      BY <1>3, <2>1, <3>1 DEF WriteLock
    <3>5. LoopCloseOK'
      BY <1>3, <2>1, <3>1 DEF WriteLock
    <3> QED BY <3>2, <3>3, <3>4, <3>5
  <2>2. CASE ~closed
    BY <1>3, <2>2 DEF WriteLock
  <2> QED BY <2>1, <2>2
<1>4. ASSUME NEW t \in Thread, WriteBehind(t)
      PROVE  Control'
  <2>1. /\ pc[t] = "write" /\ mutex = t /\ pc' = [pc EXCEPT ![t] = home[t]]
        /\ mutex' = Nobody /\ UNCHANGED <<state, kernel, calls, ghosts>>
    BY <1>4 DEF WriteBehind
  <2> HIDE DEF kernel
  <2>2. LockOK'
    <3>1. home[t] \notin {"write", "add", "flush"}
      OBVIOUS
    <3> HIDE DEF LockOK
    <3> QED BY <2>1, <3>1, UnlockKeepsLock
  <2> USE DEF kernel
  <2>3. CloseOK'
    BY <2>1
  <2>4. ConnectOK'
    BY <2>1
  <2>5. LoopCloseOK'
    BY <2>1
  <2> QED BY <2>2, <2>3, <2>4, <2>5
<1>5. ASSUME NEW t \in Thread, WriteOverflow(t)
      PROVE  Control'
  BY <1>5 DEF WriteOverflow
<1>6. ASSUME NEW t \in Thread, WriteAll(t)
      PROVE  Control'
  BY <1>6 DEF WriteAll, Transmit, Room
<1>7. ASSUME NEW t \in Thread, WriteSome(t)
      PROVE  Control'
  BY <1>7 DEF WriteSome, Transmit, Room
<1>7a. ASSUME NEW t \in Thread, WriteTooLong(t)
      PROVE  Control'
  BY <1>7a DEF WriteTooLong, Transmit, Room
<1>8. ASSUME NEW t \in Thread, WriteAdd(t)
      PROVE  Control'
  <2>1. LockOK'
    <3>1. pc[t] = "add" /\ mutex = t /\ pc' = [pc EXCEPT ![t] = home[t]]
      BY <1>8 DEF WriteAdd
    <3>2. home[t] \notin {"write", "add", "flush"}
      OBVIOUS
    <3> HIDE DEF LockOK
    <3> QED BY <3>1, <3>2, UnlockKeepsLock
  <2>2. CloseOK'
    BY <1>8 DEF WriteAdd, IoAdd, EpollAdd
  <2>3. ConnectOK'
    BY <1>8 DEF WriteAdd, IoAdd, EpollAdd
  <2>4. LoopCloseOK'
    BY <1>8 DEF WriteAdd, IoAdd, EpollAdd
  <2> QED BY <2>1, <2>2, <2>3, <2>4
<1>9. ASSUME NEW t \in Thread, WriteWant(t)
      PROVE  Control'
  BY <1>9 DEF WriteWant
<1>10. ASSUME NEW t \in Thread, WriteError(t)
      PROVE  Control'
  BY <1>10 DEF WriteError
<1>11. ASSUME NEW t \in Thread, CloseMark(t)
      PROVE  Control'
  <2>1. CASE closed
    <3>1. pc' = [pc EXCEPT ![t] = home[t]]
          /\ UNCHANGED <<state, kernel, buffer, mutex, calls, ghosts>>
      BY <1>11, <2>1 DEF CloseMark
    <3>2. LockOK'
      BY <1>11, <2>1, <3>1 DEF CloseMark
    <3>3. CloseOK'
      <4>1. pc[t] \notin Closing /\ home[t] \notin Closing
        BY <1>11 DEF CloseMark
      <4>2. /\ \A u \in Thread : pc'[u] \in Closing => pc'[u] = pc[u]
            /\ \A u \in Thread : pc[u] \in Closing => pc'[u] = pc[u]
        BY <3>1, <4>1
      <4>3. closed /\ ~freed => pc'[closer] \in Closing
        BY <4>2
      <4> QED BY <3>1, <4>2, <4>3
    <3>4. ConnectOK'
      BY <1>11, <2>1, <3>1 DEF CloseMark
    <3>5. LoopCloseOK'
      BY <1>11, <2>1, <3>1 DEF CloseMark
    <3> QED BY <3>2, <3>3, <3>4, <3>5
  <2>2. CASE ~closed
    <3>1. /\ pc' = [pc EXCEPT ![t] = "unregister"] /\ pc[t] = "close"
          /\ closed' = TRUE /\ closer' = t /\ mutex = Nobody
          /\ UNCHANGED <<protocol, connecting, freed, events, revents, cb, kernel, buffer,
                         mutex, calls, closes>>
      BY <1>11, <2>2 DEF CloseMark
    <3>2. /\ pc'[t] = "unregister"
          /\ \A u \in Thread : u # t => pc'[u] = pc[u]
      BY <3>1
    <3>3. LockOK'
      BY <2>2, <3>1, <3>2
    <3>4. CloseOK'
      BY <2>2, <3>1, <3>2
    <3>5. ConnectOK'
      BY <3>1, <3>2
    <3>6. LoopCloseOK'
      BY <2>2, <3>1, <3>2
    <3> QED BY <3>3, <3>4, <3>5, <3>6
  <2> QED BY <2>1, <2>2
<1>12. ASSUME NEW t \in Thread, CloseUnregister(t)
      PROVE  Control'
  BY <1>12 DEF CloseUnregister, IoDel
<1>13. ASSUME NEW t \in Thread, CloseCallback(t)
      PROVE  Control'
  BY <1>13 DEF CloseCallback
<1>14. ASSUME NEW t \in Thread, CloseRelease(t)
      PROVE  Control'
  <2>1. /\ freed' = TRUE /\ fdOpen' = FALSE /\ epoll' = {}
        /\ pc[t] = "release" /\ pc' = [pc EXCEPT ![t] = home[t]]
        /\ home[t] \in {"idle", "dispatch", "he_read", "on_connect", "on_read"}
        /\ UNCHANGED <<connecting, closed, events, revents, mutex, home, closes, closer>>
    BY <1>14 DEF CloseRelease
  <2>2. closed /\ closer = t /\ ~freed /\ closes = 1 /\ "write" \notin events
    BY <2>1
  <2>3. LockOK'
    BY <2>1, <2>2
  <2>4. CloseOK'
    BY <2>1, <2>2
  <2>5. ConnectOK'
    BY <2>1, <2>2
  <2>6. LoopCloseOK'
    BY <2>1, <2>2
  <2> QED BY <2>3, <2>4, <2>5, <2>6
<1>15. CASE Poll
  BY <1>15 DEF Poll
<1>16. CASE Dispatch
  BY <1>16 DEF Dispatch, FlushThen
<1>17. CASE HeNoWrite
  BY <1>17 DEF HeNoWrite
<1>18. CASE HeWrite
  BY <1>18 DEF HeWrite, FlushThen
<1>19. CASE HeRefused
  <2>1. LockOK'
    BY <1>19 DEF HeRefused
  <2>2. CloseOK'
    BY <1>19 DEF HeRefused
  <2>3. ConnectOK'
    BY <1>19 DEF HeRefused
  <2>4. LoopCloseOK'
    BY <1>19 DEF HeRefused, WriteEvent
  <2> QED BY <2>1, <2>2, <2>3, <2>4
<1>20. CASE HeConnected
  BY <1>20 DEF HeConnected, IoDel
<1>21. CASE ConnectReturn
  <2>1. LockOK'
    BY <1>21 DEF ConnectReturn, IoAdd, EpollAdd
  <2>2. CloseOK'
    BY <1>21 DEF ConnectReturn, IoAdd, EpollAdd
  <2>3. ConnectOK'
    BY <1>21 DEF ConnectReturn, IoAdd, EpollAdd
  <2>4. LoopCloseOK'
    BY <1>21 DEF ConnectReturn, IoAdd, EpollAdd
  <2> QED BY <2>1, <2>2, <2>3, <2>4
<1>22. CASE HeRead
  BY <1>22 DEF HeRead
<1>23. CASE ReadEnd
  BY <1>23 DEF ReadEnd
<1>24. CASE ReadData
  BY <1>24 DEF ReadData
<1>25. CASE ReadReturn
  BY <1>25 DEF ReadReturn
<1>26. CASE FlushLock
  BY <1>26 DEF FlushLock
<1>27. CASE FlushNothing
  <2>1. LockOK'
    <3>1. pc[Loop] = "flush" /\ mutex = Loop /\ pc' = [pc EXCEPT ![Loop] = home[Loop]]
      BY <1>27 DEF FlushNothing
    <3>2. home[Loop] \notin {"write", "add", "flush"}
      OBVIOUS
    <3> HIDE DEF LockOK
    <3> QED BY <3>1, <3>2, UnlockKeepsLock
  <2>2. CloseOK'
    BY <1>27 DEF FlushNothing
  <2>3. ConnectOK'
    BY <1>27 DEF FlushNothing
  <2>4. LoopCloseOK'
    BY <1>27 DEF FlushNothing
  <2> QED BY <2>1, <2>2, <2>3, <2>4
<1>28. CASE FlushBytes
  <2> HIDE DEF state, kernel, buffer, calls, ghosts
  <2>1. /\ pc[Loop] = "flush" /\ mutex' = Nobody /\ pc' = [pc EXCEPT ![Loop] = home[Loop]]
        /\ UNCHANGED <<state, epoll, fdOpen, calls, ghosts>>
    BY <1>28 DEF FlushBytes, Transmit
  <2> USE DEF state, calls, ghosts
  <2>2. LockOK'
    <3>1. \A t \in Thread : pc[t] \notin {"write", "add"}
      BY <2>1
    <3>2. \A t \in Thread : pc'[t] \notin {"write", "add"}
      BY <2>1, <3>1
    <3> QED BY <2>1, <3>2
  <2>3. CloseOK'
    BY <2>1
  <2>4. ConnectOK'
    BY <2>1
  <2>5. LoopCloseOK'
    BY <2>1
  <2> QED BY <2>2, <2>3, <2>4, <2>5
<1>29. CASE FlushError
  <2>1. LockOK'
    BY <1>29 DEF FlushError
  <2>2. CloseOK'
    BY <1>29 DEF FlushError
  <2>3. ConnectOK'
    BY <1>29 DEF FlushError
  <2>4. LoopCloseOK'
    BY <1>29 DEF FlushError
  <2> QED BY <2>1, <2>2, <2>3, <2>4
<1>30. CASE UseAfterFree
  BY <1>30 DEF UseAfterFree
<1>31. CASE PeerAccept
  BY <1>31 DEF PeerAccept, PeerDoes
<1>32. CASE PeerSend
  BY <1>32 DEF PeerSend, PeerDoes
<1>33. CASE PeerRead
  BY <1>33 DEF PeerRead, PeerDoes
<1>34. CASE PeerClose
  BY <1>34 DEF PeerClose, PeerDoes
<1>35. CASE PeerReset
  BY <1>35 DEF PeerReset, PeerDoes
<1>36. CASE UNCHANGED vars
  BY <1>36 DEF vars
<1> QED
  BY <1>1, <1>2, <1>3, <1>4, <1>5, <1>6, <1>7, <1>7a, <1>8, <1>9, <1>10, <1>11,
     <1>12, <1>13, <1>14, <1>15, <1>16, <1>17, <1>18, <1>19, <1>20, <1>21,
     <1>22, <1>23, <1>24, <1>25, <1>26, <1>27, <1>28, <1>29, <1>30, <1>31,
     <1>32, <1>33, <1>34, <1>35, <1>36
  DEF Next, WriteStep, CloseStep, LoopStep, Peer

-----------------------------------------------------------------------------
(* The safety invariants of the run conn_safety.                           *)

LEMMA ControlImpliesClosedOnce == TypeOK /\ Control => ClosedOnce
BY DEF TypeOK, Control, CloseOK, Closing, ClosedOnce

LEMMA SocketInit == Init => SocketOK
<1> SUFFICES ASSUME Init PROVE SocketOK
  OBVIOUS
<1>1. unread = 0 /\ Len(wire) = 0
  BY EmptySeq DEF Init
<1>2. protocol = "ssl" => peer # "syn"
  BY DEF Init
<1>3. \A t \in Thread : pc[t] \notin {"lock", "write"}
  BY DEF Init
<1> QED
  BY <1>1, <1>2, <1>3 DEF SocketOK

\* Bytes given to the socket.
LEMMA TransmitFacts ==
    ASSUME TypeOK, SocketOK, NEW b \in Seq(Nat), Transmit(b)
    PROVE  /\ Len(wire) \in Nat /\ Len(wire') \in Nat /\ Len(wire') >= Len(wire)
           /\ unread' <= Len(wire') /\ peer' = peer
<1>1. /\ wire \in Seq(Nat) /\ wire' = wire \o b /\ unread' = unread + Len(b)
      /\ peer' = peer /\ unread \in Nat /\ unread <= Len(wire)
  BY SizesAreNatural DEF TypeOK, SocketOK, Transmit
<1>2. Len(wire') = Len(wire) + Len(b)
  BY <1>1, ConcatProperties
<1>3. Len(wire) \in Nat /\ Len(b) \in Nat
  BY <1>1, LenProperties
<1> QED
  BY <1>1, <1>2, <1>3

LEMMA SocketStep ==
    TypeOK /\ CallsOK /\ SocketOK /\ [Next]_vars
        => SocketOK' /\ (CanFillSocket => CanFillSocket')
<1> SUFFICES ASSUME TypeOK, CallsOK, SocketOK, [Next]_vars
             PROVE  SocketOK' /\ (CanFillSocket => CanFillSocket')
  OBVIOUS
<1>a. Len(wire) \in Nat /\ SockCap \in Nat /\ Lengths \subseteq Nat /\ unread \in Nat
  BY LenProperties, SizesAreNatural DEF TypeOK
<1>b. \A t \in Thread : len[t] \in Nat
  BY DEF TypeOK
<1>t. ASSUME NEW b \in Seq(Nat), Transmit(b), UNCHANGED <<protocol, len>>,
             \A t \in Thread : pc'[t] \in {"lock", "write"} => pc'[t] = pc[t]
      PROVE  SocketOK' /\ (CanFillSocket => CanFillSocket')
  <2>1. /\ Len(wire') \in Nat /\ Len(wire') >= Len(wire)
        /\ unread' <= Len(wire') /\ peer' = peer
    BY <1>t, TransmitFacts
  <2>2. CanFillSocket => CanFillSocket'
    BY <1>a, <2>1 DEF CanFillSocket
  <2> QED
    BY <1>t, <2>1, <2>2 DEF SocketOK
<1>u. ASSUME UNCHANGED wire, unread' = unread \/ unread' = unread - 1,
             UNCHANGED protocol, protocol = "ssl" => (peer' = "syn" => peer = "syn"),
             \A t \in Thread : pc'[t] \in {"lock", "write"} =>
                 len'[t] \in Lengths \/ (pc[t] \in {"lock", "write"} /\ len'[t] = len[t])
      PROVE  SocketOK' /\ (CanFillSocket => CanFillSocket')
  <2>1. unread' <= Len(wire')
    BY <1>a, <1>u DEF SocketOK
  <2>2. CanFillSocket => CanFillSocket'
    BY <1>u DEF CanFillSocket
  <2> QED
    BY <1>u, <2>1, <2>2 DEF SocketOK
<1> USE LoopIsNoSender
        DEF Thread, At, Goto, state, kernel, buffer, calls, ghosts
<1>p. pc \in [Thread -> Labels \cup LoopLabels] /\ len \in [Thread -> Nat]
      /\ home \in [Thread -> {"idle", "dispatch", "he_read", "on_connect", "on_read"}]
  BY DEF TypeOK
<1>n. ASSUME NEW m \in Nat, NEW n \in Nat, m <= n
      PROVE  Numbers(m, n) \in Seq(Nat)
  BY <1>n, NumbersType
<1>l. accepted \in Nat /\ Room \in Nat
  BY RoomType DEF TypeOK
<1>1. ASSUME NEW t \in Thread, NEW n \in Lengths, Send(t, n)
      PROVE  SocketOK' /\ (CanFillSocket => CanFillSocket')
  BY <1>1, <1>u, <1>p DEF Send
<1>2. ASSUME NEW t \in Thread, Close(t)
      PROVE  SocketOK' /\ (CanFillSocket => CanFillSocket')
  BY <1>2, <1>u, <1>p DEF Close
<1>3. ASSUME NEW t \in Thread, WriteLock(t)
      PROVE  SocketOK' /\ (CanFillSocket => CanFillSocket')
  BY <1>3, <1>u, <1>p DEF WriteLock
<1>4. ASSUME NEW t \in Thread, WriteBehind(t)
      PROVE  SocketOK' /\ (CanFillSocket => CanFillSocket')
  BY <1>4, <1>u, <1>p DEF WriteBehind
<1>5. ASSUME NEW t \in Thread, WriteOverflow(t)
      PROVE  SocketOK' /\ (CanFillSocket => CanFillSocket')
  BY <1>5, <1>u, <1>p DEF WriteOverflow
<1>6. ASSUME NEW t \in Thread, WriteAll(t)
      PROVE  SocketOK' /\ (CanFillSocket => CanFillSocket')
  <2>1. Numbers(accepted, accepted + len[t]) \in Seq(Nat)
    BY <1>n, <1>b, <1>l
  <2>2. Transmit(Numbers(accepted, accepted + len[t])) /\ UNCHANGED <<protocol, len>>
    BY <1>6 DEF WriteAll
  <2>3. \A u \in Thread : pc'[u] \in {"lock", "write"} => pc'[u] = pc[u]
    BY <1>6, <1>p DEF WriteAll
  <2> QED BY <2>1, <2>2, <2>3, <1>t
<1>7. ASSUME NEW t \in Thread, WriteSome(t)
      PROVE  SocketOK' /\ (CanFillSocket => CanFillSocket')
  <2>1. Numbers(accepted, accepted + Room) \in Seq(Nat)
    BY <1>n, <1>b, <1>l
  <2>2. Transmit(Numbers(accepted, accepted + Room)) /\ UNCHANGED <<protocol, len>>
    BY <1>7 DEF WriteSome
  <2>3. \A u \in Thread : pc'[u] \in {"lock", "write"} => pc'[u] = pc[u]
    BY <1>7, <1>p DEF WriteSome
  <2> QED BY <2>1, <2>2, <2>3, <1>t
<1>7a. ASSUME NEW t \in Thread, WriteTooLong(t)
      PROVE  SocketOK' /\ (CanFillSocket => CanFillSocket')
  <2>1. Numbers(accepted, accepted + Room) \in Seq(Nat)
    BY <1>n, <1>b, <1>l
  <2>2. Transmit(Numbers(accepted, accepted + Room)) /\ UNCHANGED <<protocol, len>>
    BY <1>7a DEF WriteTooLong
  <2>3. \A u \in Thread : pc'[u] \in {"lock", "write"} => pc'[u] = pc[u]
    BY <1>7a, <1>p DEF WriteTooLong
  <2> QED BY <2>1, <2>2, <2>3, <1>t
<1>8. ASSUME NEW t \in Thread, WriteAdd(t)
      PROVE  SocketOK' /\ (CanFillSocket => CanFillSocket')
  BY <1>8, <1>u, <1>p DEF WriteAdd, IoAdd, EpollAdd
<1>9. ASSUME NEW t \in Thread, WriteWant(t)
      PROVE  SocketOK' /\ (CanFillSocket => CanFillSocket')
  BY <1>9, <1>u, <1>p DEF WriteWant
<1>10. ASSUME NEW t \in Thread, WriteError(t)
      PROVE  SocketOK' /\ (CanFillSocket => CanFillSocket')
  BY <1>10, <1>u, <1>p DEF WriteError
<1>11. ASSUME NEW t \in Thread, CloseMark(t)
      PROVE  SocketOK' /\ (CanFillSocket => CanFillSocket')
  BY <1>11, <1>u, <1>p DEF CloseMark
<1>12. ASSUME NEW t \in Thread, CloseUnregister(t)
      PROVE  SocketOK' /\ (CanFillSocket => CanFillSocket')
  BY <1>12, <1>u, <1>p DEF CloseUnregister, IoDel
<1>13. ASSUME NEW t \in Thread, CloseCallback(t)
      PROVE  SocketOK' /\ (CanFillSocket => CanFillSocket')
  BY <1>13, <1>u, <1>p DEF CloseCallback
<1>14. ASSUME NEW t \in Thread, CloseRelease(t)
      PROVE  SocketOK' /\ (CanFillSocket => CanFillSocket')
  BY <1>14, <1>u, <1>p DEF CloseRelease
<1>15. CASE Poll
  BY <1>15, <1>u, <1>p DEF Poll
<1>16. CASE Dispatch
  BY <1>16, <1>u, <1>p DEF Dispatch, FlushThen
<1>17. CASE HeNoWrite
  BY <1>17, <1>u, <1>p DEF HeNoWrite
<1>18. CASE HeWrite
  BY <1>18, <1>u, <1>p DEF HeWrite, FlushThen
<1>19. CASE HeRefused
  BY <1>19, <1>u, <1>p DEF HeRefused
<1>20. CASE HeConnected
  BY <1>20, <1>u, <1>p DEF HeConnected, IoDel
<1>21. CASE ConnectReturn
  BY <1>21, <1>u, <1>p DEF ConnectReturn, IoAdd, EpollAdd
<1>22. CASE HeRead
  BY <1>22, <1>u, <1>p DEF HeRead
<1>23. CASE ReadEnd
  BY <1>23, <1>u, <1>p DEF ReadEnd
<1>24. CASE ReadData
  BY <1>24, <1>u, <1>p DEF ReadData
<1>25. CASE ReadReturn
  BY <1>25, <1>u, <1>p DEF ReadReturn
<1>26. CASE FlushLock
  BY <1>26, <1>u, <1>p DEF FlushLock
<1>27. CASE FlushNothing
  BY <1>27, <1>u, <1>p DEF FlushNothing
<1>28. CASE FlushBytes
  <2> DEFINE n == IF Room < Len(wbuf) THEN Room ELSE Len(wbuf)
  <2>1. SubSeq(wbuf, 1, n) \in Seq(Nat)
    <3>1. wbuf \in Seq(Nat) /\ Len(wbuf) \in Nat
      BY LenProperties DEF TypeOK
    <3>2. n \in 0 .. Len(wbuf)
      BY <3>1, <1>l
    <3> QED BY <3>1, <3>2, SubSeqProperties
  <2>2. Transmit(SubSeq(wbuf, 1, n)) /\ UNCHANGED <<protocol, len>>
    BY <1>28 DEF FlushBytes
  <2>3. \A u \in Thread : pc'[u] \in {"lock", "write"} => pc'[u] = pc[u]
    BY <1>28, <1>p DEF FlushBytes
  <2> QED BY <2>1, <2>2, <2>3, <1>t
<1>29. CASE FlushError
  BY <1>29, <1>u, <1>p DEF FlushError
<1>30. CASE UseAfterFree
  BY <1>30, <1>u, <1>p DEF UseAfterFree
<1>31. CASE PeerAccept
  BY <1>31, <1>u, <1>p DEF PeerAccept, PeerDoes
<1>32. CASE PeerSend
  BY <1>32, <1>u, <1>p DEF PeerSend, PeerDoes
<1>33. CASE PeerRead
  BY <1>33, <1>u, <1>p DEF PeerRead, PeerDoes
<1>34. CASE PeerClose
  BY <1>34, <1>u, <1>p DEF PeerClose, PeerDoes
<1>35. CASE PeerReset
  BY <1>35, <1>u, <1>p DEF PeerReset, PeerDoes
<1>36. CASE UNCHANGED vars
  BY <1>36, <1>u DEF vars
<1> QED
  BY <1>1, <1>2, <1>3, <1>4, <1>5, <1>6, <1>7, <1>7a, <1>8, <1>9, <1>10, <1>11,
     <1>12, <1>13, <1>14, <1>15, <1>16, <1>17, <1>18, <1>19, <1>20, <1>21,
     <1>22, <1>23, <1>24, <1>25, <1>26, <1>27, <1>28, <1>29, <1>30, <1>31,
     <1>32, <1>33, <1>34, <1>35, <1>36
  DEF Next, WriteStep, CloseStep, LoopStep, Peer

LEMMA LockStep ==
    TypeOK /\ CallsOK /\ Control /\ SocketOK /\ LockIsReturned /\ [Next]_vars
        => LockIsReturned'
<1> SUFFICES ASSUME TypeOK, CallsOK, Control, SocketOK, LockIsReturned, [Next]_vars
             PROVE  LockIsReturned'
  OBVIOUS
<1>s. CanFillSocket => CanFillSocket'
  BY SocketStep
<1> USE LoopIsNoSender, NobodyIsNoThread
        DEF TypeOK, CallsOK, Control, LockOK, CloseOK, LockIsReturned,
            LoopWaitsForItself, Closing,
            Thread, Labels, LoopLabels, At, Goto,
            state, kernel, buffer, calls, ghosts, CanLock, Alive
<1>1. ASSUME NEW t \in Thread, NEW n \in Lengths, Send(t, n)
      PROVE  LockIsReturned'
  BY <1>1, <1>s DEF Send, InUserCode
<1>2. ASSUME NEW t \in Thread, Close(t)
      PROVE  LockIsReturned'
  BY <1>2, <1>s DEF Close, InUserCode
<1>3. ASSUME NEW t \in Thread, WriteLock(t)
      PROVE  LockIsReturned'
  BY <1>3, <1>s DEF WriteLock
<1>4. ASSUME NEW t \in Thread, WriteBehind(t)
      PROVE  LockIsReturned'
  BY <1>4, <1>s DEF WriteBehind
<1>5. ASSUME NEW t \in Thread, WriteOverflow(t)
      PROVE  LockIsReturned'
  BY <1>5, <1>s DEF WriteOverflow
<1>6. ASSUME NEW t \in Thread, WriteAll(t)
      PROVE  LockIsReturned'
  BY <1>6, <1>s DEF WriteAll, Transmit, Room
<1>7. ASSUME NEW t \in Thread, WriteSome(t)
      PROVE  LockIsReturned'
  BY <1>7, <1>s DEF WriteSome, Transmit, Room
<1>7a. ASSUME NEW t \in Thread, WriteTooLong(t)
      PROVE  LockIsReturned'
  BY <1>7a, <1>s DEF WriteTooLong, Transmit, Room
<1>8. ASSUME NEW t \in Thread, WriteAdd(t)
      PROVE  LockIsReturned'
  BY <1>8, <1>s DEF WriteAdd, IoAdd, EpollAdd
<1>9. ASSUME NEW t \in Thread, WriteWant(t)
      PROVE  LockIsReturned'
  <2>1. protocol = "ssl" /\ len[t] \in Lengths /\ Room < len[t]
    BY <1>9 DEF WriteWant, SocketOK
  <2>2. unread + len[t] > SockCap
    <3>1. Room = SockCap - unread
      BY <2>1 DEF Room, SocketOK
    <3> QED BY <2>1, <3>1, SizesAreNatural
  <2>3. CanFillSocket
    <3>1. Len(wire) + len[t] > SockCap
      BY <2>1, <2>2, SizesAreNatural, LenProperties DEF SocketOK
    <3> QED BY <2>1, <3>1 DEF CanFillSocket
  <2> QED BY <1>9, <1>s, <2>1, <2>3 DEF WriteWant
<1>10. ASSUME NEW t \in Thread, WriteError(t)
      PROVE  LockIsReturned'
  BY <1>10, <1>s DEF WriteError
<1>11. ASSUME NEW t \in Thread, CloseMark(t)
      PROVE  LockIsReturned'
  BY <1>11, <1>s DEF CloseMark
<1>12. ASSUME NEW t \in Thread, CloseUnregister(t)
      PROVE  LockIsReturned'
  BY <1>12, <1>s DEF CloseUnregister, IoDel
<1>13. ASSUME NEW t \in Thread, CloseCallback(t)
      PROVE  LockIsReturned'
  BY <1>13, <1>s DEF CloseCallback
<1>14. ASSUME NEW t \in Thread, CloseRelease(t)
      PROVE  LockIsReturned'
  BY <1>14, <1>s DEF CloseRelease
<1>15. CASE Poll
  BY <1>15, <1>s DEF Poll
<1>16. CASE Dispatch
  BY <1>16, <1>s DEF Dispatch, FlushThen
<1>17. CASE HeNoWrite
  BY <1>17, <1>s DEF HeNoWrite
<1>18. CASE HeWrite
  BY <1>18, <1>s DEF HeWrite, FlushThen
<1>19. CASE HeRefused
  BY <1>19, <1>s DEF HeRefused
<1>20. CASE HeConnected
  BY <1>20, <1>s DEF HeConnected, IoDel
<1>21. CASE ConnectReturn
  BY <1>21, <1>s DEF ConnectReturn, IoAdd, EpollAdd
<1>22. CASE HeRead
  BY <1>22, <1>s DEF HeRead
<1>23. CASE ReadEnd
  BY <1>23, <1>s DEF ReadEnd
<1>24. CASE ReadData
  BY <1>24, <1>s DEF ReadData
<1>25. CASE ReadReturn
  BY <1>25, <1>s DEF ReadReturn
<1>26. CASE FlushLock
  BY <1>26, <1>s DEF FlushLock
<1>27. CASE FlushNothing
  BY <1>27, <1>s DEF FlushNothing
<1>28. CASE FlushBytes
  BY <1>28, <1>s DEF FlushBytes, Transmit, Room
<1>29. CASE FlushError
  BY <1>29, <1>s DEF FlushError
<1>30. CASE UseAfterFree
  BY <1>30, <1>s DEF UseAfterFree
<1>31. CASE PeerAccept
  BY <1>31, <1>s DEF PeerAccept, PeerDoes
<1>32. CASE PeerSend
  BY <1>32, <1>s DEF PeerSend, PeerDoes
<1>33. CASE PeerRead
  BY <1>33, <1>s DEF PeerRead, PeerDoes
<1>34. CASE PeerClose
  BY <1>34, <1>s DEF PeerClose, PeerDoes
<1>35. CASE PeerReset
  BY <1>35, <1>s DEF PeerReset, PeerDoes
<1>36. CASE UNCHANGED vars
  BY <1>36, <1>s DEF vars
<1> QED
  BY <1>1, <1>2, <1>3, <1>4, <1>5, <1>6, <1>7, <1>7a, <1>8, <1>9, <1>10, <1>11,
     <1>12, <1>13, <1>14, <1>15, <1>16, <1>17, <1>18, <1>19, <1>20, <1>21,
     <1>22, <1>23, <1>24, <1>25, <1>26, <1>27, <1>28, <1>29, <1>30, <1>31,
     <1>32, <1>33, <1>34, <1>35, <1>36
  DEF Next, WriteStep, CloseStep, LoopStep, Peer

LEMMA CrashStep ==
    TypeOK /\ CallsOK /\ Control /\ OnlyRacesCrash /\ [Next]_vars => OnlyRacesCrash'
<1> SUFFICES ASSUME TypeOK, CallsOK, Control, OnlyRacesCrash, [Next]_vars
             PROVE  OnlyRacesCrash'
  OBVIOUS
<1> USE LoopIsNoSender, NobodyIsNoThread
        DEF TypeOK, CallsOK, Control, CloseOK, LoopCloseOK, OnlyRacesCrash,
            Thread, Labels, LoopLabels, Closing, At, Goto,
            state, kernel, buffer, calls, ghosts, Alive
<1>1. ASSUME NEW t \in Thread, NEW n \in Lengths, Send(t, n)
      PROVE  OnlyRacesCrash'
  BY <1>1 DEF Send, InUserCode
<1>2. ASSUME NEW t \in Thread, Close(t)
      PROVE  OnlyRacesCrash'
  BY <1>2 DEF Close, InUserCode
<1>3. ASSUME NEW t \in Thread, WriteLock(t)
      PROVE  OnlyRacesCrash'
  BY <1>3 DEF WriteLock
<1>4. ASSUME NEW t \in Thread, WriteBehind(t)
      PROVE  OnlyRacesCrash'
  BY <1>4 DEF WriteBehind
<1>5. ASSUME NEW t \in Thread, WriteOverflow(t)
      PROVE  OnlyRacesCrash'
  BY <1>5 DEF WriteOverflow
<1>6. ASSUME NEW t \in Thread, WriteAll(t)
      PROVE  OnlyRacesCrash'
  BY <1>6 DEF WriteAll, Transmit, Room
<1>7. ASSUME NEW t \in Thread, WriteSome(t)
      PROVE  OnlyRacesCrash'
  BY <1>7 DEF WriteSome, Transmit, Room
<1>7a. ASSUME NEW t \in Thread, WriteTooLong(t)
      PROVE  OnlyRacesCrash'
  BY <1>7a DEF WriteTooLong, Transmit, Room
<1>8. ASSUME NEW t \in Thread, WriteAdd(t)
      PROVE  OnlyRacesCrash'
  BY <1>8 DEF WriteAdd, IoAdd, EpollAdd
<1>9. ASSUME NEW t \in Thread, WriteWant(t)
      PROVE  OnlyRacesCrash'
  BY <1>9 DEF WriteWant
<1>10. ASSUME NEW t \in Thread, WriteError(t)
      PROVE  OnlyRacesCrash'
  BY <1>10 DEF WriteError
<1>11. ASSUME NEW t \in Thread, CloseMark(t)
      PROVE  OnlyRacesCrash'
  BY <1>11 DEF CloseMark
<1>12. ASSUME NEW t \in Thread, CloseUnregister(t)
      PROVE  OnlyRacesCrash'
  BY <1>12 DEF CloseUnregister, IoDel
<1>13. ASSUME NEW t \in Thread, CloseCallback(t)
      PROVE  OnlyRacesCrash'
  BY <1>13 DEF CloseCallback
<1>14. ASSUME NEW t \in Thread, CloseRelease(t)
      PROVE  OnlyRacesCrash'
  BY <1>14 DEF CloseRelease
<1>15. CASE Poll
  BY <1>15 DEF Poll
<1>16. CASE Dispatch
  BY <1>16 DEF Dispatch, FlushThen
<1>17. CASE HeNoWrite
  BY <1>17 DEF HeNoWrite
<1>18. CASE HeWrite
  BY <1>18 DEF HeWrite, FlushThen
<1>19. CASE HeRefused
  BY <1>19 DEF HeRefused
<1>20. CASE HeConnected
  BY <1>20 DEF HeConnected, IoDel
<1>21. CASE ConnectReturn
  BY <1>21 DEF ConnectReturn, IoAdd, EpollAdd
<1>22. CASE HeRead
  BY <1>22 DEF HeRead
<1>23. CASE ReadEnd
  BY <1>23 DEF ReadEnd
<1>24. CASE ReadData
  BY <1>24 DEF ReadData
<1>25. CASE ReadReturn
  BY <1>25 DEF ReadReturn
<1>26. CASE FlushLock
  BY <1>26 DEF FlushLock
<1>27. CASE FlushNothing
  BY <1>27 DEF FlushNothing
<1>28. CASE FlushBytes
  BY <1>28 DEF FlushBytes, Transmit, Room
<1>29. CASE FlushError
  BY <1>29 DEF FlushError
<1>30. CASE UseAfterFree
  BY <1>30 DEF UseAfterFree
<1>31. CASE PeerAccept
  BY <1>31 DEF PeerAccept, PeerDoes
<1>32. CASE PeerSend
  BY <1>32 DEF PeerSend, PeerDoes
<1>33. CASE PeerRead
  BY <1>33 DEF PeerRead, PeerDoes
<1>34. CASE PeerClose
  BY <1>34 DEF PeerClose, PeerDoes
<1>35. CASE PeerReset
  BY <1>35 DEF PeerReset, PeerDoes
<1>36. CASE UNCHANGED vars
  BY <1>36 DEF vars
<1> QED
  BY <1>1, <1>2, <1>3, <1>4, <1>5, <1>6, <1>7, <1>7a, <1>8, <1>9, <1>10, <1>11,
     <1>12, <1>13, <1>14, <1>15, <1>16, <1>17, <1>18, <1>19, <1>20, <1>21,
     <1>22, <1>23, <1>24, <1>25, <1>26, <1>27, <1>28, <1>29, <1>30, <1>31,
     <1>32, <1>33, <1>34, <1>35, <1>36
  DEF Next, WriteStep, CloseStep, LoopStep, Peer

LEMMA FromZeroConcat ==
    ASSUME NEW m \in Nat, NEW n \in Nat, m <= n
    PROVE  Numbers(0, m) \o Numbers(m, n) = Numbers(0, n)
<1>1. \A k \in Nat : k <= m => Numbers(k, m) \o Numbers(m, n) = Numbers(k, n)
  BY NumbersConcat
<1> QED
  BY <1>1

\* The bytes on the wire and in the buffer are those that io_write has numbered,
\* which are kept up to the release of the connection.
LEMMA StreamOfIntact ==
    ASSUME TypeOK, StreamIntact, ~freed
    PROVE  /\ wire \in Seq(Nat) /\ wbuf \in Seq(Nat) /\ accepted \in Nat
           /\ wire = Numbers(0, Len(wire)) /\ wbuf = Numbers(Len(wire), accepted)
           /\ Len(wire) \in Nat /\ Len(wire) <= accepted
<1>1. wire \in Seq(Nat) /\ wbuf \in Seq(Nat) /\ accepted \in Nat
  BY DEF TypeOK
<1>2. wire \o wbuf = Numbers(0, accepted)
  BY DEF StreamIntact
<1>3. /\ wire = Numbers(0, Len(wire)) /\ wbuf = Numbers(Len(wire), accepted)
      /\ Len(wire) <= accepted
  BY <1>1, <1>2, NumbersSplit
<1>4. Len(wire) \in Nat
  BY <1>1, LenProperties
<1> QED
  BY <1>1, <1>3, <1>4

\* With an empty buffer the wire has every byte.
LEMMA WireOfEmptyBuffer ==
    ASSUME TypeOK, StreamIntact, ~freed, wbuf = << >>
    PROVE  wire = Numbers(0, accepted)
<1>1. wire \in Seq(Nat) /\ wire \o wbuf = Numbers(0, accepted)
  BY DEF TypeOK, StreamIntact
<1> QED
  BY <1>1, ConcatEmptySeq

LEMMA StreamStep ==
    TypeOK /\ CallsOK /\ Control /\ StreamIntact /\ [Next]_vars => StreamIntact'
<1> SUFFICES ASSUME TypeOK, CallsOK, Control, StreamIntact, [Next]_vars
             PROVE  StreamIntact'
  OBVIOUS
<1> USE DEF At, Goto, state, kernel, buffer, calls, ghosts
<1>u. ASSUME UNCHANGED <<wire, wbuf, accepted, freed>>
      PROVE  StreamIntact'
  BY <1>u DEF StreamIntact
<1>f. \A t \in Thread : pc[t] = "write" => ~freed
  BY DEF Control, LockOK, CloseOK
<1>a. accepted \in Nat /\ \A t \in Thread : len[t] \in Nat
  BY DEF TypeOK
<1>1. ASSUME NEW t \in Thread, NEW n \in Lengths, Send(t, n)
      PROVE  StreamIntact'
  BY <1>1, <1>u DEF Send
<1>2. ASSUME NEW t \in Thread, Close(t)
      PROVE  StreamIntact'
  BY <1>2, <1>u DEF Close
<1>3. ASSUME NEW t \in Thread, WriteLock(t)
      PROVE  StreamIntact'
  BY <1>3, <1>u DEF WriteLock
<1>4. ASSUME NEW t \in Thread, WriteBehind(t)
      PROVE  StreamIntact'
  <2> DEFINE n == accepted + len[t]
  <2>1. /\ ~freed /\ n \in Nat /\ accepted <= n
        /\ wbuf' = wbuf \o Numbers(accepted, n) /\ wire' = wire
        /\ accepted' = n /\ freed' = freed
    BY <1>4, <1>a, <1>f DEF WriteBehind
  <2> HIDE DEF n
  <2>2. Numbers(accepted, n) \in Seq(Nat)
    BY <1>a, <2>1, NumbersType
  <2>3. \A u \in Seq(Nat) : wire \o (wbuf \o u) = (wire \o wbuf) \o u
    <3>1. wire \in Seq(Nat) /\ wbuf \in Seq(Nat)
      BY DEF TypeOK
    <3> QED BY <3>1, BytesAssociative
  <2>4. (wire \o wbuf) \o Numbers(accepted, n) = Numbers(0, n)
    BY <1>a, <2>1, FromZeroConcat DEF StreamIntact
  <2> QED BY <2>1, <2>2, <2>3, <2>4 DEF StreamIntact
<1>5. ASSUME NEW t \in Thread, WriteOverflow(t)
      PROVE  StreamIntact'
  BY <1>5, <1>u DEF WriteOverflow
<1>6. ASSUME NEW t \in Thread, WriteAll(t)
      PROVE  StreamIntact'
  <2> DEFINE n == accepted + len[t]
  <2>1. /\ ~freed /\ wbuf = << >> /\ n \in Nat /\ accepted <= n
        /\ wire' = wire \o Numbers(accepted, n) /\ wbuf' = << >>
        /\ accepted' = n /\ freed' = freed
    BY <1>6, <1>a, <1>f DEF WriteAll, Transmit
  <2> HIDE DEF n
  <2>2. wire' = Numbers(0, n)
    BY <1>a, <2>1, WireOfEmptyBuffer, FromZeroConcat
  <2>3. Len(wire') = n /\ wire' \in Seq(Nat)
    BY <2>1, <2>2, NumbersFromZero
  <2>4. wire' \o wbuf' = wire'
    BY <2>1, <2>3, ConcatEmptySeq
  <2> QED BY <2>1, <2>2, <2>3, <2>4 DEF StreamIntact
<1>7. ASSUME NEW t \in Thread, WriteSome(t)
      PROVE  StreamIntact'
  <2> DEFINE m == accepted + Room
             n == accepted + len[t]
  <2>1. /\ ~freed /\ wbuf = << >>
        /\ m \in Nat /\ n \in Nat /\ accepted <= m /\ m <= n
        /\ wire' = wire \o Numbers(accepted, m) /\ wbuf' = Numbers(m, n)
        /\ accepted' = n /\ freed' = freed
    <3>1. ~freed /\ wbuf = << >> /\ Room < len[t]
      BY <1>7, <1>f DEF WriteSome
    <3>2. m \in Nat /\ n \in Nat /\ accepted <= m /\ m <= n
      BY <1>a, <3>1, RoomType
    <3> QED BY <1>7, <3>1, <3>2 DEF WriteSome, Transmit
  <2> HIDE DEF m, n
  <2>2. wire' = Numbers(0, m)
    BY <1>a, <2>1, WireOfEmptyBuffer, FromZeroConcat
  <2>3. Len(wire') = m
    BY <2>1, <2>2, NumbersFromZero
  <2>4. wire' \o wbuf' = Numbers(0, n)
    BY <2>1, <2>2, FromZeroConcat
  <2> QED BY <2>1, <2>2, <2>3, <2>4 DEF StreamIntact
<1>7a. ASSUME NEW t \in Thread, WriteTooLong(t)
      PROVE  StreamIntact'
  <2> DEFINE n == accepted + Room
  <2>1. /\ ~freed /\ wbuf = << >> /\ n \in Nat /\ accepted <= n
        /\ wire' = wire \o Numbers(accepted, n) /\ wbuf' = << >>
        /\ accepted' = n /\ freed' = freed
    <3>1. ~freed /\ wbuf = << >>
      BY <1>7a, <1>f DEF WriteTooLong
    <3>2. n \in Nat /\ accepted <= n
      BY <1>a, RoomType
    <3> QED BY <1>7a, <3>1, <3>2 DEF WriteTooLong, Transmit
  <2> HIDE DEF n
  <2>2. wire' = Numbers(0, n)
    BY <1>a, <2>1, WireOfEmptyBuffer, FromZeroConcat
  <2>3. Len(wire') = n /\ wire' \in Seq(Nat)
    BY <2>1, <2>2, NumbersFromZero
  <2>4. wire' \o wbuf' = wire'
    BY <2>1, <2>3, ConcatEmptySeq
  <2> QED BY <2>1, <2>2, <2>3, <2>4 DEF StreamIntact
<1>8. ASSUME NEW t \in Thread, WriteAdd(t)
      PROVE  StreamIntact'
  BY <1>8, <1>u DEF WriteAdd, IoAdd, EpollAdd
<1>9. ASSUME NEW t \in Thread, WriteWant(t)
      PROVE  StreamIntact'
  BY <1>9, <1>u DEF WriteWant
<1>10. ASSUME NEW t \in Thread, WriteError(t)
      PROVE  StreamIntact'
  BY <1>10, <1>u DEF WriteError
<1>11. ASSUME NEW t \in Thread, CloseMark(t)
      PROVE  StreamIntact'
  BY <1>11, <1>u DEF CloseMark
<1>12. ASSUME NEW t \in Thread, CloseUnregister(t)
      PROVE  StreamIntact'
  BY <1>12, <1>u DEF CloseUnregister, IoDel
<1>13. ASSUME NEW t \in Thread, CloseCallback(t)
      PROVE  StreamIntact'
  BY <1>13, <1>u DEF CloseCallback
<1>14. ASSUME NEW t \in Thread, CloseRelease(t)
      PROVE  StreamIntact'
  BY <1>14 DEF CloseRelease, StreamIntact
<1>15. CASE Poll
  BY <1>15, <1>u DEF Poll
<1>16. CASE Dispatch
  BY <1>16, <1>u DEF Dispatch, FlushThen
<1>17. CASE HeNoWrite
  BY <1>17, <1>u DEF HeNoWrite
<1>18. CASE HeWrite
  BY <1>18, <1>u DEF HeWrite, FlushThen
<1>19. CASE HeRefused
  BY <1>19, <1>u DEF HeRefused
<1>20. CASE HeConnected
  BY <1>20, <1>u DEF HeConnected, IoDel
<1>21. CASE ConnectReturn
  BY <1>21, <1>u DEF ConnectReturn, IoAdd, EpollAdd
<1>22. CASE HeRead
  BY <1>22, <1>u DEF HeRead
<1>23. CASE ReadEnd
  BY <1>23, <1>u DEF ReadEnd
<1>24. CASE ReadData
  BY <1>24, <1>u DEF ReadData
<1>25. CASE ReadReturn
  BY <1>25, <1>u DEF ReadReturn
<1>26. CASE FlushLock
  BY <1>26, <1>u DEF FlushLock
<1>27. CASE FlushNothing
  BY <1>27, <1>u DEF FlushNothing
<1>28. CASE FlushBytes
  <2> DEFINE n == IF Room < Len(wbuf) THEN Room ELSE Len(wbuf)
             first == SubSeq(wbuf, 1, n)
             rest  == SubSeq(wbuf, n + 1, Len(wbuf))
  <2>1. ~freed /\ wbuf # << >> /\ Room > 0
    BY <1>28 DEF FlushBytes
  <2>2. n \in 1 .. Len(wbuf)
    <3>1. Len(wbuf) \in Nat \ {0} /\ Room \in Nat
      BY <2>1, StreamOfIntact, EmptySeq, RoomType
    <3> QED BY <2>1, <3>1
  <2>3. /\ wire' = wire \o first /\ wbuf' = rest
        /\ accepted' = accepted /\ freed' = freed
    BY <1>28 DEF FlushBytes, Transmit
  <2> HIDE DEF n
  <2>4. first \in Seq(Nat) /\ rest \in Seq(Nat) /\ first \o rest = wbuf
    BY <2>1, <2>2, StreamOfIntact, CutInTwo
  <2> HIDE DEF first, rest
  <2>5. \A u, v \in Seq(Nat) : (wire \o u) \o v = wire \o (u \o v)
    <3>1. wire \in Seq(Nat)
      BY DEF TypeOK
    <3> QED BY <3>1, BytesAssociative
  <2>6. wire' \o wbuf' = Numbers(0, accepted)
    BY <2>1, <2>3, <2>4, <2>5 DEF StreamIntact
  <2>7. wire' \in Seq(Nat) /\ wbuf' \in Seq(Nat)
    BY <2>1, <2>3, <2>4, StreamOfIntact, ConcatProperties
  <2>8. wire' = Numbers(0, Len(wire'))
    BY <1>a, <2>6, <2>7, NumbersSplit
  <2> QED BY <2>3, <2>6, <2>8 DEF StreamIntact
<1>29. CASE FlushError
  BY <1>29, <1>u DEF FlushError
<1>30. CASE UseAfterFree
  BY <1>30, <1>u DEF UseAfterFree
<1>31. CASE PeerAccept
  BY <1>31, <1>u DEF PeerAccept, PeerDoes
<1>32. CASE PeerSend
  BY <1>32, <1>u DEF PeerSend, PeerDoes
<1>33. CASE PeerRead
  BY <1>33, <1>u DEF PeerRead, PeerDoes
<1>34. CASE PeerClose
  BY <1>34, <1>u DEF PeerClose, PeerDoes
<1>35. CASE PeerReset
  BY <1>35, <1>u DEF PeerReset, PeerDoes
<1>36. CASE UNCHANGED vars
  BY <1>36, <1>u DEF vars
<1> QED
  BY <1>1, <1>2, <1>3, <1>4, <1>5, <1>6, <1>7, <1>7a, <1>8, <1>9, <1>10, <1>11,
     <1>12, <1>13, <1>14, <1>15, <1>16, <1>17, <1>18, <1>19, <1>20, <1>21,
     <1>22, <1>23, <1>24, <1>25, <1>26, <1>27, <1>28, <1>29, <1>30, <1>31,
     <1>32, <1>33, <1>34, <1>35, <1>36
  DEF Next, WriteStep, CloseStep, LoopStep, Peer

-----------------------------------------------------------------------------
(* The theorems.                                                           *)

Inv == /\ TypeOK /\ CallsOK /\ Control /\ SocketOK
       /\ LockIsReturned /\ OnlyRacesCrash /\ StreamIntact

LEMMA InvInit == Init => Inv
<1> SUFFICES ASSUME Init PROVE Inv
  OBVIOUS
<1>1. TypeOK /\ CallsOK /\ Control /\ SocketOK
  BY TypeInit, ControlInit, SocketInit
<1>2. LockIsReturned
  BY DEF Init, LockIsReturned
<1>3. OnlyRacesCrash
  BY DEF Init, OnlyRacesCrash, Thread
<1>4. StreamIntact
  <2>1. wire = << >> /\ wbuf = << >> /\ accepted = 0 /\ Len(wire) = 0
    BY EmptySeq DEF Init
  <2>2. Numbers(0, 0) = << >>
    BY NumbersEmpty
  <2>3. << >> \o << >> = << >>
    BY EmptySeq, ConcatEmptySeq
  <2> QED BY <2>1, <2>2, <2>3 DEF StreamIntact
<1> QED
  BY <1>1, <1>2, <1>3, <1>4 DEF Inv

LEMMA InvStep == Inv /\ [Next]_vars => Inv'
BY TypeStep, ControlStep, SocketStep, LockStep, CrashStep, StreamStep DEF Inv

LEMMA InvHolds == Spec => []Inv
BY InvInit, InvStep, PTL DEF Spec

\* The state stays within its types, the write buffer within maxSize: io_write
\* tests the space that is left before it stores (io.c, io_write).
THEOREM TypeCorrect == Spec => []TypeOK
<1>1. Inv => TypeOK
  BY DEF Inv
<1> QED
  BY <1>1, InvHolds, PTL

\* What io_write takes on reaches the socket in order, without loss or
\* repetition, however the sending threads and io_write_cb interleave: the
\* bytes that a send does not take are kept behind those that wait already.
THEOREM StreamIsIntact == Spec => []StreamIntact
<1>1. Inv => StreamIntact
  BY DEF Inv
<1> QED
  BY <1>1, InvHolds, PTL

\* io_close, called any number of times by any threads, by io_write on a full
\* buffer and by the loop on the end of the stream, runs close_cb and free_io
\* once, in this order, and leaves no write event set.
THEOREM ReleasedOnce == Spec => []ClosedOnce
<1>1. Inv => ClosedOnce
  BY ControlImpliesClosedOnce DEF Inv
<1> QED
  BY <1>1, InvHolds, PTL

\* write_mutex is given back by every path of io_write, io_write_cb and
\* io_close but two: io_write on SSL_ERROR_WANT_WRITE, which takes more bytes
\* than the socket holds, and io_write_cb on an error of the socket, which takes
\* a reset while bytes wait.
THEOREM LockReturned == Spec => []LockIsReturned
<1>1. Inv => LockIsReturned
  BY DEF Inv
<1> QED
  BY <1>1, InvHolds, PTL

\* While the loop's own thread closes the connection, from whichever callback,
\* handle_event, io_read_cb and io_write_cb never touch a released buffer.
THEOREM LoopCloseIsSafe == Spec => []OnlyRacesCrash
<1>1. Inv => OnlyRacesCrash
  BY DEF Inv
<1> QED
  BY <1>1, InvHolds, PTL
=============================================================================

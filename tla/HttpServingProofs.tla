-------------------------- MODULE HttpServingProofs --------------------------
(***************************************************************************)
(* Theorems about HttpServing, for any requests, any frames, and reads cut *)
(* anywhere.                                                               *)
(***************************************************************************)
EXTENDS HttpServing, SequenceTheorems, FiniteSetTheorems, WellFoundedInduction, TLAPS

\* The calls of a WebSocketService.
Call == {"onopen", "onmessage", "onclose"}

\* What the service may have been told of a connection that is open: only that
\* it was opened, first, and messages.
Opened(s) ==
    /\ s # << >> /\ s[1] = "onopen"
    /\ \A k \in 1 .. Len(s) : s[k] \in {"onopen", "onmessage"}
    /\ \A k \in 1 .. Len(s) : s[k] = "onopen" => k = 1

\* And of one that has ended.
Ended(s) ==
    /\ s # << >> /\ s[Len(s)] = "onclose"
    /\ \A k \in 1 .. Len(s) : s[k] = "onclose" => k = Len(s)
    /\ \A k \in 1 .. Len(s) : s[k] = "onopen" => k = 1
    /\ \A k \in 1 .. Len(s) : s[k] = "onmessage" => k > 1 /\ s[1] = "onopen"

ServiceOK ==
    /\ calls \in Seq(Call)
    /\ serviceType \in {"http", "ws"}
    /\ serviceType = "http" => calls = << >> /\ frames = << >> /\ ~parsing
    /\ serviceType = "ws" => IF closed THEN Ended(calls) ELSE Opened(calls)
    /\ serviceType = "ws" /\ calls[1] = "onclose" => fault /\ frames = << >>

-----------------------------------------------------------------------------
(* The calls of a service.                                                 *)

LEMMA Appended ==
    ASSUME NEW S, NEW s \in Seq(S), NEW x \in S
    PROVE  /\ Append(s, x) \in Seq(S) /\ Append(s, x) # << >>
           /\ Len(Append(s, x)) = Len(s) + 1 /\ Len(s) \in Nat
           /\ Append(s, x)[Len(s) + 1] = x
           /\ \A k \in 1 .. Len(s) : Append(s, x)[k] = s[k]
           /\ s # << >> => 1 \in 1 .. Len(s)
<1>1. /\ Append(s, x) \in Seq(S) /\ Len(Append(s, x)) = Len(s) + 1 /\ Len(s) \in Nat
      /\ Append(s, x)[Len(s) + 1] = x
      /\ \A k \in 1 .. Len(s) : Append(s, x)[k] = s[k]
  BY AppendProperties, LenProperties
<1>2. Append(s, x) # << >>
  BY <1>1, EmptySeq
<1>3. s # << >> => 1 \in 1 .. Len(s)
  BY <1>1, EmptySeq
<1> QED
  BY <1>1, <1>2, <1>3

LEMMA MessageKeepsOpen ==
    ASSUME NEW s \in Seq(Call), Opened(s)
    PROVE  Opened(Append(s, "onmessage"))
<1> DEFINE u == Append(s, "onmessage")
<1>1. /\ u # << >> /\ Len(u) = Len(s) + 1 /\ Len(s) \in Nat
      /\ u[Len(s) + 1] = "onmessage"
      /\ \A k \in 1 .. Len(s) : u[k] = s[k]
      /\ s # << >> => 1 \in 1 .. Len(s)
  <2>1. "onmessage" \in Call
    BY DEF Call
  <2> QED BY <2>1, Appended
<1> HIDE DEF u
<1>2. u[1] = "onopen"
  BY <1>1 DEF Opened
<1>3. ASSUME NEW k \in 1 .. Len(u)
      PROVE  u[k] \in {"onopen", "onmessage"} /\ (u[k] = "onopen" => k = 1)
  <2>1. CASE k \in 1 .. Len(s)
    BY <1>1, <2>1 DEF Opened
  <2>2. CASE k = Len(s) + 1
    BY <1>1, <2>2
  <2> QED BY <1>1, <2>1, <2>2
<1>4. Opened(u)
  BY <1>1, <1>2, <1>3 DEF Opened
<1> QED
  BY <1>4 DEF u

LEMMA CloseEnds ==
    ASSUME NEW s \in Seq(Call), s = << >> \/ Opened(s)
    PROVE  /\ Ended(Append(s, "onclose"))
           /\ Append(s, "onclose")[1] = "onclose" => s = << >>
<1> DEFINE u == Append(s, "onclose")
<1>1. /\ u # << >> /\ Len(u) = Len(s) + 1 /\ Len(s) \in Nat
      /\ u[Len(s) + 1] = "onclose"
      /\ \A k \in 1 .. Len(s) : u[k] = s[k]
      /\ s # << >> => 1 \in 1 .. Len(s)
  <2>1. "onclose" \in Call
    BY DEF Call
  <2> QED BY <2>1, Appended
<1> HIDE DEF u
<1>2. ASSUME NEW k \in 1 .. Len(u)
      PROVE  \/ k = Len(u) /\ u[k] = "onclose"
             \/ /\ k # Len(u) /\ Opened(s) /\ s[1] = "onopen" /\ u[1] = s[1]
                /\ u[k] \in {"onopen", "onmessage"} /\ (u[k] = "onopen" => k = 1)
                /\ u[k] = "onmessage" => k > 1
  <2>1. CASE k \in 1 .. Len(s)
    <3>1. Opened(s)
      BY <2>1, EmptySeq
    <3> QED BY <1>1, <2>1, <3>1 DEF Opened
  <2>2. CASE k = Len(s) + 1
    BY <1>1, <2>2
  <2> QED BY <1>1, <2>1, <2>2
<1>3. Ended(u)
  BY <1>1, <1>2 DEF Ended
<1>4. u[1] = "onclose" => s = << >>
  BY <1>1 DEF Opened
<1> QED
  BY <1>3, <1>4 DEF u

\* An answer to onopen and to the end, in this order.
LEMMA OpenCalls ==
    /\ << >> \in Seq(Call)
    /\ Append(<< >>, "onopen") \in Seq(Call)
    /\ Opened(Append(<< >>, "onopen"))
<1> DEFINE u == Append(<< >>, "onopen")
<1>1. << >> \in Seq(Call) /\ Len(<< >>) = 0
  BY EmptySeq
<1>2. "onopen" \in Call
  BY DEF Call
<1>3. u \in Seq(Call) /\ u # << >> /\ Len(u) = 1 /\ u[1] = "onopen"
  BY <1>1, <1>2, Appended
<1> QED
  BY <1>1, <1>3 DEF Opened

\* Whatever the service was told of an open connection, the end comes behind it.
LEMMA CloseEffect ==
    ASSUME NEW service, NEW told \in Seq(Call), Close(service, told)
    PROVE  /\ closed'
           /\ service # "ws" => calls' = told
           /\ service = "ws" /\ Opened(told) =>
                  calls' \in Seq(Call) /\ Ended(calls') /\ calls'[1] # "onclose"
           /\ service = "ws" /\ told = << >> => calls' \in Seq(Call) /\ Ended(calls')
<1>1. closed' /\ (service # "ws" => calls' = told)
  BY DEF Close
<1>2. ASSUME service = "ws" PROVE calls' = Append(told, "onclose")
  BY <1>2 DEF Close
<1>3. Append(told, "onclose") \in Seq(Call)
  <2>1. "onclose" \in Call
    BY DEF Call
  <2> QED BY <2>1, Appended
<1>4. Opened(told) => told # << >>
  BY DEF Opened
<1> QED
  BY <1>1, <1>2, <1>3, <1>4, CloseEnds

-----------------------------------------------------------------------------
(* The invariant.                                                          *)

LEMMA ServiceInit == Init => ServiceOK
BY OpenCalls DEF Init, ServiceOK

LEMMA ServiceStep == ServiceOK /\ [Next]_vars => ServiceOK'
<1> SUFFICES ASSUME ServiceOK, [Next]_vars PROVE ServiceOK'
  OBVIOUS
<1>1. CASE RecvHttp
  <2>1. /\ serviceType = "http" /\ ~closed /\ frames' = frames /\ parsing' = parsing
        /\ \/ serviceType' = serviceType /\ calls' = calls /\ fault' = fault
           \/ Close(serviceType, calls) /\ serviceType' = serviceType /\ fault' = fault
           \/ SwitchWSProtocol
    BY <1>1 DEF RecvHttp, ws, SendHttpResponse
  <2>2. calls = << >> /\ frames = << >> /\ ~parsing /\ calls \in Seq(Call)
    BY <2>1 DEF ServiceOK
  <2>3. CASE serviceType' = serviceType /\ calls' = calls
    BY <2>1, <2>2, <2>3 DEF ServiceOK
  <2>4. CASE Close(serviceType, calls) /\ serviceType' = serviceType
    <3>1. calls' = calls
      BY <2>1, <2>4 DEF Close
    <3> QED BY <2>1, <2>2, <2>4, <3>1 DEF ServiceOK
  <2>5. CASE SwitchWSProtocol
    <3>1. serviceType' = "ws" /\ frames' = << >>
      BY <2>1, <2>2, <2>5 DEF SwitchWSProtocol
    <3>2. CASE Close("ws", calls) /\ fault' = TRUE
      <4>1. closed' /\ calls' \in Seq(Call) /\ Ended(calls')
        BY <2>2, <3>2, CloseEffect
      <4> QED BY <3>1, <3>2, <4>1 DEF ServiceOK
    <3>3. CASE Close("ws", Append(calls, "onopen")) /\ fault' = TRUE
      <4>1. closed' /\ calls' \in Seq(Call) /\ Ended(calls')
        BY <2>2, <3>3, CloseEffect, OpenCalls
      <4> QED BY <3>1, <3>3, <4>1 DEF ServiceOK
    <3>4. CASE calls' = Append(calls, "onopen") /\ UNCHANGED <<closed, fault>>
      <4>1. calls' \in Seq(Call) /\ Opened(calls') /\ ~closed'
        BY <2>1, <2>2, <3>4, OpenCalls
      <4>2. calls'[1] # "onclose"
        BY <4>1 DEF Opened
      <4> QED BY <3>1, <4>1, <4>2 DEF ServiceOK
    <3> QED BY <2>5, <3>2, <3>3, <3>4 DEF SwitchWSProtocol
  <2> QED BY <2>1, <2>3, <2>4, <2>5
<1>2. CASE ClientFrame
  <2>1. /\ ~closed /\ serviceType = "ws"
        /\ UNCHANGED <<serviceType, closed, fault, calls, parsing>>
    BY <1>2 DEF ClientFrame
  <2>2. calls[1] # "onclose"
    BY <2>1 DEF ServiceOK, Opened
  <2> QED BY <2>1, <2>2 DEF ServiceOK
<1>3. CASE RecvWs
  <2>1. /\ serviceType = "ws"
        /\ UNCHANGED <<serviceType, closed, fault, calls, frames>>
    BY <1>3 DEF RecvWs
  <2> QED BY <2>1 DEF ServiceOK
<1>4. CASE ParseTurn
  <2>1. /\ parsing /\ ~closed /\ UNCHANGED <<serviceType, frames>>
        /\ \/ UNCHANGED <<closed, fault, calls>>
           \/ /\ calls' \in {Append(calls, "onmessage"), calls}
              /\ UNCHANGED <<closed, fault>>
           \/ \E told \in {Append(calls, "onmessage"), calls} :
                 Close("ws", told) /\ fault' = TRUE
    BY <1>4 DEF ParseTurn
  <2>2. serviceType = "ws" /\ calls \in Seq(Call) /\ Opened(calls)
    BY <2>1 DEF ServiceOK
  <2>3. \A told \in {Append(calls, "onmessage"), calls} : told \in Seq(Call) /\ Opened(told)
    <3>1. "onmessage" \in Call
      BY DEF Call
    <3>2. Append(calls, "onmessage") \in Seq(Call)
      BY <2>2, <3>1, Appended
    <3>3. Opened(Append(calls, "onmessage"))
      BY <2>2, MessageKeepsOpen
    <3> QED BY <2>2, <3>2, <3>3
  <2>4. CASE UNCHANGED closed /\ calls' \in {Append(calls, "onmessage"), calls}
    <3>1. calls' \in Seq(Call) /\ Opened(calls')
      BY <2>3, <2>4
    <3>2. calls'[1] # "onclose"
      BY <3>1 DEF Opened
    <3> QED BY <2>1, <2>2, <2>4, <3>1, <3>2 DEF ServiceOK
  <2>5. ASSUME NEW told \in {Append(calls, "onmessage"), calls}, Close("ws", told)
        PROVE  ServiceOK'
    <3>1. closed' /\ calls' \in Seq(Call) /\ Ended(calls') /\ calls'[1] # "onclose"
      BY <2>3, <2>5, CloseEffect
    <3> QED BY <2>1, <2>2, <3>1 DEF ServiceOK
  <2> QED BY <2>1, <2>4, <2>5
<1>5. CASE End
  <2>1. /\ ~closed /\ Close(serviceType, calls)
        /\ UNCHANGED <<serviceType, fault, frames, parsing>>
    BY <1>5 DEF End, ws
  <2>2. CASE serviceType = "http"
    <3>1. calls' = calls
      BY <2>1, <2>2 DEF Close
    <3> QED BY <2>1, <2>2, <3>1 DEF ServiceOK
  <2>3. CASE serviceType = "ws"
    <3>1. calls \in Seq(Call) /\ Opened(calls)
      BY <2>1, <2>3 DEF ServiceOK
    <3>2. closed' /\ calls' \in Seq(Call) /\ Ended(calls') /\ calls'[1] # "onclose"
      BY <2>1, <2>3, <3>1, CloseEffect
    <3> QED BY <2>1, <2>3, <3>2 DEF ServiceOK
  <2> QED BY <2>2, <2>3 DEF ServiceOK
<1>6. CASE UNCHANGED vars
  BY <1>6 DEF ServiceOK, vars, http, ws
<1> QED
  BY <1>1, <1>2, <1>3, <1>4, <1>5, <1>6 DEF Next

\* A WebSocketService hears of the opening first, of the end once and last, and
\* of messages in between, whatever the requests, the reads and the frames are
\* (HttpHandle::switchWSProtocol, close, and the parser's onMessage).
THEOREM ServiceHearsInOrder == Spec => []WsLifecycle
<1>1. ServiceOK => WsLifecycle
  <2> SUFFICES ASSUME ServiceOK PROVE WsLifecycle
    OBVIOUS
  <2>1. calls \in Seq(Call) /\ DOMAIN calls = 1 .. Len(calls)
    BY LenProperties DEF ServiceOK
  <2>2. CASE serviceType = "http"
    <3>1. calls = << >> /\ DOMAIN calls = {}
      BY <2>1, <2>2, EmptySeq DEF ServiceOK
    <3> QED BY <2>2, <3>1 DEF WsLifecycle
  <2>3. CASE serviceType = "ws" /\ closed
    <3>1. Ended(calls)
      BY <2>3 DEF ServiceOK
    <3> QED BY <2>1, <2>3, <3>1 DEF WsLifecycle, Ended, ServiceOK
  <2>4. CASE serviceType = "ws" /\ ~closed
    <3>1. Opened(calls)
      BY <2>4 DEF ServiceOK
    <3>2. \A k \in 1 .. Len(calls) :
            /\ calls[k] # "onclose" /\ (calls[k] = "onopen" => k = 1)
            /\ calls[k] = "onmessage" => k > 1 /\ calls[1] = "onopen"
      BY <3>1 DEF Opened
    <3>3. calls[1] # "onclose"
      BY <3>1 DEF Opened
    <3> QED BY <2>1, <2>4, <3>2, <3>3 DEF WsLifecycle
  <2> QED BY <2>2, <2>3, <2>4 DEF ServiceOK
<1> QED
  BY <1>1, ServiceInit, ServiceStep, PTL DEF Spec

-----------------------------------------------------------------------------
(* The bytes before a frame.                                               *)

\* Induction over the natural numbers, as the existence of a least element.
LEMMA Least ==
    ASSUME NEW S \in SUBSET Nat, S # {}
    PROVE  \E k \in S : \A l \in S : k <= l
<1> DEFINE R == OpToRel(<, Nat)
<1>1. IsWellFoundedOn(R, Nat)
  BY NatLessThanWellFounded
<1>2. R = {ss \in Nat \X Nat : ss[1] < ss[2]}
  BY DEF OpToRel
<1> HIDE DEF R
<1>3. PICK k \in S : \A l \in S : ~ (<<l, k>> \in R)
  BY <1>1, WFMin
<1>4. ASSUME NEW l \in S PROVE k <= l
  <2>1. <<l, k>> \in Nat \X Nat /\ ~ (<<l, k>> \in R)
    BY <1>3
  <2>2. ~ (l < k)
    BY <1>2, <2>1
  <2> QED BY <2>2
<1> QED BY <1>4

\* f is the recursive function of BytesBefore.
Counts(f, fs) ==
    f = [j \in 0 .. Len(fs) |-> IF j = 0 THEN 0 ELSE f[j - 1] + fs[j].size]

\* It exists: of the numbers of frames for which it does not, none is least.
LEMMA CountExists ==
    ASSUME NEW fs, Len(fs) \in Nat
    PROVE  \E f : Counts(f, fs)
<1> DEFINE Upto(k) == \E f : \A j \in 0 .. Len(fs) :
                          j <= k => f[j] = IF j = 0 THEN 0 ELSE f[j - 1] + fs[j].size
<1>1. Upto(0)
  <2> DEFINE f == [j \in {0} |-> 0]
  <2>1. \A j \in 0 .. Len(fs) : j <= 0 => j = 0
    OBVIOUS
  <2>2. \A j \in 0 .. Len(fs) : j <= 0 => f[j] = IF j = 0 THEN 0 ELSE f[j - 1] + fs[j].size
    BY <2>1
  <2> QED BY <2>2
<1>2. ASSUME NEW k \in Nat, Upto(k) PROVE Upto(k + 1)
  <2>1. PICK f : \A j \in 0 .. Len(fs) :
                     j <= k => f[j] = IF j = 0 THEN 0 ELSE f[j - 1] + fs[j].size
    BY <1>2
  <2> DEFINE g == [j \in 0 .. Len(fs) |-> IF j = 0 THEN 0 ELSE f[j - 1] + fs[j].size]
  <2>2. \A j \in 0 .. Len(fs) : g[j] = IF j = 0 THEN 0 ELSE f[j - 1] + fs[j].size
    OBVIOUS
  <2> HIDE DEF g
  <2>3. ASSUME NEW j \in 0 .. Len(fs), j <= k + 1
        PROVE  g[j] = IF j = 0 THEN 0 ELSE g[j - 1] + fs[j].size
    <3>1. CASE j = 0
      BY <2>2, <3>1
    <3>2. CASE j # 0
      <4>1. j - 1 \in 0 .. Len(fs) /\ j - 1 <= k
        BY <2>3, <3>2
      <4>2. f[j - 1] = g[j - 1]
        BY <2>1, <2>2, <4>1
      <4> QED BY <2>2, <3>2, <4>2
    <3> QED BY <3>1, <3>2
  <2> QED BY <2>3
<1> HIDE DEF Upto
<1>3. Upto(Len(fs))
  <2> SUFFICES ASSUME ~ Upto(Len(fs)) PROVE FALSE
    OBVIOUS
  <2> DEFINE S == {k \in Nat : ~ Upto(k)}
  <2>1. PICK k \in S : \A l \in S : k <= l
    BY Least
  <2>2. k \in Nat /\ ~ Upto(k) /\ k # 0
    BY <1>1
  <2>3. k - 1 \in Nat /\ (k - 1) + 1 = k /\ ~ (k <= k - 1)
    BY <2>2
  <2>4. Upto(k - 1)
    BY <2>1, <2>3
  <2> QED BY <1>2, <2>2, <2>3, <2>4
<1>4. PICK f : \A j \in 0 .. Len(fs) : f[j] = IF j = 0 THEN 0 ELSE f[j - 1] + fs[j].size
  <2>1. \A j \in 0 .. Len(fs) : j <= Len(fs)
    OBVIOUS
  <2> QED BY <1>3, <2>1 DEF Upto
<1> DEFINE g == [j \in 0 .. Len(fs) |-> f[j]]
<1>5. \A j \in 0 .. Len(fs) : g[j] = f[j] /\ (j # 0 => g[j - 1] = f[j - 1])
  <2>1. \A j \in 0 .. Len(fs) : j # 0 => j - 1 \in 0 .. Len(fs)
    OBVIOUS
  <2> QED BY <2>1
<1>6. \A j \in 0 .. Len(fs) : g[j] = IF j = 0 THEN 0 ELSE g[j - 1] + fs[j].size
  <2> HIDE DEF g
  <2> QED BY <1>4, <1>5
<1>7. g = [j \in 0 .. Len(fs) |-> g[j]]
  OBVIOUS
<1> HIDE DEF g
<1>8. Counts(g, fs)
  BY <1>6, <1>7 DEF Counts
<1> QED BY <1>8

\* Sequences of frames, of which only the sizes matter here.
Sized(fs) == Len(fs) \in Nat /\ \A k \in 1 .. Len(fs) : fs[k].size \in Nat

LEMMA BytesFacts ==
    ASSUME NEW fs, Sized(fs)
    PROVE  /\ BytesBefore(fs, 1) = 0
           /\ \A k \in 1 .. Len(fs) : BytesBefore(fs, k + 1) = BytesBefore(fs, k) + fs[k].size
<1> DEFINE F == CHOOSE f : Counts(f, fs)
<1>1. Counts(F, fs)
  BY CountExists DEF Sized
<1>2. \A k : BytesBefore(fs, k) = F[k - 1]
  BY DEF BytesBefore, Counts
<1> HIDE DEF F
<1>3. \A j \in 0 .. Len(fs) : F[j] = IF j = 0 THEN 0 ELSE F[j - 1] + fs[j].size
  BY <1>1 DEF Counts
<1>4. F[0] = 0
  BY <1>3 DEF Sized
<1>5. ASSUME NEW k \in 1 .. Len(fs)
      PROVE  BytesBefore(fs, k + 1) = BytesBefore(fs, k) + fs[k].size
  <2>1. (k + 1) - 1 = k /\ k \in 0 .. Len(fs) /\ k # 0
    BY DEF Sized
  <2>2. F[k] = F[k - 1] + fs[k].size
    BY <1>3, <2>1
  <2> QED BY <1>2, <2>1, <2>2
<1>6. BytesBefore(fs, 1) = F[0]
  <2>1. 1 - 1 = 0
    OBVIOUS
  <2> QED BY <1>2, <2>1
<1> QED BY <1>4, <1>5, <1>6

LEMMA BytesAreNatural ==
    ASSUME NEW fs, Sized(fs)
    PROVE  \A k \in 1 .. Len(fs) + 1 : BytesBefore(fs, k) \in Nat
<1> DEFINE B(k) == BytesBefore(fs, k)
           Bad == {k \in 1 .. Len(fs) + 1 : B(k) \notin Nat}
<1>1. B(1) = 0 /\ \A k \in 1 .. Len(fs) : B(k + 1) = B(k) + fs[k].size
  BY BytesFacts
<1> HIDE DEF B
<1>2. Bad = {}
  <2> SUFFICES ASSUME Bad # {} PROVE FALSE
    OBVIOUS
  <2>1. Bad \in SUBSET Nat
    OBVIOUS
  <2>2. PICK k \in Bad : \A l \in Bad : k <= l
    BY <2>1, Least
  <2>3. k \in 1 .. Len(fs) + 1 /\ B(k) \notin Nat /\ k # 1
    BY <1>1
  <2>4. k - 1 \in 1 .. Len(fs) /\ (k - 1) + 1 = k /\ ~ (k <= k - 1) /\ k - 1 \in 1 .. Len(fs) + 1
    BY <2>3 DEF Sized
  <2>5. B(k - 1) \in Nat
    BY <2>2, <2>4
  <2>6. B(k) = B(k - 1) + fs[k - 1].size
    BY <1>1, <2>4
  <2> QED BY <2>3, <2>4, <2>5, <2>6 DEF Sized
<1> QED BY <1>2 DEF B

LEMMA BytesGrow ==
    ASSUME NEW fs, Sized(fs), NEW j \in 1 .. Len(fs) + 1
    PROVE  \A k \in 1 .. Len(fs) + 1 : j <= k => BytesBefore(fs, j) <= BytesBefore(fs, k)
<1> DEFINE B(k) == BytesBefore(fs, k)
           Bad == {k \in 1 .. Len(fs) + 1 : j <= k /\ ~ (B(j) <= B(k))}
<1>1. \A k \in 1 .. Len(fs) : B(k + 1) = B(k) + fs[k].size
  BY BytesFacts
<1>2. \A k \in 1 .. Len(fs) + 1 : B(k) \in Nat
  BY BytesAreNatural
<1> HIDE DEF B
<1>3. Bad = {}
  <2> SUFFICES ASSUME Bad # {} PROVE FALSE
    OBVIOUS
  <2>1. Bad \in SUBSET Nat
    OBVIOUS
  <2>2. PICK k \in Bad : \A l \in Bad : k <= l
    BY <2>1, Least
  <2>3. k \in 1 .. Len(fs) + 1 /\ j <= k /\ ~ (B(j) <= B(k)) /\ k # j
    BY <1>2
  <2>4. k - 1 \in 1 .. Len(fs) /\ (k - 1) + 1 = k /\ ~ (k <= k - 1)
        /\ k - 1 \in 1 .. Len(fs) + 1 /\ j <= k - 1
    BY <2>3 DEF Sized
  <2>5. B(j) <= B(k - 1)
    BY <2>2, <2>4
  <2>6. B(k) = B(k - 1) + fs[k - 1].size /\ fs[k - 1].size \in Nat
    BY <1>1, <2>4 DEF Sized
  <2> QED BY <1>2, <2>3, <2>4, <2>5, <2>6
<1> QED BY <1>3 DEF B

\* A new frame comes behind the others.
LEMMA BytesStay ==
    ASSUME NEW fs, NEW gs, Sized(fs), Sized(gs), Len(gs) = Len(fs) + 1,
           \A k \in 1 .. Len(fs) : gs[k] = fs[k]
    PROVE  \A k \in 1 .. Len(fs) + 1 : BytesBefore(gs, k) = BytesBefore(fs, k)
<1> DEFINE B(k) == BytesBefore(fs, k)
           C(k) == BytesBefore(gs, k)
           Bad == {k \in 1 .. Len(fs) + 1 : C(k) # B(k)}
<1>1. B(1) = 0 /\ \A k \in 1 .. Len(fs) : B(k + 1) = B(k) + fs[k].size
  BY BytesFacts
<1>2. C(1) = 0 /\ \A k \in 1 .. Len(gs) : C(k + 1) = C(k) + gs[k].size
  BY BytesFacts
<1> HIDE DEF B, C
<1>3. Bad = {}
  <2> SUFFICES ASSUME Bad # {} PROVE FALSE
    OBVIOUS
  <2>1. Bad \in SUBSET Nat
    OBVIOUS
  <2>2. PICK k \in Bad : \A l \in Bad : k <= l
    BY <2>1, Least
  <2>3. k \in 1 .. Len(fs) + 1 /\ C(k) # B(k) /\ k # 1
    BY <1>1, <1>2
  <2>4. k - 1 \in 1 .. Len(fs) /\ (k - 1) + 1 = k /\ ~ (k <= k - 1)
        /\ k - 1 \in 1 .. Len(fs) + 1 /\ k - 1 \in 1 .. Len(gs)
    BY <2>3 DEF Sized
  <2>5. C(k - 1) = B(k - 1)
    BY <2>2, <2>4
  <2>6. B(k) = B(k - 1) + fs[k - 1].size /\ C(k) = C(k - 1) + gs[k - 1].size
        /\ gs[k - 1] = fs[k - 1]
    BY <1>1, <1>2, <2>4
  <2> QED BY <2>3, <2>5, <2>6
<1> QED BY <1>3 DEF B, C

-----------------------------------------------------------------------------
(* What is built is what is parsed.                                        *)

Payload == 0 .. MaxPayload
Byte == 0 .. 255

LEMMA OpcodesFit == \A op \in DOMAIN Opcode : Opcode[op] \in 0 .. 15
BY DEF Opcode

\* The value of two bytes, and of eight that hold a length.
LEMMA ValueOfTwo ==
    ASSUME NEW s, Len(s) = 2
    PROVE  ValueOf(s) = (0 * 256 + s[1]) * 256 + s[2]
<1> DEFINE Value(f) == f = [k \in 0 .. Len(s) |-> IF k = 0 THEN 0 ELSE f[k - 1] * 256 + s[k]]
           v1 == 0 * 256 + s[1]
           v2 == v1 * 256 + s[2]
           g == [k \in 0 .. 2 |-> IF k = 0 THEN 0 ELSE IF k = 1 THEN v1 ELSE v2]
           F == CHOOSE f : Value(f)
<1>1. ValueOf(s) = F[2]
  BY DEF ValueOf
<1>2. g[0] = 0 /\ g[1] = v1 /\ g[2] = v2
  OBVIOUS
<1>3. \A k \in 0 .. 2 : k = 0 \/ k = 1 \/ k = 2
  OBVIOUS
<1>4. g = [k \in 0 .. 2 |-> g[k]]
  OBVIOUS
<1> HIDE DEF g
<1>5. \A k \in 0 .. 2 : g[k] = IF k = 0 THEN 0 ELSE g[k - 1] * 256 + s[k]
  <2>1. 1 - 1 = 0 /\ 2 - 1 = 1
    OBVIOUS
  <2> QED BY <1>2, <1>3, <2>1
<1>6. Value(g)
  BY <1>4, <1>5
<1>7. Value(F)
  <2> HIDE DEF Value
  <2> QED BY <1>6
<1> HIDE DEF F
<1>8. \A k \in 0 .. 2 : F[k] = IF k = 0 THEN 0 ELSE F[k - 1] * 256 + s[k]
  BY <1>7
<1>9. F[0] = 0 /\ F[1] = F[0] * 256 + s[1] /\ F[2] = F[1] * 256 + s[2]
  <2>1. 1 - 1 = 0 /\ 2 - 1 = 1
    OBVIOUS
  <2> QED BY <1>8, <2>1
<1> QED BY <1>1, <1>9

LEMMA ValueOfEight ==
    ASSUME NEW s, Len(s) = 8, s[1] = 0, s[2] = 0, s[3] = 0, s[4] = 0,
           s[5] \in Nat, s[6] \in Nat, s[7] \in Nat, s[8] \in Nat
    PROVE  ValueOf(s) = ((s[5] * 256 + s[6]) * 256 + s[7]) * 256 + s[8]
<1> DEFINE Value(f) == f = [k \in 0 .. Len(s) |-> IF k = 0 THEN 0 ELSE f[k - 1] * 256 + s[k]]
           v6 == s[5] * 256 + s[6]
           v7 == v6 * 256 + s[7]
           v8 == v7 * 256 + s[8]
           g == [k \in 0 .. 8 |-> IF k <= 4 THEN 0 ELSE IF k = 5 THEN s[5]
                                  ELSE IF k = 6 THEN v6 ELSE IF k = 7 THEN v7 ELSE v8]
           F == CHOOSE f : Value(f)
<1>1. ValueOf(s) = F[8]
  BY DEF ValueOf
<1>2. /\ g[0] = 0 /\ g[1] = 0 /\ g[2] = 0 /\ g[3] = 0 /\ g[4] = 0
      /\ g[5] = s[5] /\ g[6] = v6 /\ g[7] = v7 /\ g[8] = v8
  OBVIOUS
<1>3. \A k \in 0 .. 8 : k \in {0, 1, 2, 3, 4, 5, 6, 7, 8}
  OBVIOUS
<1>4. g = [k \in 0 .. 8 |-> g[k]]
  OBVIOUS
<1>d. 1 - 1 = 0 /\ 2 - 1 = 1 /\ 3 - 1 = 2 /\ 4 - 1 = 3 /\ 5 - 1 = 4 /\ 6 - 1 = 5
      /\ 7 - 1 = 6 /\ 8 - 1 = 7
  OBVIOUS
<1> HIDE DEF g
<1>5. \A k \in 0 .. 8 : g[k] = IF k = 0 THEN 0 ELSE g[k - 1] * 256 + s[k]
  <2>1. \A k \in 0 .. 4 : k # 0 => g[k - 1] = 0 /\ s[k] = 0 /\ g[k] = 0
    BY <1>2, <1>d
  <2>2. \A k \in 0 .. 4 : g[k] = IF k = 0 THEN 0 ELSE g[k - 1] * 256 + s[k]
    BY <1>2, <2>1
  <2>3. g[5] = g[4] * 256 + s[5]
    BY <1>2
  <2>4. \A k \in {5, 6, 7, 8} : g[k] = g[k - 1] * 256 + s[k] /\ k # 0
    BY <1>2, <1>d, <2>3
  <2>5. \A k \in 0 .. 8 : k \in 0 .. 4 \/ k \in {5, 6, 7, 8}
    OBVIOUS
  <2> QED BY <2>2, <2>4, <2>5
<1>6. Value(g)
  BY <1>4, <1>5
<1>7. Value(F)
  <2> HIDE DEF Value
  <2> QED BY <1>6
<1> HIDE DEF F
<1>8. \A k \in 0 .. 8 : F[k] = IF k = 0 THEN 0 ELSE F[k - 1] * 256 + s[k]
  BY <1>7
<1>9. F[0] = 0 /\ F[1] = 0 /\ F[2] = 0 /\ F[3] = 0 /\ F[4] = 0
  BY <1>8, <1>d
<1>10. /\ F[5] = F[4] * 256 + s[5] /\ F[6] = F[5] * 256 + s[6]
       /\ F[7] = F[6] * 256 + s[7] /\ F[8] = F[7] * 256 + s[8]
  BY <1>8, <1>d
<1> QED BY <1>1, <1>9, <1>10

\* The length as the second byte has it.
Short(len) == IF len > 65535 THEN 127 ELSE IF len > 125 THEN 126 ELSE len

\* What a frame has in front: the opcode, the length in one of three forms,
\* and whether a mask follows.
WellBuilt(f) ==
    /\ f.op \in DOMAIN Opcode /\ f.len \in Payload
    /\ Len(f.head) = 2 + LengthBytes(Short(f.len))
    /\ \A k \in 1 .. Len(f.head) : f.head[k] \in Byte
    /\ f.head[1] % 16 = Opcode[f.op]
    /\ f.head[2] % 128 = Short(f.len)
    /\ Short(f.len) = 126 => f.head[3] * 256 + f.head[4] = f.len
    /\ Short(f.len) = 127 =>
          /\ f.head[3] = 0 /\ f.head[4] = 0 /\ f.head[5] = 0 /\ f.head[6] = 0
          /\ ((f.head[7] * 256 + f.head[8]) * 256 + f.head[9]) * 256 + f.head[10] = f.len
    /\ f.size = Len(f.head) + (IF f.head[2] >= 128 THEN MaskSize ELSE 0) + f.len

LEMMA Ints == \A n \in Payload : n \in Nat /\ n < 16777216 * 128
<1>1. MaxPayload \in Nat /\ MaxPayload < 16777216 * 128
  BY DEF MaxPayload
<1> QED BY <1>1 DEF Payload

LEMMA Digits ==
    ASSUME NEW n \in Payload
    PROVE  /\ \A k \in {0, 8, 16, 24, 32, 40, 48, 56, 64} : ByteOf(n, k) \in Byte
           /\ \A k \in {32, 40, 48, 56, 64} : ByteOf(n, k) = 0
           /\ n <= 65535 => ByteOf(n, 8) * 256 + ByteOf(n, 0) = n
           /\ ((ByteOf(n, 24) * 256 + ByteOf(n, 16)) * 256 + ByteOf(n, 8)) * 256 + ByteOf(n, 0) = n
<1>0. n \in Nat /\ n < 16777216 * 128
  BY Ints
<1>1. 2 ^ 0 = 1 /\ 2 ^ 8 = 256 /\ 2 ^ 16 = 65536 /\ 2 ^ 24 = 16777216
  OBVIOUS
<1> DEFINE a == n \div 256
           b == a \div 256
           c == b \div 256
<1>2. /\ ByteOf(n, 0) = n % 256 /\ ByteOf(n, 8) = (n \div 256) % 256
      /\ ByteOf(n, 16) = (n \div 65536) % 256 /\ ByteOf(n, 24) = (n \div 16777216) % 256
  <2>1. ByteOf(n, 0) = n % 256
    <3>1. n \div 1 = n
      BY <1>0
    <3> QED BY <1>1, <3>1 DEF ByteOf
  <2>2. ByteOf(n, 8) = (n \div 256) % 256
    BY <1>1 DEF ByteOf
  <2>3. ByteOf(n, 16) = (n \div 65536) % 256
    BY <1>1 DEF ByteOf
  <2>4. ByteOf(n, 24) = (n \div 16777216) % 256
    BY <1>1 DEF ByteOf
  <2> QED BY <2>1, <2>2, <2>3, <2>4
<1>3. n = a * 256 + (n % 256) /\ n % 256 \in 0 .. 255 /\ a \in Nat /\ (n <= 65535 => a < 256)
  BY <1>0
<1>4. a = b * 256 + (a % 256) /\ a % 256 \in 0 .. 255 /\ b \in Nat
  <2> HIDE DEF a
  <2> QED BY <1>3
<1>5. b = c * 256 + (b % 256) /\ b % 256 \in 0 .. 255 /\ c \in Nat
  <2> HIDE DEF b
  <2> QED BY <1>4
<1>6. n \div 65536 = b
  <2> HIDE DEF a, b
  <2>1. n = b * 65536 + ((a % 256) * 256 + (n % 256))
    BY <1>3, <1>4
  <2> DEFINE r == (a % 256) * 256 + (n % 256)
  <2>2. r \in Nat /\ r < 65536
    BY <1>3, <1>4
  <2> HIDE DEF r
  <2>3. n = b * 65536 + r
    BY <2>1 DEF r
  <2> QED BY <1>4, <2>2, <2>3
<1>7. n \div 16777216 = c
  <2> DEFINE x == n % 256
             y == a % 256
             z == b % 256
             r == z * 65536 + (y * 256 + x)
  <2>1. /\ n = a * 256 + x /\ a = b * 256 + y /\ b = c * 256 + z
        /\ x \in 0 .. 255 /\ y \in 0 .. 255 /\ z \in 0 .. 255
        /\ a \in Nat /\ b \in Nat /\ c \in Nat
    BY <1>3, <1>4, <1>5
  <2> HIDE DEF a, b, c, x, y, z
  <2>2. r \in Nat /\ r < 16777216
    BY <2>1
  <2>3. n = c * 16777216 + r
    BY <2>1
  <2> HIDE DEF r
  <2> QED BY <2>1, <2>2, <2>3
<1>8. c % 256 = c
  <2> HIDE DEF a, b, c
  <2>1. c < 128
    BY <1>0, <1>3, <1>4, <1>5
  <2> QED BY <1>5, <2>1
<1> HIDE DEF a, b, c
<1>9. /\ ByteOf(n, 0) = n % 256 /\ ByteOf(n, 8) = a % 256
      /\ ByteOf(n, 16) = b % 256 /\ ByteOf(n, 24) = c
  BY <1>2, <1>6, <1>7, <1>8 DEF a
<1>10. \A k \in {32, 40, 48, 56, 64} : ByteOf(n, k) = 0
  BY DEF ByteOf
<1>11. n <= 65535 => a % 256 = a
  BY <1>3
<1>12. \A k \in {0, 8, 16, 24} : ByteOf(n, k) \in Byte
  <2>1. n % 256 \in Byte /\ a % 256 \in Byte /\ b % 256 \in Byte /\ c % 256 \in Byte
    BY <1>3, <1>4, <1>5 DEF Byte
  <2> QED BY <1>8, <1>9, <2>1
<1>13. n <= 65535 => ByteOf(n, 8) * 256 + ByteOf(n, 0) = n
  BY <1>3, <1>9, <1>11
<1>14. ((ByteOf(n, 24) * 256 + ByteOf(n, 16)) * 256 + ByteOf(n, 8)) * 256 + ByteOf(n, 0) = n
  <2>1. ByteOf(n, 24) * 256 + ByteOf(n, 16) = b
    BY <1>5, <1>9
  <2>2. b * 256 + ByteOf(n, 8) = a
    BY <1>4, <1>9
  <2>3. a * 256 + ByteOf(n, 0) = n
    BY <1>3, <1>9
  <2> QED BY <2>1, <2>2, <2>3
<1>15. \A k \in {32, 40, 48, 56, 64} : ByteOf(n, k) \in Byte
  BY <1>10 DEF Byte
<1>16. \A k \in {0, 8, 16, 24, 32, 40, 48, 56, 64} : ByteOf(n, k) \in Byte
  BY <1>12, <1>15
<1> QED BY <1>10, <1>13, <1>14, <1>16


LEMMA ShortFits == \A n \in Payload : Short(n) \in 0 .. 127
BY Ints DEF Short

\* s is a header's first two bytes.
Leads(s, op, masked, short) ==
    /\ s \in Seq(Byte) /\ Len(s) = 2
    /\ s[1] % 16 = Opcode[op]
    /\ s[2] % 128 = short
    /\ s[2] >= 128 <=> masked

LEMMA FirstTwoFacts ==
    ASSUME NEW op \in DOMAIN Opcode, NEW masked \in BOOLEAN, NEW short \in 0 .. 127
    PROVE  Leads(FirstTwo(op, masked, short), op, masked, short)
<1> DEFINE x == Opcode[op]
           first == 128 + x
           second == (IF masked THEN 128 ELSE 0) + short
<1>1. x \in 0 .. 15
  BY OpcodesFit
<1>2. FirstTwo(op, masked, short) = <<first, second>>
  BY DEF FirstTwo
<1> HIDE DEF x
<1>3. first \in Byte /\ first % 16 = x
  BY <1>1 DEF Byte
<1>4. second \in Byte /\ second % 128 = short /\ (second >= 128 <=> masked)
  <2>1. CASE masked
    BY <2>1 DEF Byte
  <2>2. CASE ~ masked
    BY <2>2 DEF Byte
  <2> QED BY <2>1, <2>2
<1> HIDE DEF first, second
<1>5. <<first, second>> \in Seq(Byte) /\ Len(<<first, second>>) = 2
  BY <1>3, <1>4
<1> QED BY <1>2, <1>3, <1>4, <1>5 DEF x, Leads

\* tail is a length that is not short.
Tells(tail, len) ==
    /\ tail \in Seq(Byte) /\ Len(tail) = LengthBytes(Short(len))
    /\ Short(len) = 126 => tail[1] * 256 + tail[2] = len
    /\ Short(len) = 127 =>
          /\ tail[1] = 0 /\ tail[2] = 0 /\ tail[3] = 0 /\ tail[4] = 0
          /\ ((tail[5] * 256 + tail[6]) * 256 + tail[7]) * 256 + tail[8] = len

\* The two first bytes, and behind them the length if it is not short.
LEMMA HeadFacts ==
    ASSUME NEW op \in DOMAIN Opcode, NEW len \in Payload, NEW masked \in BOOLEAN,
           NEW tail, Tells(tail, len)
    PROVE  LET h == FirstTwo(op, masked, Short(len)) \o tail
           IN  /\ Len(h) = 2 + LengthBytes(Short(len))
               /\ WellBuilt([op |-> op, len |-> len, head |-> h,
                             size |-> Len(h) + (IF masked THEN MaskSize ELSE 0) + len])
<1> DEFINE s == FirstTwo(op, masked, Short(len))
           h == s \o tail
           f == [op |-> op, len |-> len, head |-> h,
                 size |-> Len(h) + (IF masked THEN MaskSize ELSE 0) + len]
<1>0. tail \in Seq(Byte) /\ Len(tail) = LengthBytes(Short(len))
  BY DEF Tells
<1>1. /\ s \in Seq(Byte) /\ Len(s) = 2
      /\ s[1] % 16 = Opcode[op]
      /\ s[2] % 128 = Short(len)
      /\ s[2] >= 128 <=> masked
  <2>1. Short(len) \in 0 .. 127
    BY ShortFits
  <2>2. Leads(s, op, masked, Short(len))
    BY <2>1, FirstTwoFacts
  <2> HIDE DEF s
  <2> QED BY <2>2 DEF Leads
<1> HIDE DEF s
<1>2. h \in Seq(Byte) /\ Len(h) = 2 + Len(tail)
      /\ \A k \in 1 .. 2 + Len(tail) : h[k] = IF k <= 2 THEN s[k] ELSE tail[k - 2]
  <2>1. /\ h \in Seq(Byte) /\ Len(h) = Len(s) + Len(tail)
        /\ \A k \in 1 .. Len(s) + Len(tail) : h[k] = IF k <= Len(s) THEN s[k] ELSE tail[k - Len(s)]
    BY <1>0, <1>1, ConcatProperties
  <2> HIDE DEF h
  <2> QED BY <1>0, <1>1, <2>1
<1>3. /\ f.op = op /\ f.len = len /\ f.head = h
      /\ f.size = Len(h) + (IF masked THEN MaskSize ELSE 0) + len
  OBVIOUS
<1> HIDE DEF h, f
<1>4. LengthBytes(Short(len)) \in {0, 2, 8}
      /\ (Short(len) = 126 => LengthBytes(Short(len)) = 2)
      /\ (Short(len) = 127 => LengthBytes(Short(len)) = 8)
  BY DEF LengthBytes
<1>5. h[1] = s[1] /\ h[2] = s[2]
  BY <1>0, <1>2, <1>4
<1>6. \A k \in 1 .. Len(h) : h[k] \in Byte
  BY <1>0, <1>2, ElementOfSeq
<1>7. Short(len) = 126 => h[3] * 256 + h[4] = len
  <2> SUFFICES ASSUME Short(len) = 126 PROVE h[3] * 256 + h[4] = len
    OBVIOUS
  <2>1. h[3] = tail[1] /\ h[4] = tail[2]
    BY <1>0, <1>2, <1>4
  <2> QED BY <2>1 DEF Tells
<1>8. Short(len) = 127 =>
         /\ h[3] = 0 /\ h[4] = 0 /\ h[5] = 0 /\ h[6] = 0
         /\ ((h[7] * 256 + h[8]) * 256 + h[9]) * 256 + h[10] = len
  <2> SUFFICES ASSUME Short(len) = 127
               PROVE  /\ h[3] = 0 /\ h[4] = 0 /\ h[5] = 0 /\ h[6] = 0
                      /\ ((h[7] * 256 + h[8]) * 256 + h[9]) * 256 + h[10] = len
    OBVIOUS
  <2>1. Len(tail) = 8
    BY <1>0, <1>4
  <2>d. 3 - 2 = 1 /\ 4 - 2 = 2 /\ 5 - 2 = 3 /\ 6 - 2 = 4 /\ 7 - 2 = 5 /\ 8 - 2 = 6
        /\ 9 - 2 = 7 /\ 10 - 2 = 8
    OBVIOUS
  <2>i. ASSUME NEW k \in 3 .. 10 PROVE h[k] = tail[k - 2]
    <3>1. k \in 1 .. 2 + Len(tail) /\ ~ (k <= 2)
      BY <2>1
    <3> QED BY <1>2, <3>1
  <2>2. /\ h[3] = tail[1] /\ h[4] = tail[2] /\ h[5] = tail[3] /\ h[6] = tail[4]
        /\ h[7] = tail[5] /\ h[8] = tail[6] /\ h[9] = tail[7] /\ h[10] = tail[8]
    BY <2>d, <2>i
  <2> QED BY <2>2 DEF Tells
<1>9. f.size = Len(f.head) + (IF f.head[2] >= 128 THEN MaskSize ELSE 0) + f.len
  <2>1. h[2] >= 128 <=> masked
    BY <1>1, <1>5
  <2> QED BY <1>3, <2>1
<1>10. WellBuilt(f)
  BY <1>0, <1>1, <1>2, <1>3, <1>5, <1>6, <1>7, <1>8, <1>9 DEF WellBuilt
<1> QED BY <1>0, <1>2, <1>10 DEF f, h, s

\* The length in two bytes, and in eight, as buildFrame has it.
LEMMA BigEndianFacts ==
    ASSUME NEW n \in Payload
    PROVE  /\ BigEndian(n, 2) \in Seq(Byte) /\ Len(BigEndian(n, 2)) = 2
           /\ n <= 65535 => BigEndian(n, 2)[1] * 256 + BigEndian(n, 2)[2] = n
           /\ BigEndian(n, 8) \in Seq(Byte) /\ Len(BigEndian(n, 8)) = 8
           /\ \A b \in 1 .. 4 : BigEndian(n, 8)[b] = 0
           /\ BigEndian(n, 8)[5] = ByteOf(n, 24) /\ BigEndian(n, 8)[6] = ByteOf(n, 16)
           /\ BigEndian(n, 8)[7] = ByteOf(n, 8) /\ BigEndian(n, 8)[8] = ByteOf(n, 0)
<1> DEFINE two == BigEndian(n, 2)
           eight == BigEndian(n, 8)
<1>0. /\ \A k \in {0, 8, 16, 24, 32, 40, 48, 56, 64} : ByteOf(n, k) \in Byte
      /\ \A k \in {32, 40, 48, 56, 64} : ByteOf(n, k) = 0
      /\ n <= 65535 => ByteOf(n, 8) * 256 + ByteOf(n, 0) = n
  BY Digits
<1>1. two = [b \in 1 .. 2 |-> ByteOf(n, 8 * (2 - b))]
      /\ eight = [b \in 1 .. 8 |-> ByteOf(n, 8 * (8 - b))]
  BY DEF BigEndian
<1>2. \A b \in 1 .. 2 : 8 * (2 - b) \in {0, 8}
  OBVIOUS
<1>3. \A b \in 1 .. 8 : 8 * (8 - b) \in {0, 8, 16, 24, 32, 40, 48, 56}
  OBVIOUS
<1>4. \A b \in 1 .. 2 : two[b] = ByteOf(n, 8 * (2 - b)) /\ two[b] \in Byte
  BY <1>0, <1>1, <1>2
<1>5. \A b \in 1 .. 8 : eight[b] = ByteOf(n, 8 * (8 - b)) /\ eight[b] \in Byte
  BY <1>0, <1>1, <1>3
<1>6. two \in Seq(Byte) /\ Len(two) = 2
  <2>1. two \in [1 .. 2 -> Byte]
    BY <1>1, <1>4
  <2> HIDE DEF two
  <2>2. two \in Seq(Byte)
    BY <2>1, SeqDef
  <2>3. DOMAIN two = 1 .. 2
    BY <2>1
  <2>4. Len(two) \in Nat /\ DOMAIN two = 1 .. Len(two)
    BY <2>2, LenProperties
  <2> QED BY <2>2, <2>3, <2>4
<1>7. eight \in Seq(Byte) /\ Len(eight) = 8
  <2>1. eight \in [1 .. 8 -> Byte]
    BY <1>1, <1>5
  <2> HIDE DEF eight
  <2>2. eight \in Seq(Byte)
    BY <2>1, SeqDef
  <2>3. DOMAIN eight = 1 .. 8
    BY <2>1
  <2>4. Len(eight) \in Nat /\ DOMAIN eight = 1 .. Len(eight)
    BY <2>2, LenProperties
  <2> QED BY <2>2, <2>3, <2>4
<1> HIDE DEF two, eight
<1>8. two[1] = ByteOf(n, 8) /\ two[2] = ByteOf(n, 0)
  <2>1. 8 * (2 - 1) = 8 /\ 8 * (2 - 2) = 0
    OBVIOUS
  <2> QED BY <1>4, <2>1
<1>9. \A b \in 1 .. 4 : eight[b] = 0
  <2>1. \A b \in 1 .. 4 : 8 * (8 - b) \in {32, 40, 48, 56}
    OBVIOUS
  <2> QED BY <1>0, <1>5, <2>1
<1>10. /\ eight[5] = ByteOf(n, 24) /\ eight[6] = ByteOf(n, 16)
       /\ eight[7] = ByteOf(n, 8) /\ eight[8] = ByteOf(n, 0)
  <2>1. 8 * (8 - 5) = 24 /\ 8 * (8 - 6) = 16 /\ 8 * (8 - 7) = 8 /\ 8 * (8 - 8) = 0
    OBVIOUS
  <2> QED BY <1>5, <2>1
<1> QED BY <1>0, <1>6, <1>7, <1>8, <1>9, <1>10 DEF two, eight

\* Both functions build a header that can be parsed.
LEMMA FrameIsWellBuilt ==
    ASSUME NEW op \in DOMAIN Opcode, NEW len \in Payload, NEW masked \in BOOLEAN
    PROVE  /\ WellBuilt(Frame(op, len, masked))
           /\ Frame(op, len, masked).op = op /\ Frame(op, len, masked).len = len
<1>0. len \in Nat /\ << >> \in Seq(Byte) /\ Len(<< >>) = 0
  <2>1. len \in Nat
    BY Ints
  <2> QED BY <2>1, EmptySeq
<1>s. /\ Short(len) = 127 <=> len > 65535
      /\ Short(len) = 126 <=> ~ (len > 65535) /\ len > 125
      /\ ~ (len > 125) => Short(len) = len
  BY <1>0 DEF Short
<1>d. /\ ((ByteOf(len, 24) * 256 + ByteOf(len, 16)) * 256 + ByteOf(len, 8)) * 256 + ByteOf(len, 0) = len
      /\ len <= 65535 => ByteOf(len, 8) * 256 + ByteOf(len, 0) = len
      /\ \A k \in {0, 8, 16, 24, 32, 40, 48, 56, 64} : ByteOf(len, k) \in Byte
      /\ \A k \in {32, 40, 48, 56, 64} : ByteOf(len, k) = 0
  BY Digits
<1>1. CASE masked
  <2> DEFINE tail == IF Short(len) = 126 THEN BigEndian(len % 65536, 2)
                     ELSE IF Short(len) = 127 THEN BigEndian(len, 8) ELSE << >>
             head == FirstTwo(op, masked, Short(len)) \o tail
  <2>1. Tells(tail, len)
    <3>1. CASE Short(len) = 126
      <4>1. len % 65536 = len /\ len <= 65535
        BY <1>0, <1>s, <3>1
      <4>2. tail = BigEndian(len, 2)
        BY <3>1, <4>1
      <4> HIDE DEF tail
      <4>3. tail \in Seq(Byte) /\ Len(tail) = 2 /\ tail[1] * 256 + tail[2] = len
        BY <4>1, <4>2, BigEndianFacts
      <4> QED BY <3>1, <4>3 DEF Tells, LengthBytes
    <3>2. CASE Short(len) = 127
      <4>1. tail = BigEndian(len, 8)
        BY <3>2
      <4> HIDE DEF tail
      <4>2. /\ tail \in Seq(Byte) /\ Len(tail) = 8
            /\ \A b \in 1 .. 4 : tail[b] = 0
            /\ tail[5] = ByteOf(len, 24) /\ tail[6] = ByteOf(len, 16)
            /\ tail[7] = ByteOf(len, 8) /\ tail[8] = ByteOf(len, 0)
        BY <4>1, BigEndianFacts
      <4>3. tail[1] = 0 /\ tail[2] = 0 /\ tail[3] = 0 /\ tail[4] = 0
        BY <4>2
      <4>4. ((tail[5] * 256 + tail[6]) * 256 + tail[7]) * 256 + tail[8] = len
        BY <1>d, <4>2
      <4> QED BY <3>2, <4>2, <4>3, <4>4 DEF Tells, LengthBytes
    <3>3. CASE Short(len) # 126 /\ Short(len) # 127
      <4>1. tail = << >>
        BY <3>3
      <4> HIDE DEF tail
      <4> QED BY <1>0, <3>3, <4>1 DEF Tells, LengthBytes
    <3> QED BY <3>1, <3>2, <3>3
  <2>2. BuildFrame(op, len) = head
    BY <1>1 DEF BuildFrame, Short
  <2>3. Frame(op, len, masked) = [op |-> op, len |-> len, head |-> head,
                                  size |-> Len(head) + MaskSize + len]
    <3> HIDE DEF head
    <3> QED BY <1>1, <2>2 DEF Frame
  <2>4. WellBuilt([op |-> op, len |-> len, head |-> head,
                   size |-> Len(head) + (IF masked THEN MaskSize ELSE 0) + len])
    <3> HIDE DEF tail
    <3> QED BY <2>1, HeadFacts
  <2> HIDE DEF head
  <2>5. (IF masked THEN MaskSize ELSE 0) = MaskSize
    BY <1>1
  <2>6. WellBuilt([op |-> op, len |-> len, head |-> head, size |-> Len(head) + MaskSize + len])
    BY <2>4, <2>5
  <2> QED BY <2>3, <2>6
<1>2. CASE ~ masked
  <2> DEFINE tail == IF len < 126 THEN << >>
                     ELSE IF len <= 65535 THEN <<ByteOf(len, 8), ByteOf(len, 0)>>
                     ELSE [b \in 1 .. 8 |-> ByteOf(len, Shifts[b])]
             head == FirstTwo(op, masked, Short(len)) \o tail
  <2>1. Tells(tail, len)
    <3>1. CASE Short(len) = 126
      <4>1. ~ (len < 126) /\ len <= 65535
        BY <1>0, <1>s, <3>1
      <4>2. tail = <<ByteOf(len, 8), ByteOf(len, 0)>>
        BY <4>1
      <4> HIDE DEF tail
      <4>3. tail \in Seq(Byte) /\ Len(tail) = 2 /\ tail[1] = ByteOf(len, 8) /\ tail[2] = ByteOf(len, 0)
        BY <1>d, <4>2
      <4>4. tail[1] * 256 + tail[2] = len
        BY <1>d, <4>1, <4>3
      <4> QED BY <3>1, <4>3, <4>4 DEF Tells, LengthBytes
    <3>2. CASE Short(len) = 127
      <4>1. ~ (len < 126) /\ ~ (len <= 65535)
        BY <1>0, <1>s, <3>2
      <4>2. tail = [b \in 1 .. 8 |-> ByteOf(len, Shifts[b])]
        BY <4>1
      <4> HIDE DEF tail
      <4>3. /\ Shifts[1] = 64 /\ Shifts[2] = 56 /\ Shifts[3] = 48 /\ Shifts[4] = 40
            /\ Shifts[5] = 24 /\ Shifts[6] = 16 /\ Shifts[7] = 8 /\ Shifts[8] = 0
        BY DEF Shifts
      <4>4. /\ tail[1] = ByteOf(len, 64) /\ tail[2] = ByteOf(len, 56)
            /\ tail[3] = ByteOf(len, 48) /\ tail[4] = ByteOf(len, 40)
            /\ tail[5] = ByteOf(len, 24) /\ tail[6] = ByteOf(len, 16)
            /\ tail[7] = ByteOf(len, 8) /\ tail[8] = ByteOf(len, 0)
        BY <4>2, <4>3
      <4>5. \A b \in 1 .. 8 : b \in {1, 2, 3, 4, 5, 6, 7, 8}
        OBVIOUS
      <4>6. \A b \in 1 .. 8 : tail[b] \in Byte
        BY <1>d, <4>4, <4>5
      <4>7. tail \in Seq(Byte) /\ Len(tail) = 8
        <5>1. tail \in [1 .. 8 -> Byte]
          BY <4>2, <4>6
        <5>2. tail \in Seq(Byte)
          BY <5>1, SeqDef
        <5>3. DOMAIN tail = 1 .. 8
          BY <5>1
        <5>4. Len(tail) \in Nat /\ DOMAIN tail = 1 .. Len(tail)
          BY <5>2, LenProperties
        <5> QED BY <5>2, <5>3, <5>4
      <4>8. tail[1] = 0 /\ tail[2] = 0 /\ tail[3] = 0 /\ tail[4] = 0
        BY <1>d, <4>4
      <4>9. ((tail[5] * 256 + tail[6]) * 256 + tail[7]) * 256 + tail[8] = len
        BY <1>d, <4>4
      <4> QED BY <3>2, <4>7, <4>8, <4>9 DEF Tells, LengthBytes
    <3>3. CASE Short(len) # 126 /\ Short(len) # 127
      <4>1. tail = << >>
        BY <1>0, <1>s, <3>3
      <4> HIDE DEF tail
      <4> QED BY <1>0, <3>3, <4>1 DEF Tells, LengthBytes
    <3> QED BY <3>1, <3>2, <3>3
  <2>m. masked = FALSE
    BY <1>2
  <2> DEFINE A == FirstTwo(op, FALSE, len)
             B == FirstTwo(op, FALSE, 126) \o <<ByteOf(len, 8), ByteOf(len, 0)>>
             C == FirstTwo(op, FALSE, 127) \o [b \in 1 .. 8 |-> ByteOf(len, Shifts[b])]
  <2>e. BuildWsFrame(op, len) = IF len < 126 THEN A ELSE IF len <= 65535 THEN B ELSE C
    BY DEF BuildWsFrame
  <2>2. BuildWsFrame(op, len) = head
    <3>1. CASE len < 126
      <4>1. tail = << >> /\ Short(len) = len
        BY <1>0, <1>s, <3>1
      <4> HIDE DEF tail
      <4>2. FirstTwo(op, masked, len) \o << >> = FirstTwo(op, masked, len)
        <5>1. len \in 0 .. 127
          BY <1>0, <3>1
        <5>2. FirstTwo(op, masked, len) \in Seq(Byte)
          BY <5>1, FirstTwoFacts DEF Leads
        <5> QED BY <5>2, ConcatEmptySeq
      <4>3. BuildWsFrame(op, len) = A
        <5> HIDE DEF A, B, C
        <5> QED BY <3>1, <2>e
      <4> QED BY <1>2, <4>1, <4>2, <4>3
    <3>2. CASE ~ (len < 126) /\ len <= 65535
      <4>1. Short(len) = 126
        BY <1>0, <1>s, <3>2
      <4>2. tail = <<ByteOf(len, 8), ByteOf(len, 0)>>
        BY <3>2
      <4>3. BuildWsFrame(op, len) = B
        <5> HIDE DEF A, B, C
        <5> QED BY <3>2, <2>e
      <4> HIDE DEF tail
      <4> QED BY <2>m, <4>1, <4>2, <4>3
    <3>3. CASE ~ (len < 126) /\ ~ (len <= 65535)
      <4>1. Short(len) = 127
        BY <1>0, <1>s, <3>3
      <4>2. tail = [b \in 1 .. 8 |-> ByteOf(len, Shifts[b])]
        BY <3>3
      <4>3. BuildWsFrame(op, len) = C
        <5> HIDE DEF A, B, C
        <5> QED BY <3>3, <2>e
      <4> HIDE DEF tail
      <4> QED BY <2>m, <4>1, <4>2, <4>3
    <3> HIDE DEF head, tail, A, B, C
    <3> QED BY <1>0, <3>1, <3>2, <3>3
  <2>3. Len(head) = 2 + LengthBytes(Short(len))
        /\ WellBuilt([op |-> op, len |-> len, head |-> head,
                      size |-> Len(head) + (IF masked THEN MaskSize ELSE 0) + len])
    <3> HIDE DEF tail
    <3> QED BY <2>1, HeadFacts
  <2>4. CalcFrameSize(len) = 2 + LengthBytes(Short(len)) + len
    BY <1>0, <1>s DEF CalcFrameSize, LengthBytes
  <2> HIDE DEF head
  <2>5. Frame(op, len, masked) = [op |-> op, len |-> len, head |-> head, size |-> CalcFrameSize(len)]
    BY <1>2, <2>2 DEF Frame
  <2>6. CalcFrameSize(len) = Len(head) + (IF masked THEN MaskSize ELSE 0) + len
    <3>1. LengthBytes(Short(len)) \in Nat
      BY DEF LengthBytes
    <3> QED BY <1>0, <1>2, <2>3, <2>4, <3>1
  <2> QED BY <2>3, <2>5, <2>6
<1> QED BY <1>1, <1>2

\* What feedRecvData makes of the bytes at the front of a frame, if there are
\* size of them, and maybe those of the next frames behind it.
LEMMA TakeFacts ==
    ASSUME NEW f, WellBuilt(f), NEW bytes, NEW size \in Nat,
           \A k \in 1 .. Len(f.head) : k <= size => bytes[k] = f.head[k]
    PROVE  TakeFrame(bytes, size) =
               IF size < f.size THEN More
               ELSE [whole |-> TRUE, op |-> Opcode[f.op], len |-> f.len, size |-> f.size]
<1> DEFINE short == bytes[2] % 128
           offset == 2 + LengthBytes(short)
           mask == IF bytes[2] >= 128 THEN MaskSize ELSE 0
           payload == IF short < 126 THEN short ELSE ValueOf(SubSeq(bytes, 3, offset))
           taken == [whole |-> TRUE, op |-> bytes[1] % 16, len |-> payload,
                     size |-> offset + mask + payload]
           n == Len(f.head)
           m == IF f.head[2] >= 128 THEN MaskSize ELSE 0
<1>1. /\ n = 2 + LengthBytes(Short(f.len))
      /\ \A k \in 1 .. n : f.head[k] \in Byte
      /\ f.head[1] % 16 = Opcode[f.op]
      /\ f.head[2] % 128 = Short(f.len)
      /\ f.size = n + m + f.len
  BY DEF WellBuilt
<1>b. ASSUME NEW k \in 1 .. n PROVE f.head[k] \in Byte
  BY <1>1
<1>i. \A x \in Byte : x \in Nat /\ x \in Int
  BY DEF Byte
<1>2. f.len \in Nat /\ m \in Nat
  <2>1. f.len \in Nat
    BY Ints DEF WellBuilt
  <2> QED BY <2>1 DEF MaskSize
<1>3. LengthBytes(Short(f.len)) \in {0, 2, 8}
      /\ (Short(f.len) = 126 => LengthBytes(Short(f.len)) = 2)
      /\ (Short(f.len) = 127 => LengthBytes(Short(f.len)) = 8)
  BY DEF LengthBytes
<1>4. TakeFrame(bytes, size) =
          IF size < 2 THEN More
          ELSE IF size < offset THEN More
          ELSE IF size < offset + payload + mask THEN More
          ELSE taken
  BY DEF TakeFrame
<1>5. CASE size < n
  <2>1. size < f.size
    <3> HIDE DEF n, m
    <3> QED BY <1>1, <1>2, <1>3, <1>5
  <2>2. CASE size < 2
    <3> HIDE DEF taken, payload, offset, mask
    <3> QED BY <1>4, <2>1, <2>2
  <2>3. CASE ~ (size < 2)
    <3>1. offset = n
      <4>1. 2 \in 1 .. n /\ 2 <= size
        BY <1>1, <1>3, <2>3
      <4>2. bytes[2] = f.head[2]
        BY <4>1
      <4> QED BY <1>1, <4>2
    <3> HIDE DEF taken, payload, offset, mask, n
    <3> QED BY <1>4, <1>5, <2>1, <2>3, <3>1
  <2> QED BY <2>2, <2>3
<1>6. CASE ~ (size < n)
  <2>1. n \in Nat /\ n >= 2 /\ n <= size
    BY <1>1, <1>3, <1>6
  <2>2. \A k \in 1 .. n : bytes[k] = f.head[k]
    <3>1. \A k \in 1 .. n : k <= size
      <4> HIDE DEF n
      <4> QED BY <2>1
    <3> QED BY <3>1
  <2>3. bytes[1] = f.head[1] /\ bytes[2] = f.head[2]
    <3> HIDE DEF n
    <3> QED BY <2>1, <2>2
  <2>4. short = Short(f.len) /\ offset = n /\ mask = m
    BY <1>1, <2>3
  <2>5. payload = f.len
    <3>1. CASE Short(f.len) = 126
      <4> DEFINE s == SubSeq(bytes, 3, n)
      <4>1. n = 4
        BY <1>1, <1>3, <3>1
      <4>2. \A k \in 3 .. 4 : bytes[k] \in Byte
        <5>1. \A k \in 3 .. 4 : k \in 1 .. n
          <6> HIDE DEF n
          <6> QED BY <4>1
        <5> HIDE DEF n
        <5> QED BY <1>b, <2>2, <5>1
      <4>3. Len(s) = 2 /\ s[1] = bytes[3] /\ s[2] = bytes[4]
        <5> HIDE DEF n
        <5>1. /\ Len(SubSeq(bytes, 3, 4)) = 4 - 3 + 1
              /\ \A i \in 1 .. 4 - 3 + 1 : SubSeq(bytes, 3, 4)[i] = bytes[3 + i - 1]
          BY <4>2, SubSeqProperties
        <5>2. 4 - 3 + 1 = 2 /\ 3 + 1 - 1 = 3 /\ 3 + 2 - 1 = 4
          OBVIOUS
        <5>3. 1 \in 1 .. 2 /\ 2 \in 1 .. 2
          OBVIOUS
        <5> QED BY <4>1, <5>1, <5>2, <5>3
      <4>4. bytes[3] = f.head[3] /\ bytes[4] = f.head[4]
        <5> HIDE DEF n
        <5> QED BY <2>2, <4>1
      <4>5. f.head[3] \in Byte /\ f.head[4] \in Byte /\ f.head[3] * 256 + f.head[4] = f.len
        BY <1>1, <3>1, <4>1 DEF WellBuilt
      <4> HIDE DEF s
      <4>6. ValueOf(s) = (0 * 256 + s[1]) * 256 + s[2]
        BY <4>3, ValueOfTwo
      <4>7. ValueOf(s) = f.len
        <5>1. s[1] \in Int /\ s[2] \in Int /\ s[1] * 256 + s[2] = f.len
          <6>1. s[1] = f.head[3] /\ s[2] = f.head[4]
            BY <4>3, <4>4
          <6>2. f.head[3] \in Int /\ f.head[4] \in Int
            BY <1>i, <4>5
          <6> QED BY <4>5, <6>1, <6>2
        <5>2. 0 * 256 + s[1] = s[1]
          BY <5>1
        <5> QED BY <4>6, <5>1, <5>2
      <4>8. payload = ValueOf(s)
        <5>1. ~ (short < 126)
          BY <2>4, <3>1
        <5> QED BY <2>4, <5>1 DEF s
      <4> QED BY <4>7, <4>8
    <3>2. CASE Short(f.len) = 127
      <4> DEFINE s == SubSeq(bytes, 3, n)
      <4>1. n = 10
        BY <1>1, <1>3, <3>2
      <4>2. \A k \in 3 .. 10 : bytes[k] \in Byte
        <5>1. \A k \in 3 .. 10 : k \in 1 .. n
          <6> HIDE DEF n
          <6> QED BY <4>1
        <5> HIDE DEF n
        <5> QED BY <1>b, <2>2, <5>1
      <4>3. Len(s) = 8 /\ \A i \in 1 .. 8 : s[i] = bytes[2 + i]
        <5> HIDE DEF n
        <5>1. /\ Len(SubSeq(bytes, 3, 10)) = 10 - 3 + 1
              /\ \A i \in 1 .. 10 - 3 + 1 : SubSeq(bytes, 3, 10)[i] = bytes[3 + i - 1]
          BY <4>2, SubSeqProperties
        <5>2. 10 - 3 + 1 = 8 /\ \A i \in 1 .. 8 : 3 + i - 1 = 2 + i
          OBVIOUS
        <5> QED BY <4>1, <5>1, <5>2
      <4>4. \A i \in 1 .. 8 : s[i] = f.head[2 + i]
        <5>1. \A i \in 1 .. 8 : 2 + i \in 1 .. 10
          OBVIOUS
        <5> HIDE DEF n, s
        <5> QED BY <2>2, <4>1, <4>3, <5>1
      <4>d. 2 + 1 = 3 /\ 2 + 2 = 4 /\ 2 + 3 = 5 /\ 2 + 4 = 6 /\ 2 + 5 = 7 /\ 2 + 6 = 8
            /\ 2 + 7 = 9 /\ 2 + 8 = 10
        OBVIOUS
      <4>5. /\ f.head[3] = 0 /\ f.head[4] = 0 /\ f.head[5] = 0 /\ f.head[6] = 0
            /\ ((f.head[7] * 256 + f.head[8]) * 256 + f.head[9]) * 256 + f.head[10] = f.len
        BY <3>2 DEF WellBuilt
      <4>6. f.head[7] \in Nat /\ f.head[8] \in Nat /\ f.head[9] \in Nat /\ f.head[10] \in Nat
        <5>1. f.head[7] \in Byte /\ f.head[8] \in Byte /\ f.head[9] \in Byte /\ f.head[10] \in Byte
          <6>1. 7 \in 1 .. n /\ 8 \in 1 .. n /\ 9 \in 1 .. n /\ 10 \in 1 .. n
            <7> HIDE DEF n
            <7> QED BY <4>1
          <6> HIDE DEF n
          <6> QED BY <1>b, <6>1
        <5> QED BY <1>i, <5>1
      <4> HIDE DEF s
      <4>7. /\ s[1] = f.head[3] /\ s[2] = f.head[4] /\ s[3] = f.head[5] /\ s[4] = f.head[6]
            /\ s[5] = f.head[7] /\ s[6] = f.head[8] /\ s[7] = f.head[9] /\ s[8] = f.head[10]
        BY <4>4, <4>d
      <4>8. ValueOf(s) = ((s[5] * 256 + s[6]) * 256 + s[7]) * 256 + s[8]
        <5>1. s[1] = 0 /\ s[2] = 0 /\ s[3] = 0 /\ s[4] = 0
          BY <4>5, <4>7
        <5>2. s[5] \in Nat /\ s[6] \in Nat /\ s[7] \in Nat /\ s[8] \in Nat
          BY <4>6, <4>7
        <5> QED BY <4>3, <5>1, <5>2, ValueOfEight
      <4>9. ValueOf(s) = f.len
        BY <4>5, <4>7, <4>8
      <4>10. payload = ValueOf(s)
        <5>1. ~ (short < 126)
          BY <2>4, <3>2
        <5> QED BY <2>4, <5>1 DEF s
      <4> QED BY <4>9, <4>10
    <3>3. CASE Short(f.len) # 126 /\ Short(f.len) # 127
      <4>1. Short(f.len) = f.len /\ f.len < 126
        BY <1>2, <3>3 DEF Short
      <4> QED BY <2>4, <4>1
    <3> QED BY <3>1, <3>2, <3>3
  <2>6. offset + payload + mask = f.size /\ offset + mask + payload = f.size
    <3> HIDE DEF offset, payload, mask, n, m
    <3> QED BY <1>1, <1>2, <2>1, <2>4, <2>5
  <2>7. taken = [whole |-> TRUE, op |-> Opcode[f.op], len |-> f.len, size |-> f.size]
    <3> HIDE DEF offset, payload, mask, n, m
    <3> QED BY <1>1, <2>3, <2>5, <2>6
  <2>8. ~ (size < 2) /\ ~ (size < offset)
    <3> HIDE DEF offset, n
    <3> QED BY <2>1, <2>4
  <2> HIDE DEF taken, payload, offset, mask
  <2> QED BY <1>4, <2>6, <2>7, <2>8
<1> HIDE DEF n
<1> QED BY <1>5, <1>6

-----------------------------------------------------------------------------
(* The frames between the client and the service.                          *)

LEMMA BuiltFacts ==
    ASSUME NEW f, WellBuilt(f)
    PROVE  /\ Len(f.head) \in 2 .. 10
           /\ f.size \in Nat /\ Len(f.head) <= f.size /\ 2 <= f.size
           /\ f.len \in Nat /\ Opcode[f.op] \in Nat
<1>1. f.len \in Nat
  BY Ints DEF WellBuilt
<1>2. Opcode[f.op] \in Nat
  <2>1. Opcode[f.op] \in 0 .. 15
    BY OpcodesFit DEF WellBuilt
  <2> QED BY <2>1
<1>3. Len(f.head) \in 2 .. 10
  <2>1. LengthBytes(Short(f.len)) \in {0, 2, 8}
    BY DEF LengthBytes
  <2>2. Len(f.head) = 2 + LengthBytes(Short(f.len))
    BY DEF WellBuilt
  <2> QED BY <2>1, <2>2
<1> DEFINE m == IF f.head[2] >= 128 THEN MaskSize ELSE 0
<1>4. m \in Nat
  BY DEF MaskSize
<1>5. f.size = Len(f.head) + m + f.len
  BY DEF WellBuilt
<1> HIDE DEF m
<1>6. f.size \in Nat /\ Len(f.head) <= f.size /\ 2 <= f.size
  <2>1. \A a \in 2 .. 10, b \in Nat, c \in Nat :
            a + b + c \in Nat /\ a <= a + b + c /\ 2 <= a + b + c
    OBVIOUS
  <2> QED BY <1>1, <1>3, <1>4, <1>5, <2>1
<1> QED BY <1>1, <1>2, <1>3, <1>6

\* What a client may send.
Frames == {Frame(op, len, masked) : op \in Ops, len \in Lengths, masked \in BOOLEAN}

LEMMA FramesAreWellBuilt == \A f \in Frames : WellBuilt(f)
<1> SUFFICES ASSUME NEW op \in Ops, NEW len \in Lengths, NEW masked \in BOOLEAN
             PROVE  WellBuilt(Frame(op, len, masked))
  BY DEF Frames
<1>1. op \in DOMAIN Opcode /\ len \in Payload
  BY KnownOps, LengthsFit DEF Payload
<1> QED BY <1>1, FrameIsWellBuilt

LEMMA SentIsSized ==
    ASSUME NEW fs \in Seq(Frames)
    PROVE  /\ Sized(fs) /\ DOMAIN fs = 1 .. Len(fs)
           /\ \A k \in 1 .. Len(fs) : WellBuilt(fs[k]) /\ fs[k].size \in Nat /\ 2 <= fs[k].size
<1>1. Len(fs) \in Nat /\ DOMAIN fs = 1 .. Len(fs)
  BY LenProperties
<1>2. ASSUME NEW k \in 1 .. Len(fs)
      PROVE  WellBuilt(fs[k]) /\ fs[k].size \in Nat /\ 2 <= fs[k].size
  <2>1. fs[k] \in Frames
    BY ElementOfSeq
  <2>2. WellBuilt(fs[k])
    BY <2>1, FramesAreWellBuilt
  <2>3. fs[k].size \in Nat /\ 2 <= fs[k].size
    BY <2>2, BuiltFacts
  <2> QED BY <2>2, <2>3
<1> QED BY <1>1, <1>2 DEF Sized

\* A byte of a header is where the frames before it end.
LEMMA HeadBytes ==
    ASSUME frames \in Seq(Frames), NEW c \in 1 .. Len(frames),
           NEW k \in 1 .. Len(frames[c].head)
    PROVE  ByteAt(Start(c) + k) = frames[c].head[k]
<1> DEFINE N == Len(frames)
           S(j) == Start(j)
           size(j) == frames[j].size
           at0 == S(c) + k
           Has(j) == S(j) < at0 /\ at0 <= S(j) + size(j)
<1>1. N \in Nat /\ DOMAIN frames = 1 .. N /\ Sized(frames)
  BY SentIsSized, LenProperties
<1>2. \A j \in 1 .. N : S(j) \in Nat /\ S(j + 1) = S(j) + size(j) /\ size(j) \in Nat
  <2>1. \A j \in 1 .. N : j \in 1 .. N + 1
    BY <1>1
  <2>2. \A j \in 1 .. N + 1 : S(j) \in Nat
    BY <1>1, BytesAreNatural DEF Start
  <2>3. \A j \in 1 .. N : S(j + 1) = S(j) + size(j)
    BY <1>1, BytesFacts DEF Start
  <2>4. \A j \in 1 .. N : size(j) \in Nat
    BY SentIsSized
  <2> QED BY <2>1, <2>2, <2>3, <2>4
<1>3. \A i \in 1 .. N, j \in 1 .. N : i < j => S(i) + size(i) <= S(j)
  <2> SUFFICES ASSUME NEW i \in 1 .. N, NEW j \in 1 .. N, i < j
               PROVE  S(i + 1) <= S(j)
    BY <1>2
  <2>1. i + 1 \in 1 .. N + 1 /\ j \in 1 .. N + 1 /\ i + 1 <= j
    BY <1>1
  <2> QED BY <1>1, <2>1, BytesGrow DEF Start
<1>4. k \in Nat /\ 1 <= k /\ k <= size(c)
  <2>1. WellBuilt(frames[c])
    BY SentIsSized
  <2>2. Len(frames[c].head) \in 2 .. 10 /\ size(c) \in Nat /\ Len(frames[c].head) <= size(c)
    BY <2>1, BuiltFacts
  <2> HIDE DEF size
  <2> QED BY <2>2
<1> HIDE DEF N, S, size
<1>5. Has(c)
  <2>1. c \in 1 .. N
    BY DEF N
  <2> QED BY <1>2, <1>4, <2>1
<1>6. ASSUME NEW j \in 1 .. N, Has(j) PROVE j = c
  <2>1. c \in 1 .. N
    BY DEF N
  <2>2. ~ (j < c)
    BY <1>2, <1>3, <1>4, <1>6, <2>1
  <2>3. ~ (c < j)
    BY <1>2, <1>3, <1>4, <1>6, <2>1
  <2> QED BY <1>1, <2>1, <2>2, <2>3
<1>7. (CHOOSE j \in DOMAIN frames : Has(j)) = c
  <2>1. c \in DOMAIN frames /\ \A j \in DOMAIN frames : Has(j) => j = c
    BY <1>1, <1>6 DEF N
  <2> HIDE DEF Has
  <2> QED BY <1>5, <2>1
<1>8. (CHOOSE j \in DOMAIN frames : Start(j) < at0 /\ at0 <= Start(j) + frames[j].size) = c
  BY <1>7 DEF S, size
<1>9. at0 - Start(c) = k /\ k <= Len(frames[c].head)
  <2>1. S(c) \in Nat
    BY <1>2 DEF N
  <2>2. Len(frames[c].head) \in 2 .. 10
    BY SentIsSized, BuiltFacts
  <2>3. at0 - S(c) = k
    BY <1>4, <2>1
  <2>4. k <= Len(frames[c].head)
    BY <2>2
  <2> QED BY <2>3, <2>4 DEF S
<1>10. at0 = Start(c) + k
  BY DEF S
<1> HIDE DEF at0
<1>11. ByteAt(at0) = frames[c].head[k]
  BY <1>8, <1>9 DEF ByteAt
<1> QED BY <1>10, <1>11

\* What is given on, and what is still in the buffer.
FramesOK ==
    /\ frames \in Seq(Frames)
    /\ delivered \in Seq(Nat \X Nat)
    /\ Len(delivered) <= Len(frames)
    /\ \A k \in 1 .. Len(delivered) : delivered[k] = <<Opcode[frames[k].op], frames[k].len>>
    /\ fed \in Nat /\ fed <= Sent
    /\ ~closed => base = Start(Len(delivered) + 1) /\ base <= fed
    /\ ~parsing /\ ~closed /\ Len(delivered) < Len(frames) => fed < Start(Len(delivered) + 2)

LEMMA FramesOKInit == Init => FramesOK
<1> SUFFICES ASSUME Init PROVE FramesOK
  OBVIOUS
<1>1. frames = << >> /\ delivered = << >> /\ fed = 0 /\ base = 0
  BY DEF Init
<1>2. << >> \in Seq(Frames) /\ << >> \in Seq(Nat \X Nat) /\ Len(<< >>) = 0
  BY EmptySeq
<1>3. Sized(<< >>)
  BY <1>2 DEF Sized
<1>4. BytesBefore(<< >>, 1) = 0
  BY <1>3, BytesFacts
<1>5. Start(1) = 0 /\ Sent = 0
  BY <1>1, <1>2, <1>4 DEF Start, Sent
<1> QED BY <1>1, <1>2, <1>5 DEF FramesOK

\* What feedRecvData finds at the front of the buffer.
LEMMA TurnFacts ==
    ASSUME FramesOK, ~closed
    PROVE  LET c == Len(delivered) + 1
               frame == TakeFrame(Header, fed - base)
           IN  IF c \in 1 .. Len(frames) /\ Start(c + 1) <= fed
               THEN frame = [whole |-> TRUE, op |-> Opcode[frames[c].op],
                             len |-> frames[c].len, size |-> frames[c].size]
               ELSE frame = More
<1> DEFINE c == Len(delivered) + 1
           f == frames[c]
           size == fed - base
<1>1. /\ frames \in Seq(Frames) /\ fed \in Nat /\ fed <= Sent
      /\ base = Start(c) /\ base <= fed
      /\ Len(delivered) \in Nat /\ Len(frames) \in Nat /\ Len(delivered) <= Len(frames)
  BY LenProperties DEF FramesOK
<1>2. Sized(frames)
  BY <1>1, SentIsSized
<1>3. c \in 1 .. Len(frames) + 1
  BY <1>1
<1>4. base \in Nat /\ size \in Nat
  <2>1. Start(c) \in Nat
    BY <1>2, <1>3, BytesAreNatural DEF Start
  <2> HIDE DEF c
  <2> QED BY <1>1, <2>1
<1>5. CASE c \in 1 .. Len(frames)
  <2>1. WellBuilt(f) /\ f.size \in Nat
    BY <1>1, <1>5, SentIsSized
  <2>2. Len(f.head) \in 2 .. 10
    BY <2>1, BuiltFacts
  <2>3. ASSUME NEW k \in 1 .. Len(f.head), k <= size
        PROVE  Header[k] = f.head[k]
    <3>1. ByteAt(base + k) = f.head[k]
      BY <1>1, <1>5, HeadBytes
    <3>2. k \in 1 .. (IF size < 10 THEN size ELSE 10)
      <4>1. k \in 1 .. 10
        <5>1. \A l \in 2 .. 10 : \A j \in 1 .. l : j \in 1 .. 10
          OBVIOUS
        <5> HIDE DEF f
        <5> QED BY <2>2, <5>1
      <4> HIDE DEF size, f, c
      <4> QED BY <1>4, <2>3, <4>1
    <3>3. Header = [j \in 1 .. (IF size < 10 THEN size ELSE 10) |-> ByteAt(base + j)]
      BY DEF Header
    <3> HIDE DEF size, f, c
    <3> QED BY <3>1, <3>2, <3>3
  <2>4. TakeFrame(Header, size) =
            IF size < f.size THEN More
            ELSE [whole |-> TRUE, op |-> Opcode[f.op], len |-> f.len, size |-> f.size]
    <3> HIDE DEF size, f, c
    <3> QED BY <1>4, <2>1, <2>3, TakeFacts
  <2>5. Start(c + 1) = base + f.size
    BY <1>1, <1>2, <1>5, BytesFacts DEF Start
  <2>6. Start(c + 1) <= fed <=> ~ (size < f.size)
    <3> HIDE DEF f, c
    <3> QED BY <1>1, <1>4, <2>1, <2>5
  <2> HIDE DEF size, f
  <2>7. CASE Start(c + 1) <= fed
    <3>1. TakeFrame(Header, size) = [whole |-> TRUE, op |-> Opcode[f.op], len |-> f.len, size |-> f.size]
      BY <2>4, <2>6, <2>7
    <3> QED BY <1>5, <2>7, <3>1 DEF size, f
  <2>8. CASE ~ (Start(c + 1) <= fed)
    <3>1. TakeFrame(Header, size) = More
      BY <2>4, <2>6, <2>8
    <3> QED BY <2>8, <3>1 DEF size
  <2> QED BY <2>7, <2>8
<1>6. CASE ~ (c \in 1 .. Len(frames))
  <2>1. c = Len(frames) + 1
    BY <1>1, <1>3, <1>6
  <2>2. base = Sent
    BY <1>1, <2>1 DEF Sent
  <2>3. size = 0
    <3> HIDE DEF c
    <3> QED BY <1>1, <1>4, <2>2
  <2>4. TakeFrame(Header, 0) = More
    BY DEF TakeFrame
  <2>5. TakeFrame(Header, fed - base) = More
    BY <2>3, <2>4
  <2> QED BY <1>6, <2>5
<1> QED BY <1>5, <1>6

\* What does not touch the frames, and opens nothing that is closed.
LEMMA FramesOKStays ==
    ASSUME FramesOK, UNCHANGED ws, ~closed' => ~closed
    PROVE  FramesOK'
<1>1. frames' = frames /\ fed' = fed /\ base' = base /\ parsing' = parsing /\ delivered' = delivered
  BY DEF ws
<1>2. Sent' = Sent /\ \A k : Start(k)' = Start(k)
  BY <1>1 DEF Sent, Start
<1>3. Start(Len(delivered) + 1)' = Start(Len(delivered) + 1)
      /\ Start(Len(delivered) + 2)' = Start(Len(delivered) + 2)
  BY <1>1 DEF Start
<1> QED BY <1>1, <1>2, <1>3 DEF FramesOK

LEMMA FramesOKSent == ASSUME FramesOK, ClientFrame PROVE FramesOK'
<1> DEFINE N == Len(frames)
           D == Len(delivered)
<1>1. /\ frames \in Seq(Frames) /\ delivered \in Seq(Nat \X Nat) /\ D \in Nat /\ N \in Nat /\ D <= N
      /\ \A k \in 1 .. D : delivered[k] = <<Opcode[frames[k].op], frames[k].len>>
      /\ fed \in Nat /\ fed <= Sent /\ ~closed
      /\ base = Start(D + 1) /\ base <= fed
      /\ ~parsing /\ D < N => fed < Start(D + 2)
  BY LenProperties DEF FramesOK, ClientFrame
<1>2. UNCHANGED <<closed, fed, base, parsing, delivered>>
  BY DEF ClientFrame
<1>3. PICK f \in Frames : frames' = Append(frames, f)
  BY DEF ClientFrame, Frames
<1>4. /\ frames' \in Seq(Frames) /\ Len(frames') = N + 1
      /\ \A k \in 1 .. N : frames'[k] = frames[k]
      /\ frames'[N + 1] = f
  BY <1>1, <1>3, AppendProperties
<1>5. Sized(frames) /\ Sized(frames') /\ frames'[N + 1].size \in Nat /\ 2 <= frames'[N + 1].size
  <2>1. N + 1 \in 1 .. Len(frames')
    BY <1>1, <1>4
  <2> QED BY <1>1, <1>4, <2>1, SentIsSized
<1>6. \A k \in 1 .. N + 1 : Start(k)' = Start(k) /\ Start(k) \in Nat
  <2>1. \A k \in 1 .. N + 1 : BytesBefore(frames', k) = BytesBefore(frames, k)
    BY <1>4, <1>5, BytesStay
  <2>2. \A k \in 1 .. N + 1 : BytesBefore(frames, k) \in Nat
    BY <1>5, BytesAreNatural
  <2> QED BY <2>1, <2>2 DEF Start
<1>7. BytesBefore(frames', N + 2) = BytesBefore(frames', N + 1) + frames'[N + 1].size
  <2>1. N + 1 \in 1 .. Len(frames') /\ (N + 1) + 1 = N + 2
    BY <1>1, <1>4
  <2> QED BY <1>5, <2>1, BytesFacts
<1>8. Sent' = BytesBefore(frames', N + 2)
  <2>1. Len(frames') + 1 = N + 2
    BY <1>1, <1>4
  <2> QED BY <2>1 DEF Sent, Start
<1>9. N + 1 \in 1 .. N + 1 /\ D + 1 \in 1 .. N + 1 /\ (D < N => D + 2 \in 1 .. N + 1)
  BY <1>1
<1>10. BytesBefore(frames', N + 1) = Sent
  BY <1>6, <1>9 DEF Sent, Start
<1>11. Sent' = Sent + frames'[N + 1].size /\ Sent \in Nat
  BY <1>6, <1>7, <1>8, <1>9, <1>10 DEF Sent
<1>12. BytesBefore(frames', D + 1) = Start(D + 1)
  BY <1>6, <1>9 DEF Start
<1>13. ~parsing => fed < BytesBefore(frames', D + 2)
  <2>1. CASE D < N
    <3>1. BytesBefore(frames', D + 2) = Start(D + 2)
      BY <1>6, <1>9, <2>1 DEF Start
    <3> QED BY <1>1, <2>1, <3>1
  <2>2. CASE D = N
    <3>1. BytesBefore(frames', D + 2) = Sent'
      BY <1>8, <2>2
    <3> HIDE DEF D, N
    <3>2. fed < Sent'
      BY <1>1, <1>5, <1>11
    <3> QED BY <3>1, <3>2
  <2> HIDE DEF D, N
  <2> QED BY <1>1, <2>1, <2>2
<1>14. Start(Len(delivered) + 1)' = BytesBefore(frames', D + 1)
       /\ Start(Len(delivered) + 2)' = BytesBefore(frames', D + 2)
  BY <1>2 DEF Start
<1>15. fed <= Sent'
  <2> HIDE DEF N
  <2> QED BY <1>1, <1>5, <1>11
<1>16. \A k \in 1 .. D : delivered[k] = <<Opcode[frames'[k].op], frames'[k].len>>
  <2>1. \A k \in 1 .. D : k \in 1 .. N
    <3> HIDE DEF D, N
    <3> QED BY <1>1
  <2> QED BY <1>1, <1>4, <2>1
<1>17. D <= Len(frames')
  <2> HIDE DEF D, N
  <2> QED BY <1>1, <1>4
<1> QED BY <1>1, <1>2, <1>4, <1>12, <1>13, <1>14, <1>15, <1>16, <1>17 DEF FramesOK

LEMMA FramesOKRead == ASSUME FramesOK, RecvWs PROVE FramesOK'
<1>1. PICK end \in Ends : fed < end /\ end <= Sent /\ fed' = end
  BY DEF RecvWs
<1>2. UNCHANGED <<closed, frames, base, delivered>> /\ parsing' = TRUE /\ ~closed
  BY DEF RecvWs
<1>3. end \in Int
  <2>1. frames \in Seq(Frames)
    BY DEF FramesOK
  <2>2. PICK k \in DOMAIN frames :
            end \in {Start(k) + d : d \in {1, Len(frames[k].head) - 1, Len(frames[k].head),
                                           Len(frames[k].head) + MaskSize - 1,
                                           frames[k].size - 1, frames[k].size}}
    BY <1>1 DEF Ends
  <2>3. k \in 1 .. Len(frames) /\ Sized(frames)
    BY <2>1, SentIsSized
  <2>4. Start(k) \in Nat
    <3>1. k \in 1 .. Len(frames) + 1
      BY <2>1, <2>3, LenProperties
    <3> QED BY <2>3, <3>1, BytesAreNatural DEF Start
  <2>5. Len(frames[k].head) \in Nat /\ frames[k].size \in Nat
    <3>1. WellBuilt(frames[k])
      BY <2>1, <2>3, SentIsSized
    <3>2. Len(frames[k].head) \in 2 .. 10 /\ frames[k].size \in Nat
      BY <3>1, BuiltFacts
    <3>3. \A l \in 2 .. 10 : l \in Nat
      OBVIOUS
    <3> QED BY <3>2, <3>3
  <2>6. \A d \in {1, Len(frames[k].head) - 1, Len(frames[k].head),
                  Len(frames[k].head) + MaskSize - 1,
                  frames[k].size - 1, frames[k].size} : Start(k) + d \in Int
    BY <2>4, <2>5 DEF MaskSize
  <2> QED BY <2>2, <2>6
<1>4. fed' \in Nat /\ fed' <= Sent /\ (base <= fed => base <= fed')
  <2>1. fed \in Nat
    BY DEF FramesOK
  <2>2. fed' \in Nat
    BY <1>1, <1>3, <2>1
  <2>3. ASSUME base <= fed PROVE base <= fed'
    <3>1. base \in Int
      <4>1. Len(delivered) \in Nat /\ Len(frames) \in Nat /\ Len(delivered) <= Len(frames)
            /\ frames \in Seq(Frames)
        BY LenProperties DEF FramesOK
      <4>2. Len(delivered) + 1 \in 1 .. Len(frames) + 1
        BY <4>1
      <4>3. Start(Len(delivered) + 1) \in Nat
        BY <4>1, <4>2, SentIsSized, BytesAreNatural DEF Start
      <4> QED BY <1>2, <4>3 DEF FramesOK
    <3> QED BY <1>1, <1>3, <2>1, <2>3, <3>1
  <2> QED BY <1>1, <2>2, <2>3
<1>5. Sent' = Sent /\ Start(Len(delivered) + 1)' = Start(Len(delivered) + 1)
      /\ (Len(delivered) + 1)' = Len(delivered) + 1
  BY <1>2 DEF Sent, Start
<1> QED BY <1>2, <1>4, <1>5 DEF FramesOK

LEMMA FramesOKTurn == ASSUME FramesOK, ParseTurn PROVE FramesOK'
<1> DEFINE D == Len(delivered)
           c == D + 1
           frame == TakeFrame(Header, fed - base)
           f == frames[c]
<1>1. /\ frames \in Seq(Frames) /\ delivered \in Seq(Nat \X Nat)
      /\ D \in Nat /\ Len(frames) \in Nat /\ D <= Len(frames)
      /\ \A k \in 1 .. D : delivered[k] = <<Opcode[frames[k].op], frames[k].len>>
      /\ fed \in Nat /\ fed <= Sent /\ ~closed /\ parsing
      /\ base = Start(c) /\ base <= fed
  BY LenProperties DEF FramesOK, ParseTurn
<1>2. Sized(frames) /\ \A k \in 1 .. Len(frames) : WellBuilt(frames[k])
  BY <1>1, SentIsSized
<1>3. IF c \in 1 .. Len(frames) /\ Start(c + 1) <= fed
      THEN frame = [whole |-> TRUE, op |-> Opcode[f.op], len |-> f.len, size |-> f.size]
      ELSE frame = More
  BY <1>1, TurnFacts
<1>4. frames' = frames /\ fed' = fed
  BY DEF ParseTurn
<1>5. \A k : BytesBefore(frames', k) = Start(k)
  BY <1>4 DEF Start
<1>6. Sent' = Sent
  BY <1>4 DEF Sent, Start
<1>7. \/ ~frame.whole /\ parsing' = FALSE /\ UNCHANGED <<closed, base, delivered>>
      \/ /\ frame.whole /\ delivered' = Append(delivered, <<frame.op, frame.len>>)
         /\ \/ base' = base + frame.size /\ parsing' = parsing
            \/ closed' = TRUE
  BY DEF ParseTurn, Close
<1> HIDE DEF frame
<1>8. CASE ~frame.whole /\ parsing' = FALSE /\ UNCHANGED <<closed, base, delivered>>
  <2>1. frame = More
    BY <1>3, <1>8
  <2>2. ASSUME D < Len(frames) PROVE fed < Start(D + 2)
    <3>1. c \in 1 .. Len(frames) /\ c + 1 = D + 2
      BY <1>1, <2>2
    <3>2. ~ (Start(c + 1) <= fed)
      BY <1>3, <1>8, <3>1
    <3>3. Start(c + 1) \in Nat
      <4>1. c + 1 \in 1 .. Len(frames) + 1
        BY <1>1, <2>2
      <4> QED BY <1>2, <4>1, BytesAreNatural DEF Start
    <3> HIDE DEF c, D
    <3> QED BY <1>1, <3>1, <3>2, <3>3
  <2>3. Start(Len(delivered) + 1)' = Start(c) /\ Start(Len(delivered) + 2)' = Start(D + 2)
    BY <1>4, <1>8 DEF Start
  <2> QED BY <1>1, <1>4, <1>6, <1>8, <2>2, <2>3 DEF FramesOK
<1>9. CASE frame.whole /\ delivered' = Append(delivered, <<frame.op, frame.len>>)
           /\ \/ base' = base + frame.size /\ parsing' = parsing
              \/ closed' = TRUE
  <2>1. c \in 1 .. Len(frames) /\ Start(c + 1) <= fed
        /\ frame = [whole |-> TRUE, op |-> Opcode[f.op], len |-> f.len, size |-> f.size]
    <3>1. frame # More
      BY <1>9 DEF More
    <3> QED BY <1>3, <3>1
  <2>2. frame.op = Opcode[f.op] /\ frame.len = f.len /\ frame.size = f.size
    BY <2>1
  <2>3. Opcode[f.op] \in Nat /\ f.len \in Nat /\ f.size \in Nat
    BY <1>2, <2>1, BuiltFacts
  <2>4. delivered' = Append(delivered, <<Opcode[f.op], f.len>>)
    BY <1>9, <2>2
  <2>5. <<Opcode[f.op], f.len>> \in Nat \X Nat
    BY <2>3
  <2>6. /\ delivered' \in Seq(Nat \X Nat) /\ Len(delivered') = D + 1
        /\ \A k \in 1 .. D : delivered'[k] = delivered[k]
        /\ delivered'[D + 1] = <<Opcode[f.op], f.len>>
    BY <1>1, <2>4, <2>5, AppendProperties
  <2>7. Len(delivered') <= Len(frames)
    BY <1>1, <2>1, <2>6
  <2>8. ASSUME NEW k \in 1 .. Len(delivered')
        PROVE  delivered'[k] = <<Opcode[frames[k].op], frames[k].len>>
    <3>1. k \in 1 .. D \/ k = D + 1
      BY <1>1, <2>6
    <3>2. CASE k \in 1 .. D
      BY <1>1, <2>6, <3>2
    <3>3. CASE k = D + 1
      BY <2>6, <3>3
    <3> QED BY <3>1, <3>2, <3>3
  <2>9. ASSUME ~closed'
        PROVE  base' = BytesBefore(frames', Len(delivered') + 1) /\ base' <= fed /\ parsing'
    <3>1. base' = base + f.size /\ parsing' = parsing
      BY <1>9, <2>2, <2>9
    <3>2. Start(c + 1) = Start(c) + f.size
      BY <1>2, <2>1, BytesFacts DEF Start
    <3>3. Len(delivered') + 1 = c + 1
      BY <2>6
    <3>4. base' = Start(c + 1)
      BY <1>1, <3>1, <3>2
    <3> QED BY <1>1, <1>5, <2>1, <3>1, <3>3, <3>4
  <2>10. Start(Len(delivered) + 1)' = BytesBefore(frames', Len(delivered') + 1)
    BY DEF Start
  <2> QED BY <1>1, <1>4, <1>6, <2>6, <2>7, <2>8, <2>9, <2>10 DEF FramesOK
<1> QED BY <1>7, <1>8, <1>9

LEMMA FramesOKNext == FramesOK /\ [Next]_vars => FramesOK'
<1> SUFFICES ASSUME FramesOK, [Next]_vars PROVE FramesOK'
  OBVIOUS
<1>1. CASE RecvHttp
  <2>1. UNCHANGED ws /\ ~closed
    BY <1>1 DEF RecvHttp
  <2> QED BY <2>1, FramesOKStays
<1>2. CASE ClientFrame
  BY <1>2, FramesOKSent
<1>3. CASE RecvWs
  BY <1>3, FramesOKRead
<1>4. CASE ParseTurn
  BY <1>4, FramesOKTurn
<1>5. CASE End
  <2>1. UNCHANGED ws /\ ~closed
    BY <1>5 DEF End
  <2> QED BY <2>1, FramesOKStays
<1>6. CASE UNCHANGED vars
  <2>1. UNCHANGED ws /\ closed' = closed
    BY <1>6 DEF vars
  <2> QED BY <2>1, FramesOKStays
<1> QED BY <1>1, <1>2, <1>3, <1>4, <1>5, <1>6 DEF Next

\* However the reads cut them, and whichever of the two functions has built
\* them, the frames reach onMessage one by one, whole and in order, and
\* between two reads what m_buffer holds is less than a frame
\* (WebSocketParser::feedRecvData against buildFrame and build_ws_frame):
\* for any number of frames, of any length that can be sent.
THEOREM FramesAreWhole == Spec => []FramesArriveWhole
<1>1. FramesOK => FramesArriveWhole
  BY DEF FramesOK, FramesArriveWhole
<1>2. QED
  BY <1>1, FramesOKInit, FramesOKNext, PTL DEF Spec

-----------------------------------------------------------------------------
(* What a client sends.                                                    *)

AnyToken == {"line", "Upg", "rade", "end", "body", "tail"}

LEMMA TokensFacts ==
    ASSUME NEW kind \in Kinds
    PROVE  /\ Tokens(kind) \in Seq(AnyToken) /\ Tokens(kind)[1] = "line"
           /\ kind = "upgrade" =>
                /\ Len(Tokens(kind)) = 4 /\ Tokens(kind)[2] = "Upg"
                /\ Tokens(kind)[3] = "rade" /\ Tokens(kind)[4] = "end"
           /\ kind = "post" =>
                /\ Len(Tokens(kind)) = 4 /\ Tokens(kind)[2] = "end"
                /\ Tokens(kind)[3] = "body" /\ Tokens(kind)[4] = "tail"
           /\ kind \notin {"upgrade", "post"} =>
                Len(Tokens(kind)) = 2 /\ Tokens(kind)[2] = "end"
<1>1. CASE kind = "upgrade"
  BY <1>1 DEF Tokens, AnyToken
<1>2. CASE kind = "post"
  BY <1>2 DEF Tokens, AnyToken
<1>3. CASE kind \notin {"upgrade", "post"}
  <2>1. Tokens(kind) = <<"line", "end">>
    BY <1>3, KnownKinds DEF Tokens
  <2> QED BY <1>3, <2>1 DEF AnyToken
<1> QED BY <1>1, <1>2, <1>3

\* f is the recursive function of FlattenSeq.
Flattens(f, seqs) ==
    f = [r \in 1 .. Len(seqs) |-> IF r = 1 THEN seqs[r] ELSE f[r - 1] \o seqs[r]]

LEMMA FlatExists ==
    ASSUME NEW seqs, Len(seqs) \in Nat
    PROVE  \E f : Flattens(f, seqs)
<1> DEFINE Upto(k) == \E f : \A r \in 1 .. Len(seqs) :
                          r <= k => f[r] = IF r = 1 THEN seqs[r] ELSE f[r - 1] \o seqs[r]
<1>1. Upto(0)
  BY SMT
<1>2. ASSUME NEW k \in Nat, Upto(k) PROVE Upto(k + 1)
  <2>1. PICK f : \A r \in 1 .. Len(seqs) :
                     r <= k => f[r] = IF r = 1 THEN seqs[r] ELSE f[r - 1] \o seqs[r]
    BY <1>2
  <2> DEFINE g == [r \in 1 .. Len(seqs) |-> IF r = 1 THEN seqs[r] ELSE f[r - 1] \o seqs[r]]
  <2>2. \A r \in 1 .. Len(seqs) : g[r] = IF r = 1 THEN seqs[r] ELSE f[r - 1] \o seqs[r]
    OBVIOUS
  <2> HIDE DEF g
  <2>3. ASSUME NEW r \in 1 .. Len(seqs), r <= k + 1
        PROVE  g[r] = IF r = 1 THEN seqs[r] ELSE g[r - 1] \o seqs[r]
    <3>1. CASE r = 1
      BY <2>2, <3>1
    <3>2. CASE r # 1
      <4>1. r - 1 \in 1 .. Len(seqs) /\ r - 1 <= k
        BY <2>3, <3>2
      <4>2. f[r - 1] = g[r - 1]
        BY <2>1, <2>2, <4>1
      <4> QED BY <2>2, <3>2, <4>2
    <3> QED BY <3>1, <3>2
  <2> QED BY <2>3
<1> HIDE DEF Upto
<1>3. Upto(Len(seqs))
  <2> SUFFICES ASSUME ~ Upto(Len(seqs)) PROVE FALSE
    OBVIOUS
  <2> DEFINE S == {k \in Nat : ~ Upto(k)}
  <2>1. PICK k \in S : \A l \in S : k <= l
    BY Least
  <2>2. k \in Nat /\ ~ Upto(k) /\ k # 0
    BY <1>1
  <2>3. k - 1 \in Nat /\ (k - 1) + 1 = k /\ ~ (k <= k - 1)
    BY <2>2
  <2>4. Upto(k - 1)
    BY <2>1, <2>3
  <2> QED BY <1>2, <2>2, <2>3, <2>4
<1>4. PICK f : \A r \in 1 .. Len(seqs) : f[r] = IF r = 1 THEN seqs[r] ELSE f[r - 1] \o seqs[r]
  <2>1. \A r \in 1 .. Len(seqs) : r <= Len(seqs)
    OBVIOUS
  <2> QED BY <1>3, <2>1 DEF Upto
<1> DEFINE g == [r \in 1 .. Len(seqs) |-> f[r]]
<1>5. \A r \in 1 .. Len(seqs) : g[r] = f[r] /\ (r # 1 => g[r - 1] = f[r - 1])
  <2>1. \A r \in 1 .. Len(seqs) : r # 1 => r - 1 \in 1 .. Len(seqs)
    OBVIOUS
  <2> QED BY <2>1
<1>6. \A r \in 1 .. Len(seqs) : g[r] = IF r = 1 THEN seqs[r] ELSE g[r - 1] \o seqs[r]
  <2> HIDE DEF g
  <2> QED BY <1>4, <1>5
<1>7. g = [r \in 1 .. Len(seqs) |-> g[r]]
  OBVIOUS
<1> HIDE DEF g
<1>8. Flattens(g, seqs)
  BY <1>6, <1>7 DEF Flattens
<1> QED BY <1>8

LEMMA FlatFacts ==
    ASSUME NEW seqs, Len(seqs) \in Nat \ {0}
    PROVE  \E f : /\ FlattenSeq(seqs) = f[Len(seqs)] /\ f[1] = seqs[1]
                  /\ \A r \in 1 .. Len(seqs) : r # 1 => f[r] = f[r - 1] \o seqs[r]
<1> DEFINE F == CHOOSE f : Flattens(f, seqs)
<1>1. Flattens(F, seqs)
  BY FlatExists
<1>2. FlattenSeq(seqs) = F[Len(seqs)]
  BY DEF FlattenSeq, Flattens
<1> HIDE DEF F
<1>3. \A r \in 1 .. Len(seqs) : F[r] = IF r = 1 THEN seqs[r] ELSE F[r - 1] \o seqs[r]
  BY <1>1 DEF Flattens
<1>4. 1 \in 1 .. Len(seqs)
  OBVIOUS
<1> QED BY <1>2, <1>3, <1>4

RequestsOK == requests \in Seq(Kinds) /\ requests # << >>

\* The tokens of the first request.
FirstEnd == Len(Tokens(requests[1]))

\* A token of a request, as Wire has it.
Mark == [request : Nat, token : AnyToken]
Marks(r) == [t \in DOMAIN Tokens(requests[r]) |->
                [request |-> r, token |-> Tokens(requests[r])[t]]]

LEMMA RequestFacts ==
    ASSUME RequestsOK
    PROVE  /\ Len(requests) \in Nat \ {0} /\ DOMAIN requests = 1 .. Len(requests)
           /\ \A r \in 1 .. Len(requests) : requests[r] \in Kinds
           /\ requests[1] \in Kinds /\ FirstEnd \in {2, 4}
<1>1. Len(requests) \in Nat \ {0} /\ DOMAIN requests = 1 .. Len(requests)
  BY EmptySeq, LenProperties DEF RequestsOK
<1>2. \A r \in 1 .. Len(requests) : requests[r] \in Kinds
  BY ElementOfSeq DEF RequestsOK
<1>3. requests[1] \in Kinds
  BY <1>1, <1>2
<1>4. FirstEnd \in {2, 4}
  BY <1>3, TokensFacts DEF FirstEnd
<1> QED BY <1>1, <1>2, <1>3, <1>4

LEMMA MarksFacts ==
    ASSUME RequestsOK, NEW r \in 1 .. Len(requests)
    PROVE  /\ Marks(r) \in Seq(Mark) /\ Len(Marks(r)) = Len(Tokens(requests[r]))
           /\ Len(Marks(r)) \in Nat /\ Len(Marks(r)) >= 2
           /\ \A t \in 1 .. Len(Marks(r)) :
                 Marks(r)[t] = [request |-> r, token |-> Tokens(requests[r])[t]]
           /\ Marks(r)[1] = [request |-> r, token |-> "line"]
<1> DEFINE s == Tokens(requests[r])
           n == Len(s)
<1>1. s \in Seq(AnyToken) /\ s[1] = "line" /\ n \in {2, 4}
  BY RequestFacts, TokensFacts
<1>2. DOMAIN s = 1 .. n /\ \A t \in 1 .. n : s[t] \in AnyToken
  BY <1>1, LenProperties, ElementOfSeq
<1>3. Marks(r) = [t \in 1 .. n |-> [request |-> r, token |-> s[t]]]
  BY <1>2 DEF Marks
<1> HIDE DEF s, n
<1>4. r \in Nat /\ n \in Nat /\ n >= 2 /\ 1 \in 1 .. n
  <2>1. Len(requests) \in Nat
    BY RequestFacts
  <2> QED BY <1>1, <2>1
<1>5. \A t \in 1 .. n : [request |-> r, token |-> s[t]] \in Mark
  BY <1>2, <1>4 DEF Mark
<1>6. [t \in 1 .. n |-> [request |-> r, token |-> s[t]]] \in Seq(Mark)
  BY <1>4, <1>5, IsASeq
<1>7. Marks(r) \in Seq(Mark) /\ DOMAIN Marks(r) = 1 .. n
  BY <1>3, <1>6
<1>8. Len(Marks(r)) = n
  BY <1>4, <1>7, LenProperties
<1>9. \A t \in 1 .. n : Marks(r)[t] = [request |-> r, token |-> s[t]]
  BY <1>3
<1>10. Marks(r)[1] = [request |-> r, token |-> "line"]
  BY <1>1, <1>4, <1>9
<1> QED BY <1>4, <1>7, <1>8, <1>9, <1>10 DEF s, n

\* What follows the first request starts with the line of the second.
StartsWithFirst(w) ==
    /\ w \in Seq(Mark) /\ FirstEnd <= Len(w)
    /\ \A k \in 1 .. FirstEnd : w[k] = [request |-> 1, token |-> Tokens(requests[1])[k]]
    /\ Len(w) > FirstEnd => w[FirstEnd + 1] = [request |-> 2, token |-> "line"]

LEMMA WireFacts == ASSUME RequestsOK PROVE StartsWithFirst(Wire)
<1> DEFINE seqs == [r \in DOMAIN requests |-> Marks(r)]
           N == Len(requests)
<1>1. N \in Nat \ {0} /\ DOMAIN requests = 1 .. N /\ 1 \in 1 .. N /\ FirstEnd \in {2, 4}
  BY RequestFacts
<1>2. Wire = FlattenSeq(seqs)
  BY DEF Wire, Marks
<1>3. Len(seqs) = N /\ \A r \in 1 .. N : seqs[r] = Marks(r)
  <2>1. \A r \in 1 .. N : Marks(r) \in Seq(Mark)
    BY MarksFacts
  <2>2. [r \in 1 .. N |-> Marks(r)] \in Seq(Seq(Mark))
    <3> HIDE DEF N
    <3> QED BY <1>1, <2>1, IsASeq
  <2>3. seqs = [r \in 1 .. N |-> Marks(r)]
    BY <1>1
  <2> HIDE DEF seqs, N
  <2>4. DOMAIN seqs = 1 .. N
    BY <2>3
  <2>5. Len(seqs) = N
    BY <1>1, <2>2, <2>3, <2>4, LenProperties
  <2> QED BY <2>3, <2>5
<1> HIDE DEF seqs
<1>p. PICK f : /\ FlattenSeq(seqs) = f[Len(seqs)] /\ f[1] = seqs[1]
               /\ \A r \in 1 .. Len(seqs) : r # 1 => f[r] = f[r - 1] \o seqs[r]
  BY <1>1, <1>3, FlatFacts
<1>4. /\ Wire = f[N] /\ f[1] = Marks(1)
      /\ \A r \in 1 .. N : r # 1 => f[r] = f[r - 1] \o Marks(r)
  BY <1>1, <1>2, <1>3, <1>p
<1> HIDE DEF N
<1>5. StartsWithFirst(f[1]) /\ Len(f[1]) = FirstEnd
  <2>1. /\ Marks(1) \in Seq(Mark) /\ Len(Marks(1)) = FirstEnd
        /\ \A t \in 1 .. FirstEnd :
              Marks(1)[t] = [request |-> 1, token |-> Tokens(requests[1])[t]]
    BY <1>1, MarksFacts DEF FirstEnd, N
  <2> QED BY <1>1, <1>4, <2>1 DEF StartsWithFirst
<1>6. ASSUME NEW r \in 1 .. N, r # 1, StartsWithFirst(f[r - 1]),
             r = 2 => Len(f[r - 1]) = FirstEnd, r # 2 => Len(f[r - 1]) > FirstEnd
      PROVE  StartsWithFirst(f[r]) /\ Len(f[r]) > FirstEnd
  <2> DEFINE v == f[r - 1]
             m == Marks(r)
  <2>1. /\ v \in Seq(Mark) /\ Len(v) \in Nat /\ FirstEnd <= Len(v)
        /\ \A k \in 1 .. FirstEnd : v[k] = [request |-> 1, token |-> Tokens(requests[1])[k]]
        /\ Len(v) > FirstEnd => v[FirstEnd + 1] = [request |-> 2, token |-> "line"]
    BY <1>6, LenProperties DEF StartsWithFirst
  <2>2. /\ m \in Seq(Mark) /\ Len(m) \in Nat /\ Len(m) >= 2
        /\ m[1] = [request |-> r, token |-> "line"]
    BY MarksFacts DEF N
  <2>3. f[r] = v \o m
    BY <1>4, <1>6
  <2>4. r = 2 => Len(v) = FirstEnd
    BY <1>6
  <2> HIDE DEF v, m
  <2>5. /\ f[r] \in Seq(Mark) /\ Len(f[r]) = Len(v) + Len(m)
        /\ \A k \in 1 .. Len(v) + Len(m) :
              /\ k <= Len(v) => f[r][k] = v[k]
              /\ ~(k <= Len(v)) => f[r][k] = m[k - Len(v)]
    BY <2>1, <2>2, <2>3, ConcatProperties
  <2>6. Len(f[r]) > FirstEnd
    BY <1>1, <2>1, <2>2, <2>5
  <2>7. ASSUME NEW k \in 1 .. FirstEnd
        PROVE  f[r][k] = [request |-> 1, token |-> Tokens(requests[1])[k]]
    <3>1. k \in 1 .. Len(v) + Len(m) /\ k <= Len(v)
      BY <1>1, <2>1, <2>2
    <3> QED BY <2>1, <2>5, <3>1
  <2>8. f[r][FirstEnd + 1] = [request |-> 2, token |-> "line"]
    <3>1. FirstEnd + 1 \in 1 .. Len(v) + Len(m)
      BY <1>1, <2>1, <2>2
    <3>2. CASE Len(v) > FirstEnd
      <4>1. FirstEnd + 1 <= Len(v)
        BY <1>1, <2>1, <3>2
      <4> QED BY <2>1, <2>5, <3>1, <3>2, <4>1
    <3>3. CASE ~(Len(v) > FirstEnd)
      <4>1. r = 2
        BY <1>6, <3>3 DEF v
      <4>2. ~(FirstEnd + 1 <= Len(v)) /\ FirstEnd + 1 - Len(v) = 1
        BY <1>1, <2>4, <4>1
      <4>3. f[r][FirstEnd + 1] = m[FirstEnd + 1 - Len(v)]
        BY <1>1, <2>1, <2>2, <2>5, <3>1, <4>2
      <4>4. m[1] = [request |-> 2, token |-> "line"]
        BY <2>2, <4>1
      <4> QED BY <4>2, <4>3, <4>4
    <3> QED BY <3>2, <3>3
  <2> QED BY <1>1, <2>5, <2>6, <2>7, <2>8 DEF StartsWithFirst
<1> DEFINE Good(r) == StartsWithFirst(f[r]) /\ (IF r = 1 THEN Len(f[r]) = FirstEnd
                                                ELSE Len(f[r]) > FirstEnd)
           Bad == {r \in 1 .. N : ~ Good(r)}
<1>7. \A r \in 1 .. N : r # 1 /\ Good(r - 1) => Good(r)
  BY <1>1, <1>6
<1>8. Good(1)
  BY <1>5
<1> HIDE DEF Good
<1>9. Bad = {}
  <2> SUFFICES ASSUME Bad # {} PROVE FALSE
    OBVIOUS
  <2>1. Bad \in SUBSET Nat
    BY <1>1
  <2>2. PICK r \in Bad : \A q \in Bad : r <= q
    BY <2>1, Least
  <2>3. r \in 1 .. N /\ ~Good(r) /\ r # 1
    BY <1>8, <2>2
  <2>4. r - 1 \in 1 .. N /\ ~(r <= r - 1)
    BY <1>1, <2>3
  <2>5. Good(r - 1)
    BY <2>2, <2>4
  <2> QED BY <1>7, <2>3, <2>5
<1>10. Good(N)
  <2>1. N \in 1 .. N
    BY <1>1
  <2> QED BY <1>9, <2>1
<1> QED BY <1>4, <1>10 DEF Good

LEMMA FirstArrives == ASSUME RequestsOK PROVE Arrived(1) <=> at >= FirstEnd
<1> DEFINE seqs == [k \in 1 .. 1 |-> Tokens(requests[k])]
<1>1. Tokens(requests[1]) \in Seq(AnyToken)
  BY RequestFacts, TokensFacts
<1>2. seqs[1] = Tokens(requests[1]) /\ DOMAIN seqs = 1 .. 1
  OBVIOUS
<1>3. seqs \in Seq(Seq(AnyToken))
  <2>1. \A k \in 1 .. 1 : Tokens(requests[k]) \in Seq(AnyToken)
    BY <1>1
  <2> QED BY <2>1, IsASeq
<1> HIDE DEF seqs
<1>4. Len(seqs) = 1
  BY <1>2, <1>3, LenProperties
<1>5. FlattenSeq(seqs) = seqs[1]
  <2>1. Len(seqs) \in Nat \ {0}
    BY <1>4
  <2>2. PICK f : FlattenSeq(seqs) = f[Len(seqs)] /\ f[1] = seqs[1]
    BY <2>1, FlatFacts
  <2> QED BY <1>4, <2>2
<1>6. Arrived(1) <=> at >= Len(FlattenSeq(seqs))
  BY DEF Arrived, seqs
<1> QED BY <1>2, <1>5, <1>6 DEF FirstEnd

-----------------------------------------------------------------------------
(* What HttpParser makes of a read.                                        *)

\* f is the recursive function of HttpParser_feedRecvData.
Feeds(f, p, tokens) ==
    f = [k \in 0 .. Len(tokens) |-> IF k = 0 THEN StartOfRead(p) ELSE Token(f[k - 1], tokens[k])]

LEMMA FeedExists ==
    ASSUME NEW p, NEW tokens, Len(tokens) \in Nat
    PROVE  \E f : Feeds(f, p, tokens)
<1> DEFINE Step(f, k) == IF k = 0 THEN StartOfRead(p) ELSE Token(f[k - 1], tokens[k])
           Upto(k) == \E f : \A j \in 0 .. Len(tokens) : j <= k => f[j] = Step(f, j)
<1>0. \A f, g : \A j \in 0 .. Len(tokens) :
          (j # 0 => f[j - 1] = g[j - 1]) => Step(f, j) = Step(g, j)
  OBVIOUS
<1>1. Upto(0)
  <2> DEFINE f == [j \in {0} |-> StartOfRead(p)]
  <2>1. \A j \in 0 .. Len(tokens) : j <= 0 => j = 0
    OBVIOUS
  <2>2. \A j \in 0 .. Len(tokens) : j <= 0 => f[j] = Step(f, j)
    BY <2>1
  <2> QED BY <2>2
<1>2. ASSUME NEW k \in Nat, Upto(k) PROVE Upto(k + 1)
  <2>1. PICK f : \A j \in 0 .. Len(tokens) : j <= k => f[j] = Step(f, j)
    BY <1>2
  <2> HIDE DEF Step
  <2> DEFINE g == [j \in 0 .. Len(tokens) |-> Step(f, j)]
  <2>2. \A j \in 0 .. Len(tokens) : g[j] = Step(f, j)
    OBVIOUS
  <2> HIDE DEF g
  <2>3. ASSUME NEW j \in 0 .. Len(tokens), j <= k + 1
        PROVE  g[j] = Step(g, j)
    <3>1. j # 0 => f[j - 1] = g[j - 1]
      <4> SUFFICES ASSUME j # 0 PROVE f[j - 1] = g[j - 1]
        OBVIOUS
      <4>1. j - 1 \in 0 .. Len(tokens) /\ j - 1 <= k
        BY <2>3
      <4> QED BY <2>1, <2>2, <4>1
    <3>2. Step(f, j) = Step(g, j)
      BY <1>0, <3>1
    <3> QED BY <2>2, <3>2
  <2> QED BY <2>3
<1> HIDE DEF Upto
<1>3. Upto(Len(tokens))
  <2> SUFFICES ASSUME ~ Upto(Len(tokens)) PROVE FALSE
    OBVIOUS
  <2> DEFINE S == {k \in Nat : ~ Upto(k)}
  <2>1. PICK k \in S : \A l \in S : k <= l
    BY Least
  <2>2. k \in Nat /\ ~ Upto(k) /\ k # 0
    BY <1>1
  <2>3. k - 1 \in Nat /\ (k - 1) + 1 = k /\ ~ (k <= k - 1)
    BY <2>2
  <2>4. Upto(k - 1)
    BY <2>1, <2>3
  <2> QED BY <1>2, <2>2, <2>3, <2>4
<1>4. PICK f : \A j \in 0 .. Len(tokens) : f[j] = Step(f, j)
  <2>1. \A j \in 0 .. Len(tokens) : j <= Len(tokens)
    OBVIOUS
  <2> QED BY <1>3, <2>1 DEF Upto
<1> HIDE DEF Step
<1> DEFINE g == [j \in 0 .. Len(tokens) |-> f[j]]
<1>5. \A j \in 0 .. Len(tokens) : g[j] = f[j] /\ (j # 0 => f[j - 1] = g[j - 1])
  <2>1. \A j \in 0 .. Len(tokens) : j # 0 => j - 1 \in 0 .. Len(tokens)
    OBVIOUS
  <2> QED BY <2>1
<1>7. g = [j \in 0 .. Len(tokens) |-> g[j]]
  OBVIOUS
<1> HIDE DEF g
<1>6. \A j \in 0 .. Len(tokens) : g[j] = Step(g, j)
  BY <1>0, <1>4, <1>5
<1>8. g = [j \in 0 .. Len(tokens) |-> Step(g, j)]
  BY <1>6, <1>7
<1> QED BY <1>8 DEF Feeds, Step

LEMMA FeedFacts ==
    ASSUME NEW p, NEW tokens, Len(tokens) \in Nat
    PROVE  \E f : /\ HttpParser_feedRecvData(p, tokens) = f[Len(tokens)]
                  /\ f[0] = StartOfRead(p)
                  /\ \A k \in 1 .. Len(tokens) : f[k] = Token(f[k - 1], tokens[k])
<1> DEFINE F == CHOOSE f : Feeds(f, p, tokens)
<1>1. Feeds(F, p, tokens)
  BY FeedExists
<1>2. HttpParser_feedRecvData(p, tokens) = F[Len(tokens)]
  BY DEF HttpParser_feedRecvData, Feeds
<1> HIDE DEF F
<1>3. \A k \in 0 .. Len(tokens) :
          F[k] = IF k = 0 THEN StartOfRead(p) ELSE Token(F[k - 1], tokens[k])
  BY <1>1 DEF Feeds
<1>4. 0 \in 0 .. Len(tokens) /\ \A k \in 1 .. Len(tokens) : k \in 0 .. Len(tokens) /\ k # 0
  OBVIOUS
<1>5. F[0] = StartOfRead(p)
  BY <1>3, <1>4
<1>6. \A k \in 1 .. Len(tokens) : F[k] = Token(F[k - 1], tokens[k])
  BY <1>3, <1>4
<1> QED BY <1>2, <1>5, <1>6

ParserRecord ==
    [state : {"start", "url", "field", "complete", "body"}, urls : Nat, method : BOOLEAN,
     field : {"none", "Upg", "rade", "Upgrade"}, upgrade : BOOLEAN, request : Nat,
     halt : {"no", "upgrade", "error"}, short : BOOLEAN, dead : BOOLEAN]

\* Every request adds a url.
Urls(p) == p \in ParserRecord /\ p.urls = p.request

LEMMA LineFacts ==
    ASSUME NEW p, Urls(p)
    PROVE  /\ Urls(OnLine(p))
           /\ p.dead => /\ OnLine(p).urls = p.urls
                        /\ OnLine(p).short /\ OnLine(p).halt # "no"
           /\ ~p.dead => /\ OnLine(p).urls = p.urls + 1
                         /\ OnLine(p).state = "url" /\ OnLine(p).field = "none"
                         /\ OnLine(p).method = p.method /\ OnLine(p).upgrade = p.upgrade
                         /\ OnLine(p).halt = p.halt /\ OnLine(p).short = p.short
                         /\ OnLine(p).dead = p.dead
<1> DEFINE q == OnLine(p)
<1>1. p \in ParserRecord /\ p.urls \in Nat /\ p.request \in Nat /\ p.urls = p.request
  BY DEF Urls, ParserRecord
<1>2. CASE p.dead
  <2>1. q = [p EXCEPT !.halt = "error", !.short = TRUE]
    BY <1>2 DEF OnLine
  <2> HIDE DEF q
  <2>2. q \in ParserRecord /\ q.urls = p.urls /\ q.request = p.request /\ q.short /\ q.halt # "no"
    BY <1>1, <2>1 DEF ParserRecord
  <2> QED BY <1>1, <1>2, <2>2 DEF Urls, q
<1>3. CASE ~p.dead
  <2>1. q = [p EXCEPT !.state = "url", !.urls = p.urls + 1, !.request = p.request + 1,
                      !.field = "none"]
    BY <1>3 DEF OnLine
  <2>2. p.urls + 1 \in Nat /\ p.request + 1 \in Nat
    BY <1>1
  <2> HIDE DEF q
  <2>3. q \in ParserRecord
    BY <1>1, <2>1, <2>2 DEF ParserRecord
  <2>4. /\ q.urls = p.urls + 1 /\ q.request = p.request + 1 /\ q.state = "url"
        /\ q.field = "none" /\ q.method = p.method /\ q.upgrade = p.upgrade
        /\ q.halt = p.halt /\ q.short = p.short /\ q.dead = p.dead
    BY <1>1, <2>1 DEF ParserRecord
  <2> QED BY <1>1, <1>3, <2>3, <2>4 DEF Urls, q
<1> QED BY <1>2, <1>3

LEMMA FieldFacts ==
    ASSUME NEW p, Urls(p), NEW part \in {"Upg", "rade"}
    PROVE  LET q == OnField(p, part)
           IN  /\ Urls(q) /\ q.urls = p.urls /\ q.state = "field"
               /\ q.method = p.method /\ q.upgrade = p.upgrade
               /\ q.halt = p.halt /\ q.short = p.short /\ q.dead = p.dead
BY DEF Urls, ParserRecord, OnField

LEMMA CompleteFacts ==
    ASSUME NEW p, Urls(p)
    PROVE  LET q == OnMessageComplete(p)
           IN  /\ Urls(q) /\ q.urls = p.urls /\ q.state = "complete" /\ q.method
               /\ q.upgrade = p.upgrade /\ q.short = p.short
BY DEF Urls, ParserRecord, OnMessageComplete

LEMMA EndFacts ==
    ASSUME NEW p, Urls(p)
    PROVE  LET q == OnHeadersComplete(p)
           IN  /\ Urls(q) /\ q.urls = p.urls /\ q.state = "complete"
               /\ q.upgrade = (p.field = "Upgrade") /\ q.short = p.short
               /\ Kind(p) = "post" => /\ q.method = p.method /\ q.halt = p.halt
                                      /\ q.dead = p.dead /\ q.field = p.field
               /\ Kind(p) # "post" => q.method
<1> DEFINE q == [p EXCEPT !.state = "complete", !.upgrade = p.field = "Upgrade"]
<1>1. /\ Urls(q) /\ q.urls = p.urls /\ q.state = "complete"
      /\ q.upgrade = (p.field = "Upgrade") /\ q.short = p.short
      /\ q.method = p.method /\ q.halt = p.halt /\ q.dead = p.dead /\ q.field = p.field
  BY DEF Urls, ParserRecord
<1>2. OnHeadersComplete(p) = IF Kind(p) = "post" THEN q ELSE OnMessageComplete(q)
  BY DEF OnHeadersComplete
<1> HIDE DEF q
<1>3. CASE Kind(p) = "post"
  BY <1>1, <1>2, <1>3
<1>4. CASE Kind(p) # "post"
  BY <1>1, <1>2, <1>4, CompleteFacts
<1> QED BY <1>3, <1>4

LEMMA BodyFacts ==
    ASSUME NEW p, Urls(p)
    PROVE  LET q == [p EXCEPT !.state = "body"]
           IN  /\ Urls(q) /\ q.urls = p.urls /\ q.state = "body"
               /\ q.method = p.method /\ q.halt = p.halt /\ q.short = p.short
               /\ q.dead = p.dead /\ q.upgrade = p.upgrade /\ q.field = p.field
BY DEF Urls, ParserRecord

\* No token is taken after a halt.
LEMMA HaltFacts ==
    ASSUME NEW p, Urls(p), NEW t, p.halt # "no"
    PROVE  /\ Urls(Token(p, t)) /\ Token(p, t).urls = p.urls
           /\ Token(p, t).short /\ Token(p, t).halt # "no"
<1>1. Token(p, t) = [p EXCEPT !.short = TRUE]
  BY DEF Token
<1> QED BY <1>1 DEF Urls, ParserRecord

LEMMA TokenIs ==
    ASSUME NEW p, NEW t \in Mark, p.halt = "no"
    PROVE  /\ t.token = "line" => Token(p, t) = OnLine(p)
           /\ t.token \in {"Upg", "rade"} => Token(p, t) = OnField(p, t.token)
           /\ t.token = "end" => Token(p, t) = OnHeadersComplete(p)
           /\ t.token = "body" => Token(p, t) = [p EXCEPT !.state = "body"]
           /\ t.token = "tail" => Token(p, t) = OnMessageComplete([p EXCEPT !.state = "body"])
           /\ t.token \in {"line", "Upg", "rade", "end", "body", "tail"}
<1>1. t.token \in {"line", "Upg", "rade", "end", "body", "tail"}
  BY DEF Mark, AnyToken
<1> QED BY <1>1 DEF Token

\* The parser of a connection of which a tokens are read.
ParserAt(p, a) ==
    /\ Urls(p)
    /\ a < FirstEnd =>
        /\ p.urls = IF a = 0 THEN 0 ELSE 1
        /\ ~p.method /\ ~p.dead /\ p.halt = "no" /\ ~p.short
        /\ p.state = "complete" => requests[1] = "post" /\ a = 2
        /\ requests[1] # "upgrade" => p.field = "none"
    /\ a <= FirstEnd /\ requests[1] # "upgrade" => ~p.upgrade
    /\ a = FirstEnd => p.urls = 1 /\ p.method /\ p.state = "complete" /\ ~p.short
    /\ a > FirstEnd => p.urls >= 2 \/ (p.short /\ p.halt # "no")

LEMMA TokenInFirst ==
    ASSUME RequestsOK, NEW p, NEW a \in Nat, NEW t \in Mark, a < FirstEnd,
           ParserAt(p, a), t.token = Tokens(requests[1])[a + 1]
    PROVE  ParserAt(Token(p, t), a + 1)
<1> DEFINE kind == requests[1]
           q == Token(p, t)
<1>1. /\ Urls(p) /\ p.urls = (IF a = 0 THEN 0 ELSE 1) /\ p.urls = p.request
      /\ ~p.method /\ ~p.dead /\ p.halt = "no" /\ ~p.short
      /\ kind # "upgrade" => p.field = "none" /\ ~p.upgrade
  BY RequestFacts DEF ParserAt, Urls
<1>2. /\ kind \in Kinds /\ FirstEnd = Len(Tokens(kind))
      /\ Tokens(kind)[1] = "line"
      /\ kind = "upgrade" => /\ FirstEnd = 4 /\ Tokens(kind)[2] = "Upg"
                             /\ Tokens(kind)[3] = "rade" /\ Tokens(kind)[4] = "end"
      /\ kind = "post" => /\ FirstEnd = 4 /\ Tokens(kind)[2] = "end"
                          /\ Tokens(kind)[3] = "body" /\ Tokens(kind)[4] = "tail"
      /\ kind \notin {"upgrade", "post"} => FirstEnd = 2 /\ Tokens(kind)[2] = "end"
  BY RequestFacts, TokensFacts DEF FirstEnd
<1>3. a # 0 => Kind(p) = kind
  BY <1>1 DEF Kind
<1>4. t.token = Tokens(kind)[a + 1]
  OBVIOUS
<1> HIDE DEF kind, q
<1>5. CASE a = 0
  <2>1. t.token = "line"
    BY <1>2, <1>4, <1>5
  <2>2. q = OnLine(p)
    BY <1>1, <2>1, TokenIs DEF q
  <2>3. /\ Urls(q) /\ q.urls = 1 /\ q.state = "url" /\ q.field = "none"
        /\ ~q.method /\ q.upgrade = p.upgrade /\ q.halt = "no" /\ ~q.short /\ ~q.dead
    BY <1>1, <1>5, <2>2, LineFacts
  <2>4. FirstEnd >= 2 /\ a + 1 = 1
    BY <1>2, <1>5
  <2> QED BY <1>1, <1>2, <2>3, <2>4 DEF ParserAt, kind, q
<1>6. CASE a # 0 /\ t.token \in {"Upg", "rade"}
  <2>1. kind = "upgrade" /\ FirstEnd = 4 /\ a + 1 \in {2, 3}
    BY <1>2, <1>4, <1>6
  <2>2. q = OnField(p, t.token)
    BY <1>1, <1>6, TokenIs DEF q
  <2>3. /\ Urls(q) /\ q.urls = 1 /\ q.state = "field"
        /\ ~q.method /\ q.halt = "no" /\ ~q.short /\ ~q.dead
    BY <1>1, <1>6, <2>2, FieldFacts
  <2> QED BY <2>1, <2>3 DEF ParserAt, kind, q
<1>7. CASE a # 0 /\ t.token = "end"
  <2>1. q = OnHeadersComplete(p)
    BY <1>1, <1>7, TokenIs DEF q
  <2>2. /\ Urls(q) /\ q.urls = 1 /\ q.state = "complete"
        /\ q.upgrade = (p.field = "Upgrade") /\ ~q.short
        /\ kind = "post" => /\ ~q.method /\ q.halt = "no" /\ ~q.dead /\ q.field = p.field
        /\ kind # "post" => q.method
    BY <1>1, <1>3, <1>7, <2>1, EndFacts
  <2>3. kind # "upgrade" => ~q.upgrade
    BY <1>1, <2>2
  <2>4. CASE kind = "post"
    <3>a. FirstEnd = 4 /\ Tokens(kind)[3] = "body" /\ Tokens(kind)[4] = "tail"
      BY <1>2, <2>4
    <3>b. a \in {1, 2, 3}
      BY <1>7, <3>a
    <3>c. a = 2 => Tokens(kind)[a + 1] = "body"
      BY <3>a
    <3>d. a = 3 => Tokens(kind)[a + 1] = "tail"
      BY <3>a
    <3>e. a = 1
      BY <1>4, <1>7, <3>b, <3>c, <3>d
    <3>1. a + 1 = 2 /\ FirstEnd = 4
      BY <3>a, <3>e
    <3>2. q.field = "none"
      BY <1>1, <2>2, <2>4
    <3> QED BY <2>2, <2>3, <2>4, <3>1, <3>2 DEF ParserAt, kind, q
  <2>5. CASE kind # "post"
    <3>1. a + 1 = FirstEnd /\ FirstEnd \in Nat
      <4>a. CASE kind = "upgrade"
        <5>1. FirstEnd = 4 /\ Tokens(kind)[2] = "Upg" /\ Tokens(kind)[3] = "rade"
          BY <1>2, <4>a
        <5>2. a \in {1, 2, 3}
          BY <1>7, <5>1
        <5>3. a = 1 => Tokens(kind)[a + 1] = "Upg"
          BY <5>1
        <5>4. a = 2 => Tokens(kind)[a + 1] = "rade"
          BY <5>1
        <5>5. a = 3
          BY <1>4, <1>7, <5>2, <5>3, <5>4
        <5> QED BY <5>1, <5>5
      <4>b. CASE kind # "upgrade"
        <5>1. FirstEnd = 2
          BY <1>2, <2>5, <4>b
        <5> QED BY <1>7, <5>1
      <4> QED BY <4>a, <4>b
    <3> QED BY <2>2, <2>3, <2>5, <3>1 DEF ParserAt, kind, q
  <2> QED BY <2>4, <2>5
<1>8. CASE a # 0 /\ t.token \in {"body", "tail"}
  <2> DEFINE b == [p EXCEPT !.state = "body"]
  <2>1. kind = "post" /\ FirstEnd = 4 /\ (a + 1 = IF t.token = "body" THEN 3 ELSE 4)
    BY <1>2, <1>4, <1>8
  <2>2. /\ Urls(b) /\ b.urls = 1 /\ b.state = "body" /\ ~b.method /\ b.halt = "no"
        /\ ~b.short /\ ~b.dead /\ ~b.upgrade /\ b.field = "none"
    BY <1>1, <1>8, <2>1, BodyFacts
  <2>3. q = IF t.token = "body" THEN b ELSE OnMessageComplete(b)
    BY <1>1, <1>8, TokenIs DEF q
  <2> HIDE DEF b
  <2>4. CASE t.token = "body"
    <3>1. q = b /\ a + 1 = 3
      BY <2>1, <2>3, <2>4
    <3> QED BY <2>1, <2>2, <3>1 DEF ParserAt, kind, q
  <2>5. CASE t.token = "tail"
    <3>1. q = OnMessageComplete(b) /\ a + 1 = 4
      BY <2>1, <2>3, <2>5
    <3>2. Urls(q) /\ q.urls = 1 /\ q.state = "complete" /\ q.method /\ ~q.upgrade /\ ~q.short
      BY <2>2, <3>1, CompleteFacts
    <3> QED BY <2>1, <3>1, <3>2 DEF ParserAt, kind, q
  <2> QED BY <1>8, <2>4, <2>5
<1>9. a # 0 => t.token # "line"
  BY <1>2, <1>4
<1> QED BY <1>1, <1>5, <1>6, <1>7, <1>8, <1>9, TokenIs DEF q

\* The last token that concerns the first request, and those behind it.
LEMMA TokenBehindFirst ==
    ASSUME RequestsOK, NEW p, NEW a \in Nat, NEW t \in Mark, a >= FirstEnd,
           ParserAt(p, a), a = FirstEnd => t.token = "line"
    PROVE  ParserAt(Token(p, t), a + 1)
<1> DEFINE q == Token(p, t)
<1>1. /\ Urls(p) /\ p.urls \in Nat
      /\ a = FirstEnd => p.urls = 1
      /\ a > FirstEnd => p.urls >= 2 \/ (p.short /\ p.halt # "no")
  BY DEF ParserAt, Urls, ParserRecord
<1>2. FirstEnd \in {2, 4}
  BY RequestFacts
<1>3. SUFFICES Urls(q) /\ (q.urls >= 2 \/ (q.short /\ q.halt # "no"))
  <2>1. ~(a + 1 < FirstEnd) /\ ~(a + 1 <= FirstEnd) /\ a + 1 # FirstEnd
    BY <1>2
  <2> QED BY <1>3, <2>1 DEF ParserAt
<1> HIDE DEF q
<1>4. CASE p.halt # "no"
  BY <1>1, <1>4, HaltFacts DEF q
<1>5. CASE p.halt = "no" /\ t.token = "line"
  <2>1. q = OnLine(p)
    BY <1>5, TokenIs DEF q
  <2>2. Urls(q) /\ (p.dead => q.short /\ q.halt # "no") /\ (~p.dead => q.urls = p.urls + 1)
    BY <1>1, <2>1, LineFacts
  <2>3. p.urls >= 1
    <3>1. CASE a = FirstEnd
      BY <1>1, <3>1
    <3>2. CASE a > FirstEnd
      BY <1>1, <1>5, <3>2
    <3> QED BY <1>2, <3>1, <3>2
  <2> QED BY <1>1, <2>2, <2>3
<1>6. CASE p.halt = "no" /\ t.token # "line"
  <2>1. a > FirstEnd
    BY <1>2, <1>6
  <2>2. p.urls >= 2
    BY <1>1, <1>6, <2>1
  <2>3. Urls(q) /\ q.urls = p.urls
    <3> DEFINE b == [p EXCEPT !.state = "body"]
    <3>1. Urls(b) /\ b.urls = p.urls
      BY <1>1, BodyFacts
    <3> HIDE DEF b
    <3>2. CASE t.token \in {"Upg", "rade"}
      <4>1. q = OnField(p, t.token)
        BY <1>6, <3>2, TokenIs DEF q
      <4> QED BY <1>1, <3>2, <4>1, FieldFacts
    <3>3. CASE t.token = "end"
      <4>1. q = OnHeadersComplete(p)
        BY <1>6, <3>3, TokenIs DEF q
      <4> QED BY <1>1, <4>1, EndFacts
    <3>4. CASE t.token = "body"
      BY <1>6, <3>1, <3>4, TokenIs DEF q, b
    <3>5. CASE t.token = "tail"
      <4>1. q = OnMessageComplete(b)
        BY <1>6, <3>5, TokenIs DEF q, b
      <4> QED BY <3>1, <4>1, CompleteFacts
    <3> QED BY <1>6, <3>2, <3>3, <3>4, <3>5, TokenIs
  <2> QED BY <2>2, <2>3
<1> QED BY <1>4, <1>5, <1>6

LEMMA ReadStarts ==
    ASSUME RequestsOK, NEW p, NEW a \in Nat, ParserAt(p, a), ~p.short
    PROVE  ParserAt(StartOfRead(p), a)
<1> DEFINE q == StartOfRead(p)
<1>1. /\ Urls(q) /\ q.urls = p.urls /\ q.method = p.method /\ q.dead = p.dead
      /\ q.short = p.short /\ q.state = p.state /\ q.upgrade = p.upgrade
      /\ p.halt = "no" => q.halt = "no"
      /\ p.field = "none" => q.field = "none"
  BY DEF ParserAt, Urls, ParserRecord, StartOfRead
<1> HIDE DEF q
<1>2. ParserAt(q, a)
  BY <1>1 DEF ParserAt
<1> QED BY <1>2 DEF q

\* A read of n tokens.
LEMMA ReadFacts ==
    ASSUME RequestsOK, NEW p, NEW a \in Nat, NEW n \in Nat, a + n <= Len(Wire),
           ParserAt(p, a), ~p.short
    PROVE  ParserAt(HttpParser_feedRecvData(p, SubSeq(Wire, a + 1, a + n)), a + n)
<1> DEFINE tokens == SubSeq(Wire, a + 1, a + n)
<1>1. /\ Wire \in Seq(Mark) /\ Len(Wire) \in Nat /\ FirstEnd <= Len(Wire)
      /\ \A k \in 1 .. Len(Wire) : Wire[k] \in Mark
      /\ \A k \in 1 .. FirstEnd : Wire[k].token = Tokens(requests[1])[k]
      /\ Len(Wire) > FirstEnd => Wire[FirstEnd + 1].token = "line"
      /\ FirstEnd \in {2, 4}
  <2>1. StartsWithFirst(Wire) /\ FirstEnd \in {2, 4}
    BY WireFacts, RequestFacts
  <2> HIDE DEF tokens
  <2>2. Wire \in Seq(Mark) /\ FirstEnd <= Len(Wire)
    BY <2>1 DEF StartsWithFirst
  <2>3. Len(Wire) \in Nat /\ \A k \in 1 .. Len(Wire) : Wire[k] \in Mark
    BY <2>2, LenProperties, ElementOfSeq
  <2>4. ASSUME NEW k \in 1 .. FirstEnd PROVE Wire[k].token = Tokens(requests[1])[k]
    <3>1. Wire[k] = [request |-> 1, token |-> Tokens(requests[1])[k]]
      BY <2>1 DEF StartsWithFirst
    <3> QED BY <3>1
  <2>5. Len(Wire) > FirstEnd => Wire[FirstEnd + 1].token = "line"
    BY <2>1 DEF StartsWithFirst
  <2> QED BY <2>1, <2>2, <2>3, <2>4, <2>5
<1>2. Len(tokens) = n /\ \A k \in 1 .. n : tokens[k] = Wire[a + k]
  <2>1. \A i \in a + 1 .. a + n : Wire[i] \in Mark
    BY <1>1
  <2>2. /\ Len(tokens) = IF a + 1 <= a + n THEN (a + n) - (a + 1) + 1 ELSE 0
        /\ \A i \in 1 .. (a + n) - (a + 1) + 1 : tokens[i] = Wire[(a + 1) + i - 1]
    BY <2>1, SubSeqProperties
  <2> HIDE DEF tokens
  <2>3. \A k \in 1 .. n : k \in 1 .. (a + n) - (a + 1) + 1 /\ (a + 1) + k - 1 = a + k
    OBVIOUS
  <2>4. Len(tokens) = n
    BY <2>2
  <2>5. ASSUME NEW k \in 1 .. n PROVE tokens[k] = Wire[a + k]
    <3>1. tokens[k] = Wire[(a + 1) + k - 1]
      BY <2>2, <2>3
    <3> QED BY <2>3, <3>1
  <2> QED BY <2>4, <2>5
<1> HIDE DEF tokens
<1>3. PICK f : /\ HttpParser_feedRecvData(p, tokens) = f[n]
               /\ f[0] = StartOfRead(p)
               /\ \A k \in 1 .. n : f[k] = Token(f[k - 1], tokens[k])
  <2>1. Len(tokens) \in Nat
    BY <1>2
  <2>2. PICK f : /\ HttpParser_feedRecvData(p, tokens) = f[Len(tokens)]
                 /\ f[0] = StartOfRead(p)
                 /\ \A k \in 1 .. Len(tokens) : f[k] = Token(f[k - 1], tokens[k])
    BY <2>1, FeedFacts
  <2> QED BY <1>2, <2>2
<1> DEFINE Good(k) == ParserAt(f[k], a + k)
           Bad == {k \in 0 .. n : ~ Good(k)}
<1>4. Good(0)
  <2>1. a + 0 = a
    OBVIOUS
  <2> QED BY <1>3, <2>1, ReadStarts
<1>5. ASSUME NEW k \in 1 .. n, Good(k - 1) PROVE Good(k)
  <2>1. /\ a + k \in 1 .. Len(Wire) /\ a + (k - 1) \in Nat /\ (a + (k - 1)) + 1 = a + k
        /\ k \in Nat
    BY <1>1
  <2>2. tokens[k] = Wire[a + k] /\ Wire[a + k] \in Mark
    BY <1>1, <1>2, <2>1
  <2>3. f[k] = Token(f[k - 1], Wire[a + k])
    BY <1>3, <2>2
  <2>4. CASE a + (k - 1) < FirstEnd
    <3>1. a + k \in 1 .. FirstEnd
      BY <1>1, <2>1, <2>4
    <3>2. Wire[a + k].token = Tokens(requests[1])[(a + (k - 1)) + 1]
      BY <1>1, <2>1, <3>1
    <3>3. ParserAt(Token(f[k - 1], Wire[a + k]), (a + (k - 1)) + 1)
      BY <1>5, <2>1, <2>2, <2>4, <3>2, TokenInFirst
    <3> QED BY <2>1, <2>3, <3>3
  <2>5. CASE ~(a + (k - 1) < FirstEnd)
    <3>1. a + (k - 1) >= FirstEnd
      BY <1>1, <2>1, <2>5
    <3>2. a + (k - 1) = FirstEnd => Wire[a + k].token = "line"
      <4> SUFFICES ASSUME a + (k - 1) = FirstEnd PROVE Wire[a + k].token = "line"
        OBVIOUS
      <4>1. a + k = FirstEnd + 1 /\ Len(Wire) > FirstEnd
        BY <1>1, <2>1
      <4> QED BY <1>1, <4>1
    <3>3. ParserAt(Token(f[k - 1], Wire[a + k]), (a + (k - 1)) + 1)
      BY <1>5, <2>1, <2>2, <3>1, <3>2, TokenBehindFirst
    <3> QED BY <2>1, <2>3, <3>3
  <2> QED BY <2>4, <2>5
<1> HIDE DEF Good
<1>6. Bad = {}
  <2> SUFFICES ASSUME Bad # {} PROVE FALSE
    OBVIOUS
  <2>a. Bad \in SUBSET Nat
    OBVIOUS
  <2>1. PICK k \in Bad : \A l \in Bad : k <= l
    BY <2>a, Least
  <2>2. k \in 0 .. n /\ ~Good(k) /\ k # 0
    BY <1>4, <2>1
  <2>3. k \in 1 .. n /\ k - 1 \in 0 .. n /\ ~(k <= k - 1)
    BY <2>2
  <2>4. Good(k - 1)
    BY <2>1, <2>3
  <2> QED BY <1>5, <2>2, <2>3, <2>4
<1>7. Good(n)
  BY <1>6
<1> QED BY <1>3, <1>7 DEF Good, tokens


-----------------------------------------------------------------------------
(* The answers of a connection.                                            *)

Answered == \E k \in 1 .. Len(answers) : answers[k].whole

ReadOK ==
    /\ at \in 0 .. Len(Wire)
    /\ serviceType = "http" /\ ~closed => ParserAt(parser, at) /\ ~parser.short

AnswersOK ==
    /\ answers \in Seq([request : {1}, whole : BOOLEAN])
    /\ \A k \in 1 .. Len(answers) : ~answers[k].whole => k = 1 /\ requests[1] = "post"
    /\ \A j, k \in 1 .. Len(answers) : answers[j].whole /\ answers[k].whole => j = k
    /\ Answered => at >= FirstEnd
    /\ answers # << >> => at >= 2

ServedOK ==
    at >= FirstEnd /\ 1 \notin shared /\ ~closed =>
        Answered \/ (requests[1] = "upgrade" /\ serviceType = "ws")

EarnedOK == RequestsOK /\ ReadOK /\ AnswersOK /\ ServedOK

LEMMA EarnedInit == ASSUME Init PROVE EarnedOK
<1>1. PICK n \in 1 .. MaxRequests : requests \in [1 .. n -> Kinds]
  BY DEF Init
<1>2. n \in Nat \ {0}
  BY LengthsFit
<1>3. RequestsOK
  <2>1. requests \in Seq(Kinds)
    BY <1>1, <1>2, IsASeq
  <2>2. DOMAIN requests = 1 .. n /\ 1 \in 1 .. n
    BY <1>1, <1>2
  <2>3. requests # << >>
    <3>1. DOMAIN << >> = {}
      OBVIOUS
    <3> QED BY <2>2, <3>1
  <2> QED BY <2>1, <2>3 DEF RequestsOK
<1>4. FirstEnd \in {2, 4} /\ Wire \in Seq(Mark) /\ FirstEnd <= Len(Wire)
  BY <1>3, RequestFacts, WireFacts DEF StartsWithFirst
<1>5. Len(Wire) \in Nat
  BY <1>4, LenProperties
<1>6. at = 0 /\ parser = NewParser /\ answers = << >>
  BY DEF Init
<1>7. /\ Urls(parser) /\ parser.urls = 0 /\ ~parser.method /\ ~parser.dead
      /\ parser.halt = "no" /\ ~parser.short /\ parser.state = "start"
      /\ parser.field = "none" /\ ~parser.upgrade
  BY <1>6 DEF Urls, ParserRecord, NewParser
<1>8. at < FirstEnd /\ ~(at >= FirstEnd) /\ at # FirstEnd /\ ~(at > FirstEnd)
  BY <1>4, <1>6
<1>9. ReadOK
  <2>1. ParserAt(parser, at)
    BY <1>6, <1>7, <1>8 DEF ParserAt
  <2> QED BY <1>5, <1>6, <1>7, <2>1 DEF ReadOK
<1>10. AnswersOK
  <2>1. answers \in Seq([request : {1}, whole : BOOLEAN]) /\ Len(answers) = 0
    BY <1>6
  <2>2. 1 .. Len(answers) = {}
    BY <2>1
  <2> QED BY <1>6, <2>1, <2>2 DEF AnswersOK, Answered
<1>11. ServedOK
  BY <1>8 DEF ServedOK
<1> QED BY <1>3, <1>9, <1>10, <1>11 DEF EarnedOK

\* What http leaves alone keeps the invariant, whether the connection goes on or ends.
LEMMA EarnedKept ==
    ASSUME EarnedOK, UNCHANGED <<http, serviceType>>, closed' = closed \/ closed'
    PROVE  EarnedOK'
<1>1. requests' = requests /\ at' = at /\ parser' = parser /\ answers' = answers
      /\ shared' = shared /\ serviceType' = serviceType
  BY DEF http
<1>2. FirstEnd' = FirstEnd /\ Wire' = Wire /\ RequestsOK'
  BY <1>1 DEF EarnedOK, FirstEnd, Wire, RequestsOK
<1>3. ReadOK'
  <2>1. ParserAt(parser, at) => ParserAt(parser, at)'
    BY <1>1, <1>2 DEF ParserAt
  <2> QED BY <1>1, <1>2, <2>1 DEF EarnedOK, ReadOK
<1>4. AnswersOK'
  BY <1>1, <1>2 DEF EarnedOK, AnswersOK, Answered
<1>5. ServedOK'
  BY <1>1, <1>2 DEF EarnedOK, ServedOK, Answered
<1> QED BY <1>2, <1>3, <1>4, <1>5 DEF EarnedOK

\* A read that ends behind the first request, and began in it, is shared.
LEMMA SharedRead ==
    ASSUME RequestsOK, NEW a \in Nat, NEW b \in Nat, a < FirstEnd, b > FirstEnd, b <= Len(Wire)
    PROVE  LET in == {Wire[k].request : k \in a + 1 .. b}
           IN  1 \in in /\ 1 + 1 \in in
<1>1. StartsWithFirst(Wire) /\ FirstEnd \in {2, 4}
  BY WireFacts, RequestFacts
<1>2. Len(Wire) \in Nat
  BY <1>1, LenProperties DEF StartsWithFirst
<1>3. /\ FirstEnd \in a + 1 .. b /\ FirstEnd + 1 \in a + 1 .. b
      /\ FirstEnd \in 1 .. FirstEnd /\ Len(Wire) > FirstEnd
  BY <1>1, <1>2
<1>4. Wire[FirstEnd] = [request |-> 1, token |-> Tokens(requests[1])[FirstEnd]]
  BY <1>1, <1>3 DEF StartsWithFirst
<1>5. Wire[FirstEnd + 1] = [request |-> 2, token |-> "line"]
  BY <1>1, <1>3 DEF StartsWithFirst
<1>6. Wire[FirstEnd].request = 1 /\ Wire[FirstEnd + 1].request = 2
  BY <1>4, <1>5
<1> QED BY <1>3, <1>6

LEMMA EarnedRead == ASSUME EarnedOK, RecvHttp PROVE EarnedOK'
<1> DEFINE Read(n) == HttpParser_feedRecvData(parser, SubSeq(Wire, at + 1, at + n))
           Seen(n) == {Wire[k].request : k \in at + 1 .. at + n}
<1>1. ~closed /\ serviceType = "http" /\ requests' = requests
  BY DEF RecvHttp
<1>2. PICK n \in 1 .. Len(Wire) - at :
        /\ at' = at + n
        /\ parser' = [Read(n) EXCEPT !.short = FALSE]
        /\ shared' = shared \cup {r \in Seen(n) : r + 1 \in Seen(n)}
        /\ \/ Read(n).short /\ Close(serviceType, calls) /\ answers' = answers
           \/ /\ ~Read(n).short /\ Read(n).state = "complete" /\ Read(n).upgrade
              /\ SwitchWSProtocol
           \/ /\ ~Read(n).short /\ Read(n).state = "complete" /\ ~Read(n).upgrade
              /\ SendHttpResponse(Read(n))
           \/ /\ ~Read(n).short /\ Read(n).state # "complete"
              /\ UNCHANGED <<serviceType, closed, answers>>
  BY DEF RecvHttp
<1> DEFINE p == Read(n)
           b == at + n
<1>3. /\ FirstEnd \in {2, 4} /\ at \in Nat /\ n \in Nat \ {0} /\ Len(Wire) \in Nat
      /\ b \in Nat /\ b <= Len(Wire) /\ at < b
  <2>1. FirstEnd \in {2, 4} /\ Wire \in Seq(Mark)
    BY RequestFacts, WireFacts DEF StartsWithFirst, EarnedOK
  <2>2. Len(Wire) \in Nat /\ at \in 0 .. Len(Wire)
    BY <2>1, LenProperties DEF EarnedOK, ReadOK
  <2> QED BY <2>1, <2>2
<1>4. ParserAt(p, b)
  <2>1. ParserAt(parser, at) /\ ~parser.short /\ RequestsOK
    BY <1>1 DEF EarnedOK, ReadOK
  <2> QED BY <1>3, <2>1, ReadFacts
<1>5. 1 \in Seen(n) /\ 1 + 1 \in Seen(n) => 1 \in shared'
  <2> HIDE DEF Seen
  <2> QED BY <1>2
<1>6. at < FirstEnd /\ b > FirstEnd => 1 \in shared'
  BY <1>3, <1>5, SharedRead DEF EarnedOK
<1>7. shared \subseteq shared'
  BY <1>2
<1>8. /\ p \in ParserRecord /\ p.urls = p.request
      /\ b < FirstEnd => ~p.method /\ (p.state = "complete" => requests[1] = "post" /\ b = 2)
      /\ b <= FirstEnd /\ requests[1] # "upgrade" => ~p.upgrade
      /\ b = FirstEnd => p.urls = 1 /\ p.method /\ p.state = "complete" /\ ~p.short
      /\ b > FirstEnd /\ ~p.short => p.urls >= 2
  <2> HIDE DEF p, b
  <2> QED BY <1>4 DEF ParserAt, Urls
<1>9. /\ at' = b /\ parser' = [p EXCEPT !.short = FALSE]
      /\ \/ p.short /\ Close(serviceType, calls) /\ answers' = answers
         \/ ~p.short /\ p.state = "complete" /\ p.upgrade /\ SwitchWSProtocol
         \/ ~p.short /\ p.state = "complete" /\ ~p.upgrade /\ SendHttpResponse(p)
         \/ ~p.short /\ p.state # "complete" /\ UNCHANGED <<serviceType, closed, answers>>
  BY <1>2
<1> HIDE DEF p, b, Read, Seen
<1>10. FirstEnd' = FirstEnd /\ Wire' = Wire /\ RequestsOK'
  BY <1>1 DEF EarnedOK, FirstEnd, Wire, RequestsOK
<1>11. ~p.short => ReadOK'
  <2> SUFFICES ASSUME ~p.short PROVE ReadOK'
    OBVIOUS
  <2>1. parser' = p
    BY <1>8, <1>9 DEF ParserRecord
  <2>2. ParserAt(parser, at)'
    BY <1>1, <1>4, <1>9, <1>10, <2>1 DEF ParserAt
  <2> QED BY <1>3, <1>9, <1>10, <2>1, <2>2 DEF ReadOK
<1>12. ASSUME answers' = answers PROVE AnswersOK' /\ Answered' = Answered
  <2>1. Answered' = Answered
    BY <1>12 DEF Answered
  <2>2. Answered => at' >= FirstEnd
    <3>1. Answered => at >= FirstEnd
      BY DEF EarnedOK, AnswersOK
    <3> QED BY <1>3, <1>9, <3>1
  <2>3. answers # << >> => at' >= 2
    <3>1. answers # << >> => at >= 2
      BY DEF EarnedOK, AnswersOK
    <3> QED BY <1>3, <1>9, <3>1
  <2> QED BY <1>1, <1>10, <1>12, <2>1, <2>2, <2>3 DEF EarnedOK, AnswersOK
<1>13. at >= FirstEnd /\ 1 \notin shared' => Answered
  BY <1>1, <1>7 DEF EarnedOK, ServedOK
<1>14. CASE p.short /\ Close(serviceType, calls) /\ answers' = answers
  <2>1. closed'
    BY <1>14 DEF Close
  <2>2. ReadOK'
    BY <1>3, <1>9, <1>10, <2>1 DEF ReadOK
  <2>3. ServedOK'
    BY <2>1 DEF ServedOK
  <2> QED BY <1>10, <1>12, <1>14, <2>2, <2>3 DEF EarnedOK
<1>15. CASE ~p.short /\ p.state = "complete" /\ p.upgrade /\ SwitchWSProtocol
  <2>1. serviceType' = "ws" /\ answers' = answers
    BY <1>15 DEF SwitchWSProtocol
  <2>2. b = FirstEnd => requests[1] = "upgrade"
    BY <1>3, <1>8, <1>15
  <2>3. ServedOK'
    <3>1. b >= FirstEnd => at >= FirstEnd \/ b = FirstEnd \/ (at < FirstEnd /\ b > FirstEnd)
      BY <1>3 DEF b
    <3> QED BY <1>1, <1>6, <1>9, <1>10, <1>12, <1>13, <2>1, <2>2, <3>1 DEF ServedOK
  <2> QED BY <1>10, <1>11, <1>12, <1>15, <2>1, <2>3 DEF EarnedOK
<1>16. CASE ~p.short /\ p.state # "complete" /\ UNCHANGED <<serviceType, closed, answers>>
  <2>1. b # FirstEnd
    BY <1>8, <1>16
  <2>2. ServedOK'
    <3>1. b >= FirstEnd => at >= FirstEnd \/ (at < FirstEnd /\ b > FirstEnd)
      BY <1>3, <2>1 DEF b
    <3> QED BY <1>1, <1>6, <1>9, <1>10, <1>12, <1>13, <1>16, <3>1 DEF ServedOK
  <2> QED BY <1>10, <1>11, <1>12, <1>16, <2>2 DEF EarnedOK
<1>17. CASE ~p.short /\ p.state = "complete" /\ ~p.upgrade /\ SendHttpResponse(p)
  <2>1. PICK found \in Routed(p) :
          IF found THEN answers' = Append(answers, [request |-> p.request, whole |-> p.method])
          ELSE answers' = answers
    BY <1>17 DEF SendHttpResponse
  <2>2. serviceType' = "http"
    BY <1>1, <1>17 DEF SendHttpResponse
  <2>3. p.urls \in Nat /\ p.method \in BOOLEAN
    BY <1>8 DEF ParserRecord
  <2>4. found => p.urls = 1 /\ p.request = 1
    BY <1>8, <2>1 DEF Routed
  <2>5. p.urls = 1 /\ p.method => found
    BY <2>1 DEF Routed
  <2>6. CASE ~found
    <3>1. answers' = answers
      BY <2>1, <2>6
    <3>2. b # FirstEnd
      BY <1>8, <2>5, <2>6
    <3>3. b >= FirstEnd => at >= FirstEnd \/ (at < FirstEnd /\ b > FirstEnd)
      BY <1>3, <3>2 DEF b
    <3>4. ServedOK'
      BY <1>1, <1>6, <1>9, <1>10, <1>12, <1>13, <3>1, <3>3 DEF ServedOK
    <3> QED BY <1>10, <1>11, <1>12, <1>17, <3>1, <3>4 DEF EarnedOK
  <2>7. CASE found
    <3> DEFINE N == Len(answers)
               new == [request |-> 1, whole |-> p.method]
    <3>1. answers' = Append(answers, new)
      BY <2>1, <2>4, <2>7
    <3>2. /\ answers \in Seq([request : {1}, whole : BOOLEAN])
          /\ \A k \in 1 .. N : ~answers[k].whole => k = 1 /\ requests[1] = "post"
          /\ \A k \in 1 .. N : answers[k].whole => at >= FirstEnd
          /\ answers # << >> => at >= 2
      BY DEF EarnedOK, AnswersOK, Answered
    <3>3. new \in [request : {1}, whole : BOOLEAN] /\ new.whole = p.method
      BY <2>3
    <3> HIDE DEF new
    <3>4. /\ N \in Nat /\ answers' \in Seq([request : {1}, whole : BOOLEAN])
          /\ Len(answers') = N + 1 /\ answers'[N + 1] = new
          /\ \A k \in 1 .. N : answers'[k] = answers[k]
      BY <3>1, <3>2, <3>3, LenProperties, AppendProperties
    <3>5. N = 0 => answers = << >>
      BY <3>2, EmptySeq
    <3> HIDE DEF N
    <3>6. b <= FirstEnd /\ at < FirstEnd
      <4>1. ~(p.urls >= 2)
        BY <2>4, <2>7
      <4> QED BY <1>3, <1>8, <1>17, <4>1
    <3>7. \A k \in 1 .. N : ~answers[k].whole
      BY <1>3, <3>2, <3>6
    <3>8. CASE p.method
      <4>1. b = FirstEnd
        BY <1>3, <1>8, <3>6, <3>8
      <4>2. Answered'
        <5>1. N + 1 \in 1 .. Len(answers')
          BY <3>4
        <5>2. answers'[N + 1].whole
          BY <3>3, <3>4, <3>8
        <5> QED BY <5>1, <5>2 DEF Answered
      <4>3. \A k \in 1 .. N + 1 : k # N + 1 => k \in 1 .. N
        BY <3>4
      <4>4. \A k \in 1 .. N + 1 : answers'[k].whole => k = N + 1
        BY <3>4, <3>7, <4>3
      <4>5. \A k \in 1 .. N + 1 : ~answers'[k].whole => k = 1 /\ requests[1] = "post"
        BY <3>2, <3>3, <3>4, <3>8, <4>3
      <4>6. at' >= FirstEnd /\ at' >= 2
        BY <1>3, <1>9, <4>1
      <4>7. AnswersOK'
        BY <1>1, <1>10, <3>4, <4>4, <4>5, <4>6 DEF AnswersOK
      <4>8. ServedOK'
        BY <4>2 DEF ServedOK
      <4> QED BY <1>10, <1>11, <1>17, <4>7, <4>8 DEF EarnedOK
    <3>9. CASE ~p.method
      <4>1. b < FirstEnd
        BY <1>3, <1>8, <3>6, <3>9
      <4>2. requests[1] = "post" /\ b = 2
        BY <1>8, <1>17, <4>1
      <4>3. N = 0
        <5>1. N # 0 => answers # << >>
          BY <3>4 DEF N
        <5>2. ~(at >= 2)
          BY <1>3, <4>2
        <5> QED BY <3>2, <5>1, <5>2
      <4>4. \A k \in 1 .. N + 1 : k = 1 /\ k = N + 1
        BY <4>3
      <4>5. \A k \in 1 .. N + 1 : ~answers'[k].whole
        BY <3>3, <3>4, <3>9, <4>4
      <4>6. ~Answered'
        BY <3>4, <4>5 DEF Answered
      <4>7. at' >= 2 /\ ~(at' >= FirstEnd)
        BY <1>3, <1>9, <4>1, <4>2
      <4>8. AnswersOK'
        BY <1>1, <1>10, <3>4, <4>2, <4>4, <4>5, <4>6, <4>7 DEF AnswersOK
      <4>9. ServedOK'
        BY <1>10, <4>7 DEF ServedOK
      <4> QED BY <1>10, <1>11, <1>17, <4>8, <4>9 DEF EarnedOK
    <3> QED BY <3>8, <3>9
  <2> QED BY <2>6, <2>7
<1> QED BY <1>9, <1>14, <1>15, <1>16, <1>17

\* What the invariant says of the answers is what AnswersAreEarned says.
LEMMA EarnedImplies == ASSUME EarnedOK PROVE AnswersAreEarned
<1> DEFINE N == Len(answers)
<1>1. /\ answers \in Seq([request : {1}, whole : BOOLEAN]) /\ N \in Nat
      /\ DOMAIN answers = 1 .. N
      /\ \A k \in 1 .. N : ~answers[k].whole => k = 1 /\ requests[1] = "post"
      /\ \A j, k \in 1 .. N : answers[j].whole /\ answers[k].whole => j = k
  BY LenProperties DEF EarnedOK, AnswersOK
<1>2. \A k \in 1 .. N : answers[k] \in [request : {1}, whole : BOOLEAN]
  BY <1>1, ElementOfSeq
<1>3. Answered => at >= FirstEnd
  BY DEF EarnedOK, AnswersOK
<1>4. Arrived(1) <=> at >= FirstEnd
  BY FirstArrives DEF EarnedOK
<1> HIDE DEF N
<1>5. Whole(1) = {k \in 1 .. N : answers[k].whole}
  <2>1. ASSUME NEW k \in 1 .. N
        PROVE  answers[k] = [request |-> 1, whole |-> TRUE] <=> answers[k].whole
    <3>1. answers[k] \in [request : {1}, whole : BOOLEAN]
      BY <1>2
    <3>2. answers[k] = [request |-> 1, whole |-> answers[k].whole] /\ answers[k].whole \in BOOLEAN
      BY <3>1
    <3>3. [request |-> 1, whole |-> TRUE].whole = TRUE
      OBVIOUS
    <3>4. CASE answers[k].whole
      <4>1. answers[k].whole = TRUE
        BY <3>2, <3>4
      <4> QED BY <3>2, <4>1
    <3>5. CASE ~answers[k].whole
      BY <3>3, <3>5
    <3> QED BY <3>4, <3>5
  <2> QED BY <1>1, <2>1 DEF Whole
<1>6. Whole(1) # {} <=> Answered
  BY <1>5 DEF Answered, N
<1>7. Cardinality(Whole(1)) <= 1
  <2>1. CASE Whole(1) = {}
    <3>1. Cardinality({}) = 0
      BY FS_EmptySet
    <3> QED BY <2>1, <3>1
  <2>2. CASE Whole(1) # {}
    <3>1. PICK k \in 1 .. N : answers[k].whole
      BY <1>5, <2>2
    <3>2. Whole(1) = {k}
      BY <1>1, <1>5, <3>1
    <3>3. Cardinality({k}) = 1
      BY FS_Singleton
    <3> QED BY <3>2, <3>3
  <2> QED BY <2>1, <2>2
<1>8. \A k \in DOMAIN answers :
          answers[k].request = 1 /\ (~answers[k].whole => k = 1 /\ requests[1] = "post")
  BY <1>1, <1>2
<1>9. Whole(1) # {} => Arrived(1)
  BY <1>3, <1>4, <1>6
<1>10. Arrived(1) /\ 1 \notin shared /\ ~closed =>
          Whole(1) # {} \/ (requests[1] = "upgrade" /\ serviceType = "ws")
  BY <1>4, <1>6 DEF EarnedOK, ServedOK
<1> QED BY <1>7, <1>8, <1>9, <1>10 DEF AnswersAreEarned

\* However many requests a client sends, and however the reads cut them, it
\* is answered for its first request only, once in whole and not before it is
\* whole, and without its body only if that is still to come; and that answer,
\* or the upgrade, is not forgotten, unless one read has parts of it and of the
\* next request (HttpHandle::feedRecvData, HttpParser, HttpRouter).
THEOREM OnlyTheAskedIsAnswered == Spec => []AnswersAreEarned
<1>1. Init => EarnedOK
  BY EarnedInit
<1>2. EarnedOK /\ [Next]_vars => EarnedOK'
  <2> SUFFICES ASSUME EarnedOK, [Next]_vars PROVE EarnedOK'
    OBVIOUS
  <2>1. CASE RecvHttp
    BY <2>1, EarnedRead
  <2>2. CASE ClientFrame \/ RecvWs
    BY <2>2, EarnedKept DEF ClientFrame, RecvWs
  <2>3. CASE ParseTurn
    <3>1. UNCHANGED <<http, serviceType>> /\ (closed' = closed \/ closed')
      BY <2>3 DEF ParseTurn, Close
    <3> QED BY <3>1, EarnedKept
  <2>4. CASE End
    BY <2>4, EarnedKept DEF End, Close
  <2>5. CASE UNCHANGED vars
    BY <2>5, EarnedKept DEF vars
  <2> QED BY <2>1, <2>2, <2>3, <2>4, <2>5 DEF Next
<1>3. EarnedOK => AnswersAreEarned
  BY EarnedImplies
<1> QED BY <1>1, <1>2, <1>3, PTL DEF Spec
=============================================================================

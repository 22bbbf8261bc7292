------------------------------- MODULE Timers -------------------------------
(***************************************************************************)
(* The timers of one loop: the passes of event_loop_run over its heap      *)
(* (src/src/event_loop.c) and the timeouts of the connections              *)
(* (src/src/io.c) that are built on them.  Everything runs in the loop's   *)
(* thread: the callbacks of connections and timers make the calls.         *)
(*                                                                         *)
(* A timer is allocated once; one that is freed is never allocated again,  *)
(* so that a pointer to it is seen to dangle.                              *)
(***************************************************************************)
EXTENDS HeapOps, FiniteSets

CONSTANTS
    Timer,       \* BOUND: the timers malloc can give
    Io,          \* the connections
    NoTimer,     \* NULL
    Delays,      \* the timeouts the program uses
    Repeats,     \* the repeat counts the program uses
    Max32,       \* UINT32_MAX: a repeat count that never ends, and where
                 \* timers_num wraps
    Capacity,    \* slots of the heap
    InitialNums, \* what malloc leaves in timers_num, which nothing sets
    CanDelete,   \* whether the program calls del_timer
    MaxCalls,    \* BOUND: calls the program makes
    Start,       \* the clock at the start; 0 is the epoch, long before
    MaxNow       \* BOUND: the clock

ASSUME NoTimerIsNone == NoTimer \notin Timer
ASSUME Max32IsNatural == Max32 \in Nat \ {0}
ASSUME StartIsNatural == Start \in Nat \ {0} /\ MaxNow \in Nat
ASSUME DelaysAreNatural == Delays \subseteq Nat
ASSUME RepeatsFit == Repeats \subseteq 0 .. Max32
ASSUME NumsFit == InitialNums \subseteq 0 .. Max32
ASSUME CapacityIsPositive == Capacity \in Nat \ {0}
ASSUME CallsAreNatural == MaxCalls \in Nat
ASSUME TimersAreFinite == IsFiniteSet(Timer)

\* What a timer is for.
Kinds == {"read", "write", "close", "connect"}

VARIABLES
    now,    \* the wall clock, which does not run backwards
    cur,    \* loop->cur_ms
    heap,   \* loop->timers
    num,    \* loop->timers_num
    tm,     \* the timers
    pend,   \* loop->pending, during a pass over the timers
    io,     \* the connections
    pc,     \* where the loop is
    who,    \* the timer whose callback runs
    from,   \* the loop of event_loop_run that called it
    calls   \* calls made so far

vars == <<now, cur, heap, num, tm, pend, io, pc, who, from, calls>>

Unallocated ==
    [state |-> "none", kind |-> "plain", owner |-> NoTimer, delay |-> 0, next |-> 0,
     repeat |-> 0, destory |-> FALSE, pending |-> FALSE, deleted |-> FALSE,
     times |-> 0, born |-> 0, fired |-> 0]   \* ghosts

Fresh ==
    [state |-> "new", read |-> 0, write |-> 0,
     timer |-> [k \in Kinds |-> NoTimer], delay |-> [k \in Kinds |-> 0]]

Init ==
    /\ now = Start /\ cur = Start
    /\ heap = <<>>
    /\ num \in InitialNums
    /\ tm = [t \in Timer |-> Unallocated]
    /\ pend = <<>>
    /\ io = [i \in Io |-> Fresh]
    /\ pc = "io" /\ who = NoTimer /\ from = "run"
    /\ calls = 0

-----------------------------------------------------------------------------
(* Parts of the calls.                                                     *)

Deadlines(f) == [t \in Timer |-> f[t].next]

\* A counter of type uint32_t.
Inc(n) == (n + 1) % (Max32 + 1)

\* Mutant: a signed counter.
Dec_Signed(n) == n - 1

Dec(n) == (n + Max32) % (Max32 + 1)

\* The timers not given yet, and the one malloc gives next: which one it is
\* makes no difference.
Unused == {t \in Timer : tm[t].state = "none"}
NewTimer == CHOOSE t \in Unused : TRUE

\* add_timer for a timeout other than 0: it reads the clock.
Arm(t, kind, owner, d, r) ==
    /\ Unused # {}
    /\ cur' = now
    /\ tm' = [tm EXCEPT ![t] =
                 [Unallocated EXCEPT !.state = "live", !.kind = kind, !.owner = owner,
                    !.delay = d, !.next = now + d,
                    !.repeat = IF r = 0 THEN 1 ELSE r,
                    !.times = IF r = 0 THEN 1 ELSE r, !.born = now]]
    /\ heap' = HeapInsert(heap, Deadlines(tm'), t, Capacity)
    /\ num' = Inc(num)

\* Mutant: a timer that was taken out is put back without being counted.
ResetTimer_NoCount(t, d) ==
    /\ tm' = [tm EXCEPT ![t].next = cur + d, ![t].destory = FALSE, ![t].pending = FALSE]
    /\ LET popped == IF tm[t].destory THEN heap ELSE HeapPop(heap, Deadlines(tm))
       IN  heap' = HeapInsert(popped, Deadlines(tm'), t, Capacity)
    /\ num' = num

\* reset_timer.  It makes room by popping the top, whichever timer that is.
ResetTimer(t, d) ==
    /\ tm' = [tm EXCEPT ![t].next = cur + d, ![t].destory = FALSE, ![t].pending = FALSE]
    /\ LET popped == IF tm[t].destory THEN heap ELSE HeapPop(heap, Deadlines(tm))
       IN  heap' = HeapInsert(popped, Deadlines(tm'), t, Capacity)
    /\ num' = IF tm[t].destory THEN Inc(num) ELSE num

\* io_remove_*_timeout, on the array and on the connection.
Without(h, t) == IF t = NoTimer THEN h ELSE HeapRemove(h, Deadlines(tm), t)

\* io_close, as far as timers go.
IoClose(i) ==
    /\ io' = IF io[i].state = "closed" THEN io
             ELSE [io EXCEPT ![i] = [Fresh EXCEPT !.state = "closed", !.read = io[i].read,
                                                  !.write = io[i].write]]
    /\ heap' = IF io[i].state = "closed" THEN heap
               ELSE LET a == Without(heap, io[i].timer["read"])
                        b == Without(a, io[i].timer["write"])
                        c == Without(b, io[i].timer["connect"])
                    IN  Without(c, io[i].timer["close"])

-----------------------------------------------------------------------------
(* The calls of the program, from the callback of a connection or of one   *)
(* of its own timers.                                                      *)

InUserCode == pc = "io" \/ (pc = "cb" /\ tm[who].kind = "plain")

Call ==
    /\ InUserCode
    /\ calls < MaxCalls
    /\ calls' = calls + 1

AddTimer(d, r) ==
    /\ Call
    /\ d > 0
    /\ Arm(NewTimer, "plain", NoTimer, d, r)
    /\ UNCHANGED <<now, pend, io, pc, who, from>>

\* del_timer of a timer that repeats for ever, as a WebSocket client deletes
\* its ping timer: it pops the top, whichever timer that is.
DelTimer(t) ==
    /\ CanDelete
    /\ Call
    /\ tm[t].state = "live" /\ tm[t].kind = "plain"
    /\ tm[t].repeat = Max32 /\ ~tm[t].deleted
    /\ num' = Dec(num)
    /\ heap' = HeapPop(heap, Deadlines(tm))
    /\ tm' = [tm EXCEPT ![t].deleted = TRUE]
    /\ UNCHANGED <<now, cur, pend, io, pc, who, from>>

\* io_connect: the connection is under way, with its time limit.
Connect(i, d) ==
    /\ Call
    /\ d > 0
    /\ io[i].state = "new"
    /\ Arm(NewTimer, "connect", i, d, 1)
    /\ io' = [io EXCEPT ![i].state = "connecting", ![i].timer["connect"] = NewTimer,
                        ![i].delay["connect"] = d]
    /\ UNCHANGED <<now, pend, pc, who, from>>

\* io_connect, when connect succeeds at once: io_connect_cb and no time limit.
ConnectAtOnce(i) ==
    /\ Call
    /\ io[i].state = "new"
    /\ io' = [io EXCEPT ![i].state = "open", ![i].read = now]
    /\ UNCHANGED <<now, cur, heap, num, tm, pend, pc, who, from>>

\* io_set_*_timeout, the first time.
SetTimeout(i, k, d) ==
    /\ Call
    /\ d > 0
    /\ io[i].state \in {"connecting", "open"}
    /\ io[i].timer[k] = NoTimer
    /\ Arm(NewTimer, k, i, d, 1)
    /\ io' = [io EXCEPT ![i].timer[k] = NewTimer, ![i].delay[k] = d]
    /\ UNCHANGED <<now, pend, pc, who, from>>

\* io_set_*_timeout, when the connection has that timer: the timeout the
\* callback will use stays what it was.
SetTimeoutAgain(i, k, d) ==
    /\ Call
    /\ io[i].state \in {"connecting", "open"}
    /\ io[i].timer[k] # NoTimer
    /\ ResetTimer(io[i].timer[k], d)
    /\ UNCHANGED <<now, cur, pend, io, pc, who, from>>

\* io_set_*_timeout of 0: add_timer gives NULL, which is written through.
SetZeroTimeout(i, k) ==
    /\ Call
    /\ 0 \in Delays
    /\ io[i].state \in {"connecting", "open"}
    /\ io[i].timer[k] = NoTimer
    /\ pc' = "crashed"
    /\ UNCHANGED <<now, cur, heap, num, tm, pend, io, who, from>>

\* io_set_read_timeout or io_set_write_timeout with a negative timeout.
RemoveTimeout(i, k) ==
    /\ Call
    /\ k \in {"read", "write"}
    /\ io[i].state \in {"connecting", "open"}
    /\ io[i].timer[k] # NoTimer
    /\ heap' = Without(heap, io[i].timer[k])
    /\ io' = [io EXCEPT ![i].timer[k] = NoTimer, ![i].delay[k] = 0]
    /\ UNCHANGED <<now, cur, num, tm, pend, pc, who, from>>

\* io_close by the program.
Close(i) ==
    /\ Call
    /\ io[i].state \in {"connecting", "open"}
    /\ IoClose(i)
    /\ UNCHANGED <<now, cur, num, tm, pend, pc, who, from>>

\* io_send_data notes the wall clock.
Send(i) ==
    /\ Call
    /\ io[i].state = "open"
    /\ io' = [io EXCEPT ![i].write = now]
    /\ UNCHANGED <<now, cur, heap, num, tm, pend, pc, who, from>>

-----------------------------------------------------------------------------
(* Events of the connections.                                              *)

\* io_connect_cb.  The timer of io_connect stays.
Connected(i) ==
    /\ pc = "io"
    /\ io[i].state = "connecting"
    /\ io' = [io EXCEPT ![i].state = "open", ![i].read = now]
    /\ UNCHANGED <<now, cur, heap, num, tm, pend, pc, who, from, calls>>

\* io_accept_cb: a connection that has not read yet last read at the epoch.
Accepted(i) ==
    /\ pc = "io"
    /\ io[i].state = "new"
    /\ io' = [io EXCEPT ![i].state = "open"]
    /\ UNCHANGED <<now, cur, heap, num, tm, pend, pc, who, from, calls>>

\* io_read_cb notes the loop's time.
Receive(i) ==
    /\ pc = "io"
    /\ io[i].state = "open"
    /\ io' = [io EXCEPT ![i].read = cur]
    /\ UNCHANGED <<now, cur, heap, num, tm, pend, pc, who, from, calls>>

-----------------------------------------------------------------------------
(* event_loop_run.                                                         *)

Tick ==
    /\ now < MaxNow /\ pc # "crashed"
    /\ now' = now + 1
    /\ UNCHANGED <<cur, heap, num, tm, pend, io, pc, who, from, calls>>

\* Mutant: the loop does not look at a single timer.
Turn_MoreThanOne ==
    /\ pc = "top"
    /\ cur' = IF num > 1 THEN now ELSE cur
    /\ pc' = IF num > 1 /\ heap # <<>> /\ tm[heap[1]].next <= cur'
              THEN "expire" ELSE "poll"
    /\ UNCHANGED <<now, heap, num, tm, pend, io, who, from, calls>>

\* Mutant: the loop's time is not brought up to date here.
Turn_StaleClock ==
    /\ pc = "top"
    /\ cur' = cur
    /\ pc' = IF num > 0 /\ heap # <<>> /\ tm[heap[1]].next <= cur'
              THEN "expire" ELSE "poll"
    /\ UNCHANGED <<now, heap, num, tm, pend, io, who, from, calls>>

\* The head of the loop.  The first pass starts where the program calls
\* event_loop_run; Init lets it make calls before that.
Turn ==
    /\ pc = "top"
    /\ cur' = IF num > 0 THEN now ELSE cur
    /\ pc' = IF num > 0 /\ heap # <<>> /\ tm[heap[1]].next <= cur'
              THEN "expire" ELSE "poll"
    /\ UNCHANGED <<now, heap, num, tm, pend, io, who, from, calls>>

\* disp->run returns, and the callbacks of connections are called.
Poll ==
    /\ pc = "poll"
    /\ cur' = now
    /\ pc' = "io"
    /\ UNCHANGED <<now, heap, num, tm, pend, io, who, from, calls>>

EndIo ==
    /\ pc = "io"
    /\ pc' = "top"
    /\ UNCHANGED <<now, cur, heap, num, tm, pend, io, who, from, calls>>

\* process_timer reads the top of a heap that its loop has emptied, which is
\* NULL.
EmptyHeap ==
    /\ pc = "expire"
    /\ heap = <<>>
    /\ pc' = "crashed"
    /\ UNCHANGED <<now, cur, heap, num, tm, pend, io, who, from, calls>>

\* Its loop ends at the first timer that is not due.
NotDue ==
    /\ pc = "expire"
    /\ heap # <<>> /\ tm[heap[1]].next > cur
    /\ pc' = "pending"
    /\ UNCHANGED <<now, cur, heap, num, tm, pend, io, who, from, calls>>

\* Mutant: a timer is run one tick early.
Due_Ahead == pc = "expire" /\ heap # <<>> /\ tm[heap[1]].next <= cur + 1

Due == pc = "expire" /\ heap # <<>> /\ tm[heap[1]].next <= cur

RepeatAfter(t) == IF tm[t].repeat = Max32 THEN Max32 ELSE Dec(tm[t].repeat)

\* Mutant: process_timer pops and del_timer pops again.
LastExpiry_PopsTwice ==
    /\ Due
    /\ LET t == heap[1]
       IN  /\ RepeatAfter(t) = 0
           /\ tm' = [tm EXCEPT ![t].repeat = 0, ![t].destory = TRUE, ![t].pending = TRUE]
           /\ pend' = IF tm[t].pending THEN pend ELSE <<t>> \o pend
    /\ num' = Dec(num)
    /\ heap' = HeapPop(HeapPop(heap, Deadlines(tm)), Deadlines(tm))
    /\ UNCHANGED <<now, cur, io, pc, who, from, calls>>

\* del_timer, the destory mark and event_pending.
LastExpiry ==
    /\ Due
    /\ LET t == heap[1]
       IN  /\ RepeatAfter(t) = 0
           /\ tm' = [tm EXCEPT ![t].repeat = 0, ![t].destory = TRUE, ![t].pending = TRUE]
           /\ pend' = IF tm[t].pending THEN pend ELSE <<t>> \o pend
    /\ num' = Dec(num)
    /\ heap' = HeapPop(heap, Deadlines(tm))
    /\ UNCHANGED <<now, cur, io, pc, who, from, calls>>

\* Mutant: the timer is put back without having been taken out.
Expiry_NoPop ==
    /\ Due
    /\ LET t == heap[1]
       IN  /\ RepeatAfter(t) # 0
           /\ tm' = [tm EXCEPT ![t].repeat = RepeatAfter(t),
                               ![t].next = cur + tm[t].delay, ![t].fired = @ + 1]
           /\ heap' = HeapInsert(heap, Deadlines(tm'), t, Capacity)
           /\ who' = t
    /\ pc' = "cb" /\ from' = "expire"
    /\ UNCHANGED <<now, cur, num, pend, io, calls>>

\* The timer is put back and its callback called.
Expiry ==
    /\ Due
    /\ LET t == heap[1]
       IN  /\ RepeatAfter(t) # 0
           /\ tm' = [tm EXCEPT ![t].repeat = RepeatAfter(t),
                               ![t].next = cur + tm[t].delay, ![t].fired = @ + 1]
           /\ heap' = HeapInsert(HeapPop(heap, Deadlines(tm')), Deadlines(tm'), t, Capacity)
           /\ who' = t
    /\ pc' = "cb" /\ from' = "expire"
    /\ UNCHANGED <<now, cur, num, pend, io, calls>>

\* process_pending_event calls the next callback.
CallPending ==
    /\ pc = "pending"
    /\ pend # <<>>
    /\ who' = Head(pend)
    /\ tm' = [tm EXCEPT ![Head(pend)].fired = @ + 1]
    /\ pc' = "cb" /\ from' = "pending"
    /\ UNCHANGED <<now, cur, heap, num, pend, io, calls>>

EndPending ==
    /\ pc = "pending"
    /\ pend = <<>>
    /\ pc' = "top"
    /\ UNCHANGED <<now, cur, heap, num, tm, pend, io, who, from, calls>>

-----------------------------------------------------------------------------
(* The callbacks of timers.                                                *)

\* cur - last, of type uint64_t, is less than d: a time that is after cur
\* makes it huge.
InactiveLessThan(last, d) == last <= cur /\ cur - last < d

\* __read_timeout_cb and __writer_timeout_cb, when there was traffic.
StillActive ==
    /\ pc = "cb"
    /\ LET t == who  i == tm[t].owner  k == tm[t].kind
       IN  /\ k \in {"read", "write"}
           /\ InactiveLessThan(IF k = "read" THEN io[i].read ELSE io[i].write,
                               io[i].delay[k])
           /\ ResetTimer(t, io[i].delay[k])
    /\ pc' = "return"
    /\ UNCHANGED <<now, cur, pend, io, who, from, calls>>

\* The same when there was none, __close_timeout_cb and __connect_timeout_cb.
TimedOut ==
    /\ pc = "cb"
    /\ LET t == who  i == tm[t].owner  k == tm[t].kind
       IN  /\ k # "plain"
           /\ ~(/\ k \in {"read", "write"}
                /\ InactiveLessThan(IF k = "read" THEN io[i].read ELSE io[i].write,
                                    io[i].delay[k]))
           /\ IoClose(i)
    /\ pc' = "return"
    /\ UNCHANGED <<now, cur, num, tm, pend, who, from, calls>>

\* The program's callback returns.
UserReturn ==
    /\ pc = "cb" /\ tm[who].kind = "plain"
    /\ pc' = "return"
    /\ UNCHANGED <<now, cur, heap, num, tm, pend, io, who, from, calls>>

BackToExpire ==
    /\ pc = "return" /\ from = "expire"
    /\ pc' = "expire"
    /\ who' = NoTimer /\ from' = "run"
    /\ UNCHANGED <<now, cur, heap, num, tm, pend, io, calls>>

\* Mutant: the timer is freed, whether its callback has reset it or not.
BackToPending_FreesAnyway ==
    /\ pc = "return" /\ from = "pending"
    /\ tm' = [tm EXCEPT ![who].pending = FALSE, ![who].destory = FALSE,
                        ![who].state = "freed"]
    /\ pend' = Tail(pend)
    /\ pc' = "pending"
    /\ who' = NoTimer /\ from' = "run"
    /\ UNCHANGED <<now, cur, heap, num, io, calls>>

\* event_del frees a timer that its callback has not reset.
BackToPending ==
    /\ pc = "return" /\ from = "pending"
    /\ tm' = [tm EXCEPT ![who].pending = FALSE, ![who].destory = FALSE,
                        ![who].state = IF tm[who].destory THEN "freed" ELSE @]
    /\ pend' = Tail(pend)
    /\ pc' = "pending"
    /\ who' = NoTimer /\ from' = "run"
    /\ UNCHANGED <<now, cur, heap, num, io, calls>>

-----------------------------------------------------------------------------
ProgramStep ==
    \/ \E d \in Delays : \/ \E r \in Repeats : AddTimer(d, r)
                         \/ \E i \in Io : Connect(i, d)
                         \/ \E i \in Io, k \in Kinds \ {"connect"} : SetTimeout(i, k, d)
    \/ \E t \in Timer : DelTimer(t)
    \/ \E i \in Io : Close(i) \/ Send(i) \/ ConnectAtOnce(i)
    \/ \E i \in Io, k \in {"read", "write", "close"} :
          \/ \E d \in Delays : SetTimeoutAgain(i, k, d)
          \/ SetZeroTimeout(i, k)
          \/ RemoveTimeout(i, k)
    \/ \E i \in Io : Connected(i) \/ Accepted(i) \/ Receive(i)

LoopStep ==
    \/ Turn \/ Poll \/ EndIo
    \/ EmptyHeap \/ NotDue \/ LastExpiry \/ Expiry
    \/ CallPending \/ EndPending
    \/ StillActive \/ TimedOut \/ UserReturn \/ BackToExpire \/ BackToPending

Next == Tick \/ ProgramStep \/ LoopStep

Spec == Init /\ [][Next]_vars

\* The clock runs, and so does the loop: every callback returns.
FairSpec == Spec /\ WF_vars(Tick) /\ WF_vars(LoopStep)

-----------------------------------------------------------------------------
TimerRecord ==
    [state : {"none", "live", "freed"}, kind : Kinds \cup {"plain"},
     owner : Io \cup {NoTimer}, delay : Nat, next : Nat, repeat : 0 .. Max32,
     destory : BOOLEAN, pending : BOOLEAN, deleted : BOOLEAN,
     times : 0 .. Max32, born : Nat, fired : Nat]

IoRecord ==
    [state : {"new", "connecting", "open", "closed"}, read : Nat, write : Nat,
     timer : [Kinds -> Timer \cup {NoTimer}], delay : [Kinds -> Nat]]

TypeOK ==
    /\ now \in Nat /\ cur \in Nat /\ cur <= now
    /\ heap \in Seq(Timer) /\ Len(heap) <= Capacity
    /\ num \in 0 .. Max32
    /\ tm \in [Timer -> TimerRecord]
    /\ pend \in Seq(Timer)
    /\ io \in [Io -> IoRecord]
    /\ pc \in {"top", "poll", "io", "expire", "pending", "cb", "return", "crashed"}
    /\ who \in Timer \cup {NoTimer}
    /\ from \in {"run", "expire", "pending"}
    /\ calls \in 0 .. MaxCalls

Members == Nodes(heap)

\* No pointer to a timer that was freed is left in the list of pending events or
\* in a connection, and none to a timer of the program in the heap.  (The timer
\* of a connection is left there if it was there three times, after two calls
\* of reset_timer that popped others.)
NoDanglingTimer ==
    /\ \A t \in Members : tm[t].kind = "plain" => tm[t].state = "live"
    /\ \A a \in 1 .. Len(pend) : tm[pend[a]].state = "live"
    /\ \A i \in Io, k \in Kinds :
          io[i].timer[k] # NoTimer => tm[io[i].timer[k]].state = "live"

\* A timer of the program has run k times only after k timeouts, and never
\* more often than it was asked to.
NeverEarlyNorTooOften ==
    \A t \in Timer :
        tm[t].kind = "plain" =>
            /\ tm[t].fired * tm[t].delay <= cur - tm[t].born
            /\ tm[t].times # Max32 => tm[t].fired <= tm[t].times

\* The loop looks at the heap only while timers_num is not 0.
CountCoversHeap == Len(heap) <= num

\* When a read timer's callback subtracts last_read_time from the loop's time,
\* the difference does not wrap.  (The write timer's may: io_send_data notes
\* the wall clock, and a callback of the same pass may call it.)
ReadClockIsBehind ==
    pc = "cb" /\ tm[who].kind = "read" => io[tm[who].owner].read <= cur

\* Without timeouts to reset and timers to delete, a timer of the program that
\* is not freed waits in one place: once in the heap, or once among the
\* pending events.
WaitsOnce ==
    \A t \in Timer :
        tm[t].state = "live" =>
            Cardinality(Positions(heap, t)) + Cardinality(Positions(pend, t)) = 1

IsDue(t) == \/ t \in Members /\ tm[t].next <= now
            \/ t \in {pend[a] : a \in 1 .. Len(pend)}

\* Beside a timer that repeats for ever, no timer stays due: the loop comes to
\* run it.
DueTimerRuns ==
    \A t \in Timer :
        IsDue(t) /\ (\E u \in Timer : tm[u].state = "live" /\ tm[u].times = Max32)
            ~> ~IsDue(t)

\* src/README.md:388-411 and src/bin/test_timer.c:8-24: a program with a single
\* timer, which is to run once and adds the next one in its callback. A timer
\* that has come due is called.
DueTimerIsCalled == \A t \in Timer : IsDue(t) ~> tm[t].fired > 0

\* A timer that repeats for ever keeps process_timer's loop from running out of
\* timers.
LastingTimerKeepsLoopAlive ==
    pc = "crashed" => \A t \in Timer : tm[t].state = "live" => tm[t].times # Max32

=============================================================================

----------------------------- MODULE Dispatchers -----------------------------
(***************************************************************************)
(* The back ends of src/src/dispatcher as functions of the table they keep *)
(* (for epoll: that the kernel keeps). A table is a sequence of entries,   *)
(* each an fd and the events it is watched for. epoll and select have at   *)
(* most one entry for an fd; poll has as many as were added.               *)
(***************************************************************************)
EXTENDS Integers, Sequences, SequencesExt

BackEnds == {"epoll", "poll", "select"}

Events == {"read", "write"}

Entry(fd, evs) == [fd |-> fd, evs |-> evs]

EntriesOf(table, fd) == {k \in DOMAIN table : table[k].fd = fd}

\* What fd is watched for, over all its entries.
Watched(table, fd) == UNION {table[k].evs : k \in EntriesOf(table, fd)}

FirstEntry(table, fd) == CHOOSE k \in EntriesOf(table, fd) :
                            \A l \in EntriesOf(table, fd) : k <= l

\* EPOLL_CTL_ADD fails for an fd that is there; poll_add does not look;
\* select_add sets one bit.
AddEvent(backEnd, table, fd, e) ==
    IF backEnd = "poll" \/ EntriesOf(table, fd) = {}
    THEN Append(table, Entry(fd, {e}))
    ELSE IF backEnd = "epoll" THEN table
    ELSE LET k == FirstEntry(table, fd)
         IN  [table EXCEPT ![k].evs = @ \cup {e}]

\* poll_del: entry k, the first one of the fd whatever its events, is
\* overwritten with the last one of the table.
MoveLast(table, k) ==
    LET last == Len(table)
    IN  SubSeq([table EXCEPT ![k] = table[last]], 1, last - 1)

\* Mutant: poll_del leaves out moving the last entry and only shortens the table.
DelEvent_Shorten(backEnd, table, fd, e) ==
    IF EntriesOf(table, fd) = {} THEN table
    ELSE IF backEnd = "poll" THEN Front(table)
    ELSE RemoveAt(table, FirstEntry(table, fd))

\* EPOLL_CTL_DEL removes the fd, for whichever event it is called; select_del
\* clears one bit.
DelEvent(backEnd, table, fd, e) ==
    LET k == FirstEntry(table, fd)
    IN  IF EntriesOf(table, fd) = {} THEN table
        ELSE IF backEnd = "poll" THEN MoveLast(table, k)
        ELSE IF backEnd = "epoll" \/ table[k].evs = {e} THEN RemoveAt(table, k)
        ELSE [table EXCEPT ![k].evs = @ \ {e}]

\* The kernel forgets a closed fd if it is epoll's.
CloseFd(backEnd, table, fd) ==
    IF backEnd = "epoll" /\ EntriesOf(table, fd) # {}
    THEN RemoveAt(table, FirstEntry(table, fd))
    ELSE table

\* select fails (EBADF) for ever when one of its fds is not open.
IsBlind(backEnd, table, open) ==
    backEnd = "select" /\ \E k \in DOMAIN table : table[k].fd \notin open

\* The reports of one call of run: the entries that are ready, each with the
\* events found, in the order in which the back end goes through them: poll by
\* their place in the table, select by fd, epoll in any.
Reports(backEnd, table, ready) ==
    LET Found(k) == table[k].evs \cap ready[table[k].fd]
        orders == SetToSeqs({k \in DOMAIN table : Found(k) # {}})
        InOrder(o) ==
            \A m, n \in DOMAIN o : m < n =>
                /\ backEnd = "poll" => o[m] < o[n]
                /\ backEnd = "select" => table[o[m]].fd < table[o[n]].fd
    IN  {[n \in DOMAIN o |-> Entry(table[o[n]].fd, Found(o[n]))] :
            o \in {o \in orders : InOrder(o)}}
==============================================================================

-------------------------------- MODULE Pool --------------------------------
(***************************************************************************)
(* The connection pool, src/packages/pg-rocket/src/pool/pool.ts, with the  *)
(* callers that lease from it and the sockets behind the Connection        *)
(* objects it hands out.                                                   *)
(*                                                                         *)
(* JavaScript runs one callback at a time, so a stretch of code between    *)
(* two awaits is one action.  acquire() has one await, in the branch that  *)
(* opens a connection: that branch is AcquireConnect followed by ConnectOk *)
(* or ConnectFail, with any other callback in between.                     *)
(*                                                                         *)
(* A caller stands for one call site that leases at most one connection at *)
(* a time: Db.runOnConnection, Db.cursor, a transaction, a COPY stream.    *)
(***************************************************************************)
EXTENDS Integers, Sequences, FiniteSets, SequencesExt

CONSTANTS
  Conns,           \* Connection objects (an object is reused once it is gone)
  Callers,         \* call sites that acquire and give back leases
  None,            \* no connection
  MaxConnections,  \* options.max
  IdleTimeout,     \* options.idleTimeoutMs; 0 disables the reaper
  ReaperMinTick,   \* REAPER_MIN_TICK_MS
  MaxTime,         \* bound on the clock
  Failures         \* which faults occur: "connect", "socket", "drop"

ASSUME PoolAssumption ==
  /\ None \notin Conns
  /\ Conns \cap Callers = {}
  /\ MaxConnections \in Nat \ {0}
  /\ IdleTimeout \in Nat
  /\ ReaperMinTick \in Nat \ {0}
  /\ MaxTime \in Nat

\* The owners of module Lease that are not callers.
ASSUME OwnersAssumption == {"pooled", "absent"} \cap Callers = {}

VARIABLES
  idle,         \* the idle stack, oldest first
  idleSince,    \* when each was returned, aligned with idle
  leased,       \* leased connections, and the placeholders of connecting callers
  waiters,      \* callers queued in acquire(), head first
  reaperTimer,  \* time of the interval timer's next tick, or Off
  closed,       \* close() has been called
  now,          \* Date.now()
  request,      \* where each caller stands in acquire()
  lease,        \* the connection each caller was given
  sock,         \* the socket behind each Connection object
  ending        \* the connections close() still waits for

poolVars == <<idle, idleSince, leased, waiters, reaperTimer, closed>>
vars == <<idle, idleSince, leased, waiters, reaperTimer, closed,
          now, request, lease, sock, ending>>

Off == 0

Requests == {"none", "connecting", "waiting", "leased"}

\* "none": no such object; "open": connected; "dead": the transport failed and
\* the object is still referenced; "ending": end() runs, the socket is not yet
\* closed.
Sockets == {"none", "open", "dead", "ending"}

-----------------------------------------------------------------------------
(* Helpers of the class *)

\* get size
Size == Len(idle) + Cardinality(leased)

\* The tick rate: a quarter of the timeout, but never below the minimum.
TickMs == IF IdleTimeout \div 4 > ReaperMinTick THEN IdleTimeout \div 4
                                                ELSE ReaperMinTick

\* scheduleReaper(), called with the new idle list: arms the timer unless it
\* is armed, reaping is disabled or there is nothing to reap.
ScheduleReaper(newIdle) ==
  reaperTimer' = IF IdleTimeout = 0 \/ reaperTimer # Off \/ newIdle = <<>>
                 THEN reaperTimer
                 ELSE now + TickMs

\* The effect of Connection.end() on the sockets of a set of connections: a
\* live one sends Terminate and closes in the background; a dead one returns
\* at once, and the object is garbage.
MutAfterEnd(cs) == sock

AfterEnd(cs) ==
  [c \in Conns |-> IF c \notin cs THEN sock[c]
                   ELSE IF sock[c] = "open" THEN "ending" ELSE "none"]

-----------------------------------------------------------------------------
(* acquire() *)

\* An idle connection exists: the most recently used one is popped.
AcquireIdle(p) ==
  /\ request[p] = "none"
  /\ ~closed
  /\ idle # <<>>
  /\ idle' = Front(idle)
  /\ idleSince' = Front(idleSince)
  /\ leased' = leased \cup {Last(idle)}
  /\ request' = [request EXCEPT ![p] = "leased"]
  /\ lease' = [lease EXCEPT ![p] = Last(idle)]
  /\ UNCHANGED <<waiters, reaperTimer, closed, now, sock, ending>>

\* There is room: a placeholder reserves the slot while the connection is
\* being established.
MutReserve(p) == {}
MutHasRoom == Size <= MaxConnections

Reserve(p) == {p}
HasRoom == Size < MaxConnections

AcquireConnect(p) ==
  /\ request[p] = "none"
  /\ ~closed
  /\ idle = <<>>
  /\ HasRoom
  /\ leased' = leased \cup Reserve(p)
  /\ request' = [request EXCEPT ![p] = "connecting"]
  /\ UNCHANGED <<idle, idleSince, waiters, reaperTimer, closed, now, lease,
                 sock, ending>>

\* No idle connection and no room: queue, at the tail.
MutEnqueue(p) == <<p>> \o waiters
Enqueue(p) == Append(waiters, p)

AcquireWait(p) ==
  /\ request[p] = "none"
  /\ ~closed
  /\ idle = <<>>
  /\ ~HasRoom
  /\ waiters' = Enqueue(p)
  /\ request' = [request EXCEPT ![p] = "waiting"]
  /\ UNCHANGED <<idle, idleSince, leased, reaperTimer, closed, now, lease,
                 sock, ending>>

\* Connection.connect() resolves: the placeholder is swapped for the
\* connection and the caller has its lease, even if close() was called in
\* between.
ConnectOk(p) ==
  /\ request[p] = "connecting"
  /\ \E c \in Conns :
       /\ sock[c] = "none"
       /\ leased' = (leased \ {p}) \cup {c}
       /\ lease' = [lease EXCEPT ![p] = c]
       /\ sock' = [sock EXCEPT ![c] = "open"]
  /\ request' = [request EXCEPT ![p] = "leased"]
  /\ UNCHANGED <<idle, idleSince, waiters, reaperTimer, closed, now, ending>>

\* Connection.connect() rejects: the placeholder goes and acquire() throws.
MutConnectFail(p) ==
  /\ request[p] = "connecting"
  /\ "connect" \in Failures
  /\ request' = [request EXCEPT ![p] = "none"]
  /\ UNCHANGED <<poolVars, now, lease, sock, ending>>

ConnectFail(p) ==
  /\ request[p] = "connecting"
  /\ "connect" \in Failures
  /\ leased' = leased \ {p}
  /\ request' = [request EXCEPT ![p] = "none"]
  /\ UNCHANGED <<idle, idleSince, waiters, reaperTimer, closed, now, lease,
                 sock, ending>>

-----------------------------------------------------------------------------
(* release() and destroy() *)

\* A waiter is queued: the connection goes straight to the head of the queue.
ReleaseToWaiter(p) ==
  LET c == lease[p]
      w == Head(waiters)
  IN  /\ request[p] = "leased"
      /\ waiters # <<>>
      /\ waiters' = Tail(waiters)
      /\ leased' = (leased \ {c}) \cup {c}
      /\ request' = [request EXCEPT ![p] = "none", ![w] = "leased"]
      /\ lease' = [lease EXCEPT ![p] = None, ![w] = c]
      /\ UNCHANGED <<idle, idleSince, reaperTimer, closed, now, sock, ending>>

\* Nobody waits and the pool is closed: the connection is ended, not pooled.
ReleaseToClosed(p) ==
  LET c == lease[p]
  IN  /\ request[p] = "leased"
      /\ waiters = <<>>
      /\ closed
      /\ leased' = leased \ {c}
      /\ sock' = AfterEnd({c})
      /\ request' = [request EXCEPT ![p] = "none"]
      /\ lease' = [lease EXCEPT ![p] = None]
      /\ UNCHANGED <<idle, idleSince, waiters, reaperTimer, closed, now, ending>>

\* Nobody waits: the connection goes on top of the idle stack.
MutPoolingFirst == ~closed
MutPushIdleSince == idleSince' = idleSince

Pooling == waiters = <<>> /\ ~closed
PushIdleSince == idleSince' = Append(idleSince, now)

ReleaseToIdle(p) ==
  LET c == lease[p]
  IN  /\ request[p] = "leased"
      /\ Pooling
      /\ idle' = Append(idle, c)
      /\ PushIdleSince
      /\ leased' = leased \ {c}
      /\ ScheduleReaper(idle')
      /\ request' = [request EXCEPT ![p] = "none"]
      /\ lease' = [lease EXCEPT ![p] = None]
      /\ UNCHANGED <<waiters, closed, now, sock, ending>>

\* destroy() on a lease: Db.releaseOrDestroy when the connection is not usable
\* (a dead socket, or "drop": a live one left mid-protocol), and
\* Transaction.rollback when the ROLLBACK throws.  A leased connection is
\* never in idle (LeaseExclusive), so the splice of destroy() finds nothing.
Destroy(p) ==
  LET c == lease[p]
  IN  /\ request[p] = "leased"
      /\ sock[c] = "dead" \/ "drop" \in Failures
      /\ leased' = leased \ {c}
      /\ sock' = AfterEnd({c})
      /\ request' = [request EXCEPT ![p] = "none"]
      /\ lease' = [lease EXCEPT ![p] = None]
      /\ UNCHANGED <<idle, idleSince, waiters, reaperTimer, closed, now, ending>>

-----------------------------------------------------------------------------
(* close() and the reaper *)

\* The synchronous part of the first close(): everything up to the await.
\* Later calls return at once.
Close ==
  /\ ~closed
  /\ closed' = TRUE
  /\ reaperTimer' = Off
  /\ request' = [p \in Callers |-> IF request[p] = "waiting" THEN "none"
                                                             ELSE request[p]]
  /\ waiters' = <<>>
  /\ ending' = {c \in Range(idle) : sock[c] = "open"}
  /\ sock' = AfterEnd(Range(idle))
  /\ idle' = <<>>
  /\ idleSince' = <<>>
  /\ UNCHANGED <<leased, now, lease>>

\* close() resolves once every end() it started has settled.
CloseResolved == closed /\ ending = {}

\* An idle entry is expired when it is not younger than the cutoff.
MutExpired(since) == since < now - IdleTimeout

Expired(since) == since <= now - IdleTimeout

\* One tick of the interval timer: the expired prefix of the idle stack is
\* ended; the timer stops when nothing is left to watch.
Reap ==
  /\ reaperTimer # Off
  /\ reaperTimer = now
  /\ \E removed \in 0 .. Len(idle) :
       /\ \A i \in 1 .. removed : Expired(idleSince[i])
       /\ removed < Len(idle) => ~Expired(idleSince[removed + 1])
       /\ idle' = SubSeq(idle, removed + 1, Len(idle))
       /\ idleSince' = SubSeq(idleSince, removed + 1, Len(idle))
       /\ sock' = AfterEnd({idle[i] : i \in 1 .. removed})
  /\ reaperTimer' = IF idle' = <<>> THEN Off ELSE now + TickMs
  /\ UNCHANGED <<leased, waiters, closed, now, request, lease, ending>>

-----------------------------------------------------------------------------
(* The environment: the sockets and the clock *)

\* The transport of a connection fails, idle or leased.
SocketDies(c) ==
  /\ "socket" \in Failures
  /\ sock[c] = "open"
  /\ sock' = [sock EXCEPT ![c] = "dead"]
  /\ UNCHANGED <<poolVars, now, request, lease, ending>>

\* A background end() completes.
EndDone(c) ==
  /\ sock[c] = "ending"
  /\ sock' = [sock EXCEPT ![c] = "none"]
  /\ ending' = ending \ {c}
  /\ UNCHANGED <<poolVars, now, request, lease>>

\* Time passes, but not past a timer tick that is due: the event loop is
\* taken to run its timers on time.
Advance ==
  /\ now < MaxTime
  /\ reaperTimer # now \/ reaperTimer = Off
  /\ now' = now + 1
  /\ UNCHANGED <<poolVars, request, lease, sock, ending>>

-----------------------------------------------------------------------------

Init ==
  /\ idle = <<>>
  /\ idleSince = <<>>
  /\ leased = {}
  /\ waiters = <<>>
  /\ reaperTimer = Off
  /\ closed = FALSE
  /\ now = 0
  /\ request = [p \in Callers |-> "none"]
  /\ lease = [p \in Callers |-> None]
  /\ sock = [c \in Conns |-> "none"]
  /\ ending = {}

Acquire(p) == AcquireIdle(p) \/ AcquireConnect(p) \/ AcquireWait(p)
Connect(p) == ConnectOk(p) \/ ConnectFail(p)
Release(p) == ReleaseToWaiter(p) \/ ReleaseToClosed(p) \/ ReleaseToIdle(p)

Next ==
  \/ \E p \in Callers : Acquire(p) \/ Connect(p) \/ Release(p) \/ Destroy(p)
  \/ Close
  \/ Reap
  \/ \E c \in Conns : SocketDies(c) \/ EndDone(c)
  \/ Advance

Spec == Init /\ [][Next]_vars

\* Every connect() settles (TCP and the handshake answer or fail), every lease
\* is given back (the finally blocks of client.ts and transaction.ts), and
\* every background end() completes.  Nothing obliges a caller to acquire, the
\* user to close, or a socket to die.
Fairness ==
  /\ \A p \in Callers : WF_vars(Connect(p))
  /\ \A p \in Callers : WF_vars(Release(p) \/ Destroy(p))
  /\ \A c \in Conns : WF_vars(EndDone(c))

FairSpec == Spec /\ Fairness

-----------------------------------------------------------------------------
(* Properties *)

Connecting == {p \in Callers : request[p] = "connecting"}
Holders == {p \in Callers : request[p] = "leased"}
Held == {lease[p] : p \in Holders}

\* Types of the variables; idle and idleSince stay aligned, as the comment on
\* the field idleSince says.
TypeOK ==
  /\ idle \in Seq(Conns)
  /\ idleSince \in Seq(0 .. MaxTime)
  /\ Len(idleSince) = Len(idle)
  /\ leased \in SUBSET (Conns \cup Callers)
  /\ waiters \in Seq(Callers)
  /\ reaperTimer \in Nat
  /\ closed \in BOOLEAN
  /\ now \in 0 .. MaxTime
  /\ request \in [Callers -> Requests]
  /\ lease \in [Callers -> Conns \cup {None}]
  /\ sock \in [Conns -> Sockets]
  /\ ending \in SUBSET Conns

\* The pool never holds, lends or is opening more than `max` connections, no
\* matter how many acquires race while connections are being established.
CapacityRespected == Size <= MaxConnections

\* The lists agree with who really holds what: `leased` is exactly the
\* connecting callers' placeholders and the connections callers hold, no two
\* callers hold the same connection, and none of those is idle as well.
LeaseExclusive ==
  /\ leased = Connecting \cup Held
  /\ \A p, q \in Holders : lease[p] = lease[q] => p = q
  /\ IsInjective(idle)
  /\ Range(idle) \cap leased = {}

\* No connection leaks: one that has not been ended is idle in the pool or in
\* the hands of a caller, and neither list keeps one that has been ended.
NoOrphans ==
  {c \in Conns : sock[c] \in {"open", "dead"}} = Range(idle) \cup Held

\* A caller never queues beside an idle connection, and the queue holds each
\* waiting caller once.
QueueConsistent ==
  /\ waiters # <<>> => idle = <<>>
  /\ IsInjective(waiters)
  /\ Range(waiters) = {p \in Callers : request[p] = "waiting"}

\* After close() the pool keeps nothing: no idle connection that nobody would
\* end, no waiter that nobody would wake, no timer.
ClosedPoolIsEmpty ==
  closed => idle = <<>> /\ waiters = <<>> /\ reaperTimer = Off

\* While there is something to reap, the interval timer is armed and its next
\* tick is at most one period away.
ReaperArmed ==
  (idle # <<>> /\ IdleTimeout # 0) => reaperTimer \in now .. now + TickMs

\* The header of pool.ts: an idle connection outlives the idle timeout by less
\* than one tick.
ReapedInTime ==
  IdleTimeout # 0 =>
    \A i \in 1 .. Len(idle) : now - idleSince[i] < IdleTimeout + TickMs

\* Every queued caller is eventually served (or rejected by close()): the FIFO
\* queue starves nobody.
EveryWaiterServed ==
  \A p \in Callers : request[p] = "waiting" ~> request[p] # "waiting"

\* After close() every connection is eventually ended, those still leased or
\* still being opened at that moment included, and close() resolves.
ClosedPoolDrains ==
  closed ~> (CloseResolved /\ \A c \in Conns : sock[c] = "none")

\* The lease a connection is under, as module Lease sees it.
Owner ==
  [c \in Conns |->
     IF \E p \in Holders : lease[p] = c
     THEN CHOOSE p \in Holders : lease[p] = c
     ELSE IF c \in Range(idle) THEN "pooled" ELSE "absent"]

\* The pool implements the abstract lease discipline.
Abstract == INSTANCE Lease
              WITH owner <- Owner, shut <- closed,
                   Pooled <- "pooled", Absent <- "absent"

ImplementsLease == Abstract!Spec
=============================================================================

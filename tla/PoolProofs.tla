----------------------------- MODULE PoolProofs -----------------------------
(***************************************************************************)
(* The pool's invariants, proved for every set of connections and callers, *)
(* every `max` and every idle timeout.                                     *)
(***************************************************************************)
EXTENDS Pool, SeqFacts, FiniteSetTheorems

-----------------------------------------------------------------------------
(* Types *)

\* TypeOK alone is not inductive: release() pushes lease[p] on the idle list,
\* so a holder's lease must be known to be a connection.
TypeInv ==
  /\ TypeOK
  /\ \A p \in Holders : lease[p] \in Conns

\* The reaper's period is a positive number of milliseconds.
LEMMA TickMsType == TickMs \in Nat \ {0}
<1>1. IdleTimeout \in Nat /\ ReaperMinTick \in Nat \ {0}
  BY PoolAssumption
<1>2. IdleTimeout \div 4 \in Int
  BY <1>1
<1> QED
  BY <1>1, <1>2 DEF TickMs

\* end() leaves every socket in one of its states.
LEMMA AfterEndType ==
  ASSUME NEW cs, sock \in [Conns -> Sockets]
  PROVE  AfterEnd(cs) \in [Conns -> Sockets]
BY DEF AfterEnd, Sockets

LEMMA TypeInit == Init => TypeInv
<1> SUFFICES ASSUME Init PROVE TypeInv
  OBVIOUS
<1> USE PoolAssumption DEF Init
<1>1. idle \in Seq(Conns) /\ idleSince \in Seq(0 .. MaxTime) /\ waiters \in Seq(Callers)
  BY EmptySeq
<1>2. Len(idleSince) = Len(idle)
  OBVIOUS
<1>3. reaperTimer \in Nat /\ now \in 0 .. MaxTime
  BY DEF Off
<1>6. closed \in BOOLEAN
  BY Zenon
<1>4. request \in [Callers -> Requests] /\ Holders = {}
  BY DEF Requests, Holders
<1>5. lease \in [Callers -> Conns \cup {None}] /\ sock \in [Conns -> Sockets]
  BY DEF Sockets
<1> QED
  BY <1>1, <1>2, <1>3, <1>4, <1>5, <1>6 DEF TypeInv, TypeOK

LEMMA TypeNext == TypeInv /\ [Next]_vars => TypeInv'
<1> SUFFICES ASSUME TypeInv, [Next]_vars PROVE TypeInv'
  OBVIOUS
<1> USE PoolAssumption DEF TypeInv, TypeOK, Holders, Requests
<1>1. ASSUME NEW p \in Callers, AcquireIdle(p) PROVE TypeInv'
  <2>1. Last(idle) \in Conns /\ idle' \in Seq(Conns) /\ Len(idle') = Len(idle) - 1
    BY <1>1, FrontFacts DEF AcquireIdle
  <2>2. idleSince # <<>>
    BY <1>1 DEF AcquireIdle
  <2>3. idleSince' \in Seq(0 .. MaxTime) /\ Len(idleSince') = Len(idleSince) - 1
    BY <1>1, <2>2, FrontFacts DEF AcquireIdle
  <2> QED
    BY <1>1, <2>1, <2>3 DEF AcquireIdle
<1>2. ASSUME NEW p \in Callers, AcquireConnect(p) PROVE TypeInv'
  BY <1>2 DEF AcquireConnect, Reserve
<1>3. ASSUME NEW p \in Callers, AcquireWait(p) PROVE TypeInv'
  <2>1. waiters' \in Seq(Callers)
    BY <1>3, AppendProperties DEF AcquireWait, Enqueue
  <2> QED
    BY <1>3, <2>1 DEF AcquireWait
<1>4. ASSUME NEW p \in Callers, ConnectOk(p) PROVE TypeInv'
  <2>1. PICK c \in Conns : /\ leased' = (leased \ {p}) \cup {c}
                           /\ lease' = [lease EXCEPT ![p] = c]
                           /\ sock' = [sock EXCEPT ![c] = "open"]
    BY <1>4 DEF ConnectOk
  <2>2. sock' \in [Conns -> Sockets]
    BY <2>1 DEF Sockets
  <2> QED
    BY <1>4, <2>1, <2>2 DEF ConnectOk
<1>5. ASSUME NEW p \in Callers, ConnectFail(p) PROVE TypeInv'
  BY <1>5 DEF ConnectFail
<1>6. ASSUME NEW p \in Callers, ReleaseToWaiter(p) PROVE TypeInv'
  <2>1. Head(waiters) \in Callers /\ waiters' \in Seq(Callers)
    BY <1>6, HeadTailProperties DEF ReleaseToWaiter
  <2>2. lease[p] \in Conns
    BY <1>6 DEF ReleaseToWaiter
  <2>3. lease' \in [Callers -> Conns \cup {None}] /\ request' \in [Callers -> Requests]
    BY <1>6, <2>1, <2>2 DEF ReleaseToWaiter
  <2>4. \A q \in Callers : request'[q] = "leased" => lease'[q] \in Conns
    BY <1>6, <2>1, <2>2 DEF ReleaseToWaiter
  <2> QED
    BY <1>6, <2>1, <2>2, <2>3, <2>4 DEF ReleaseToWaiter
<1>7. ASSUME NEW p \in Callers, ReleaseToClosed(p) PROVE TypeInv'
  <2>1. sock' \in [Conns -> Sockets]
    BY <1>7, AfterEndType DEF ReleaseToClosed
  <2> QED
    BY <1>7, <2>1 DEF ReleaseToClosed
<1>8. ASSUME NEW p \in Callers, ReleaseToIdle(p) PROVE TypeInv'
  <2>1. lease[p] \in Conns /\ now \in 0 .. MaxTime
    BY <1>8 DEF ReleaseToIdle
  <2>2. idle' \in Seq(Conns) /\ Len(idle') = Len(idle) + 1
    BY <1>8, <2>1, AppendProperties DEF ReleaseToIdle
  <2>3. idleSince' \in Seq(0 .. MaxTime) /\ Len(idleSince') = Len(idleSince) + 1
    BY <1>8, <2>1, AppendProperties DEF ReleaseToIdle, PushIdleSince
  <2>4. reaperTimer' \in Nat
    BY <1>8, TickMsType DEF ReleaseToIdle, ScheduleReaper
  <2> QED
    BY <1>8, <2>2, <2>3, <2>4 DEF ReleaseToIdle
<1>9. ASSUME NEW p \in Callers, Destroy(p) PROVE TypeInv'
  <2>1. sock' \in [Conns -> Sockets]
    BY <1>9, AfterEndType DEF Destroy
  <2> QED
    BY <1>9, <2>1 DEF Destroy
<1>10. CASE Close
  <2>1. sock' \in [Conns -> Sockets]
    BY <1>10, AfterEndType DEF Close
  <2>2. idle' \in Seq(Conns) /\ idleSince' \in Seq(0 .. MaxTime) /\ waiters' \in Seq(Callers)
    BY <1>10, EmptySeq DEF Close
  <2>3. ending' \in SUBSET Conns
    BY <1>10, RangeOfSeq DEF Close
  <2>4. request' \in [Callers -> Requests]
    BY <1>10 DEF Close
  <2>5. \A p \in Callers : request'[p] = "leased" => request[p] = "leased"
    BY <1>10 DEF Close
  <2>6. Len(idleSince') = Len(idle')
    BY <1>10 DEF Close
  <2> QED
    BY <1>10, <2>1, <2>2, <2>3, <2>4, <2>5, <2>6 DEF Close, Off
<1>11. CASE Reap
  <2>1. PICK removed \in 0 .. Len(idle) :
          /\ idle' = SubSeq(idle, removed + 1, Len(idle))
          /\ idleSince' = SubSeq(idleSince, removed + 1, Len(idle))
          /\ sock' = AfterEnd({idle[i] : i \in 1 .. removed})
    BY <1>11 DEF Reap
  <2>2. sock' \in [Conns -> Sockets]
    BY <2>1, AfterEndType
  <2>3. idle' \in Seq(Conns) /\ Len(idle') = Len(idle) - removed
    BY <2>1, SuffixFacts
  <2>4. idleSince' \in Seq(0 .. MaxTime) /\ Len(idleSince') = Len(idleSince) - removed
    BY <2>1, SuffixFacts
  <2>5. reaperTimer' \in Nat
    BY <1>11, TickMsType DEF Reap, Off
  <2> QED
    BY <1>11, <2>2, <2>3, <2>4, <2>5 DEF Reap
<1>12. ASSUME NEW c \in Conns, SocketDies(c) PROVE TypeInv'
  BY <1>12 DEF SocketDies, Sockets, poolVars
<1>13. ASSUME NEW c \in Conns, EndDone(c) PROVE TypeInv'
  BY <1>13 DEF EndDone, Sockets, poolVars
<1>14. CASE Advance
  BY <1>14 DEF Advance, poolVars
<1>15. CASE UNCHANGED vars
  BY <1>15 DEF vars
<1> QED
  BY <1>1, <1>2, <1>3, <1>4, <1>5, <1>6, <1>7, <1>8, <1>9, <1>10, <1>11,
     <1>12, <1>13, <1>14, <1>15
     DEF Next, Acquire, Connect, Release

\* The variables of the pool always have their types, and the parallel lists
\* idle and idleSince of pool.ts stay aligned.
THEOREM TypeCorrect == Spec => []TypeOK
<1>1. TypeInv => TypeOK
  BY DEF TypeInv
<1> QED
  BY TypeInit, TypeNext, <1>1, PTL DEF Spec

-----------------------------------------------------------------------------
(* The queue of waiters, and what close() leaves behind *)

QueueInv == QueueConsistent /\ ClosedPoolIsEmpty

LEMMA QueueInit == Init => QueueInv
<1> SUFFICES ASSUME Init PROVE QueueInv
  OBVIOUS
<1>1. Range(waiters) = {} /\ IsInjective(waiters)
  BY DEF Init, Range, IsInjective
<1> QED
  BY <1>1 DEF Init, QueueInv, QueueConsistent, ClosedPoolIsEmpty

LEMMA QueueNext == TypeInv /\ QueueInv /\ [Next]_vars => QueueInv'
<1> SUFFICES ASSUME TypeInv, QueueInv, [Next]_vars PROVE QueueInv'
  OBVIOUS
<1> USE DEF TypeInv, TypeOK, QueueInv, QueueConsistent, ClosedPoolIsEmpty
<1>0. ASSUME waiters' = waiters,
             \A p \in Callers : request'[p] = "waiting" <=> request[p] = "waiting"
      PROVE  /\ IsInjective(waiters')
             /\ Range(waiters') = {p \in Callers : request'[p] = "waiting"}
  BY <1>0
<1>1. ASSUME NEW p \in Callers, AcquireIdle(p) PROVE QueueInv'
  BY <1>0, <1>1 DEF AcquireIdle
<1>2. ASSUME NEW p \in Callers, AcquireConnect(p) PROVE QueueInv'
  BY <1>0, <1>2 DEF AcquireConnect
<1>3. ASSUME NEW p \in Callers, AcquireWait(p) PROVE QueueInv'
  <2>1. p \notin Range(waiters)
    BY <1>3 DEF AcquireWait
  <2>2. IsInjective(waiters') /\ Range(waiters') = Range(waiters) \cup {p}
    BY <1>3, <2>1, AppendDistinct DEF AcquireWait, Enqueue
  <2>3. {q \in Callers : request'[q] = "waiting"}
          = {q \in Callers : request[q] = "waiting"} \cup {p}
    BY <1>3 DEF AcquireWait
  <2> QED
    BY <1>3, <2>2, <2>3 DEF AcquireWait
<1>4. ASSUME NEW p \in Callers, ConnectOk(p) PROVE QueueInv'
  BY <1>0, <1>4 DEF ConnectOk
<1>5. ASSUME NEW p \in Callers, ConnectFail(p) PROVE QueueInv'
  BY <1>0, <1>5 DEF ConnectFail
<1>6. ASSUME NEW p \in Callers, ReleaseToWaiter(p) PROVE QueueInv'
  <2>1. /\ Head(waiters) \in Range(waiters)
        /\ IsInjective(waiters')
        /\ Range(waiters') = Range(waiters) \ {Head(waiters)}
    BY <1>6, TailDistinct DEF ReleaseToWaiter
  <2>2. {q \in Callers : request'[q] = "waiting"}
          = {q \in Callers : request[q] = "waiting"} \ {Head(waiters)}
    BY <1>6, <2>1 DEF ReleaseToWaiter
  <2> QED
    BY <1>6, <2>1, <2>2 DEF ReleaseToWaiter
<1>7. ASSUME NEW p \in Callers, ReleaseToClosed(p) PROVE QueueInv'
  BY <1>0, <1>7 DEF ReleaseToClosed
<1>8. ASSUME NEW p \in Callers, ReleaseToIdle(p) PROVE QueueInv'
  BY <1>0, <1>8 DEF ReleaseToIdle, Pooling
<1>9. ASSUME NEW p \in Callers, Destroy(p) PROVE QueueInv'
  BY <1>0, <1>9 DEF Destroy
<1>10. CASE Close
  <2>1. Range(<<>>) = {} /\ IsInjective(<<>>)
    BY DEF Range, IsInjective
  <2>2. {q \in Callers : request'[q] = "waiting"} = {}
    BY <1>10 DEF Close
  <2> QED
    BY <1>10, <2>1, <2>2 DEF Close
<1>11. CASE Reap
  <2>1. ~closed /\ (idle = <<>> => idle' = <<>>)
    BY <1>11, SubSeqEmpty DEF Reap
  <2> QED
    BY <1>0, <1>11, <2>1 DEF Reap
<1>12. ASSUME NEW c \in Conns, SocketDies(c) PROVE QueueInv'
  BY <1>0, <1>12 DEF SocketDies, poolVars
<1>13. ASSUME NEW c \in Conns, EndDone(c) PROVE QueueInv'
  BY <1>0, <1>13 DEF EndDone, poolVars
<1>14. CASE Advance
  BY <1>0, <1>14 DEF Advance, poolVars
<1>15. CASE UNCHANGED vars
  BY <1>0, <1>15 DEF vars
<1> QED
  BY <1>1, <1>2, <1>3, <1>4, <1>5, <1>6, <1>7, <1>8, <1>9, <1>10, <1>11,
     <1>12, <1>13, <1>14, <1>15
     DEF Next, Acquire, Connect, Release

\* A caller queues only while no connection is idle, each waiter is queued
\* once, and a closed pool keeps no connection, waiter or timer.
THEOREM QueueCorrect == Spec => [](QueueConsistent /\ ClosedPoolIsEmpty)
<1>1. TypeInv /\ QueueInv => QueueConsistent /\ ClosedPoolIsEmpty
  BY DEF QueueInv
<1> QED
  BY TypeInit, TypeNext, QueueInit, QueueNext, <1>1, PTL DEF Spec

-----------------------------------------------------------------------------
(* Exclusive leases *)

\* LeaseExclusive and NoOrphans, element by element.  They are proved together:
\* that the connection ConnectOk creates is in none of the lists follows from
\* NoOrphans.
LeaseInv ==
  /\ IsInjective(idle)
  /\ Range(idle) \in SUBSET Conns
  /\ \A p, q \in Callers :
       request[p] = "leased" /\ request[q] = "leased" /\ lease[p] = lease[q] => p = q
  /\ \A p \in Callers : p \in leased <=> request[p] = "connecting"
  /\ \A c \in Conns :
       c \in leased <=> \E p \in Callers : request[p] = "leased" /\ lease[p] = c
  /\ \A c \in Conns : c \in Range(idle) => c \notin leased
  /\ \A c \in Conns :
       sock[c] \in {"open", "dead"} <=> c \in Range(idle) \/ c \in leased

LEMMA LeaseInvImplies == TypeInv /\ LeaseInv => LeaseExclusive /\ NoOrphans
<1> SUFFICES ASSUME TypeInv, LeaseInv PROVE LeaseExclusive /\ NoOrphans
  OBVIOUS
<1>1. leased = Connecting \cup Held
  BY PoolAssumption DEF TypeInv, TypeOK, LeaseInv, Connecting, Held, Holders
<1>2. Range(idle) \cap leased = {}
  BY DEF LeaseInv
<1>3. Held = {c \in Conns : c \in leased}
  BY DEF TypeInv, LeaseInv, Held, Holders
<1>4. {c \in Conns : sock[c] \in {"open", "dead"}} = Range(idle) \cup Held
  BY <1>3 DEF LeaseInv
<1> QED
  BY <1>1, <1>2, <1>4 DEF LeaseInv, LeaseExclusive, NoOrphans, Holders

LEMMA LeaseInit == Init => LeaseInv
<1>1. Range(<<>>) = {} /\ IsInjective(<<>>)
  BY DEF Range, IsInjective
<1> QED
  BY <1>1 DEF Init, LeaseInv

LEMMA LeaseNext == TypeInv /\ QueueInv /\ LeaseInv /\ [Next]_vars => LeaseInv'
<1> SUFFICES ASSUME TypeInv, QueueInv, LeaseInv, [Next]_vars PROVE LeaseInv'
  OBVIOUS
<1> USE PoolAssumption DEF TypeInv, TypeOK, LeaseInv, Holders
<1>1. ASSUME NEW p \in Callers, AcquireIdle(p) PROVE LeaseInv'
  <2>1. /\ Last(idle) \in Conns
        /\ Last(idle) \in Range(idle)
        /\ IsInjective(idle')
        /\ Range(idle') = Range(idle) \ {Last(idle)}
    BY <1>1, FrontFacts, FrontDistinct DEF AcquireIdle
  <2> QED
    BY <1>1, <2>1 DEF AcquireIdle
<1>2. ASSUME NEW p \in Callers, AcquireConnect(p) PROVE LeaseInv'
  BY <1>2 DEF AcquireConnect, Reserve
<1>3. ASSUME NEW p \in Callers, AcquireWait(p) PROVE LeaseInv'
  BY <1>3 DEF AcquireWait
<1>4. ASSUME NEW p \in Callers, ConnectOk(p) PROVE LeaseInv'
  <2>1. PICK c \in Conns : /\ sock[c] = "none"
                           /\ leased' = (leased \ {p}) \cup {c}
                           /\ lease' = [lease EXCEPT ![p] = c]
                           /\ sock' = [sock EXCEPT ![c] = "open"]
    BY <1>4 DEF ConnectOk
  <2>2. c \notin Range(idle) /\ c \notin leased
    BY <2>1
  <2> QED
    BY <1>4, <2>1, <2>2 DEF ConnectOk
<1>5. ASSUME NEW p \in Callers, ConnectFail(p) PROVE LeaseInv'
  BY <1>5 DEF ConnectFail
<1>6. ASSUME NEW p \in Callers, ReleaseToWaiter(p) PROVE LeaseInv'
  <2>1. Head(waiters) \in Callers /\ request[Head(waiters)] = "waiting"
    BY <1>6, TailDistinct DEF ReleaseToWaiter, QueueInv, QueueConsistent
  <2>2. Head(waiters) # p /\ leased' = leased
    BY <1>6, <2>1 DEF ReleaseToWaiter
  <2>3. \A q \in Callers : /\ request'[q] = "leased" <=>
                                (q # p /\ request[q] = "leased") \/ q = Head(waiters)
                           /\ request'[q] = "connecting" <=> request[q] = "connecting"
    BY <1>6, <2>1, <2>2 DEF ReleaseToWaiter
  <2>4. \A q \in Callers \ {p, Head(waiters)} : lease'[q] = lease[q]
    BY <1>6 DEF ReleaseToWaiter
  <2>5. lease'[Head(waiters)] = lease[p] /\ request[p] = "leased"
    BY <1>6, <2>1, <2>2 DEF ReleaseToWaiter
  <2>6. UNCHANGED <<idle, sock, leased>>
    BY <1>6, <2>2 DEF ReleaseToWaiter
  <2>7. \A c \in Conns :
          (\E q \in Callers : request'[q] = "leased" /\ lease'[q] = c)
            <=> (\E q \in Callers : request[q] = "leased" /\ lease[q] = c)
    BY <2>1, <2>2, <2>3, <2>4, <2>5
  <2>8. \A q, r \in Callers :
          request'[q] = "leased" /\ request'[r] = "leased" /\ lease'[q] = lease'[r] => q = r
    BY <2>1, <2>2, <2>3, <2>4, <2>5
  <2> QED
    BY <2>3, <2>6, <2>7, <2>8
<1>7. ASSUME NEW p \in Callers, ReleaseToClosed(p) PROVE LeaseInv'
  <2>1. lease[p] \in Conns /\ lease[p] \in leased
    BY <1>7 DEF ReleaseToClosed
  <2>2. sock'[lease[p]] \notin {"open", "dead"}
    BY <1>7, <2>1 DEF ReleaseToClosed, AfterEnd
  <2>3. \A c \in Conns : c # lease[p] => sock'[c] = sock[c]
    BY <1>7, <2>1 DEF ReleaseToClosed, AfterEnd
  <2>4. \A q \in Callers : /\ request'[q] = "leased" <=> q # p /\ request[q] = "leased"
                           /\ request'[q] = "connecting" <=> request[q] = "connecting"
    BY <1>7 DEF ReleaseToClosed
  <2>5. \A q \in Callers \ {p} : lease'[q] = lease[q]
    BY <1>7 DEF ReleaseToClosed
  <2>6. request[p] = "leased" /\ leased' = leased \ {lease[p]} /\ idle' = idle
    BY <1>7 DEF ReleaseToClosed
  <2>7. \A c \in Conns :
          (\E q \in Callers : request'[q] = "leased" /\ lease'[q] = c)
            <=> c # lease[p] /\ (\E q \in Callers : request[q] = "leased" /\ lease[q] = c)
    <3>1. \A q \in Callers \ {p} : request[q] = "leased" => lease[q] # lease[p]
      BY <2>6
    <3> HIDE DEF LeaseInv, TypeInv, TypeOK
    <3> QED
      BY <3>1, <2>4, <2>5, <2>6
  <2>8. \A q, r \in Callers :
          request'[q] = "leased" /\ request'[r] = "leased" /\ lease'[q] = lease'[r] => q = r
    BY <2>4, <2>5
  <2>9. \A q \in Callers : q \in leased' <=> request'[q] = "connecting"
    BY <2>1, <2>4, <2>6
  <2>10. \A c \in Conns : /\ c \in leased' <=> c # lease[p] /\ c \in leased
                          /\ sock'[c] \in {"open", "dead"}
                               <=> c # lease[p] /\ sock[c] \in {"open", "dead"}
    BY <2>2, <2>3, <2>6
  <2>11. lease[p] \notin Range(idle)
    BY <2>1
  <2> QED
    BY <2>6, <2>7, <2>8, <2>9, <2>10, <2>11
<1>8. ASSUME NEW p \in Callers, ReleaseToIdle(p) PROVE LeaseInv'
  <2>1. lease[p] \in Conns /\ lease[p] \in leased /\ lease[p] \notin Range(idle)
    BY <1>8 DEF ReleaseToIdle
  <2>2. IsInjective(idle') /\ Range(idle') = Range(idle) \cup {lease[p]}
    BY <1>8, <2>1, AppendDistinct DEF ReleaseToIdle
  <2> QED
    BY <1>8, <2>1, <2>2 DEF ReleaseToIdle
<1>9. ASSUME NEW p \in Callers, Destroy(p) PROVE LeaseInv'
  <2>1. lease[p] \in Conns /\ lease[p] \in leased
    BY <1>9 DEF Destroy
  <2>2. sock'[lease[p]] \notin {"open", "dead"}
    BY <1>9, <2>1 DEF Destroy, AfterEnd
  <2>3. \A c \in Conns : c # lease[p] => sock'[c] = sock[c]
    BY <1>9, <2>1 DEF Destroy, AfterEnd
  <2>4. \A q \in Callers : /\ request'[q] = "leased" <=> q # p /\ request[q] = "leased"
                           /\ request'[q] = "connecting" <=> request[q] = "connecting"
    BY <1>9 DEF Destroy
  <2>5. \A q \in Callers \ {p} : lease'[q] = lease[q]
    BY <1>9 DEF Destroy
  <2>6. request[p] = "leased" /\ leased' = leased \ {lease[p]} /\ idle' = idle
    BY <1>9 DEF Destroy
  <2>7. \A c \in Conns :
          (\E q \in Callers : request'[q] = "leased" /\ lease'[q] = c)
            <=> c # lease[p] /\ (\E q \in Callers : request[q] = "leased" /\ lease[q] = c)
    <3>1. \A q \in Callers \ {p} : request[q] = "leased" => lease[q] # lease[p]
      BY <2>6
    <3> HIDE DEF LeaseInv, TypeInv, TypeOK
    <3> QED
      BY <3>1, <2>4, <2>5, <2>6
  <2>8. \A q, r \in Callers :
          request'[q] = "leased" /\ request'[r] = "leased" /\ lease'[q] = lease'[r] => q = r
    BY <2>4, <2>5
  <2>9. \A q \in Callers : q \in leased' <=> request'[q] = "connecting"
    BY <2>1, <2>4, <2>6
  <2>10. \A c \in Conns : /\ c \in leased' <=> c # lease[p] /\ c \in leased
                          /\ sock'[c] \in {"open", "dead"}
                               <=> c # lease[p] /\ sock[c] \in {"open", "dead"}
    BY <2>2, <2>3, <2>6
  <2>11. lease[p] \notin Range(idle)
    BY <2>1
  <2> QED
    BY <2>6, <2>7, <2>8, <2>9, <2>10, <2>11
<1>10. CASE Close
  <2>1. Range(idle') = {} /\ IsInjective(idle')
    BY <1>10 DEF Close, Range, IsInjective
  <2>2. \A c \in Range(idle) : sock'[c] \notin {"open", "dead"}
    BY <1>10 DEF Close, AfterEnd
  <2>3. \A c \in Conns \ Range(idle) : sock'[c] = sock[c]
    BY <1>10 DEF Close, AfterEnd
  <2>4. \A p \in Callers : /\ request'[p] = "leased" <=> request[p] = "leased"
                           /\ request'[p] = "connecting" <=> request[p] = "connecting"
    BY <1>10 DEF Close
  <2> QED
    BY <1>10, <2>1, <2>2, <2>3, <2>4 DEF Close
<1>11. CASE Reap
  <2>1. PICK removed \in 0 .. Len(idle) :
          /\ idle' = SubSeq(idle, removed + 1, Len(idle))
          /\ sock' = AfterEnd({idle[i] : i \in 1 .. removed})
    BY <1>11 DEF Reap
  <2> DEFINE gone == {idle[i] : i \in 1 .. removed}
  <2>2. IsInjective(idle') /\ Range(idle') = Range(idle) \ gone
    <3>1. idle \in Seq(Conns) /\ IsInjective(idle)
      OBVIOUS
    <3> HIDE DEF LeaseInv, TypeInv, TypeOK
    <3> QED
      BY <2>1, <3>1, SuffixDistinct
  <2>3. gone \in SUBSET Range(idle)
    BY LenProperties DEF Range
  <2>4. \A c \in Conns : /\ c \in gone => sock'[c] \notin {"open", "dead"}
                         /\ c \notin gone => sock'[c] = sock[c]
    BY <2>1 DEF AfterEnd
  <2> QED
    BY <1>11, <2>2, <2>3, <2>4 DEF Reap
<1>12. ASSUME NEW c \in Conns, SocketDies(c) PROVE LeaseInv'
  BY <1>12 DEF SocketDies, poolVars
<1>13. ASSUME NEW c \in Conns, EndDone(c) PROVE LeaseInv'
  BY <1>13 DEF EndDone, poolVars
<1>14. CASE Advance
  BY <1>14 DEF Advance, poolVars
<1>15. CASE UNCHANGED vars
  BY <1>15 DEF vars
<1> QED
  BY <1>1, <1>2, <1>3, <1>4, <1>5, <1>6, <1>7, <1>8, <1>9, <1>10, <1>11,
     <1>12, <1>13, <1>14, <1>15
     DEF Next, Acquire, Connect, Release

\* No connection is ever in two hands, or idle and leased at once, and none
\* that was not ended falls out of the pool's lists.
THEOREM LeaseCorrect == Spec => [](LeaseExclusive /\ NoOrphans)
BY TypeInit, TypeNext, QueueInit, QueueNext, LeaseInit, LeaseNext, LeaseInvImplies,
   PTL DEF Spec

-----------------------------------------------------------------------------
(* Capacity *)

\* `leased` is finite because it starts empty and grows by one at a time; no
\* bound on the number of callers is needed.
CapacityInv == IsFiniteSet(leased) /\ CapacityRespected

LEMMA CapacityInit == Init => CapacityInv
<1> SUFFICES ASSUME Init PROVE CapacityInv
  OBVIOUS
<1>1. leased = {} /\ Len(idle) = 0
  BY DEF Init
<1> QED
  BY <1>1, FS_EmptySet, PoolAssumption DEF CapacityInv, CapacityRespected, Size

LEMMA CapacityNext ==
  TypeInv /\ QueueInv /\ LeaseInv /\ CapacityInv /\ [Next]_vars => CapacityInv'
<1> SUFFICES ASSUME TypeInv, QueueInv, LeaseInv, CapacityInv, [Next]_vars
             PROVE  CapacityInv'
  OBVIOUS
<1> USE PoolAssumption DEF CapacityInv, CapacityRespected, Size
<1>a. Cardinality(leased) \in Nat /\ Len(idle) \in Nat
  BY FS_CardinalityType, LenProperties DEF TypeInv, TypeOK
<1>b. ASSUME UNCHANGED <<idle, leased>> PROVE CapacityInv'
  BY <1>b
\* A lease given up, or a placeholder taken back.
<1>c. ASSUME NEW x, x \in leased, leased' = leased \ {x}, idle' = idle
      PROVE  CapacityInv'
  <2>1. IsFiniteSet(leased') /\ Cardinality(leased') = Cardinality(leased) - 1
    BY <1>c, FS_RemoveElement
  <2> QED
    BY <2>1, <1>a, <1>c
<1>1. ASSUME NEW p \in Callers, AcquireIdle(p) PROVE CapacityInv'
  <2>1. Last(idle) \in Range(idle) /\ Last(idle) \in Conns /\ Len(idle') = Len(idle) - 1
    BY <1>1, FrontFacts DEF AcquireIdle, TypeInv, TypeOK
  <2>2. IsFiniteSet(leased') /\ Cardinality(leased') = Cardinality(leased) + 1
    BY <1>1, <2>1, FS_AddElement DEF AcquireIdle, LeaseInv
  <2> QED
    BY <2>1, <2>2, <1>a
<1>2. ASSUME NEW p \in Callers, AcquireConnect(p) PROVE CapacityInv'
  <2>1. IsFiniteSet(leased') /\ Cardinality(leased') <= Cardinality(leased) + 1
                             /\ Cardinality(leased') \in Nat
    BY <1>2, <1>a, FS_AddElement DEF AcquireConnect, Reserve
  <2>2. Len(idle') = Len(idle) /\ Len(idle) + Cardinality(leased) < MaxConnections
    BY <1>2 DEF AcquireConnect, HasRoom
  <2> QED
    BY <2>1, <2>2, <1>a
<1>3. ASSUME NEW p \in Callers, AcquireWait(p) PROVE CapacityInv'
  BY <1>b, <1>3 DEF AcquireWait
<1>4. ASSUME NEW p \in Callers, ConnectOk(p) PROVE CapacityInv'
  <2>1. PICK c \in Conns : leased' = (leased \ {p}) \cup {c}
    BY <1>4 DEF ConnectOk
  <2>2. p \in leased
    BY <1>4 DEF ConnectOk, LeaseInv
  <2>3. IsFiniteSet(leased \ {p}) /\ Cardinality(leased \ {p}) = Cardinality(leased) - 1
    BY <2>2, FS_RemoveElement
  <2>4. /\ IsFiniteSet(leased')
        /\ Cardinality(leased') = IF c \in leased \ {p} THEN Cardinality(leased \ {p})
                                                       ELSE Cardinality(leased \ {p}) + 1
    BY <2>1, <2>3, FS_AddElement
  <2>5. idle' = idle
    BY <1>4 DEF ConnectOk
  <2> QED
    BY <2>3, <2>4, <2>5, <1>a
<1>5. ASSUME NEW p \in Callers, ConnectFail(p) PROVE CapacityInv'
  BY <1>c, <1>5 DEF ConnectFail, LeaseInv
<1>6. ASSUME NEW p \in Callers, ReleaseToWaiter(p) PROVE CapacityInv'
  <2>1. lease[p] \in leased
    BY <1>6 DEF ReleaseToWaiter, LeaseInv, TypeInv, Holders
  <2> QED
    BY <1>b, <1>6, <2>1 DEF ReleaseToWaiter
<1>7. ASSUME NEW p \in Callers, ReleaseToClosed(p) PROVE CapacityInv'
  <2>1. lease[p] \in leased
    BY <1>7 DEF ReleaseToClosed, LeaseInv, TypeInv, Holders
  <2> QED
    BY <1>c, <1>7, <2>1 DEF ReleaseToClosed
<1>8. ASSUME NEW p \in Callers, ReleaseToIdle(p) PROVE CapacityInv'
  <2>1. lease[p] \in leased /\ lease[p] \in Conns
    BY <1>8 DEF ReleaseToIdle, LeaseInv, TypeInv, Holders
  <2>2. Len(idle') = Len(idle) + 1
    BY <1>8, <2>1, AppendProperties DEF ReleaseToIdle, TypeInv, TypeOK
  <2>3. IsFiniteSet(leased') /\ Cardinality(leased') = Cardinality(leased) - 1
    BY <1>8, <2>1, FS_RemoveElement DEF ReleaseToIdle
  <2> QED
    BY <2>2, <2>3, <1>a
<1>9. ASSUME NEW p \in Callers, Destroy(p) PROVE CapacityInv'
  <2>1. lease[p] \in leased
    BY <1>9 DEF Destroy, LeaseInv, TypeInv, Holders
  <2> QED
    BY <1>c, <1>9, <2>1 DEF Destroy
<1>10. CASE Close
  <2>1. Len(idle') = 0 /\ leased' = leased
    BY <1>10 DEF Close
  <2> QED
    BY <2>1, <1>a
<1>11. CASE Reap
  <2>1. leased' = leased
    BY <1>11 DEF Reap
  <2>2. PICK removed \in 0 .. Len(idle) : idle' = SubSeq(idle, removed + 1, Len(idle))
    BY <1>11 DEF Reap
  <2>3. Len(idle') = Len(idle) - removed
    BY <2>2, SuffixFacts DEF TypeInv, TypeOK
  <2>4. Len(idle') <= Len(idle) /\ Len(idle') \in Nat
    BY <2>3, <1>a
  <2> QED
    BY <2>1, <2>4, <1>a
<1>12. ASSUME NEW c \in Conns, SocketDies(c) PROVE CapacityInv'
  BY <1>b, <1>12 DEF SocketDies, poolVars
<1>13. ASSUME NEW c \in Conns, EndDone(c) PROVE CapacityInv'
  BY <1>b, <1>13 DEF EndDone, poolVars
<1>14. CASE Advance
  BY <1>b, <1>14 DEF Advance, poolVars
<1>15. CASE UNCHANGED vars
  BY <1>b, <1>15 DEF vars
<1> QED
  BY <1>1, <1>2, <1>3, <1>4, <1>5, <1>6, <1>7, <1>8, <1>9, <1>10, <1>11,
     <1>12, <1>13, <1>14, <1>15
     DEF Next, Acquire, Connect, Release

\* However many callers race, idle connections, leases and connections being
\* opened never exceed `max`.
THEOREM CapacityCorrect == Spec => []CapacityRespected
<1>1. CapacityInv => CapacityRespected
  BY DEF CapacityInv
<1> QED
  BY TypeInit, TypeNext, QueueInit, QueueNext, LeaseInit, LeaseNext,
     CapacityInit, CapacityNext, <1>1, PTL DEF Spec

-----------------------------------------------------------------------------
(* The reaper *)

\* The idle stack is ordered by age, and at the last tick (one period before
\* the next one) nothing in it had expired.  Without the ordering the claim
\* would fail: reap() stops at the first entry that has not expired.
TimerInv ==
  /\ \A i, j \in 1 .. Len(idle) : i <= j => idleSince[i] <= idleSince[j]
  /\ \A i \in 1 .. Len(idle) : idleSince[i] <= now
  /\ idle # <<>> /\ IdleTimeout # 0 => reaperTimer # Off
  /\ reaperTimer # Off =>
       /\ IdleTimeout # 0
       /\ reaperTimer \in now .. now + TickMs
       /\ \A i \in 1 .. Len(idle) : idleSince[i] > reaperTimer - TickMs - IdleTimeout

LEMMA TimerInit == Init => TimerInv
BY DEF Init, TimerInv

LEMMA TimerNext == TypeInv /\ TimerInv /\ [Next]_vars => TimerInv'
<1> SUFFICES ASSUME TypeInv, TimerInv, [Next]_vars PROVE TimerInv'
  OBVIOUS
<1> USE PoolAssumption, TickMsType DEF TimerInv, Off
<1>a. /\ Len(idle) \in Nat /\ Len(idleSince) = Len(idle)
      /\ now \in Nat /\ reaperTimer \in Nat
      /\ \A i \in 1 .. Len(idle) : idleSince[i] \in Nat
      /\ idle = <<>> <=> Len(idle) = 0
  BY LenProperties, ElementOfSeq, EmptySeq DEF TypeInv, TypeOK
<1>b. ASSUME UNCHANGED <<idle, idleSince, reaperTimer, now>> PROVE TimerInv'
  BY <1>b, TickMsType DEF TickMs
<1>t. TickMs' = TickMs
  BY DEF TickMs
<1>1. ASSUME NEW p \in Callers, AcquireIdle(p) PROVE TimerInv'
  <2>1. Len(idle') = Len(idle) - 1 /\ idle # <<>>
    BY <1>1, FrontFacts DEF AcquireIdle, TypeInv, TypeOK
  <2>2. \A i \in 1 .. Len(idle) - 1 : idleSince'[i] = idleSince[i]
    <3>1. idleSince # <<>> /\ idleSince \in Seq(0 .. MaxTime)
      BY <1>a, <2>1 DEF TypeInv, TypeOK
    <3> QED
      BY <1>1, <1>a, <3>1, FrontFacts DEF AcquireIdle
  <2>3. now' = now /\ reaperTimer' = reaperTimer
    BY <1>1 DEF AcquireIdle
  <2>4. \A i \in 1 .. Len(idle') : i \in 1 .. Len(idle) /\ idleSince'[i] = idleSince[i]
    BY <1>a, <2>1, <2>2
  <2> QED
    BY <1>a, <1>t, <2>1, <2>3, <2>4
<1>2. ASSUME NEW p \in Callers, AcquireConnect(p) PROVE TimerInv'
  BY <1>b, <1>2 DEF AcquireConnect
<1>3. ASSUME NEW p \in Callers, AcquireWait(p) PROVE TimerInv'
  BY <1>b, <1>3 DEF AcquireWait
<1>4. ASSUME NEW p \in Callers, ConnectOk(p) PROVE TimerInv'
  BY <1>b, <1>4 DEF ConnectOk
<1>5. ASSUME NEW p \in Callers, ConnectFail(p) PROVE TimerInv'
  BY <1>b, <1>5 DEF ConnectFail
<1>6. ASSUME NEW p \in Callers, ReleaseToWaiter(p) PROVE TimerInv'
  BY <1>b, <1>6 DEF ReleaseToWaiter
<1>7. ASSUME NEW p \in Callers, ReleaseToClosed(p) PROVE TimerInv'
  BY <1>b, <1>7 DEF ReleaseToClosed
<1>8. ASSUME NEW p \in Callers, ReleaseToIdle(p) PROVE TimerInv'
  <2>1. lease[p] \in Conns /\ now \in 0 .. MaxTime
    BY <1>8 DEF ReleaseToIdle, TypeInv, TypeOK, Holders
  <2>2. Len(idle') = Len(idle) + 1 /\ idle' # <<>>
    BY <1>8, <2>1, AppendProperties DEF ReleaseToIdle, TypeInv, TypeOK
  <2>3. /\ \A i \in 1 .. Len(idle) : idleSince'[i] = idleSince[i]
        /\ idleSince'[Len(idle) + 1] = now
    BY <1>8, <1>a, <2>1, AppendProperties DEF ReleaseToIdle, PushIdleSince, TypeInv, TypeOK
  <2>4. now' = now
    BY <1>8 DEF ReleaseToIdle
  <2>5. CASE IdleTimeout = 0 \/ reaperTimer # Off
    <3>1. reaperTimer' = reaperTimer
      BY <1>8, <2>5 DEF ReleaseToIdle, ScheduleReaper
    <3> QED
      BY <1>a, <1>t, <2>2, <2>3, <2>4, <2>5, <3>1
  <2>6. CASE IdleTimeout # 0 /\ reaperTimer = Off
    <3>1. Len(idle) = 0
      BY <1>a, <2>6
    <3>2. reaperTimer' = now + TickMs
      BY <1>8, <2>2, <2>6 DEF ReleaseToIdle, ScheduleReaper
    <3> QED
      BY <1>a, <1>t, <2>2, <2>3, <2>4, <2>6, <3>1, <3>2
  <2> QED
    BY <2>5, <2>6
<1>9. ASSUME NEW p \in Callers, Destroy(p) PROVE TimerInv'
  BY <1>b, <1>9 DEF Destroy
<1>10. CASE Close
  BY <1>10 DEF Close
<1>11. CASE Reap
  <2>1. PICK removed \in 0 .. Len(idle) :
          /\ removed < Len(idle) => ~Expired(idleSince[removed + 1])
          /\ idle' = SubSeq(idle, removed + 1, Len(idle))
          /\ idleSince' = SubSeq(idleSince, removed + 1, Len(idle))
    BY <1>11 DEF Reap
  <2>2. Len(idle') = Len(idle) - removed
    BY <2>1, SuffixFacts DEF TypeInv, TypeOK
  <2>3. \A i \in 1 .. Len(idle) - removed : idleSince'[i] = idleSince[removed + i]
    BY <2>1, <1>a, SuffixFacts DEF TypeInv, TypeOK
  <2>4. /\ now' = now /\ reaperTimer # Off /\ reaperTimer = now
        /\ reaperTimer' = IF idle' = <<>> THEN Off ELSE now + TickMs
    BY <1>11 DEF Reap
  <2>5. \A i \in 1 .. Len(idle') : /\ removed + i \in 1 .. Len(idle)
                                   /\ idleSince'[i] = idleSince[removed + i]
    BY <1>a, <2>2, <2>3
  <2>6. \A i \in 1 .. Len(idle') : idleSince'[i] > now - IdleTimeout
    <3> SUFFICES ASSUME NEW i \in 1 .. Len(idle') PROVE idleSince'[i] > now - IdleTimeout
      OBVIOUS
    <3>1. removed + 1 \in 1 .. Len(idle) /\ removed + 1 <= removed + i /\ removed < Len(idle)
      BY <1>a, <2>2
    <3>2. idleSince[removed + 1] > now - IdleTimeout
      BY <1>a, <2>1, <3>1 DEF Expired
    <3>3. idleSince[removed + 1] <= idleSince[removed + i]
      BY <2>5, <3>1
    <3> QED
      BY <1>a, <2>5, <3>1, <3>2, <3>3
  <2>7. \A i, j \in 1 .. Len(idle') : i <= j => idleSince'[i] <= idleSince'[j]
    <3> SUFFICES ASSUME NEW i \in 1 .. Len(idle'), NEW j \in 1 .. Len(idle'), i <= j
                 PROVE  idleSince'[i] <= idleSince'[j]
      OBVIOUS
    <3>1. removed + i <= removed + j
      BY <1>a
    <3> QED
      BY <2>5, <3>1
  <2>8. \A i \in 1 .. Len(idle') : idleSince'[i] <= now'
    BY <2>4, <2>5
  <2>9. IdleTimeout # 0
    BY <2>4
  <2> QED
    BY <1>a, <1>t, <2>4, <2>5, <2>6, <2>7, <2>8, <2>9
<1>12. ASSUME NEW c \in Conns, SocketDies(c) PROVE TimerInv'
  BY <1>b, <1>12 DEF SocketDies, poolVars
<1>13. ASSUME NEW c \in Conns, EndDone(c) PROVE TimerInv'
  BY <1>b, <1>13 DEF EndDone, poolVars
<1>14. CASE Advance
  <2>1. /\ UNCHANGED <<idle, idleSince, reaperTimer>> /\ now' = now + 1
        /\ reaperTimer = Off \/ reaperTimer # now
    BY <1>14 DEF Advance, poolVars
  <2> QED
    BY <1>a, <1>t, <2>1
<1>15. CASE UNCHANGED vars
  BY <1>b, <1>15 DEF vars
<1> QED
  BY <1>1, <1>2, <1>3, <1>4, <1>5, <1>6, <1>7, <1>8, <1>9, <1>10, <1>11,
     <1>12, <1>13, <1>14, <1>15
     DEF Next, Acquire, Connect, Release

\* While something is idle the reaper's timer is armed, and no connection stays
\* idle for the timeout plus one tick.
THEOREM ReaperCorrect == Spec => [](ReaperArmed /\ ReapedInTime)
<1>1. TypeInv /\ TimerInv => ReaperArmed /\ ReapedInTime
  <2> SUFFICES ASSUME TypeInv, TimerInv PROVE ReaperArmed /\ ReapedInTime
    OBVIOUS
  <2>1. /\ Len(idle) \in Nat /\ Len(idleSince) = Len(idle)
        /\ now \in Nat /\ reaperTimer \in Nat
        /\ \A i \in 1 .. Len(idle) : idleSince[i] \in Nat
        /\ idle = <<>> <=> Len(idle) = 0
    BY PoolAssumption, LenProperties, ElementOfSeq, EmptySeq DEF TypeInv, TypeOK
  <2>2. ReaperArmed
    BY DEF ReaperArmed, TimerInv
  <2>3. ReapedInTime
    BY <2>1, TickMsType, PoolAssumption DEF ReapedInTime, TimerInv
  <2> QED
    BY <2>2, <2>3
<1> QED
  BY TypeInit, TypeNext, TimerInit, TimerNext, <1>1, PTL DEF Spec
-----------------------------------------------------------------------------
(* The pool implements module Lease *)

\* Who owns a connection, told from the pool's lists: what LeaseInv makes of
\* the CHOOSE in Owner.
OwnerInv ==
  /\ Owner \in [Conns -> Callers \cup {"pooled", "absent"}]
  /\ \A c \in Conns, p \in Callers :
       Owner[c] = p <=> request[p] = "leased" /\ lease[p] = c
  /\ \A c \in Conns : Owner[c] = "pooled" <=> c \in Range(idle)

LEMMA OwnerFacts == TypeInv /\ LeaseInv => OwnerInv
<1> SUFFICES ASSUME TypeInv, LeaseInv PROVE OwnerInv
  OBVIOUS
<1> DEFINE holds(p, c) == p \in Holders /\ lease[p] = c
<1>1. \A p, q \in Callers, c \in Conns : holds(p, c) /\ holds(q, c) => p = q
  BY DEF LeaseInv, Holders
<1>2. \A p \in Callers, c \in Conns : holds(p, c) => c \notin Range(idle)
  BY DEF LeaseInv, Holders
<1>3. ASSUME NEW c \in Conns
      PROVE  /\ Owner[c] \in Callers \cup {"pooled", "absent"}
             /\ \A p \in Callers : Owner[c] = p <=> holds(p, c)
             /\ Owner[c] = "pooled" <=> c \in Range(idle)
  <2>1. CASE \E p \in Holders : lease[p] = c
    <3>1. PICK q \in Callers : holds(q, c)
      BY <2>1 DEF Holders
    <3>2. Owner[c] = CHOOSE p \in Holders : lease[p] = c
      BY <2>1 DEF Owner
    <3>3. Owner[c] \in Callers /\ holds(Owner[c], c)
      BY <2>1, <3>2 DEF Holders
    <3>4. Owner[c] = q /\ Owner[c] # "pooled"
      BY <1>1, <3>1, <3>3, PoolAssumption, OwnersAssumption
    <3> QED
      BY <1>1, <1>2, <3>1, <3>4
  <2>2. CASE ~\E p \in Holders : lease[p] = c
    <3>1. Owner[c] = IF c \in Range(idle) THEN "pooled" ELSE "absent"
      BY <2>2 DEF Owner
    <3>2. \A p \in Callers : ~holds(p, c)
      BY <2>2
    <3> QED
      BY <3>1, <3>2, PoolAssumption, OwnersAssumption
  <2> QED
    BY <2>1, <2>2
<1>4. Owner \in [Conns -> Callers \cup {"pooled", "absent"}]
  BY <1>3 DEF Owner
<1> QED
  BY <1>3, <1>4 DEF OwnerInv, Holders

\* A connection may be opened whenever a placeholder is in `leased`: it takes
\* the place that the placeholder was counted for.
LEMMA RoomForPlaceholder ==
  ASSUME TypeInv, LeaseInv, CapacityInv, OwnerInv,
         NEW p \in Callers, request[p] = "connecting"
  PROVE  Cardinality(Abstract!OpenConns) < MaxConnections
<1>1. Abstract!OpenConns \subseteq Range(idle) \cup (leased \ {p})
  <2> SUFFICES ASSUME NEW c \in Conns, Owner[c] # "absent"
               PROVE  c \in Range(idle) \cup (leased \ {p})
    BY DEF Abstract!OpenConns
  <2>1. Owner[c] \in Callers \cup {"pooled"}
    BY DEF OwnerInv
  <2>2. CASE Owner[c] = "pooled"
    BY <2>2 DEF OwnerInv
  <2>3. CASE Owner[c] \in Callers
    BY <2>3, PoolAssumption, OwnersAssumption DEF OwnerInv, LeaseInv
  <2> QED
    BY <2>1, <2>2, <2>3
<1>2. IsFiniteSet(Range(idle)) /\ Cardinality(Range(idle)) = Len(idle)
  <2>1. Len(idle) \in Nat /\ DOMAIN idle = 1 .. Len(idle) /\ IsInjective(idle)
    BY LenProperties DEF TypeInv, TypeOK, LeaseInv
  <2>2. idle \in Bijection(1 .. Len(idle), Range(idle))
    BY <2>1 DEF Bijection, Injection, Surjection, IsInjective, Range, TypeInv, TypeOK
  <2>3. IsFiniteSet(1 .. Len(idle)) /\ Cardinality(1 .. Len(idle)) = Len(idle)
    <3>1. 1 \in Int /\ Len(idle) \in Int
      BY <2>1
    <3>2. /\ IsFiniteSet(1 .. Len(idle))
          /\ Cardinality(1 .. Len(idle)) = IF 1 > Len(idle) THEN 0 ELSE Len(idle) - 1 + 1
      BY <3>1, FS_Interval, Zenon
    <3> QED
      BY <2>1, <3>2
  <2> QED
    BY <2>2, <2>3, FS_Bijection DEF ExistsBijection
<1>3. /\ IsFiniteSet(leased \ {p})
      /\ Cardinality(leased \ {p}) = Cardinality(leased) - 1
      /\ Cardinality(leased) \in Nat
  BY FS_RemoveElement, FS_CardinalityType DEF CapacityInv, LeaseInv
<1>4. /\ IsFiniteSet(Range(idle) \cup (leased \ {p}))
      /\ Cardinality(Range(idle) \cup (leased \ {p}))
           = Len(idle) + (Cardinality(leased) - 1)
               - Cardinality(Range(idle) \cap (leased \ {p}))
  BY <1>2, <1>3, FS_Union
<1>5. Cardinality(Range(idle) \cap (leased \ {p})) \in Nat
  BY <1>2, FS_Subset, FS_CardinalityType
<1>6. /\ IsFiniteSet(Abstract!OpenConns)
      /\ Cardinality(Abstract!OpenConns) <= Cardinality(Range(idle) \cup (leased \ {p}))
  BY <1>1, <1>4, FS_Subset
<1>7. Cardinality(Abstract!OpenConns) \in Nat /\ Len(idle) \in Nat
  BY <1>6, FS_CardinalityType, LenProperties DEF TypeInv, TypeOK
<1>8. Len(idle) + Cardinality(leased) <= MaxConnections
  BY DEF CapacityInv, CapacityRespected, Size
<1> QED
  BY <1>3, <1>4, <1>5, <1>6, <1>7, <1>8, PoolAssumption, OwnersAssumption

LEMMA OwnerInit == Init => Abstract!Init
<1> SUFFICES ASSUME Init PROVE Abstract!Init
  OBVIOUS
<1>1. Range(<<>>) = {}
  BY DEF Range
<1>2. Holders = {}
  BY DEF Init, Holders
<1> QED
  BY <1>1, <1>2 DEF Init, Abstract!Init, Owner

\* Steps that neither the lists of connections nor the leases notice.
LEMMA OwnerStutters ==
  ASSUME OwnerInv, OwnerInv', UNCHANGED closed,
         Range(idle') = Range(idle),
         \A p \in Callers, c \in Conns :
           (request'[p] = "leased" /\ lease'[p] = c) <=> (request[p] = "leased" /\ lease[p] = c)
  PROVE  UNCHANGED <<Owner, closed>>
<1>1. ASSUME NEW c \in Conns PROVE Owner'[c] = Owner[c]
  <2>1. Owner[c] \in Callers \cup {"pooled", "absent"}
    BY DEF OwnerInv
  <2>2. Owner'[c] \in Callers \cup {"pooled", "absent"}
    BY DEF OwnerInv
  <2>3. \A p \in Callers : Owner'[c] = p <=> Owner[c] = p
    BY DEF OwnerInv
  <2>4. Owner'[c] = "pooled" <=> Owner[c] = "pooled"
    BY DEF OwnerInv
  <2> QED
    BY <2>1, <2>2, <2>3, <2>4
<1>2. DOMAIN Owner = Conns /\ DOMAIN Owner' = Conns
  BY DEF OwnerInv
<1>3. Owner' = Owner
  BY <1>1, <1>2 DEF OwnerInv
<1> QED
  BY <1>3

\* One connection changes hands, or comes, or goes.
LEMMA OwnerMoves ==
  ASSUME OwnerInv, OwnerInv', NEW c \in Conns,
         NEW new \in Callers \cup {"pooled", "absent"},
         Owner'[c] = new,
         \A d \in Conns \ {c} : d \in Range(idle') <=> d \in Range(idle),
         \A p \in Callers, d \in Conns \ {c} :
           (request'[p] = "leased" /\ lease'[p] = d) <=> (request[p] = "leased" /\ lease[p] = d)
  PROVE  Owner' = [Owner EXCEPT ![c] = new]
<1>1. ASSUME NEW d \in Conns \ {c} PROVE Owner'[d] = Owner[d]
  <2>1. Owner[d] \in Callers \cup {"pooled", "absent"}
    BY DEF OwnerInv
  <2>2. Owner'[d] \in Callers \cup {"pooled", "absent"}
    BY DEF OwnerInv
  <2>3. \A p \in Callers : Owner'[d] = p <=> Owner[d] = p
    BY DEF OwnerInv
  <2>4. Owner'[d] = "pooled" <=> Owner[d] = "pooled"
    BY DEF OwnerInv
  <2> QED
    BY <2>1, <2>2, <2>3, <2>4
<1>2. DOMAIN Owner = Conns /\ DOMAIN Owner' = Conns
  BY DEF OwnerInv
<1> QED
  BY <1>1, <1>2 DEF OwnerInv

\* The invariants of the pool, before and after a step.
PoolInv == TypeInv /\ QueueInv /\ LeaseInv /\ CapacityInv

LEMMA PoolNext == PoolInv /\ [Next]_vars => PoolInv'
BY TypeNext, QueueNext, LeaseNext, CapacityNext DEF PoolInv

LEMMA StepImplements ==
  PoolInv /\ OwnerInv /\ OwnerInv' /\ [Next]_vars => [Abstract!Next]_(Abstract!vars)
<1> SUFFICES ASSUME PoolInv, OwnerInv, OwnerInv', [Next]_vars
             PROVE  Abstract!Next \/ UNCHANGED <<Owner, closed>>
  BY DEF Abstract!vars
<1> USE PoolAssumption, OwnersAssumption DEF PoolInv, TypeInv, TypeOK, Holders, Requests
\* A caller that holds no lease has borrowed nothing.
<1>b. \A p \in Callers : request[p] # "leased" => Abstract!Borrowed(p) = {}
  BY DEF Abstract!Borrowed, OwnerInv
<1>s. ASSUME UNCHANGED <<idle, request, lease, closed>> PROVE UNCHANGED <<Owner, closed>>
  BY <1>s, OwnerStutters
<1>1. ASSUME NEW p \in Callers, AcquireIdle(p) PROVE Abstract!Next
  <2> DEFINE c == Last(idle)
  <2>1. /\ c \in Conns /\ c \in Range(idle) /\ c \notin leased
        /\ Range(idle') = Range(idle) \ {c}
    BY <1>1, FrontFacts, FrontDistinct DEF AcquireIdle, LeaseInv
  <2>2. Owner[c] = "pooled" /\ Owner'[c] = p
    BY <1>1, <2>1 DEF AcquireIdle, OwnerInv
  <2>3. Owner' = [Owner EXCEPT ![c] = p]
    <3>1. \A q \in Callers, d \in Conns \ {c} :
            (request'[q] = "leased" /\ lease'[q] = d)
              <=> (request[q] = "leased" /\ lease[q] = d)
      BY <1>1 DEF AcquireIdle
    <3> QED
      BY <2>1, <2>2, <3>1, OwnerMoves
  <2>4. Abstract!Lend(c, p)
    BY <1>1, <1>b, <2>2, <2>3 DEF AcquireIdle, Abstract!Lend
  <2> QED
    BY <2>1, <2>4 DEF Abstract!Next
<1>2. ASSUME NEW p \in Callers, AcquireConnect(p) PROVE UNCHANGED <<Owner, closed>>
  BY <1>2, OwnerStutters DEF AcquireConnect
<1>3. ASSUME NEW p \in Callers, AcquireWait(p) PROVE UNCHANGED <<Owner, closed>>
  BY <1>3, OwnerStutters DEF AcquireWait
<1>4. ASSUME NEW p \in Callers, ConnectOk(p) PROVE Abstract!Next
  <2>1. PICK c \in Conns : /\ sock[c] = "none"
                           /\ lease' = [lease EXCEPT ![p] = c]
    BY <1>4 DEF ConnectOk
  <2>2. /\ request[p] = "connecting" /\ request' = [request EXCEPT ![p] = "leased"]
        /\ idle' = idle /\ closed' = closed
    BY <1>4 DEF ConnectOk
  <2>3. c \notin Range(idle) /\ c \notin leased
    BY <2>1 DEF LeaseInv
  <2>4. Owner[c] = "absent" /\ Owner'[c] = p
    BY <2>1, <2>2, <2>3 DEF OwnerInv, LeaseInv
  <2>5. Owner' = [Owner EXCEPT ![c] = p]
    <3>1. \A q \in Callers, d \in Conns \ {c} :
            (request'[q] = "leased" /\ lease'[q] = d)
              <=> (request[q] = "leased" /\ lease[q] = d)
      BY <2>1, <2>2
    <3> QED
      BY <2>2, <2>4, <3>1, OwnerMoves
  <2>6. Cardinality(Abstract!OpenConns) < MaxConnections
    BY <2>2, RoomForPlaceholder
  <2>7. Abstract!Open(c, p)
    <3>1. Abstract!Borrowed(p) = {}
      BY <1>b, <2>2
    <3>2. Abstract!Cardinality(Abstract!OpenConns) = Cardinality(Abstract!OpenConns)
      BY DEF Abstract!Cardinality, Cardinality
    <3> QED
      BY <2>2, <2>4, <2>5, <2>6, <3>1, <3>2 DEF Abstract!Open
  <2> QED
    BY <2>7 DEF Abstract!Next
<1>5. ASSUME NEW p \in Callers, ConnectFail(p) PROVE UNCHANGED <<Owner, closed>>
  BY <1>5, OwnerStutters DEF ConnectFail
<1>6. ASSUME NEW p \in Callers, ReleaseToWaiter(p) PROVE Abstract!Next
  <2> DEFINE c == lease[p]
             w == Head(waiters)
  <2>1. /\ request[p] = "leased" /\ waiters # <<>> /\ c \in Conns
        /\ request' = [request EXCEPT ![p] = "none", ![w] = "leased"]
        /\ lease' = [lease EXCEPT ![p] = None, ![w] = c]
        /\ idle' = idle /\ closed' = closed
    BY <1>6 DEF ReleaseToWaiter
  <2>2. w \in Callers /\ request[w] = "waiting" /\ w # p
    BY <2>1, TailDistinct DEF QueueInv, QueueConsistent
  <2>3. ~closed
    BY <2>1 DEF QueueInv, ClosedPoolIsEmpty
  <2> HIDE DEF c, w
  <2>4. Owner[c] = p /\ Owner'[c] = w
    <3>1. c = lease[p]
      BY DEF c
    <3>2. request'[w] = "leased" /\ lease'[w] = c
      BY <2>1, <2>2
    <3> QED
      BY <2>1, <2>2, <3>1, <3>2 DEF OwnerInv
  <2>5. Owner' = [Owner EXCEPT ![c] = w]
    <3>1. lease[p] = c
      BY DEF c
    <3>2. \A q \in Callers, d \in Conns \ {c} :
            (request'[q] = "leased" /\ lease'[q] = d)
              <=> (request[q] = "leased" /\ lease[q] = d)
      BY <2>1, <2>2, <3>1
    <3> QED
      BY <2>1, <2>2, <2>4, <3>2, OwnerMoves
  <2>6. Abstract!HandOver(c, p, w)
    BY <1>b, <2>1, <2>2, <2>3, <2>4, <2>5 DEF Abstract!HandOver
  <2> QED
    BY <2>1, <2>2, <2>6 DEF Abstract!Next
\* A lease ends without a successor: the connection is in no list any more.
<1>d. ASSUME NEW p \in Callers, request[p] = "leased",
             request' = [request EXCEPT ![p] = "none"],
             lease' = [lease EXCEPT ![p] = None],
             idle' = idle, closed' = closed
      PROVE  Abstract!Next
  <2> DEFINE c == lease[p]
  <2>1. c \in Conns /\ c \notin Range(idle)
    BY <1>d DEF LeaseInv
  <2>2. \A q \in Callers : ~(request'[q] = "leased" /\ lease'[q] = c)
    BY <1>d DEF LeaseInv
  <2>3. Owner[c] = p /\ Owner'[c] = "absent"
    BY <1>d, <2>1, <2>2 DEF OwnerInv
  <2>4. Owner' = [Owner EXCEPT ![c] = "absent"]
    <3>1. \A q \in Callers, d \in Conns \ {c} :
            (request'[q] = "leased" /\ lease'[q] = d)
              <=> (request[q] = "leased" /\ lease[q] = d)
      BY <1>d
    <3> QED
      BY <1>d, <2>1, <2>3, <3>1, OwnerMoves
  <2>5. Abstract!Drop(c, p)
    BY <1>d, <2>3, <2>4 DEF Abstract!Drop
  <2> QED
    BY <2>1, <2>5 DEF Abstract!Next
<1>7. ASSUME NEW p \in Callers, ReleaseToClosed(p) PROVE Abstract!Next
  BY <1>7, <1>d DEF ReleaseToClosed
<1>8. ASSUME NEW p \in Callers, ReleaseToIdle(p) PROVE Abstract!Next
  <2> DEFINE c == lease[p]
  <2>1. /\ request[p] = "leased" /\ c \in Conns /\ c \notin Range(idle)
        /\ request' = [request EXCEPT ![p] = "none"]
        /\ lease' = [lease EXCEPT ![p] = None]
        /\ ~closed /\ closed' = closed
    BY <1>8 DEF ReleaseToIdle, Pooling, LeaseInv
  <2>2. Range(idle') = Range(idle) \cup {c}
    BY <1>8, <2>1, AppendDistinct DEF ReleaseToIdle, LeaseInv
  <2>3. Owner[c] = p /\ Owner'[c] = "pooled"
    BY <2>1, <2>2 DEF OwnerInv
  <2>4. Owner' = [Owner EXCEPT ![c] = "pooled"]
    <3>1. \A q \in Callers, d \in Conns \ {c} :
            (request'[q] = "leased" /\ lease'[q] = d)
              <=> (request[q] = "leased" /\ lease[q] = d)
      BY <2>1
    <3>2. \A d \in Conns \ {c} : d \in Range(idle') <=> d \in Range(idle)
      BY <2>2
    <3> HIDE DEF c
    <3> QED
      BY <2>1, <2>3, <3>1, <3>2, OwnerMoves
  <2>5. Abstract!Return(c, p)
    BY <2>1, <2>3, <2>4 DEF Abstract!Return
  <2> QED
    BY <2>1, <2>5 DEF Abstract!Next
<1>9. ASSUME NEW p \in Callers, Destroy(p) PROVE Abstract!Next
  BY <1>9, <1>d DEF Destroy
<1>10. CASE Close
  <2>1. Range(idle') = {} /\ ~closed /\ closed' = TRUE /\ lease' = lease
    BY <1>10 DEF Close, Range
  <2>2. \A p \in Callers : request'[p] = "leased" <=> request[p] = "leased"
    BY <1>10 DEF Close
  <2>3. ASSUME NEW c \in Conns
        PROVE  Owner'[c] = IF Owner[c] = "pooled" THEN "absent" ELSE Owner[c]
    <3>1. Owner[c] \in Callers \cup {"pooled", "absent"} /\ Owner'[c] # "pooled"
      BY <2>1 DEF OwnerInv
    <3>2. \A p \in Callers : Owner'[c] = p <=> Owner[c] = p
      BY <2>1, <2>2 DEF OwnerInv
    <3>3. Owner'[c] \in Callers \cup {"pooled", "absent"}
      BY DEF OwnerInv
    <3> QED
      BY <3>1, <3>2, <3>3
  <2>4. Owner' = [c \in Conns |-> IF Owner[c] = "pooled" THEN "absent" ELSE Owner[c]]
    BY <2>3 DEF OwnerInv
  <2> QED
    BY <2>1, <2>4 DEF Abstract!Shut, Abstract!Next
<1>11. CASE Reap
  <2>1. PICK removed \in 0 .. Len(idle) : idle' = SubSeq(idle, removed + 1, Len(idle))
    BY <1>11 DEF Reap
  <2>2. UNCHANGED <<request, lease, closed>>
    BY <1>11 DEF Reap
  <2> DEFINE gone == {idle[i] : i \in 1 .. removed}
  <2>3. Range(idle') = Range(idle) \ gone
    <3>1. idle \in Seq(Conns) /\ IsInjective(idle)
      BY DEF LeaseInv
    <3> HIDE DEF PoolInv, TypeInv, TypeOK
    <3> QED
      BY <2>1, <3>1, SuffixDistinct
  <2>4. gone \subseteq Range(idle)
    <3>1. idle \in Seq(Conns)
      OBVIOUS
    <3>2. Len(idle) \in Nat /\ DOMAIN idle = 1 .. Len(idle)
      BY <3>1, LenProperties
    <3> QED
      BY <3>2 DEF Range
  <2> HIDE DEF gone
  <2>5. gone \in SUBSET {c \in Conns : Owner[c] = "pooled"}
    BY <2>4 DEF OwnerInv, LeaseInv
  <2>6. ASSUME NEW c \in Conns
        PROVE  Owner'[c] = IF c \in gone THEN "absent" ELSE Owner[c]
    <3>1. /\ Owner[c] \in Callers \cup {"pooled", "absent"}
          /\ Owner'[c] \in Callers \cup {"pooled", "absent"}
      BY DEF OwnerInv
    <3>2. \A p \in Callers : Owner'[c] = p <=> Owner[c] = p
      BY <2>2 DEF OwnerInv
    <3>3. Owner'[c] = "pooled" <=> Owner[c] = "pooled" /\ c \notin gone
      BY <2>3 DEF OwnerInv
    <3>4. c \in gone => Owner[c] = "pooled"
      BY <2>5
    <3> QED
      BY <3>1, <3>2, <3>3, <3>4
  <2>7. Owner' = [c \in Conns |-> IF c \in gone THEN "absent" ELSE Owner[c]]
    BY <2>6 DEF OwnerInv
  <2> QED
    BY <2>2, <2>5, <2>7 DEF Abstract!Trim, Abstract!Next
<1>12. ASSUME NEW c \in Conns, SocketDies(c) PROVE UNCHANGED <<Owner, closed>>
  BY <1>s, <1>12 DEF SocketDies, poolVars
<1>13. ASSUME NEW c \in Conns, EndDone(c) PROVE UNCHANGED <<Owner, closed>>
  BY <1>s, <1>13 DEF EndDone, poolVars
<1>14. CASE Advance
  BY <1>s, <1>14 DEF Advance, poolVars
<1>15. CASE UNCHANGED vars
  BY <1>s, <1>15 DEF vars
<1> QED
  BY <1>1, <1>2, <1>3, <1>4, <1>5, <1>6, <1>7, <1>8, <1>9, <1>10, <1>11,
     <1>12, <1>13, <1>14, <1>15
     DEF Next, Acquire, Connect, Release

\* The pool implements the lease discipline: whatever its lists, placeholders,
\* queue and timer do, every step opens, lends, hands over, takes back or drops
\* connections as module Lease allows, or leaves their owners alone.
THEOREM Refinement == Spec => ImplementsLease
<1>1. Init => PoolInv
  BY TypeInit, QueueInit, LeaseInit, CapacityInit DEF PoolInv
<1>2. PoolInv => OwnerInv
  BY OwnerFacts DEF PoolInv
<1>3. Init => Abstract!Init
  BY OwnerInit
<1> QED
  BY <1>1, <1>2, <1>3, PoolNext, StepImplements, PTL
     DEF Spec, ImplementsLease, Abstract!Spec

=============================================================================

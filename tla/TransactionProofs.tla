------------------------- MODULE TransactionProofs -------------------------
(***************************************************************************)
(* The invariants of transactions over leased connections: the types for   *)
(* every habit of a caller, the rest for callers that await their calls,   *)
(* in any number, over any number of connections.                          *)
(***************************************************************************)
EXTENDS Transaction, SeqFacts

-----------------------------------------------------------------------------
(* The inductive invariants *)

\* What a caller awaits in each of its states.
Fits(where, what) ==
  \/ where = "begins" /\ what = "begin"
  \/ where = "waits" /\ what # "begin"
  \/ where = "commits" /\ what = "commit"
  \/ where = "leaves" /\ what = "rollback"

Awaiting == {"begins", "waits", "commits", "leaves"}

\* A busy connection has one command, a pipelining one has statements.
Shape ==
  \A c \in Conns :
    /\ st[c] = "none" => work[c] = <<>>
    /\ st[c] = "busy" => Len(work[c]) = 1 /\ work[c][1].what # "sql"
    /\ st[c] = "pipelining" =>
         /\ work[c] # <<>>
         /\ \A i \in 1 .. Len(work[c]) : work[c][i].what = "sql"

\* Who awaits a command stands where it was sent, and awaits no other.
Attended ==
  /\ \A p \in Txs : flow[p] \in Awaiting \cup {"body"} => conn[p] \in Conns
  /\ \A c \in Conns : \A i \in 1 .. Len(work[c]) :
       work[c][i].awaited =>
         conn[work[c][i].by] = c /\ Fits(flow[work[c][i].by], work[c][i].what)
  /\ \A c \in Conns : \A i, j \in 1 .. Len(work[c]) :
       /\ work[c][i].awaited /\ work[c][j].awaited
       /\ work[c][i].by = work[c][j].by
       => i = j

TypeInv == TypeOK /\ Shape /\ Attended

\* Every call is awaited: a connection has at most one command, that of the
\* transaction that leases it and waits for nothing else.
OneCommand ==
  /\ \A c \in Conns :
       work[c] # <<>> => /\ Len(work[c]) = 1
                         /\ work[c][1].awaited
                         /\ ~settled[work[c][1].by]
  /\ \A p \in Txs :
       /\ flow[p] \in Awaiting => work[conn[p]] # <<>> /\ work[conn[p]][1].by = p
       /\ flow[p] = "none" => conn[p] = None /\ ~settled[p]

\* Where each connection is: idle once, leased once, or gone.
Where ==
  /\ IsInjective(idle)
  /\ \A p, q \in Txs, c \in Conns : Leases(p, c) /\ Leases(q, c) => p = q
  /\ \A p \in Txs, c \in Conns : Leases(p, c) => c \notin Range(idle)
  /\ \A c \in Conns :
       st[c] \in {"none", "ended"} <=>
         c \notin Range(idle) /\ \A p \in Txs : ~Leases(p, c)

\* The connection is lost to its user.
Lost(c) == st[c] \in {"dead", "ended"}

\* What the server has open for the transaction that leases c, if the session
\* of a dead connection has not ended it.
Holds(p, c) ==
  \/ srv[c].tx = p
  \/ st[c] = "dead" /\ srv[c] = Clean /\ fate[p] # "none"

\* p is over, but perhaps for the session of a connection that is lost.
Sealed(p, c) ==
  fate[p] # "none" \/ (Lost(c) /\ srv[c].tx = p)

\* What is open at the server: the transaction that leases the connection, from
\* its BEGIN to its end, or to that of the session when the connection is lost.
Open ==
  /\ \A c \in Conns : st[c] = "none" => srv[c] = Clean
  /\ \A c \in Range(idle) : work[c] = <<>> /\ (st[c] # "dead" => srv[c] = Clean)
  /\ \A p \in Txs, c \in Conns :
       Leases(p, c) => IF flow[p] = "begins" THEN srv[c] = Clean ELSE Holds(p, c)
  /\ \A p \in Txs :
       /\ settled[p] => /\ conn[p] \in Conns /\ Sealed(p, conn[p])
                        /\ flow[p] \in {"body", "resolved", "left"}
       /\ flow[p] \in {"resolved", "left"} => settled[p]

LeaseInv == OneCommand /\ Where /\ Open

-----------------------------------------------------------------------------
(* What the steps do *)

\* The body sends a command and goes where next says.
Sends(p, what, next) ==
  /\ flow[p] = "body"
  /\ what \in Whats \ {"begin"}
  /\ st[conn[p]] = "ready" \/ (what = "sql" /\ st[conn[p]] = "pipelining")
  /\ ~settled[p] \/ Habits # {}
  /\ \/ next = "body" /\ Habits # {}
     \/ next # "body" /\ Fits(next, what)
  /\ next \in Flows
  /\ work' = [work EXCEPT ![conn[p]] = Append(@, Command(p, what, next # "body"))]
  /\ st' = [st EXCEPT ![conn[p]] = IF what = "sql" THEN "pipelining" ELSE "busy"]
  /\ flow' = [flow EXCEPT ![p] = next]
  /\ UNCHANGED <<settled, conn, sp, idle, srv, fate>>

\* A verb that the connection does not take settles the transaction.
Settles(p, next) ==
  /\ flow[p] = "body" /\ ~settled[p] /\ st[conn[p]] # "ready"
  /\ settled' = [settled EXCEPT ![p] = TRUE]
  /\ next \in {"left", "body"}
  /\ flow' = [flow EXCEPT ![p] = next]
  /\ \/ idle' = Returned(conn[p]) /\ st' = st
     \/ idle' = Without(conn[p]) /\ st' = [st EXCEPT ![conn[p]] = "ended"]
  /\ UNCHANGED <<work, conn, sp, srv, fate>>

\* The body of a settled transaction is over.
Closes(p, next) ==
  /\ flow[p] = "body" /\ settled[p]
  /\ next \in {"resolved", "left"}
  /\ flow' = [flow EXCEPT ![p] = next]
  /\ UNCHANGED <<settled, conn, sp, idle, st, work, srv, fate>>

\* Steps of a body that begin with a command or with a verb.
LEMMA BodyCases ==
  ASSUME TypeOK, NEW p \in Txs, Body(p)
  PROVE  \/ \E what \in Whats, next \in Flows : Sends(p, what, next)
         \/ \E next \in {"left", "body"} : Settles(p, next)
         \/ \E next \in {"resolved", "left"} : Closes(p, next)
<1> DEFINE Goal == \/ \E what \in Whats, next \in Flows : Sends(p, what, next)
                   \/ \E next \in {"left", "body"} : Settles(p, next)
                   \/ \E next \in {"resolved", "left"} : Closes(p, next)
<1>1. /\ {"body", "waits", "commits", "leaves"} \subseteq Flows
      /\ {"sql", "savepoint", "release", "rollback to", "commit", "rollback"} \subseteq Whats
      /\ flow \in [Txs -> Flows]
  BY DEF Flows, Whats, TypeOK
<1>2. \A kind, awaited : Awaits(p, kind, awaited) =>
        /\ awaited \/ Habits # {}
        /\ flow' = IF awaited THEN [flow EXCEPT ![p] = "waits"] ELSE flow
  BY DEF Awaits
<1>3. flow[p] = "body" => flow = [flow EXCEPT ![p] = "body"]
  BY <1>1
<1>4. SavepointUsable(p) => ~settled[p] \/ Habits # {}
  BY DEF SavepointUsable
<1>5. ASSUME NEW awaited \in BOOLEAN, Sql(p, awaited)
      PROVE  Goal
  <2> DEFINE next == IF awaited THEN "waits" ELSE "body"
  <2>1. /\ flow[p] = "body"
        /\ ~settled[p] \/ Habits # {}
        /\ st[conn[p]] \in {"ready", "pipelining"}
        /\ work' = [work EXCEPT ![conn[p]] = Append(@, Command(p, "sql", awaited))]
        /\ st' = [st EXCEPT ![conn[p]] = "pipelining"]
        /\ Awaits(p, "sql", awaited)
        /\ UNCHANGED <<settled, conn, sp, idle, srv, fate>>
    BY <1>4, <1>5 DEF Sql, TxUsable, TakesExtQuery, Dispatch, Command
  <2>2. /\ awaited \/ Habits # {}
        /\ flow' = [flow EXCEPT ![p] = next]
    BY <1>2, <1>3, <2>1
  <2>3. awaited = (next # "body") /\ next \in Flows /\ (next # "body" => Fits(next, "sql"))
    BY <1>1 DEF Fits
  <2> HIDE DEF next
  <2>4. Sends(p, "sql", next)
    BY <1>1, <2>1, <2>2, <2>3 DEF Sends
  <2> QED
    BY <1>1, <2>3, <2>4
<1>6. ASSUME NEW what \in {"savepoint", "release", "rollback to"},
             flow[p] = "body", ~settled[p] \/ Habits # {}, TakesQuery(conn[p]),
             Dispatch(conn[p], Command(p, what, TRUE)), Awaits(p, "verb", TRUE),
             UNCHANGED <<settled, conn, sp, idle, srv, fate>>
      PROVE  Goal
  <2>1. /\ st[conn[p]] = "ready" /\ what # "sql" /\ what # "begin" /\ what \in Whats
        /\ work' = [work EXCEPT ![conn[p]] = Append(@, Command(p, what, TRUE))]
        /\ st' = [st EXCEPT ![conn[p]] = "busy"]
        /\ flow' = [flow EXCEPT ![p] = "waits"]
    BY <1>1, <1>2, <1>6 DEF TakesQuery, Dispatch, Command
  <2>2. Fits("waits", what) /\ "waits" # "body" /\ "waits" \in Flows
    BY <1>1, <2>1 DEF Fits
  <2>3. Sends(p, what, "waits")
    BY <1>6, <2>1, <2>2 DEF Sends
  <2> QED
    BY <2>1, <2>2, <2>3
<1>7. OpenSavepoint(p) => Goal
  <2>1. "savepoint" \in {"savepoint", "release", "rollback to"}
    OBVIOUS
  <2> HIDE DEF Goal
  <2> QED
    BY <1>6, <2>1 DEF OpenSavepoint, TxUsable
<1>8. ASSUME NEW verb \in {"release", "rollback to"}, EndSavepoint(p, verb)
      PROVE  Goal
  <2> HIDE DEF Goal
  <2> QED
    BY <1>4, <1>6, <1>8 DEF EndSavepoint
<1>9. ASSUME NEW next \in {"body", "waits", "commits", "leaves"},
             flow[p] = "body", next = "body" => Habits # {},
             NEW what \in {"commit", "rollback"},
             ~settled[p], TakesQuery(conn[p]),
             Dispatch(conn[p], Command(p, what, next # "body")),
             flow' = [flow EXCEPT ![p] = next],
             next = "commits" => what = "commit", next = "leaves" => what = "rollback",
             UNCHANGED <<settled, conn, sp, idle, srv, fate>>
      PROVE  Goal
  <2>1. /\ st[conn[p]] = "ready" /\ what # "sql" /\ what # "begin" /\ what \in Whats
        /\ work' = [work EXCEPT ![conn[p]] = Append(@, Command(p, what, next # "body"))]
        /\ st' = [st EXCEPT ![conn[p]] = "busy"]
    BY <1>1, <1>9 DEF TakesQuery, Dispatch, Command
  <2>2. next # "body" => Fits(next, what)
    BY <1>9 DEF Fits
  <2>3. next \in Flows
    BY <1>1
  <2>4. Sends(p, what, next)
    BY <1>9, <2>1, <2>2, <2>3 DEF Sends
  <2> QED
    BY <2>1, <2>3, <2>4
<1>10. ASSUME NEW next \in {"body", "waits", "commits"}, flow[p] = "body",
              next = "body" => Habits # {}, Commit(p, next)
       PROVE  Goal
  <2> HIDE DEF Goal
  <2>1. CASE TakesQuery(conn[p])
    BY <1>9, <1>10, <2>1 DEF Commit
  <2>2. CASE ~TakesQuery(conn[p])
    <3> DEFINE to == IF next = "commits" THEN "left" ELSE "body"
    <3>1. to \in {"left", "body"}
      OBVIOUS
    <3>2. Settles(p, to)
      BY <1>10, <2>2 DEF Commit, Settles, TakesQuery
    <3> QED
      BY <3>1, <3>2 DEF Goal
  <2> QED
    BY <2>1, <2>2
<1>11. ASSUME NEW next \in {"body", "waits", "leaves"}, flow[p] = "body",
              next = "body" => Habits # {}, Rollback(p, next)
       PROVE  Goal
  <2> HIDE DEF Goal
  <2>1. CASE TakesQuery(conn[p])
    BY <1>9, <1>11, <2>1 DEF Rollback
  <2>2. CASE ~TakesQuery(conn[p])
    <3> DEFINE to == IF next = "leaves" THEN "left" ELSE "body"
    <3>1. to \in {"left", "body"}
      OBVIOUS
    <3>2. Settles(p, to)
      BY <1>11, <2>2 DEF Rollback, Settles, TakesQuery
    <3> QED
      BY <3>1, <3>2 DEF Goal
  <2> QED
    BY <2>1, <2>2
<1>12. BodyVerb(p) => Goal
  <2> SUFFICES ASSUME BodyVerb(p) PROVE Goal
    OBVIOUS
  <2> HIDE DEF Goal
  <2>1. flow[p] = "body"
    BY DEF BodyVerb
  <2>2. PICK next \in {"waits"} \cup (IF "verb" \in Habits THEN {"body"} ELSE {}) :
           Commit(p, next) \/ Rollback(p, next)
    BY DEF BodyVerb
  <2>3. next \in {"body", "waits"} /\ (next = "body" => Habits # {})
    BY <2>2
  <2> QED
    BY <2>1, <2>2, <2>3, <1>10, <1>11
<1>13. Return(p) => Goal
  <2>1. CASE flow[p] = "body" /\ Commit(p, "commits")
    <3> HIDE DEF Goal
    <3> QED
      BY <2>1, <1>10
  <2>2. CASE /\ flow[p] = "body" /\ settled[p]
             /\ flow' = [flow EXCEPT ![p] = "resolved"]
             /\ UNCHANGED <<settled, conn, sp, idle, st, work, srv, fate>>
    <3>1. Closes(p, "resolved")
      BY <2>2 DEF Closes
    <3> QED
      BY <3>1
  <2> QED
    BY <2>1, <2>2 DEF Return
<1>14. Leave(p) => Goal
  <2>1. CASE flow[p] = "body" /\ Rollback(p, "leaves")
    <3> HIDE DEF Goal
    <3> QED
      BY <2>1, <1>11
  <2>2. CASE /\ flow[p] = "body" /\ settled[p]
             /\ flow' = [flow EXCEPT ![p] = "left"]
             /\ UNCHANGED <<settled, conn, sp, idle, st, work, srv, fate>>
    <3>1. Closes(p, "left")
      BY <2>2 DEF Closes
    <3> QED
      BY <3>1
  <2> QED
    BY <2>1, <2>2 DEF Leave
<1> QED
  BY <1>5, <1>7, <1>8, <1>12, <1>13, <1>14 DEF Body

-----------------------------------------------------------------------------
(* Commands and answers *)

Sessions == [tx : Txs \cup {None}, failed : BOOLEAN, savepoint : BOOLEAN]

\* What a command can do to a session: BEGIN opens, COMMIT and ROLLBACK close,
\* the others stay in the transaction; a BEGIN fails without a trace.
LEMMA Results ==
  ASSUME NEW cmd \in Commands, NEW s \in Sessions, NEW r \in Execute(cmd, s)
  PROVE  /\ r.ok \in BOOLEAN /\ r.srv \in Sessions
         /\ cmd.what = "begin" /\ s = Clean =>
              IF r.ok THEN r.srv.tx = cmd.by ELSE r.srv = Clean
         /\ cmd.what \notin {"begin", "commit", "rollback"} => r.srv.tx = s.tx
         /\ cmd.what \in {"commit", "rollback"} => r.srv = Clean
         /\ cmd.what = "rollback" => r.ok
<1>1. /\ cmd.by \in Txs /\ cmd.what \in Whats /\ Clean \in Sessions
      /\ Clean.tx = None /\ Clean.failed = FALSE
  BY DEF Commands, Clean, Sessions
<1>2. [s EXCEPT !.failed = s.tx # None] \in Sessions
  BY DEF Sessions
<1>3. s = Clean => [s EXCEPT !.failed = s.tx # None] = Clean
  <2> SUFFICES ASSUME s = Clean PROVE [s EXCEPT !.failed = s.tx # None] = Clean
    OBVIOUS
  <2>1. [Clean EXCEPT !.failed = FALSE] = Clean
    BY <1>1 DEF Sessions
  <2>2. s.tx = None
    BY <1>1
  <2>3. [s EXCEPT !.failed = s.tx # None] = [Clean EXCEPT !.failed = FALSE]
    BY <2>2
  <2> QED
    BY <2>1, <2>3
<1>4. CASE cmd.what = "begin"
  <2>1. \/ r = [ok |-> FALSE, srv |-> [s EXCEPT !.failed = s.tx # None]]
        \/ r = [ok |-> TRUE,
                srv |-> IF s.tx = None THEN [Clean EXCEPT !.tx = cmd.by] ELSE s]
    BY <1>4 DEF Execute
  <2>2. [Clean EXCEPT !.tx = cmd.by] \in Sessions /\ [Clean EXCEPT !.tx = cmd.by].tx = cmd.by
    BY <1>1 DEF Sessions
  <2>a. \/ r.ok = FALSE /\ r.srv = [s EXCEPT !.failed = s.tx # None]
        \/ r.ok = TRUE /\ r.srv = IF s.tx = None THEN [Clean EXCEPT !.tx = cmd.by] ELSE s
    BY <2>1
  <2>3. r.ok \in BOOLEAN /\ r.srv \in Sessions
    BY <1>2, <2>a, <2>2, Zenon
  <2>4. s = Clean => IF r.ok THEN r.srv.tx = cmd.by ELSE r.srv = Clean
    BY <1>1, <1>3, <2>a, <2>2, Zenon
  <2> QED
    BY <1>4, <2>3, <2>4
<1>5. CASE cmd.what = "sql"
  <2>1. \/ r = [ok |-> FALSE, srv |-> [s EXCEPT !.failed = s.tx # None]]
        \/ r = [ok |-> TRUE, srv |-> s]
    BY <1>5 DEF Execute
  <2>a. \/ r.ok = FALSE /\ r.srv = [s EXCEPT !.failed = s.tx # None]
        \/ r.ok = TRUE /\ r.srv = s
    BY <2>1
  <2>2. r.ok \in BOOLEAN /\ r.srv \in Sessions
    BY <1>2, <2>a, Zenon
  <2>3. r.srv.tx = s.tx
    BY <2>1 DEF Sessions
  <2> QED
    BY <1>5, <2>2, <2>3
<1>6. CASE cmd.what \in {"savepoint", "release", "rollback to"}
  <2>1. \/ r = [ok |-> FALSE, srv |-> [s EXCEPT !.failed = s.tx # None]]
        \/ r = [ok |-> TRUE, srv |-> [s EXCEPT !.savepoint = TRUE]]
        \/ r = [ok |-> TRUE, srv |-> [s EXCEPT !.savepoint = FALSE]]
        \/ r = [ok |-> TRUE, srv |-> [s EXCEPT !.failed = FALSE]]
    BY <1>6 DEF Execute
  <2>c. \A ok, t : r = [ok |-> ok, srv |-> t] => r.ok = ok /\ r.srv = t
    OBVIOUS
  <2>a. \/ r.ok = FALSE /\ r.srv = [s EXCEPT !.failed = s.tx # None]
        \/ r.ok = TRUE /\ r.srv = [s EXCEPT !.savepoint = TRUE]
        \/ r.ok = TRUE /\ r.srv = [s EXCEPT !.savepoint = FALSE]
        \/ r.ok = TRUE /\ r.srv = [s EXCEPT !.failed = FALSE]
    BY <2>1, <2>c, Zenon
  <2>2. r.ok \in BOOLEAN
    BY <2>a, Zenon
  <2>b. /\ [s EXCEPT !.savepoint = TRUE] \in Sessions
        /\ [s EXCEPT !.savepoint = FALSE] \in Sessions
        /\ [s EXCEPT !.failed = FALSE] \in Sessions
    BY DEF Sessions
  <2>3. r.srv \in Sessions
    BY <1>2, <2>a, <2>b, Zenon
  <2>4. r.srv.tx = s.tx
    BY <2>1 DEF Sessions
  <2> QED
    BY <1>6, <2>2, <2>3, <2>4
<1>7. CASE cmd.what \in {"commit", "rollback"}
  <2>1. \/ r = [ok |-> TRUE, srv |-> Clean]
        \/ r = [ok |-> FALSE, srv |-> Clean] /\ cmd.what = "commit"
    BY <1>7 DEF Execute
  <2>a. (r.ok = TRUE \/ r.ok = FALSE) /\ r.srv = Clean
    BY <2>1
  <2>2. r.ok \in BOOLEAN /\ r.srv = Clean
    BY <2>a, Zenon
  <2>3. cmd.what = "rollback" => r.ok
    BY <2>1
  <2> QED
    BY <1>1, <1>7, <2>2, <2>3
<1> QED
  BY <1>1, <1>4, <1>5, <1>6, <1>7 DEF Whats

\* A transaction that is no longer open has a fate, and keeps it.
LEMMA Fates ==
  ASSUME TypeOK, NEW s \in Sessions, NEW t \in Sessions, NEW committed
  PROVE  /\ Fate(s, t, committed) \in [Txs -> {"none", "committed", "aborted"}]
         /\ \A q \in Txs : fate[q] # "none" => Fate(s, t, committed)[q] # "none"
         /\ s.tx # None /\ t.tx # s.tx => Fate(s, t, committed)[s.tx] # "none"
<1>1. fate \in [Txs -> {"none", "committed", "aborted"}] /\ s.tx \in Txs \cup {None}
  BY DEF TypeOK, Sessions
<1>2. CASE t.tx # s.tx /\ s.tx # None
  BY <1>1, <1>2 DEF Fate
<1>3. CASE ~(t.tx # s.tx /\ s.tx # None)
  BY <1>1, <1>3 DEF Fate
<1> QED
  BY <1>2, <1>3

LEMMA Senders ==
  ASSUME TypeOK, NEW d \in Conns
  PROVE  /\ \A i \in 1 .. Len(work[d]) :
              work[d][i] \in Commands /\ work[d][i].by \in Txs
         /\ work[d] # <<>> => Head(work[d]) = work[d][1] /\ Head(work[d]) \in Commands
<1>1. work[d] \in Seq(Commands)
  BY DEF TypeOK
<1>2. \A i \in 1 .. Len(work[d]) : work[d][i] \in Commands
  BY <1>1, ElementOfSeq
<1>3. \A cmd \in Commands : cmd.by \in Txs
  BY DEF Commands
<1>4. work[d] # <<>> => Head(work[d]) = work[d][1] /\ 1 \in 1 .. Len(work[d])
  BY <1>1, Dequeued
<1> QED
  BY <1>2, <1>3, <1>4

\* A command joins the others.
LEMMA Sent ==
  ASSUME TypeOK, NEW c \in Conns, NEW cmd \in Commands,
         work' = [work EXCEPT ![c] = Append(@, cmd)]
  PROVE  /\ work' \in [Conns -> Seq(Commands)]
         /\ work'[c] # <<>> /\ Len(work'[c]) = Len(work[c]) + 1
         /\ \A d \in Conns : d # c => work'[d] = work[d]
         /\ \A d \in Conns : \A i \in 1 .. Len(work'[d]) :
              \/ i \in 1 .. Len(work[d]) /\ work'[d][i] = work[d][i]
              \/ d = c /\ i = Len(work[c]) + 1 /\ work'[d][i] = cmd
<1>1. work \in [Conns -> Seq(Commands)]
  BY DEF TypeOK
<1>2. /\ work'[c] = Append(work[c], cmd) /\ work[c] \in Seq(Commands)
      /\ \A d \in Conns : d # c => work'[d] = work[d]
  BY <1>1
<1>3. /\ Len(work[c]) \in Nat
      /\ Append(work[c], cmd) \in Seq(Commands)
      /\ Len(Append(work[c], cmd)) = Len(work[c]) + 1
      /\ \A i \in 1 .. Len(work[c]) : Append(work[c], cmd)[i] = work[c][i]
      /\ Append(work[c], cmd)[Len(work[c]) + 1] = cmd
  BY <1>2, Enqueued
<1>4. work' \in [Conns -> Seq(Commands)]
  BY <1>1, <1>3
<1>5. work'[c] # <<>>
  BY <1>2, <1>3, EmptySeq
<1> QED
  BY <1>2, <1>3, <1>4, <1>5

\* The oldest command leaves.
LEMMA Done ==
  ASSUME TypeOK, NEW c \in Conns, work[c] # <<>>,
         work' = [work EXCEPT ![c] = Tail(@)]
  PROVE  /\ Head(work[c]) = work[c][1] /\ work[c][1] \in Commands
         /\ 1 \in 1 .. Len(work[c]) /\ Len(work[c]) \in Nat
         /\ work' \in [Conns -> Seq(Commands)]
         /\ Len(work'[c]) = Len(work[c]) - 1
         /\ Len(work[c]) = 1 <=> work'[c] = <<>>
         /\ \A d \in Conns : d # c => work'[d] = work[d]
         /\ \A d \in Conns : \A i \in 1 .. Len(work'[d]) :
              LET j == IF d = c THEN i + 1 ELSE i
              IN  j \in 1 .. Len(work[d]) /\ work'[d][i] = work[d][j]
<1>1. work \in [Conns -> Seq(Commands)] /\ work[c] \in Seq(Commands)
  BY DEF TypeOK
<1>2. /\ Head(work[c]) = work[c][1] /\ 1 \in 1 .. Len(work[c]) /\ Len(work[c]) \in Nat
      /\ Tail(work[c]) \in Seq(Commands) /\ Len(Tail(work[c])) = Len(work[c]) - 1
      /\ \A i \in 1 .. Len(work[c]) - 1 :
           Tail(work[c])[i] = work[c][i + 1] /\ i + 1 \in 1 .. Len(work[c])
  BY <1>1, Dequeued
<1>3. /\ work'[c] = Tail(work[c])
      /\ \A d \in Conns : d # c => work'[d] = work[d]
      /\ work' \in [Conns -> Seq(Commands)]
  BY <1>1, <1>2
<1>4. work[c][1] \in Commands
  BY <1>1, <1>2, ElementOfSeq
<1>5. Len(work[c]) = 1 <=> work'[c] = <<>>
  <2>1. Len(work'[c]) = 0 <=> work'[c] = <<>>
    BY <1>2, <1>3, EmptySeq
  <2> QED
    BY <1>2, <1>3, <2>1
<1> QED
  BY <1>2, <1>3, <1>4, <1>5


-----------------------------------------------------------------------------
(* Types, whatever the habits of the bodies *)

LEMMA TypeInit == Init => TypeInv
<1> SUFFICES ASSUME Init PROVE TypeInv
  OBVIOUS
<1>1. <<>> \in Seq(Conns) /\ <<>> \in Seq(Commands) /\ Clean \in Sessions
  BY DEF Clean, Sessions
<1>2. TypeOK
  BY <1>1 DEF Init, TypeOK, Sessions, Flows, ConnStates
<1>3. Shape
  BY DEF Init, Shape
<1>4. Attended
  <2>1. Len(<<>>) = 0
    BY EmptySeq
  <2> QED
    BY <2>1 DEF Init, Attended, Awaiting
<1> QED
  BY <1>2, <1>3, <1>4 DEF TypeInv

\* A command is sent by a body, or is the BEGIN of a new transaction.
LEMMA SentTypes ==
  ASSUME TypeInv, NEW p \in Txs, NEW c \in Conns, NEW what \in Whats, NEW next \in Flows,
         flow[p] \in {"none", "body"},
         next # "body" => Fits(next, what),
         st[c] \in {"none", "ready"} \/ (what = "sql" /\ st[c] = "pipelining"),
         work' = [work EXCEPT ![c] = Append(@, Command(p, what, next # "body"))],
         st' = [st EXCEPT ![c] = IF what = "sql" THEN "pipelining" ELSE "busy"],
         flow' = [flow EXCEPT ![p] = next],
         conn' = [conn EXCEPT ![p] = c],
         idle' \in Seq(Conns),
         UNCHANGED <<settled, sp, srv, fate>>
  PROVE  TypeInv'
<1> DEFINE cmd == Command(p, what, next # "body")
<1>1. cmd \in Commands /\ cmd.by = p /\ cmd.what = what /\ cmd.awaited = (next # "body")
  BY DEF Command, Commands
<1>2. TypeOK /\ Shape /\ Attended
  BY DEF TypeInv
<1>3. /\ work' \in [Conns -> Seq(Commands)]
      /\ work'[c] # <<>> /\ Len(work'[c]) = Len(work[c]) + 1
      /\ \A d \in Conns : d # c => work'[d] = work[d]
      /\ \A d \in Conns : \A i \in 1 .. Len(work'[d]) :
           \/ i \in 1 .. Len(work[d]) /\ work'[d][i] = work[d][i]
           \/ d = c /\ i = Len(work[c]) + 1 /\ work'[d][i] = cmd
  <2> HIDE DEF cmd
  <2>1. work' = [work EXCEPT ![c] = Append(@, cmd)]
    BY DEF cmd
  <2> QED
    BY <1>1, <1>2, <2>1, Sent
<1> HIDE DEF cmd
<1>4. /\ flow'[p] = next /\ conn'[p] = c
      /\ \A q \in Txs : q # p => flow'[q] = flow[q] /\ conn'[q] = conn[q]
      /\ st'[c] = (IF what = "sql" THEN "pipelining" ELSE "busy")
      /\ \A d \in Conns : d # c => st'[d] = st[d]
  BY <1>2 DEF TypeOK
<1>5. st[c] \in {"none", "ready"} => work[c] = <<>> /\ Len(work[c]) = 0
  <2>1. st[c] \in {"none", "ready"} => work[c] = <<>>
    BY <1>2 DEF TypeOK, Shape
  <2>2. \A s : s = <<>> => Len(s) = 0
    BY EmptySeq
  <2> QED
    BY <2>1, <2>2, Zenon
<1>6. \A d \in Conns : \A i \in 1 .. Len(work[d]) : work[d][i].awaited => work[d][i].by # p
  BY <1>2 DEF Attended, Fits
<1>7. TypeOK'
  <2>1. st' \in [Conns -> ConnStates]
    BY <1>2 DEF TypeOK, ConnStates
  <2>2. flow' \in [Txs -> Flows] /\ conn' \in [Txs -> Conns \cup {None}]
    BY <1>2 DEF TypeOK
  <2>3. \A d \in Conns : st'[d] = "ready" => work'[d] = <<>>
    BY <1>2, <1>3, <1>4 DEF TypeOK
  <2> QED
    BY <1>2, <1>3, <2>1, <2>2, <2>3 DEF TypeOK
<1>8. Shape'
  <2>1. \A d \in Conns : d # c =>
          /\ st'[d] = "none" => work'[d] = <<>>
          /\ st'[d] = "busy" => Len(work'[d]) = 1 /\ work'[d][1].what # "sql"
          /\ st'[d] = "pipelining" =>
               /\ work'[d] # <<>>
               /\ \A i \in 1 .. Len(work'[d]) : work'[d][i].what = "sql"
    BY <1>2, <1>3, <1>4 DEF Shape
  <2>2. CASE what = "sql"
    <3>1. \A i \in 1 .. Len(work'[c]) : work'[c][i].what = "sql"
      <4> SUFFICES ASSUME NEW i \in 1 .. Len(work'[c]) PROVE work'[c][i].what = "sql"
        OBVIOUS
      <4>1. CASE i = Len(work[c]) + 1
        BY <4>1, <2>2, <1>1, <1>3, <1>5, EmptySeq
      <4>2. CASE i \in 1 .. Len(work[c]) /\ work'[c][i] = work[c][i]
        <5>1. st[c] = "pipelining"
          BY <4>2, <1>5
        <5> QED
          BY <4>2, <5>1, <1>2 DEF Shape
      <4> QED
        BY <4>1, <4>2, <1>3
    <3> QED
      BY <3>1, <2>1, <2>2, <1>3, <1>4 DEF Shape
  <2>3. CASE what # "sql"
    <3>1. Len(work'[c]) = 1 /\ work'[c][1] = cmd
      BY <2>3, <1>3, <1>5
    <3> QED
      BY <3>1, <2>1, <2>3, <1>1, <1>4 DEF Shape
  <2> QED
    BY <2>2, <2>3
<1>9. Attended'
  <2>1. \A q \in Txs : flow'[q] \in Awaiting \cup {"body"} => conn'[q] \in Conns
    BY <1>2, <1>4 DEF Attended
  <2>2. ASSUME NEW d \in Conns, NEW i \in 1 .. Len(work'[d]), work'[d][i].awaited
        PROVE  /\ conn'[work'[d][i].by] = d
               /\ Fits(flow'[work'[d][i].by], work'[d][i].what)
    <3>1. CASE d = c /\ work'[d][i] = cmd
      BY <3>1, <2>2, <1>1, <1>4
    <3>2. CASE i \in 1 .. Len(work[d]) /\ work'[d][i] = work[d][i]
      <4>1. work[d][i].by \in Txs
        BY <3>2, <1>2, Senders
      <4>2. work[d][i].by # p
        BY <3>2, <2>2, <1>6
      <4> QED
        BY <4>1, <4>2, <3>2, <2>2, <1>2, <1>4 DEF Attended
    <3> QED
      BY <3>1, <3>2, <1>3
  <2>3. ASSUME NEW d \in Conns, NEW i \in 1 .. Len(work'[d]), NEW j \in 1 .. Len(work'[d]),
               work'[d][i].awaited, work'[d][j].awaited, work'[d][i].by = work'[d][j].by
        PROVE  i = j
    <3>1. \A k \in 1 .. Len(work'[d]) :
            k \in 1 .. Len(work[d]) /\ work'[d][k].awaited => work'[d][k].by # p
      BY <1>3, <1>6
    <3>2. \A k \in 1 .. Len(work'[d]) :
            k \notin 1 .. Len(work[d]) => work'[d][k].by = p /\ k = Len(work[d]) + 1
      BY <1>1, <1>3
    <3>3. CASE i \in 1 .. Len(work[d]) /\ j \in 1 .. Len(work[d])
      <4>1. work'[d][i] = work[d][i] /\ work'[d][j] = work[d][j]
        <5>1. Len(work[d]) + 1 \notin 1 .. Len(work[d])
          BY <1>2, LenProperties DEF TypeOK
        <5> QED
          BY <3>3, <5>1, <1>3
      <4> QED
        BY <3>3, <4>1, <2>3, <1>2 DEF Attended
    <3> QED
      BY <3>1, <3>2, <3>3, <2>3
  <2> QED
    BY <2>1, <2>2, <2>3 DEF Attended
<1> QED
  BY <1>7, <1>8, <1>9 DEF TypeInv

\* A command is answered or rejected.
LEMMA AnsweredTypes ==
  ASSUME TypeInv, NEW c \in Conns, work[c] # <<>>, NEW ok \in BOOLEAN,
         Continue(c, Head(work[c]), ok),
         work' = [work EXCEPT ![c] = Tail(@)],
         srv' \in [Conns -> Sessions],
         fate' \in [Txs -> {"none", "committed", "aborted"}]
  PROVE  TypeInv'
<1> DEFINE cmd == work[c][1]
           p == cmd.by
<1>1. TypeOK /\ Shape /\ Attended
  BY DEF TypeInv
<1>2. /\ Head(work[c]) = cmd /\ cmd \in Commands
      /\ 1 \in 1 .. Len(work[c]) /\ Len(work[c]) \in Nat
      /\ work' \in [Conns -> Seq(Commands)]
      /\ Len(work'[c]) = Len(work[c]) - 1
      /\ Len(work[c]) = 1 <=> work'[c] = <<>>
      /\ \A d \in Conns : d # c => work'[d] = work[d]
      /\ \A d \in Conns : \A i \in 1 .. Len(work'[d]) :
           LET j == IF d = c THEN i + 1 ELSE i
           IN  j \in 1 .. Len(work[d]) /\ work'[d][i] = work[d][j]
  BY <1>1, Done
<1>3. p \in Txs /\ cmd.what \in Whats /\ cmd.awaited \in BOOLEAN
  BY <1>2 DEF Commands
<1>4. cmd.awaited => conn[p] = c /\ Fits(flow[p], cmd.what)
  BY <1>1, <1>2 DEF Attended
<1>5. Continue(c, cmd, ok)
  BY <1>2
<1> HIDE DEF cmd, p
<1>6. /\ settled' \in [Txs -> BOOLEAN]
      /\ sp' \in [Txs -> {"none", "open", "settled"}]
      /\ conn' = conn
  BY <1>1, <1>3, <1>5 DEF Continue, TypeOK, p
<1>7. idle' \in Seq(Conns)
  <2>1. idle \in Seq(Conns)
    BY <1>1 DEF TypeOK
  <2>2. Returned(c) \in Seq(Conns)
    BY <2>1, Enqueued DEF Returned
  <2>3. Without(c) \in Seq(Conns)
    BY <2>1, RemoveFirstType DEF Without
  <2> QED
    BY <1>5, <2>1, <2>2, <2>3 DEF Continue
<1>8. /\ flow' = IF cmd.awaited THEN [flow EXCEPT ![p] = Onward(flow[p], ok)] ELSE flow
      /\ cmd.awaited => Onward(flow[p], ok) \in {"body", "refused", "resolved", "left"}
  <2>1. cmd.awaited => flow[p] \in {"begins", "waits", "commits", "leaves"}
    BY <1>4 DEF Fits
  <2> QED
    BY <2>1, <1>5 DEF Continue, Onward, p
<1>9. flow' \in [Txs -> Flows]
  BY <1>1, <1>3, <1>8 DEF TypeOK, Flows
<1>10. /\ st' = [st EXCEPT ![c] = st'[c]] /\ st' \in [Conns -> ConnStates]
       /\ st'[c] \in {"dead", "ended"}
            \/ (st'[c] = "ready" /\ Len(work[c]) = 1)
            \/ (st'[c] = "pipelining" /\ st[c] = "pipelining" /\ Len(work[c]) # 1)
  <2>1. \/ st' = [st EXCEPT ![c] = "ended"]
        \/ st' = [st EXCEPT ![c] = Answered(c, cmd)]
    BY <1>5 DEF Continue
  <2>2. st[c] \in {"dead", "ended", "busy", "pipelining"}
    BY <1>1 DEF TypeOK, ConnStates, Shape
  <2>3. \/ Answered(c, cmd) \in {"dead", "ended"}
        \/ Answered(c, cmd) = "ready" /\ Len(work[c]) = 1
        \/ Answered(c, cmd) = "pipelining" /\ st[c] = "pipelining" /\ Len(work[c]) # 1
    <3>1. st[c] = "pipelining" => cmd.what = "sql"
      BY <1>1, <1>2 DEF Shape, cmd
    <3>2. st[c] = "busy" => cmd.what # "sql" /\ Len(work[c]) = 1
      BY <1>1, <1>2 DEF Shape, cmd
    <3> QED
      BY <2>2, <3>1, <3>2 DEF Answered
  <2>4. Answered(c, cmd) \in ConnStates
    BY <2>3 DEF ConnStates
  <2>5. st \in [Conns -> ConnStates] /\ "ended" \in ConnStates
    BY <1>1 DEF TypeOK, ConnStates
  <2> QED
    BY <2>1, <2>3, <2>4, <2>5
<1>11. \A d \in Conns : d # c => st'[d] = st[d] /\ work'[d] = work[d]
  BY <1>1, <1>2, <1>10 DEF TypeOK
<1>12. TypeOK'
  <2>1. \A d \in Conns : st'[d] = "ready" => work'[d] = <<>>
    BY <1>1, <1>2, <1>10, <1>11 DEF TypeOK
  <2> QED
    BY <1>1, <1>2, <1>6, <1>7, <1>9, <1>10, <2>1 DEF TypeOK, Sessions
<1>13. Shape'
  <2>1. \A i \in 1 .. Len(work'[c]) : i + 1 \in 1 .. Len(work[c]) /\ work'[c][i] = work[c][i + 1]
    BY <1>2
  <2>2. st'[c] = "pipelining" =>
          work'[c] # <<>> /\ \A i \in 1 .. Len(work'[c]) : work'[c][i].what = "sql"
    BY <1>1, <1>2, <1>10, <2>1 DEF Shape
  <2> QED
    BY <1>1, <1>10, <1>11, <2>2 DEF Shape
<1>14. Attended'
  <2>1. /\ \A q \in Txs : q # p => flow'[q] = flow[q]
        /\ ~cmd.awaited => flow' = flow
    BY <1>1, <1>3, <1>8 DEF TypeOK
  <2>2. \A q \in Txs : flow'[q] \in Awaiting \cup {"body"} => conn'[q] \in Conns
    <3> SUFFICES ASSUME NEW q \in Txs, flow'[q] \in Awaiting \cup {"body"}
                 PROVE  conn'[q] \in Conns
      OBVIOUS
    <3>1. CASE q = p /\ cmd.awaited
      BY <3>1, <1>4, <1>6
    <3>2. CASE ~(q = p /\ cmd.awaited)
      BY <3>2, <2>1, <1>1, <1>6 DEF Attended
    <3> QED
      BY <3>1, <3>2
  <2>3. ASSUME NEW d \in Conns, NEW i \in 1 .. Len(work'[d]), work'[d][i].awaited
        PROVE  /\ conn'[work'[d][i].by] = d
               /\ Fits(flow'[work'[d][i].by], work'[d][i].what)
    <3>1. PICK j \in 1 .. Len(work[d]) :
            work'[d][i] = work[d][j] /\ j = (IF d = c THEN i + 1 ELSE i)
      BY <1>2
    <3>2. work[d][j].by \in Txs
      BY <1>1, Senders
    <3>3. /\ conn[work[d][j].by] = d
          /\ Fits(flow[work[d][j].by], work[d][j].what)
      BY <3>1, <2>3, <1>1 DEF Attended
    <3>4. ~(work[d][j].by = p /\ cmd.awaited)
      <4> SUFFICES ASSUME work[d][j].by = p, cmd.awaited PROVE FALSE
        OBVIOUS
      <4>1. d = c
        BY <3>3, <1>4
      <4>2. j = 1
        BY <4>1, <3>1, <2>3, <1>1, <1>2 DEF Attended, cmd, p
      <4> QED
        BY <4>1, <4>2, <3>1
    <3>5. flow'[work[d][j].by] = flow[work[d][j].by]
      BY <3>2, <3>4, <2>1
    <3> QED
      BY <3>1, <3>3, <3>5, <1>6
  <2>4. ASSUME NEW d \in Conns, NEW i \in 1 .. Len(work'[d]), NEW j \in 1 .. Len(work'[d]),
               work'[d][i].awaited, work'[d][j].awaited, work'[d][i].by = work'[d][j].by
        PROVE  i = j
    <3>1. PICK k \in 1 .. Len(work[d]) :
            work'[d][i] = work[d][k] /\ k = (IF d = c THEN i + 1 ELSE i)
      BY <1>2
    <3>2. PICK l \in 1 .. Len(work[d]) :
            work'[d][j] = work[d][l] /\ l = (IF d = c THEN j + 1 ELSE j)
      BY <1>2
    <3>3. k = l
      BY <3>1, <3>2, <2>4, <1>1 DEF Attended
    <3> QED
      BY <3>1, <3>2, <3>3
  <2> QED
    BY <2>2, <2>3, <2>4 DEF Attended
<1> QED
  BY <1>12, <1>13, <1>14 DEF TypeInv


LEMMA TypeNext == TypeInv /\ [Next]_vars => TypeInv'
<1> SUFFICES ASSUME TypeInv, [Next]_vars PROVE TypeInv'
  OBVIOUS
<1>1. TypeOK /\ Shape /\ Attended
  BY DEF TypeInv
<1>2. /\ \A q \in Txs : flow[q] = "body" => conn[q] \in Conns
      /\ idle \in Seq(Conns)
      /\ conn \in [Txs -> Conns \cup {None}]
      /\ flow \in [Txs -> Flows]
  BY <1>1 DEF TypeOK, Attended
<1>3. \A c \in Conns : Returned(c) \in Seq(Conns) /\ Without(c) \in Seq(Conns)
  BY <1>2, Enqueued, RemoveFirstType DEF Returned, Without
<1>4. ASSUME NEW p \in Txs, Body(p) PROVE TypeInv'
  <2>1. ASSUME NEW what \in Whats, NEW next \in Flows, Sends(p, what, next) PROVE TypeInv'
    <3>1. /\ conn[p] \in Conns
          /\ flow[p] \in {"none", "body"}
          /\ next # "body" => Fits(next, what)
          /\ st[conn[p]] \in {"none", "ready"} \/ (what = "sql" /\ st[conn[p]] = "pipelining")
          /\ work' = [work EXCEPT ![conn[p]] = Append(@, Command(p, what, next # "body"))]
          /\ st' = [st EXCEPT ![conn[p]] = IF what = "sql" THEN "pipelining" ELSE "busy"]
          /\ flow' = [flow EXCEPT ![p] = next]
          /\ idle' \in Seq(Conns)
          /\ UNCHANGED <<settled, sp, srv, fate>>
      BY <1>2, <2>1 DEF Sends
    <3>2. conn' = [conn EXCEPT ![p] = conn[p]]
      BY <1>2, <2>1 DEF Sends
    <3> QED
      BY <3>1, <3>2, SentTypes
  <2>2. ASSUME NEW next \in {"left", "body"}, Settles(p, next) PROVE TypeInv'
    <3>1. /\ conn[p] \in Conns /\ flow[p] = "body" /\ flow' = [flow EXCEPT ![p] = next]
          /\ settled' = [settled EXCEPT ![p] = TRUE]
          /\ st' = st \/ st' = [st EXCEPT ![conn[p]] = "ended"]
          /\ UNCHANGED <<work, conn, sp, srv, fate>>
      BY <1>2, <2>2 DEF Settles
    <3>2. idle' \in Seq(Conns)
      BY <1>3, <3>1, <2>2 DEF Settles
    <3>3. \A d \in Conns : st'[d] = st[d] \/ st'[d] = "ended"
      BY <1>1, <3>1 DEF TypeOK
    <3>4. TypeOK'
      <4>1. /\ st' \in [Conns -> ConnStates] /\ flow' \in [Txs -> Flows]
            /\ settled' \in [Txs -> BOOLEAN]
        BY <1>1, <3>1 DEF TypeOK, ConnStates, Flows
      <4> QED
        BY <1>1, <3>1, <3>2, <3>3, <4>1 DEF TypeOK
    <3>5. Shape'
      BY <1>1, <3>1, <3>3 DEF Shape
    <3>6. Attended'
      <4>1. \A q \in Txs : flow'[q] = flow[q] \/ q = p
        BY <1>2, <3>1
      <4>2. \A d \in Conns : \A i \in 1 .. Len(work[d]) :
              work[d][i].awaited => work[d][i].by # p /\ work[d][i].by \in Txs
        BY <1>1, <3>1, Senders DEF Attended, Fits
      <4>3. \A q \in Txs : flow'[q] \in Awaiting \cup {"body"} => conn'[q] \in Conns
        BY <1>1, <3>1, <4>1 DEF Attended
      <4>4. \A d \in Conns : \A i \in 1 .. Len(work[d]) :
              work[d][i].awaited => flow'[work[d][i].by] = flow[work[d][i].by]
        BY <4>1, <4>2
      <4> QED
        BY <1>1, <3>1, <4>3, <4>4 DEF Attended
    <3> QED
      BY <3>4, <3>5, <3>6 DEF TypeInv
  <2>3. ASSUME NEW next \in {"resolved", "left"}, Closes(p, next) PROVE TypeInv'
    <3>1. /\ conn[p] \in Conns /\ flow[p] = "body" /\ flow' = [flow EXCEPT ![p] = next]
          /\ UNCHANGED <<settled, conn, sp, idle, st, work, srv, fate>>
      BY <1>2, <2>3 DEF Closes
    <3>2. TypeOK'
      <4>1. flow' \in [Txs -> Flows]
        BY <1>1, <3>1 DEF TypeOK, Flows
      <4> QED
        BY <1>1, <3>1, <4>1 DEF TypeOK
    <3>3. Shape'
      BY <1>1, <3>1 DEF Shape
    <3>4. Attended'
      <4>1. \A q \in Txs : flow'[q] = flow[q] \/ q = p
        BY <1>2, <3>1
      <4>2. \A d \in Conns : \A i \in 1 .. Len(work[d]) :
              work[d][i].awaited => work[d][i].by # p /\ work[d][i].by \in Txs
        BY <1>1, <3>1, Senders DEF Attended, Fits
      <4>3. \A q \in Txs : flow'[q] \in Awaiting \cup {"body"} => conn'[q] \in Conns
        BY <1>1, <3>1, <4>1 DEF Attended
      <4>4. \A d \in Conns : \A i \in 1 .. Len(work[d]) :
              work[d][i].awaited => flow'[work[d][i].by] = flow[work[d][i].by]
        BY <4>1, <4>2
      <4> QED
        BY <1>1, <3>1, <4>3, <4>4 DEF Attended
    <3> QED
      BY <3>2, <3>3, <3>4 DEF TypeInv
  <2> QED
    BY <1>1, <1>4, <2>1, <2>2, <2>3, BodyCases
<1>5. ASSUME NEW p \in Txs, NEW c \in Conns, Begin(p, c) PROVE TypeInv'
  <2>1. idle # <<>> => Front(idle) \in Seq(Conns)
    BY <1>2, FrontFacts
  <2>2. CASE (IF st[c] = "none" THEN "ready" ELSE st[c]) = "ready"
    <3>1. /\ flow[p] = "none" /\ st[c] \in {"none", "ready"}
          /\ st' = [st EXCEPT ![c] = "busy"]
          /\ work' = [work EXCEPT ![c] = Append(@, Command(p, "begin", TRUE))]
          /\ flow' = [flow EXCEPT ![p] = "begins"]
          /\ conn' = [conn EXCEPT ![p] = c]
          /\ UNCHANGED <<settled, sp, srv, fate>>
      BY <1>5, <2>2 DEF Begin
    <3>2. idle' \in Seq(Conns)
      BY <1>2, <1>5, <2>1, <2>2 DEF Begin
    <3>3. /\ "begins" \in Flows /\ "begin" \in Whats /\ Fits("begins", "begin")
          /\ ("begins" # "body") = TRUE /\ "begin" # "sql"
      BY DEF Flows, Whats, Fits
    <3>4. /\ st' = [st EXCEPT ![c] = IF "begin" = "sql" THEN "pipelining" ELSE "busy"]
          /\ work' = [work EXCEPT ![c] = Append(@, Command(p, "begin", "begins" # "body"))]
          /\ st[c] \in {"none", "ready"} \/ ("begin" = "sql" /\ st[c] = "pipelining")
          /\ flow[p] \in {"none", "body"}
      BY <3>1, <3>3
    <3> QED
      BY <3>1, <3>2, <3>3, <3>4, SentTypes
  <2>3. CASE (IF st[c] = "none" THEN "ready" ELSE st[c]) # "ready"
    <3>1. /\ flow[p] = "none" /\ flow' = [flow EXCEPT ![p] = "refused"]
          /\ UNCHANGED <<settled, conn, sp, st, work, srv, fate>>
      BY <1>5, <2>3 DEF Begin
    <3>2. idle' \in Seq(Conns)
      <4>1. \E rest \in Seq(Conns) : idle' = Append(rest, c)
        BY <1>2, <1>5, <2>1, <2>3 DEF Begin
      <4> QED
        BY <4>1, Enqueued
    <3>3. TypeOK'
      <4>1. flow' \in [Txs -> Flows]
        BY <1>1, <3>1 DEF TypeOK, Flows
      <4> QED
        BY <1>1, <3>1, <3>2, <4>1 DEF TypeOK
    <3>4. Shape'
      BY <1>1, <3>1 DEF Shape
    <3>5. Attended'
      <4>1. \A q \in Txs : flow'[q] = flow[q] \/ (q = p /\ flow'[q] = "refused")
        BY <1>2, <3>1
      <4>2. \A d \in Conns : \A i \in 1 .. Len(work[d]) :
              work[d][i].awaited => work[d][i].by # p /\ work[d][i].by \in Txs
        BY <1>1, <3>1, Senders DEF Attended, Fits
      <4>3. \A q \in Txs : flow'[q] \in Awaiting \cup {"body"} => conn'[q] \in Conns
        BY <1>1, <3>1, <4>1 DEF Attended, Awaiting
      <4>4. \A d \in Conns : \A i \in 1 .. Len(work[d]) :
              work[d][i].awaited => flow'[work[d][i].by] = flow[work[d][i].by]
        BY <4>1, <4>2
      <4> QED
        BY <1>1, <3>1, <4>3, <4>4 DEF Attended
    <3> QED
      BY <3>3, <3>4, <3>5 DEF TypeInv
  <2> QED
    BY <2>2, <2>3
<1>6. ASSUME NEW c \in Conns, Finish(c) PROVE TypeInv'
  <2>1. PICK r \in Execute(Head(work[c]), srv[c]) :
          /\ srv' = [srv EXCEPT ![c] = r.srv]
          /\ fate' = Fate(srv[c], r.srv, Head(work[c]).what = "commit" /\ r.ok)
          /\ Continue(c, Head(work[c]), r.ok)
    BY <1>6 DEF Finish
  <2>2. work[c] # <<>> /\ work' = [work EXCEPT ![c] = Tail(@)]
    BY <1>6 DEF Finish
  <2>3. Head(work[c]) \in Commands
    BY <1>1, <2>2, Senders
  <2>4. srv \in [Conns -> Sessions] /\ srv[c] \in Sessions
    BY <1>1 DEF TypeOK, Sessions
  <2>5. r.ok \in BOOLEAN /\ r.srv \in Sessions
    BY <2>3, <2>4, Results
  <2>6. srv' \in [Conns -> Sessions]
    BY <2>1, <2>4, <2>5
  <2>7. fate' \in [Txs -> {"none", "committed", "aborted"}]
    BY <1>1, <2>1, <2>4, <2>5, Fates
  <2> QED
    BY <2>1, <2>2, <2>5, <2>6, <2>7, AnsweredTypes
<1>7. ASSUME NEW c \in Conns, Reject(c) PROVE TypeInv'
  <2>1. /\ work[c] # <<>> /\ work' = [work EXCEPT ![c] = Tail(@)]
        /\ Continue(c, Head(work[c]), FALSE)
        /\ srv' \in [Conns -> Sessions]
        /\ fate' \in [Txs -> {"none", "committed", "aborted"}]
    BY <1>1, <1>7 DEF Reject, TypeOK, Sessions
  <2>2. FALSE \in BOOLEAN
    OBVIOUS
  <2> QED
    BY <2>1, <2>2, AnsweredTypes
<1>8. ASSUME NEW c \in Conns, Lose(c) \/ SessionEnds(c) \/ Gone(c) PROVE TypeInv'
  <2>1. /\ UNCHANGED <<txVars, idle, work>>
        /\ \/ st' = [st EXCEPT ![c] = "dead"]
           \/ st' = [st EXCEPT ![c] = "none"] /\ work[c] = <<>>
           \/ st' = st
        /\ \/ srv' = srv /\ fate' = fate
           \/ /\ srv' = [srv EXCEPT ![c] = Clean]
              /\ \E committed : fate' = Fate(srv[c], Clean, committed)
    BY <1>8 DEF Lose, SessionEnds, Gone
  <2>2. srv[c] \in Sessions /\ Clean \in Sessions
    BY <1>1 DEF TypeOK, Sessions, Clean
  <2>3. fate' \in [Txs -> {"none", "committed", "aborted"}]
    BY <1>1, <2>1, <2>2, Fates DEF TypeOK
  <2>4. srv' \in [Conns -> Sessions] /\ st' \in [Conns -> ConnStates]
    <3>1. srv \in [Conns -> Sessions] /\ st \in [Conns -> ConnStates]
      BY <1>1 DEF TypeOK, Sessions
    <3>2. srv' \in [Conns -> Sessions]
      BY <2>1, <2>2, <3>1
    <3>3. st' \in [Conns -> ConnStates]
      BY <2>1, <3>1 DEF ConnStates
    <3> QED
      BY <3>2, <3>3
  <2>5. \A d \in Conns : st'[d] = st[d] \/ st'[d] = "dead" \/ (st'[d] = "none" /\ work[d] = <<>>)
    BY <1>1, <2>1 DEF TypeOK
  <2>6. TypeOK'
    <3>1. \A d \in Conns : st'[d] = "ready" => work'[d] = <<>>
      BY <1>1, <2>1, <2>5 DEF TypeOK
    <3> QED
      BY <1>1, <2>1, <2>3, <2>4, <3>1 DEF TypeOK, Sessions, txVars
  <2>7. Shape'
    BY <1>1, <2>1, <2>5 DEF Shape
  <2>8. Attended'
    BY <1>1, <2>1 DEF Attended, txVars
  <2> QED
    BY <2>6, <2>7, <2>8 DEF TypeInv
<1>9. ASSUME UNCHANGED vars PROVE TypeInv'
  BY <1>9 DEF vars, txVars, TypeInv, TypeOK, Shape, Attended
<1> QED
  BY <1>4, <1>5, <1>6, <1>7, <1>8, <1>9 DEF Next

\* The types of the variables, and a ready connection has nothing in flight,
\* however the bodies use their transactions.
THEOREM TypeCorrect == Spec => []TypeOK
<1>1. TypeInv => TypeOK
  BY DEF TypeInv
<1> QED
  BY TypeInit, TypeNext, <1>1, PTL DEF Spec


-----------------------------------------------------------------------------
(* Leases, of bodies that await their calls *)

LEMMA LeaseInit == Init => LeaseInv
<1> SUFFICES ASSUME Init PROVE LeaseInv
  OBVIOUS
<1>1. Range(idle) = {} /\ IsInjective(idle)
  BY DEF Init, Range, IsInjective
<1>2. \A p \in Txs, c \in Conns : ~Leases(p, c)
  BY TransactionAssumption DEF Init, Leases
<1>3. OneCommand
  BY DEF Init, OneCommand, Awaiting
<1>4. Where
  BY <1>1, <1>2 DEF Init, Where
<1>5. Open
  BY <1>1, <1>2 DEF Init, Open
<1> QED
  BY <1>3, <1>4, <1>5 DEF LeaseInv

\* Who sent a command leases the connection, and a body has none in flight.
LEMMA Lessees ==
  ASSUME TypeInv, LeaseInv
  PROVE  /\ \A c \in Conns : work[c] # <<>> =>
              /\ Len(work[c]) = 1 /\ work[c][1] \in Commands
              /\ work[c][1].awaited
              /\ Leases(work[c][1].by, c)
              /\ Fits(flow[work[c][1].by], work[c][1].what)
         /\ \A p \in Txs : flow[p] = "body" /\ ~settled[p] =>
              /\ conn[p] \in Conns /\ Leases(p, conn[p])
              /\ work[conn[p]] = <<>>
              /\ st[conn[p]] \in {"ready", "dead"}
         /\ \A p \in Txs : flow[p] \in Awaiting =>
              conn[p] \in Conns /\ Leases(p, conn[p]) /\ work[conn[p]] # <<>>
<1>1. TypeOK /\ Shape /\ Attended /\ OneCommand /\ Where /\ Open
  BY DEF TypeInv, LeaseInv
<1>2. ASSUME NEW c \in Conns, work[c] # <<>>
      PROVE  /\ Len(work[c]) = 1 /\ work[c][1] \in Commands
             /\ work[c][1].awaited
             /\ Leases(work[c][1].by, c)
             /\ Fits(flow[work[c][1].by], work[c][1].what)
  <2>1. /\ Len(work[c]) = 1 /\ 1 \in 1 .. Len(work[c]) /\ work[c][1].awaited
        /\ ~settled[work[c][1].by]
    BY <1>1, <1>2 DEF OneCommand
  <2>2. work[c][1] \in Commands /\ work[c][1].by \in Txs
    BY <1>1, <2>1, Senders
  <2>3. /\ conn[work[c][1].by] = c
        /\ Fits(flow[work[c][1].by], work[c][1].what)
    BY <1>1, <2>1 DEF Attended
  <2> QED
    BY <2>1, <2>2, <2>3 DEF Leases, Fits
<1>3. ASSUME NEW p \in Txs, flow[p] = "body", ~settled[p]
      PROVE  /\ conn[p] \in Conns /\ Leases(p, conn[p])
             /\ work[conn[p]] = <<>>
             /\ st[conn[p]] \in {"ready", "dead"}
  <2>1. conn[p] \in Conns /\ Leases(p, conn[p])
    BY <1>1, <1>3 DEF Attended, Leases
  <2>2. work[conn[p]] = <<>>
    <3> SUFFICES ASSUME work[conn[p]] # <<>> PROVE FALSE
      OBVIOUS
    <3> DEFINE q == work[conn[p]][1].by
    <3>1. q \in Txs /\ Leases(q, conn[p]) /\ Fits(flow[q], work[conn[p]][1].what)
      BY <2>1, <1>2 DEF Commands
    <3>2. q = p
      BY <1>1, <2>1, <3>1 DEF Where
    <3> QED
      BY <3>1, <3>2, <1>3 DEF Fits
  <2>3. st[conn[p]] \notin {"none", "ended", "busy", "pipelining"}
    <3>1. st[conn[p]] \notin {"none", "ended"}
      BY <1>1, <2>1 DEF Where
    <3>2. Len(work[conn[p]]) = 0
      BY <2>2, EmptySeq
    <3> QED
      BY <1>1, <2>1, <2>2, <3>1, <3>2 DEF Shape
  <2> QED
    BY <1>1, <2>1, <2>2, <2>3 DEF TypeOK, ConnStates
<1>4. ASSUME NEW p \in Txs, flow[p] \in Awaiting
      PROVE  conn[p] \in Conns /\ Leases(p, conn[p]) /\ work[conn[p]] # <<>>
  <2>1. conn[p] \in Conns /\ work[conn[p]] # <<>>
    BY <1>1, <1>4 DEF Attended, OneCommand
  <2>2. ~settled[p]
    BY <1>1, <1>4 DEF Open, Awaiting, TypeOK
  <2> QED
    BY <1>4, <2>1, <2>2 DEF Leases, Awaiting
<1> QED
  BY <1>2, <1>3, <1>4

\* One transaction and one connection change, the rest stays where it is.
LEMMA Moved ==
  ASSUME Where, NEW p \in Txs, NEW c \in Conns,
         \A q \in Txs \ {p}, d \in Conns : Leases(q, d)' <=> Leases(q, d),
         \A q \in Txs \ {p} : ~Leases(q, c),
         \A d \in Conns \ {c} : ~Leases(p, d) /\ ~Leases(p, d)',
         IsInjective(idle'),
         \A d \in Conns \ {c} : d \in Range(idle') <=> d \in Range(idle),
         \A d \in Conns \ {c} : st'[d] \in {"none", "ended"} <=> st[d] \in {"none", "ended"},
         Leases(p, c)' => c \notin Range(idle'),
         st'[c] \in {"none", "ended"} <=> c \notin Range(idle') /\ ~Leases(p, c)'
  PROVE  Where'
<1>1. \A q, r \in Txs, d \in Conns : Leases(q, d)' /\ Leases(r, d)' => q = r
  BY DEF Where
<1>2. \A q \in Txs, d \in Conns : Leases(q, d)' => d \notin Range(idle')
  BY DEF Where
<1>3. ASSUME NEW d \in Conns
      PROVE  st'[d] \in {"none", "ended"} <=>
               d \notin Range(idle') /\ \A q \in Txs : ~Leases(q, d)'
  <2>1. CASE d = c
    BY <2>1
  <2>2. CASE d # c
    BY <2>2 DEF Where
  <2> QED
    BY <2>1, <2>2
<1> QED
  BY <1>1, <1>2, <1>3 DEF Where

\* What the session of another connection holds does not change with c, which
\* holds at most what its lessee has open.
LEMMA StaysSealed ==
  ASSUME TypeOK, Where, Open, NEW p \in Txs, NEW c \in Conns, Leases(p, c),
         conn' = conn,
         \A d \in Conns \ {c} : srv'[d] = srv[d] /\ st'[d] = st[d],
         \A q \in Txs : fate[q] # "none" => fate'[q] # "none",
         NEW q \in Txs \ {p}, settled[q]
  PROVE  conn'[q] \in Conns /\ Sealed(q, conn[q])'
<1>1. conn[q] \in Conns /\ Sealed(q, conn[q])
  BY DEF Open
<1>2. CASE conn[q] = c
  <2>1. srv[c].tx # q
    <3>1. srv[c] = Clean \/ srv[c].tx = p
      BY DEF Open, Holds
    <3> QED
      BY <3>1, TransactionAssumption DEF Clean
  <2>2. fate[q] # "none"
    BY <1>1, <1>2, <2>1 DEF Sealed
  <2> QED
    BY <1>1, <2>2 DEF Sealed
<1>3. CASE conn[q] # c
  BY <1>1, <1>3 DEF Sealed, Lost
<1> QED
  BY <1>2, <1>3

\* A transaction ends its lease: the connection goes to the idle stack, or away.
LEMMA Ends ==
  ASSUME TypeInv, LeaseInv, NEW p \in Txs, NEW c \in Conns, Leases(p, c),
         \A q \in Txs \ {p} : flow'[q] = flow[q] /\ settled'[q] = settled[q],
         conn' = conn,
         \A d \in Conns \ {c} : work'[d] = work[d] /\ srv'[d] = srv[d] /\ st'[d] = st[d],
         \A q \in Txs : fate[q] # "none" => fate'[q] # "none",
         work'[c] = <<>>, Lost(c)' \/ srv'[c] = Clean,
         \/ flow'[p] = "refused" /\ ~settled'[p]
         \/ /\ flow'[p] \in {"body", "resolved", "left"} /\ settled'[p]
            /\ Sealed(p, c)',
         \/ idle' = Append(idle, c) /\ st'[c] \notin {"none", "ended"}
         \/ idle' = idle /\ st'[c] = "ended"
  PROVE  LeaseInv'
<1>1. TypeOK /\ Shape /\ Attended /\ OneCommand /\ Where /\ Open
  BY DEF TypeInv, LeaseInv
<1>2. idle \in Seq(Conns) /\ c \notin Range(idle) /\ IsInjective(idle)
  BY <1>1 DEF TypeOK, Where
<1>3. /\ IsInjective(idle')
      /\ \A d : d # c => (d \in Range(idle') <=> d \in Range(idle))
      /\ c \in Range(idle') <=> st'[c] \notin {"none", "ended"}
  <2>1. CASE idle' = Append(idle, c) /\ st'[c] \notin {"none", "ended"}
    <3>1. IsInjective(Append(idle, c)) /\ Range(Append(idle, c)) = Range(idle) \cup {c}
      BY <1>2, AppendDistinct
    <3> QED
      BY <2>1, <3>1
  <2>2. CASE idle' = idle /\ st'[c] = "ended"
    BY <2>2, <1>2
  <2> QED
    BY <2>1, <2>2
<1>4. /\ \A q \in Txs \ {p}, d \in Conns : Leases(q, d)' <=> Leases(q, d)
      /\ \A q \in Txs \ {p} : ~Leases(q, c)
      /\ \A d \in Conns \ {c} : ~Leases(p, d)
      /\ \A d \in Conns : ~Leases(p, d)'
  <2>1. \A q \in Txs \ {p}, d \in Conns : Leases(q, d)' <=> Leases(q, d)
    BY DEF Leases
  <2>2. \A q \in Txs \ {p} : ~Leases(q, c)
    BY <1>1 DEF Where
  <2>3. \A d \in Conns \ {c} : ~Leases(p, d)
    BY DEF Leases
  <2>4. \A d \in Conns : ~Leases(p, d)'
    BY DEF Leases
  <2> QED
    BY <2>1, <2>2, <2>3, <2>4
<1>5. Where'
  BY <1>1, <1>3, <1>4, Moved
<1>6. OneCommand'
  <2>1. \A d \in Conns : work[d] # <<>> /\ d # c => work[d][1].by \in Txs \ {p}
    <3> SUFFICES ASSUME NEW d \in Conns, work[d] # <<>>, d # c
                 PROVE  work[d][1].by \in Txs \ {p}
      OBVIOUS
    <3>1. work[d][1] \in Commands /\ Leases(work[d][1].by, d)
      BY Lessees
    <3>2. work[d][1].by \in Txs
      BY <3>1 DEF Commands
    <3> QED
      BY <3>1, <3>2, <1>4
  <2>2. \A d \in Conns :
          work'[d] # <<>> => /\ Len(work'[d]) = 1
                             /\ work'[d][1].awaited
                             /\ ~settled'[work'[d][1].by]
    BY <1>1, <2>1 DEF OneCommand
  <2>3. \A q \in Txs :
          /\ flow'[q] \in Awaiting => work'[conn'[q]] # <<>> /\ work'[conn'[q]][1].by = q
          /\ flow'[q] = "none" => conn'[q] = None /\ ~settled'[q]
    <3> SUFFICES ASSUME NEW q \in Txs
                 PROVE  /\ flow'[q] \in Awaiting =>
                             work'[conn[q]] # <<>> /\ work'[conn[q]][1].by = q
                        /\ flow'[q] = "none" => conn[q] = None /\ ~settled'[q]
      OBVIOUS
    <3>1. CASE q = p
      BY <3>1 DEF Awaiting
    <3>2. CASE q # p
      <4>1. flow[q] \in Awaiting => conn[q] \in Conns /\ conn[q] # c
        BY <3>2, <1>4, Lessees
      <4> QED
        BY <3>2, <4>1, <1>1 DEF OneCommand
    <3> QED
      BY <3>1, <3>2
  <2> QED
    BY <2>2, <2>3 DEF OneCommand
<1>7. Open'
  <2>1. \A d \in Conns : st'[d] = "none" => srv'[d] = Clean
    <3>1. st'[c] # "none"
      BY DEF Lost
    <3> QED
      BY <1>1, <3>1 DEF Open
  <2>2. \A d \in Range(idle') : work'[d] = <<>> /\ (st'[d] # "dead" => srv'[d] = Clean)
    <3>1. \A d \in Range(idle) : d \in Conns
      BY <1>2, RangeByIndex, ElementOfSeq
    <3>2. c \in Range(idle') => (st'[c] # "dead" => srv'[c] = Clean)
      BY <1>3 DEF Lost
    <3> QED
      BY <1>1, <1>3, <3>1, <3>2 DEF Open
  <2>3. \A q \in Txs, d \in Conns :
          Leases(q, d)' =>
            IF flow'[q] = "begins" THEN srv'[d] = Clean ELSE Holds(q, d)'
    <3> SUFFICES ASSUME NEW q \in Txs, NEW d \in Conns, Leases(q, d)'
                 PROVE  IF flow'[q] = "begins" THEN srv'[d] = Clean ELSE Holds(q, d)'
      OBVIOUS
    <3>1. q # p /\ d # c /\ Leases(q, d)
      BY <1>4
    <3> QED
      BY <1>1, <3>1 DEF Open, Holds
  <2>4. ASSUME NEW q \in Txs
        PROVE  /\ settled'[q] => /\ conn'[q] \in Conns /\ Sealed(q, conn[q])'
                                 /\ flow'[q] \in {"body", "resolved", "left"}
               /\ flow'[q] \in {"resolved", "left"} => settled'[q]
    <3>1. CASE q = p
      <4>1. conn[p] = c
        BY DEF Leases
      <4> QED
        BY <3>1, <4>1 DEF Sealed, Lost
    <3>2. CASE q # p
      <4>1. settled[q] => conn'[q] \in Conns /\ Sealed(q, conn[q])'
        BY <1>1, <3>2, StaysSealed
      <4> QED
        BY <1>1, <3>2, <4>1 DEF Open
    <3> QED
      BY <3>1, <3>2
  <2> QED
    BY <2>1, <2>2, <2>3, <2>4 DEF Open
<1> QED
  BY <1>5, <1>6, <1>7 DEF LeaseInv

\* A transaction keeps its lease and sends a command, or has an answer.
LEMMA Keeps ==
  ASSUME TypeInv, LeaseInv, NEW p \in Txs, NEW c \in Conns, Leases(p, c),
         flow[p] \notin {"none", "refused"},
         \A q \in Txs \ {p} : flow'[q] = flow[q],
         conn' = conn, settled' = settled, idle' = idle,
         \A d \in Conns \ {c} : work'[d] = work[d] /\ srv'[d] = srv[d] /\ st'[d] = st[d],
         \A q \in Txs : fate[q] # "none" => fate'[q] # "none",
         st'[c] \in {"ready", "pipelining", "busy", "dead"},
         Holds(p, c)',
         \/ flow'[p] = "body" /\ work'[c] = <<>>
         \/ /\ flow'[p] \in {"waits", "commits", "leaves"}
            /\ work'[c] # <<>> /\ Len(work'[c]) = 1
            /\ work'[c][1].awaited /\ work'[c][1].by = p
  PROVE  LeaseInv'
<1>1. TypeOK /\ Shape /\ Attended /\ OneCommand /\ Where /\ Open
  BY DEF TypeInv, LeaseInv
<1>2. idle \in Seq(Conns) /\ c \notin Range(idle) /\ IsInjective(idle)
  BY <1>1 DEF TypeOK, Where
<1>3. conn[p] = c /\ ~settled[p] /\ flow[p] # "refused"
  BY DEF Leases
<1>4. /\ \A q \in Txs \ {p}, d \in Conns : Leases(q, d)' <=> Leases(q, d)
      /\ \A q \in Txs \ {p} : ~Leases(q, c)
      /\ \A d \in Conns \ {c} : ~Leases(p, d) /\ ~Leases(p, d)'
      /\ Leases(p, c)'
  <2>1. \A q \in Txs \ {p}, d \in Conns : Leases(q, d)' <=> Leases(q, d)
    BY DEF Leases
  <2>2. \A q \in Txs \ {p} : ~Leases(q, c)
    BY <1>1 DEF Where
  <2>3. \A d \in Conns \ {c} : ~Leases(p, d) /\ ~Leases(p, d)'
    BY <1>3 DEF Leases
  <2>4. Leases(p, c)'
    BY <1>3 DEF Leases
  <2> QED
    BY <2>1, <2>2, <2>3, <2>4
<1>5. Where'
  <2>1. /\ IsInjective(idle') /\ c \notin Range(idle')
        /\ \A d \in Conns \ {c} : d \in Range(idle') <=> d \in Range(idle)
    BY <1>2
  <2>2. st'[c] \in {"none", "ended"} <=> c \notin Range(idle') /\ ~Leases(p, c)'
    BY <1>4
  <2> QED
    BY <1>1, <1>4, <2>1, <2>2, Moved
<1>6. OneCommand'
  <2>1. \A d \in Conns :
          work'[d] # <<>> => /\ Len(work'[d]) = 1
                             /\ work'[d][1].awaited
                             /\ ~settled'[work'[d][1].by]
    BY <1>1, <1>3 DEF OneCommand
  <2>2. \A q \in Txs :
          /\ flow'[q] \in Awaiting => work'[conn'[q]] # <<>> /\ work'[conn'[q]][1].by = q
          /\ flow'[q] = "none" => conn'[q] = None /\ ~settled'[q]
    <3> SUFFICES ASSUME NEW q \in Txs
                 PROVE  /\ flow'[q] \in Awaiting =>
                             work'[conn[q]] # <<>> /\ work'[conn[q]][1].by = q
                        /\ flow'[q] = "none" => conn[q] = None /\ ~settled[q]
      OBVIOUS
    <3>1. CASE q = p
      BY <3>1, <1>3 DEF Awaiting
    <3>2. CASE q # p
      <4>1. flow[q] \in Awaiting => conn[q] \in Conns /\ conn[q] # c
        BY <3>2, <1>4, Lessees
      <4> QED
        BY <3>2, <4>1, <1>1 DEF OneCommand
    <3> QED
      BY <3>1, <3>2
  <2> QED
    BY <2>1, <2>2 DEF OneCommand
<1>7. Open'
  <2>1. \A d \in Conns : st'[d] = "none" => srv'[d] = Clean
    BY <1>1 DEF Open
  <2>2. \A d \in Range(idle') : work'[d] = <<>> /\ (st'[d] # "dead" => srv'[d] = Clean)
    <3>1. \A d \in Range(idle) : d \in Conns /\ d # c
      BY <1>2, RangeByIndex, ElementOfSeq
    <3> QED
      BY <1>1, <3>1 DEF Open
  <2>3. \A q \in Txs, d \in Conns :
          Leases(q, d)' =>
            IF flow'[q] = "begins" THEN srv'[d] = Clean ELSE Holds(q, d)'
    <3> SUFFICES ASSUME NEW q \in Txs, NEW d \in Conns, Leases(q, d)'
                 PROVE  IF flow'[q] = "begins" THEN srv'[d] = Clean ELSE Holds(q, d)'
      OBVIOUS
    <3>1. CASE q = p
      <4>1. d = c /\ flow'[p] # "begins"
        BY <3>1, <1>4
      <4> QED
        BY <3>1, <4>1
    <3>2. CASE q # p
      <4>1. d # c /\ Leases(q, d)
        BY <3>2, <1>4
      <4> QED
        BY <1>1, <3>2, <4>1 DEF Open, Holds
    <3> QED
      BY <3>1, <3>2
  <2>4. ASSUME NEW q \in Txs
        PROVE  /\ settled'[q] => /\ conn'[q] \in Conns /\ Sealed(q, conn[q])'
                                 /\ flow'[q] \in {"body", "resolved", "left"}
               /\ flow'[q] \in {"resolved", "left"} => settled'[q]
    <3>1. CASE q = p
      BY <3>1, <1>3
    <3>2. CASE q # p
      <4>1. settled[q] => conn'[q] \in Conns /\ Sealed(q, conn[q])'
        BY <1>1, <3>2, StaysSealed
      <4> QED
        BY <1>1, <3>2, <4>1 DEF Open
    <3> QED
      BY <3>1, <3>2
  <2> QED
    BY <2>1, <2>2, <2>3, <2>4 DEF Open
<1> QED
  BY <1>5, <1>6, <1>7 DEF LeaseInv

\* The step of a body that awaits its calls.
LEMMA BodyLeases ==
  ASSUME Habits = {}, TypeInv, LeaseInv, NEW p \in Txs, Body(p)
  PROVE  LeaseInv'
<1>1. TypeOK /\ Shape /\ Attended /\ OneCommand /\ Where /\ Open
  BY DEF TypeInv, LeaseInv
<1>2. /\ flow \in [Txs -> Flows] /\ settled \in [Txs -> BOOLEAN]
      /\ st \in [Conns -> ConnStates] /\ idle \in Seq(Conns)
  BY <1>1 DEF TypeOK
<1>3. ASSUME NEW what \in Whats, NEW next \in Flows, Sends(p, what, next) PROVE LeaseInv'
  <2> DEFINE c == conn[p]
             cmd == Command(p, what, TRUE)
  <2>1. /\ flow[p] = "body" /\ ~settled[p] /\ what # "begin"
        /\ next # "body" /\ Fits(next, what)
        /\ work' = [work EXCEPT ![c] = Append(@, Command(p, what, next # "body"))]
        /\ st' = [st EXCEPT ![c] = IF what = "sql" THEN "pipelining" ELSE "busy"]
        /\ flow' = [flow EXCEPT ![p] = next]
        /\ UNCHANGED <<settled, conn, sp, idle, srv, fate>>
    BY <1>3 DEF Sends
  <2>2. c \in Conns /\ Leases(p, c) /\ work[c] = <<>> /\ st[c] \in {"ready", "dead"}
    BY <2>1, Lessees
  <2>3. st[c] = "ready"
    BY <2>2, <1>3 DEF Sends
  <2>4. cmd \in Commands /\ cmd.awaited /\ cmd.by = p /\ (next # "body") = TRUE
    BY <2>1 DEF Command, Commands
  <2> HIDE DEF c, cmd
  <2>5. work' = [work EXCEPT ![c] = Append(@, cmd)]
    BY <2>1, <2>4 DEF cmd
  <2>6. /\ work'[c] # <<>> /\ Len(work'[c]) = Len(work[c]) + 1
        /\ \A d \in Conns : d # c => work'[d] = work[d]
        /\ \A d \in Conns : \A i \in 1 .. Len(work'[d]) :
             \/ i \in 1 .. Len(work[d]) /\ work'[d][i] = work[d][i]
             \/ d = c /\ i = Len(work[c]) + 1 /\ work'[d][i] = cmd
    BY <1>1, <2>2, <2>4, <2>5, Sent
  <2>7. work'[c] # <<>> /\ Len(work'[c]) = 1 /\ work'[c][1] = cmd
    <3>1. Len(work[c]) = 0
      BY <2>2, EmptySeq
    <3> QED
      BY <2>2, <2>6, <3>1
  <2>8. next \in {"waits", "commits", "leaves"}
    BY <2>1 DEF Fits
  <2>9. srv[c].tx = p
    BY <1>1, <2>1, <2>2, <2>3 DEF Open, Holds
  <2>10. /\ \A q \in Txs \ {p} : flow'[q] = flow[q]
         /\ flow'[p] = next
         /\ \A d \in Conns \ {c} : work'[d] = work[d] /\ srv'[d] = srv[d] /\ st'[d] = st[d]
         /\ st'[c] \in {"pipelining", "busy"}
         /\ conn' = conn /\ settled' = settled /\ idle' = idle /\ fate' = fate /\ srv' = srv
    BY <1>2, <2>1, <2>2, <2>6
  <2>11. /\ st'[c] \in {"ready", "pipelining", "busy", "dead"}
         /\ srv'[c].tx = p
         /\ \A q \in Txs : fate[q] # "none" => fate'[q] # "none"
         /\ flow[p] \notin {"none", "refused"}
         /\ flow'[p] \in {"waits", "commits", "leaves"}
         /\ work'[c][1].awaited /\ work'[c][1].by = p
    BY <2>1, <2>4, <2>7, <2>8, <2>9, <2>10
  <2> QED
    BY <2>2, <2>7, <2>10, <2>11, Keeps DEF Holds
<1>4. ASSUME NEW next \in {"left", "body"}, Settles(p, next) PROVE LeaseInv'
  <2> DEFINE c == conn[p]
  <2>1. /\ flow[p] = "body" /\ ~settled[p] /\ st[c] # "ready"
        /\ settled' = [settled EXCEPT ![p] = TRUE]
        /\ flow' = [flow EXCEPT ![p] = next]
        /\ \/ idle' = Returned(c) /\ st' = st
           \/ idle' = Without(c) /\ st' = [st EXCEPT ![c] = "ended"]
        /\ UNCHANGED <<work, conn, sp, srv, fate>>
    BY <1>4 DEF Settles
  <2>2. c \in Conns /\ Leases(p, c) /\ work[c] = <<>> /\ st[c] = "dead"
    BY <2>1, Lessees
  <2> HIDE DEF c
  <2>3. Holds(p, c) /\ c \notin Range(idle)
    BY <1>1, <2>1, <2>2 DEF Open, Where
  <2>4. Without(c) = idle /\ Returned(c) = Append(idle, c)
    BY <1>2, <2>3, RemoveNothing DEF Without, Returned
  <2>5. /\ \A q \in Txs \ {p} : flow'[q] = flow[q] /\ settled'[q] = settled[q]
        /\ flow'[p] = next /\ settled'[p]
        /\ \A d \in Conns \ {c} : work'[d] = work[d] /\ srv'[d] = srv[d] /\ st'[d] = st[d]
        /\ \/ idle' = Append(idle, c) /\ st'[c] = "dead"
           \/ idle' = idle /\ st'[c] = "ended"
        /\ conn' = conn /\ work'[c] = <<>> /\ srv' = srv /\ fate' = fate
    BY <1>2, <2>1, <2>2, <2>4
  <2>6. /\ flow'[p] \in {"body", "resolved", "left"}
        /\ st'[c] \in {"dead", "ended"}
        /\ fate'[p] # "none" \/ srv'[c].tx = p
        /\ \A q \in Txs : fate[q] # "none" => fate'[q] # "none"
    BY <2>3, <2>5 DEF Holds
  <2> QED
    BY <2>2, <2>5, <2>6, Ends DEF Lost, Sealed
<1>5. ASSUME NEW next \in {"resolved", "left"}, Closes(p, next) PROVE LeaseInv'
  <2>1. /\ flow[p] = "body" /\ settled[p] /\ flow' = [flow EXCEPT ![p] = next]
        /\ UNCHANGED <<settled, conn, sp, idle, st, work, srv, fate>>
    BY <1>5 DEF Closes
  <2>2. /\ \A q \in Txs : q # p => flow'[q] = flow[q]
        /\ flow'[p] = next /\ next \notin Awaiting \cup {"none", "refused", "begins"}
    BY <1>2, <2>1 DEF Awaiting
  <2>3. \A q \in Txs, d \in Conns : Leases(q, d)' <=> Leases(q, d)
    BY <2>1, <2>2 DEF Leases
  <2>4. OneCommand'
    BY <1>1, <2>1, <2>2 DEF OneCommand
  <2>5. Where'
    BY <1>1, <2>1, <2>3 DEF Where
  <2>6. Open'
    <3>1. \A q \in Txs, d \in Conns : Leases(q, d)' => q # p
      BY <2>1 DEF Leases
    <3>2. \A q \in Txs, d \in Conns :
            Leases(q, d)' =>
              IF flow'[q] = "begins" THEN srv[d] = Clean ELSE Holds(q, d)
      BY <1>1, <2>2, <2>3, <3>1 DEF Open
    <3>3. \A q \in Txs :
            /\ settled[q] => /\ conn[q] \in Conns /\ Sealed(q, conn[q])
                             /\ flow'[q] \in {"body", "resolved", "left"}
            /\ flow'[q] \in {"resolved", "left"} => settled[q]
      BY <1>1, <2>1, <2>2 DEF Open
    <3> QED
      BY <1>1, <2>1, <3>2, <3>3 DEF Open, Holds, Sealed, Lost
  <2> QED
    BY <2>4, <2>5, <2>6 DEF LeaseInv
<1> QED
  BY <1>1, <1>3, <1>4, <1>5, BodyCases

\* BEGIN is sent on a connection that nobody has, or refused by a dead one.
LEMMA BeginLeases ==
  ASSUME TypeInv, LeaseInv, NEW p \in Txs, NEW c \in Conns, Begin(p, c)
  PROVE  LeaseInv'
<1>1. TypeOK /\ Shape /\ Attended /\ OneCommand /\ Where /\ Open
  BY DEF TypeInv, LeaseInv
<1>2. /\ flow \in [Txs -> Flows] /\ conn \in [Txs -> Conns \cup {None}]
      /\ st \in [Conns -> ConnStates] /\ idle \in Seq(Conns)
      /\ work \in [Conns -> Seq(Commands)]
      /\ None \notin Conns
  BY <1>1, TransactionAssumption DEF TypeOK
<1>3. flow[p] = "none" /\ conn[p] = None /\ ~settled[p]
  BY <1>1 DEF Begin, OneCommand
<1>4. \A d \in Conns : ~Leases(p, d)
  BY <1>2, <1>3 DEF Leases
<1>5. /\ (st[c] # "dead" => srv[c] = Clean) /\ work[c] = <<>>
      /\ st[c] \in {"none", "ready", "dead"}
      /\ \A q \in Txs : ~Leases(q, c)
      /\ idle # <<>> => c = Last(idle)
      /\ idle = <<>> => st[c] = "none"
      /\ st[c] = "none" <=> c \notin Range(idle)
  <2>1. /\ idle # <<>> => c = Last(idle)
        /\ idle = <<>> => st[c] = "none"
    BY DEF Begin
  <2>2. CASE idle # <<>>
    <3>1. c \in Range(idle)
      BY <1>2, <2>1, <2>2, FrontFacts
    <3>2. /\ (st[c] # "dead" => srv[c] = Clean) /\ work[c] = <<>>
          /\ \A q \in Txs : ~Leases(q, c)
          /\ st[c] \notin {"none", "ended"}
      BY <1>1, <3>1 DEF Open, Where
    <3>3. Len(work[c]) = 0
      BY <3>2, EmptySeq
    <3>4. st[c] \in {"ready", "dead"}
      BY <1>1, <1>2, <3>2, <3>3 DEF Shape, ConnStates
    <3> QED
      BY <2>1, <2>2, <3>1, <3>2, <3>4
  <2>3. CASE idle = <<>>
    BY <1>1, <2>1, <2>3 DEF Open, Shape, Where
  <2> QED
    BY <2>2, <2>3
<1>6. CASE st[c] = "dead"
  <2>1. /\ idle # <<>> /\ c = Last(idle) /\ idle' = Append(Front(idle), c)
        /\ flow' = [flow EXCEPT ![p] = "refused"]
        /\ UNCHANGED <<settled, conn, sp, st, work, srv, fate>>
    BY <1>5, <1>6 DEF Begin
  <2>2. IsInjective(idle') /\ Range(idle') = Range(idle)
    <3>1. /\ Front(idle) \in Seq(Conns) /\ c \in Range(idle)
      BY <1>2, <2>1, FrontFacts
    <3>2. IsInjective(Front(idle)) /\ Range(Front(idle)) = Range(idle) \ {c}
      <4>1. IsInjective(idle)
        BY <1>1 DEF Where
      <4> QED
        BY <1>2, <2>1, <4>1, FrontDistinct
    <3>3. c \notin Range(Front(idle))
      BY <3>2
    <3>4. /\ IsInjective(Append(Front(idle), c))
          /\ Range(Append(Front(idle), c)) = Range(Front(idle)) \cup {c}
      BY <3>1, <3>2, <3>3, AppendDistinct
    <3> QED
      BY <2>1, <3>1, <3>2, <3>4
  <2>3. /\ \A q \in Txs : q # p => flow'[q] = flow[q]
        /\ flow'[p] = "refused"
    BY <1>2, <2>1
  <2>4. \A q \in Txs, d \in Conns : Leases(q, d)' <=> Leases(q, d)
    BY <1>4, <2>1, <2>3 DEF Leases
  <2>5. OneCommand'
    BY <1>1, <2>1, <2>3 DEF OneCommand, Awaiting
  <2>6. Where'
    BY <1>1, <2>1, <2>2, <2>4 DEF Where
  <2>7. Open'
    <3>1. \A q \in Txs, d \in Conns :
            Leases(q, d)' =>
              IF flow'[q] = "begins" THEN srv[d] = Clean ELSE Holds(q, d)
      BY <1>1, <1>4, <2>3, <2>4 DEF Open
    <3>2. \A q \in Txs :
            /\ settled[q] => /\ conn[q] \in Conns /\ Sealed(q, conn[q])
                             /\ flow'[q] \in {"body", "resolved", "left"}
            /\ flow'[q] \in {"resolved", "left"} => settled[q]
      BY <1>1, <1>3, <2>3 DEF Open
    <3> QED
      BY <1>1, <2>1, <2>2, <3>1, <3>2 DEF Open, Holds, Sealed, Lost
  <2> QED
    BY <2>5, <2>6, <2>7 DEF LeaseInv
<1>7. CASE st[c] \in {"none", "ready"}
  <2> DEFINE cmd == Command(p, "begin", TRUE)
  <2>1. /\ idle' = IF idle # <<>> THEN Front(idle) ELSE idle
        /\ st' = [st EXCEPT ![c] = "busy"]
        /\ work' = [work EXCEPT ![c] = Append(@, cmd)]
        /\ flow' = [flow EXCEPT ![p] = "begins"]
        /\ conn' = [conn EXCEPT ![p] = c]
        /\ UNCHANGED <<settled, sp, srv, fate>>
    BY <1>7 DEF Begin
  <2>2. cmd \in Commands /\ cmd.awaited /\ cmd.by = p
    BY DEF Command, Commands, Whats
  <2> HIDE DEF cmd
  <2>a. \A e \in Commands : work' = [work EXCEPT ![c] = Append(@, e)] =>
          /\ work' \in [Conns -> Seq(Commands)]
          /\ work'[c] # <<>> /\ Len(work'[c]) = Len(work[c]) + 1
          /\ \A d \in Conns : d # c => work'[d] = work[d]
          /\ \A d \in Conns : \A i \in 1 .. Len(work'[d]) :
               \/ i \in 1 .. Len(work[d]) /\ work'[d][i] = work[d][i]
               \/ d = c /\ i = Len(work[c]) + 1 /\ work'[d][i] = e
    BY <1>1, Sent, Zenon
  <2>b. cmd \in Commands /\ work' = [work EXCEPT ![c] = Append(@, cmd)]
    BY <2>1, <2>2
  <2>3. /\ work' \in [Conns -> Seq(Commands)]
        /\ work'[c] # <<>> /\ Len(work'[c]) = Len(work[c]) + 1
        /\ \A d \in Conns : d # c => work'[d] = work[d]
        /\ \A d \in Conns : \A i \in 1 .. Len(work'[d]) :
             \/ i \in 1 .. Len(work[d]) /\ work'[d][i] = work[d][i]
             \/ d = c /\ i = Len(work[c]) + 1 /\ work'[d][i] = cmd
    BY <2>a, <2>b
  <2>4. work'[c] # <<>> /\ Len(work'[c]) = 1 /\ work'[c][1] = cmd
    <3>1. Len(work[c]) = 0
      BY <1>5, EmptySeq
    <3> QED
      BY <1>5, <2>3, <3>1
  <2>5. IsInjective(idle') /\ Range(idle') = Range(idle) \ {c}
    <3>1. IsInjective(idle)
      BY <1>1 DEF Where
    <3>2. CASE idle # <<>>
      BY <1>2, <1>5, <2>1, <3>1, <3>2, FrontDistinct
    <3>3. CASE idle = <<>>
      BY <1>5, <2>1, <3>1, <3>3
    <3> QED
      BY <3>2, <3>3
  <2>6. /\ \A q \in Txs : q # p => flow'[q] = flow[q] /\ conn'[q] = conn[q]
        /\ flow'[p] = "begins" /\ conn'[p] = c
        /\ st'[c] = "busy" /\ \A d \in Conns : d # c => st'[d] = st[d]
    BY <1>2, <2>1
  <2>7. /\ \A q \in Txs \ {p}, d \in Conns : Leases(q, d)' <=> Leases(q, d)
        /\ \A d \in Conns \ {c} : ~Leases(p, d)'
        /\ Leases(p, c)'
    BY <1>3, <2>1, <2>6 DEF Leases
  <2>8. Where'
    <3>1. /\ IsInjective(idle') /\ c \notin Range(idle')
          /\ \A d \in Conns \ {c} : d \in Range(idle') <=> d \in Range(idle)
          /\ \A d \in Conns \ {c} : st'[d] \in {"none", "ended"} <=> st[d] \in {"none", "ended"}
          /\ st'[c] \in {"none", "ended"} <=> c \notin Range(idle') /\ ~Leases(p, c)'
      BY <2>5, <2>6, <2>7
    <3>2. /\ \A q \in Txs \ {p} : ~Leases(q, c)
          /\ \A d \in Conns \ {c} : ~Leases(p, d) /\ ~Leases(p, d)'
      BY <1>4, <1>5, <2>7
    <3> QED
      BY <1>1, <2>7, <3>1, <3>2, Moved
  <2>9. OneCommand'
    <3>1. \A d \in Conns :
            work'[d] # <<>> => /\ Len(work'[d]) = 1
                               /\ work'[d][1].awaited
                               /\ ~settled[work'[d][1].by]
      BY <1>1, <1>3, <2>2, <2>3, <2>4 DEF OneCommand
    <3>2. \A q \in Txs :
            /\ flow'[q] \in Awaiting => work'[conn'[q]] # <<>> /\ work'[conn'[q]][1].by = q
            /\ flow'[q] = "none" => conn'[q] = None /\ ~settled[q]
      <4> SUFFICES ASSUME NEW q \in Txs
                   PROVE  /\ flow'[q] \in Awaiting =>
                               work'[conn'[q]] # <<>> /\ work'[conn'[q]][1].by = q
                          /\ flow'[q] = "none" => conn'[q] = None /\ ~settled[q]
        OBVIOUS
      <4>1. CASE q = p
        BY <4>1, <2>2, <2>4, <2>6
      <4>2. CASE q # p
        <5>1. flow[q] \in Awaiting => conn[q] \in Conns /\ conn[q] # c
          BY <1>5, Lessees
        <5> QED
          BY <4>2, <5>1, <1>1, <2>3, <2>6 DEF OneCommand
      <4> QED
        BY <4>1, <4>2
    <3> QED
      BY <2>1, <3>1, <3>2 DEF OneCommand
  <2>10. Open'
    <3>1. \A d \in Conns : st'[d] = "none" => srv[d] = Clean
      BY <1>1, <2>6 DEF Open
    <3>2. \A d \in Range(idle') : work'[d] = <<>> /\ (st'[d] # "dead" => srv[d] = Clean)
      <4>1. \A d \in Range(idle) : d \in Conns
        BY <1>2, RangeByIndex, ElementOfSeq
      <4> QED
        BY <1>1, <2>3, <2>5, <2>6, <4>1 DEF Open
    <3>3. \A q \in Txs, d \in Conns :
            Leases(q, d)' =>
              IF flow'[q] = "begins" THEN srv[d] = Clean ELSE Holds(q, d)'
      <4> SUFFICES ASSUME NEW q \in Txs, NEW d \in Conns, Leases(q, d)'
                   PROVE  IF flow'[q] = "begins" THEN srv[d] = Clean ELSE Holds(q, d)'
        OBVIOUS
      <4>1. CASE q = p
        BY <4>1, <1>5, <1>7, <2>6, <2>7
      <4>2. CASE q # p
        <5>1. Leases(q, d) /\ d # c
          BY <4>2, <1>5, <2>7
        <5> QED
          BY <4>2, <5>1, <1>1, <2>1, <2>6 DEF Open, Holds
      <4> QED
        BY <4>1, <4>2
    <3>4. ASSUME NEW q \in Txs
          PROVE  /\ settled[q] => /\ conn'[q] \in Conns /\ Sealed(q, conn[q])'
                                  /\ flow'[q] \in {"body", "resolved", "left"}
                 /\ flow'[q] \in {"resolved", "left"} => settled[q]
      <4>1. CASE q = p
        BY <4>1, <1>3, <2>6
      <4>2. CASE q # p
        <5>1. settled[q] => conn[q] \in Conns /\ Sealed(q, conn[q])
          BY <1>1 DEF Open
        <5>2. settled[q] => Sealed(q, conn[q])'
          <6>1. CASE conn[q] = c
            BY <4>2, <5>1, <6>1, <1>7, <2>1 DEF Sealed, Lost
          <6>2. CASE conn[q] # c
            BY <4>2, <5>1, <6>2, <2>1, <2>6 DEF Sealed, Lost
          <6> QED
            BY <6>1, <6>2
        <5> QED
          BY <4>2, <5>1, <5>2, <1>1, <2>6 DEF Open
      <4> QED
        BY <4>1, <4>2
    <3> QED
      BY <2>1, <3>1, <3>2, <3>3, <3>4 DEF Open
  <2> QED
    BY <2>8, <2>9, <2>10 DEF LeaseInv
<1> QED
  BY <1>5, <1>6, <1>7


\* A command of a leased connection is answered or rejected: its transaction
\* goes on, or ends its lease.
LEMMA AnsweredLeases ==
  ASSUME TypeInv, LeaseInv, NEW c \in Conns, work[c] # <<>>, NEW ok \in BOOLEAN,
         NEW cmd, cmd = work[c][1], NEW p, p = cmd.by,
         Continue(c, cmd, ok),
         work' = [work EXCEPT ![c] = Tail(@)],
         \A d \in Conns \ {c} : srv'[d] = srv[d],
         \A q \in Txs : fate[q] # "none" => fate'[q] # "none",
         cmd.what = "begin" =>
           IF st[c] # "dead" /\ ok THEN srv'[c].tx = p ELSE srv'[c] = Clean /\ ~ok,
         cmd.what \notin {"begin", "commit", "rollback"} /\ st[c] # "dead" =>
           srv'[c].tx = p,
         cmd.what \in {"commit", "rollback"} /\ st[c] # "dead" =>
           srv'[c] = Clean /\ fate'[p] # "none",
         cmd.what # "begin" /\ st[c] = "dead" =>
           srv'[c].tx = p \/ (srv'[c] = Clean /\ fate'[p] # "none"),
         cmd.what = "rollback" => (ok <=> st[c] # "dead")
  PROVE  LeaseInv'
<1>1. TypeOK /\ Shape /\ Attended /\ OneCommand /\ Where /\ Open
  BY DEF TypeInv, LeaseInv
<1>2. /\ Len(work[c]) = 1 /\ cmd \in Commands /\ cmd.awaited
      /\ Leases(p, c) /\ Fits(flow[p], cmd.what)
  BY Lessees
<1>3. p \in Txs /\ cmd.what \in Whats
  BY <1>2 DEF Commands
<1>4. /\ flow \in [Txs -> Flows] /\ settled \in [Txs -> BOOLEAN]
      /\ st \in [Conns -> ConnStates] /\ idle \in Seq(Conns)
  BY <1>1 DEF TypeOK
<1>5. c \notin Range(idle) /\ st[c] \notin {"none", "ended"}
  BY <1>1, <1>2, <1>3 DEF Where
<1>6. Without(c) = idle /\ Returned(c) = Append(idle, c)
  BY <1>4, <1>5, RemoveNothing DEF Without, Returned
<1>7. work'[c] = <<>> /\ \A d \in Conns : d # c => work'[d] = work[d]
  <2>1. /\ Len(work[c]) = 1 <=> work'[c] = <<>>
        /\ \A d \in Conns : d # c => work'[d] = work[d]
    BY <1>1, Done
  <2> QED
    BY <1>2, <2>1
<1>8. ~settled[p] /\ conn[p] = c
  BY <1>2 DEF Leases
<1>9. st[c] # "dead" => Answered(c, cmd) = "ready"
  <2>1. st[c] \in {"dead", "busy", "pipelining"}
    BY <1>1, <1>4, <1>5 DEF TypeOK, ConnStates
  <2>2. st[c] = "busy" => cmd.what # "sql"
    BY <1>1 DEF Shape
  <2> QED
    BY <1>2, <2>1, <2>2 DEF Answered
<1>10. st[c] = "dead" => Answered(c, cmd) = "dead"
  BY DEF Answered
<1>11. /\ flow' = [flow EXCEPT ![p] = Onward(flow[p], ok)] /\ conn' = conn
       /\ st' = [st EXCEPT ![c] = IF cmd.what = "rollback" /\ ~ok THEN "ended" ELSE Answered(c, cmd)]
       /\ settled' = IF cmd.what \in {"commit", "rollback"}
                     THEN [settled EXCEPT ![p] = TRUE] ELSE settled
       /\ idle' = IF cmd.what = "rollback" /\ ~ok THEN Without(c)
                  ELSE IF \/ cmd.what = "begin" /\ ~ok
                          \/ cmd.what = "commit"
                          \/ cmd.what = "rollback" /\ ok
                  THEN Returned(c) ELSE idle
  BY <1>2 DEF Continue, BeginReleases, CommitReleases
<1>12. /\ \A q \in Txs \ {p} : flow'[q] = flow[q] /\ settled'[q] = settled[q]
       /\ flow'[p] = Onward(flow[p], ok)
       /\ \A d \in Conns \ {c} : work'[d] = work[d] /\ srv'[d] = srv[d] /\ st'[d] = st[d]
       /\ st'[c] = IF cmd.what = "rollback" /\ ~ok THEN "ended"
                   ELSE IF st[c] = "dead" THEN "dead" ELSE "ready"
  BY <1>3, <1>4, <1>7, <1>9, <1>10, <1>11
<1>13. CASE cmd.what = "begin" /\ ~ok
  <2>1. flow'[p] = "refused" /\ ~settled'[p]
    BY <1>2, <1>8, <1>11, <1>12, <1>13 DEF Fits, Onward
  <2>2. idle' = Append(idle, c) /\ st'[c] \notin {"none", "ended"} /\ srv'[c] = Clean
    BY <1>6, <1>11, <1>12, <1>13
  <2> QED
    BY <1>2, <1>3, <1>7, <1>11, <1>12, <2>1, <2>2, Ends
<1>14. CASE cmd.what \in {"commit", "rollback"}
  <2>1. flow'[p] \in {"body", "resolved", "left"}
    BY <1>2, <1>12, <1>14 DEF Fits, Onward
  <2>2. settled'[p]
    BY <1>3, <1>4, <1>11, <1>14
  <2>3. \/ idle' = Append(idle, c) /\ st'[c] \notin {"none", "ended"}
        \/ idle' = idle /\ st'[c] = "ended"
    BY <1>6, <1>11, <1>12, <1>14
  <2>4. (Lost(c)' \/ srv'[c] = Clean) /\ Sealed(p, c)'
    <3>1. CASE st[c] = "dead"
      BY <1>12, <1>14, <3>1 DEF Lost, Sealed
    <3>2. CASE st[c] # "dead"
      BY <1>14, <3>2 DEF Sealed
    <3> QED
      BY <3>1, <3>2
  <2> QED
    BY <1>2, <1>3, <1>7, <1>11, <1>12, <2>1, <2>2, <2>3, <2>4, Ends
<1>15. CASE ~(cmd.what = "begin" /\ ~ok) /\ cmd.what \notin {"commit", "rollback"}
  <2>1. flow'[p] = "body" /\ flow[p] \notin {"none", "refused"}
    BY <1>2, <1>12, <1>15 DEF Fits, Onward
  <2>2. settled' = settled /\ idle' = idle
    BY <1>11, <1>15
  <2>3. st'[c] \in {"ready", "dead"} /\ (st'[c] = "dead" <=> st[c] = "dead")
    BY <1>12, <1>15
  <2>4. Holds(p, c)'
    <3>1. CASE st[c] = "dead"
      BY <1>15, <2>3, <3>1 DEF Holds
    <3>2. CASE st[c] # "dead"
      BY <1>15, <3>2 DEF Holds
    <3> QED
      BY <3>1, <3>2
  <2>5. st'[c] \in {"ready", "pipelining", "busy", "dead"}
    BY <2>3
  <2> QED
    BY <1>2, <1>3, <1>7, <1>11, <1>12, <2>1, <2>2, <2>4, <2>5, Keeps
<1> QED
  BY <1>13, <1>14, <1>15

LEMMA LeaseNext ==
  ASSUME Habits = {}
  PROVE  TypeInv /\ LeaseInv /\ [Next]_vars => LeaseInv'
<1> SUFFICES ASSUME TypeInv, LeaseInv, [Next]_vars PROVE LeaseInv'
  OBVIOUS
<1>1. TypeOK /\ Shape /\ Attended /\ OneCommand /\ Where /\ Open
  BY DEF TypeInv, LeaseInv
<1>2. /\ st \in [Conns -> ConnStates] /\ srv \in [Conns -> Sessions]
      /\ Clean \in Sessions /\ Clean.tx = None /\ None \notin Txs
  BY <1>1, TransactionAssumption DEF TypeOK, Sessions, Clean
<1>3. ASSUME NEW p \in Txs, Body(p) PROVE LeaseInv'
  BY <1>3, BodyLeases
<1>4. ASSUME NEW p \in Txs, NEW c \in Conns, Begin(p, c) PROVE LeaseInv'
  BY <1>4, BeginLeases
<1>5. ASSUME NEW c \in Conns, Finish(c) PROVE LeaseInv'
  <2> DEFINE cmd == work[c][1]
             p == cmd.by
  <2>1. work[c] # <<>> /\ st[c] # "dead" /\ work' = [work EXCEPT ![c] = Tail(@)]
    BY <1>5 DEF Finish
  <2>2. Head(work[c]) = cmd /\ cmd \in Commands /\ Leases(p, c) /\ Fits(flow[p], cmd.what)
    BY <1>1, <2>1, Senders, Lessees
  <2>3. PICK r \in Execute(cmd, srv[c]) :
          /\ srv' = [srv EXCEPT ![c] = r.srv]
          /\ fate' = Fate(srv[c], r.srv, cmd.what = "commit" /\ r.ok)
          /\ Continue(c, cmd, r.ok)
    BY <1>5, <2>2 DEF Finish
  <2> HIDE DEF cmd, p
  <2>4. p \in Txs /\ cmd.by = p
    BY <2>2 DEF Commands, p
  <2>5. /\ r.ok \in BOOLEAN /\ r.srv \in Sessions
        /\ cmd.what = "begin" /\ srv[c] = Clean =>
             IF r.ok THEN r.srv.tx = cmd.by ELSE r.srv = Clean
        /\ cmd.what \notin {"begin", "commit", "rollback"} => r.srv.tx = srv[c].tx
        /\ cmd.what \in {"commit", "rollback"} => r.srv = Clean
        /\ cmd.what = "rollback" => r.ok
    BY <1>2, <2>2, Results
  <2>6. srv'[c] = r.srv /\ \A d \in Conns \ {c} : srv'[d] = srv[d]
    BY <1>2, <2>3
  <2>7. /\ \A q \in Txs : fate[q] # "none" => fate'[q] # "none"
        /\ srv[c].tx # None /\ r.srv.tx # srv[c].tx => fate'[srv[c].tx] # "none"
    BY <1>1, <1>2, <2>3, <2>5, Fates
  <2>8. IF cmd.what = "begin" THEN srv[c] = Clean ELSE srv[c].tx = p
    BY <1>1, <2>1, <2>2, <2>4 DEF Open, Fits, Holds
  <2>9. cmd.what = "begin" =>
          IF st[c] # "dead" /\ r.ok THEN srv'[c].tx = p ELSE srv'[c] = Clean /\ ~r.ok
    BY <2>1, <2>4, <2>5, <2>6, <2>8
  <2>10. cmd.what \notin {"begin", "commit", "rollback"} => srv'[c].tx = p
    BY <2>1, <2>5, <2>6, <2>8
  <2>11. cmd.what \in {"commit", "rollback"} => srv'[c] = Clean /\ fate'[p] # "none"
    BY <1>2, <2>4, <2>5, <2>6, <2>7, <2>8
  <2>12. cmd.what = "rollback" => (r.ok <=> st[c] # "dead")
    BY <2>1, <2>5
  <2>13. cmd = work[c][1]
    BY DEF cmd
  <2>14. Continue(c, cmd, r.ok)
    BY <2>3
  <2> QED
    BY <2>1, <2>4, <2>5, <2>6, <2>7, <2>9, <2>10, <2>11, <2>12, <2>13, <2>14, AnsweredLeases
<1>6. ASSUME NEW c \in Conns, Reject(c) PROVE LeaseInv'
  <2> DEFINE cmd == work[c][1]
             p == cmd.by
  <2>1. work[c] # <<>> /\ st[c] = "dead" /\ work' = [work EXCEPT ![c] = Tail(@)]
    BY <1>6 DEF Reject
  <2>2. Head(work[c]) = cmd /\ cmd \in Commands /\ Leases(p, c) /\ Fits(flow[p], cmd.what)
    BY <1>1, <2>1, Senders, Lessees
  <2>3. srv' = srv /\ fate' = fate /\ Continue(c, cmd, FALSE)
    BY <1>6, <2>2 DEF Reject
  <2> HIDE DEF cmd, p
  <2>4. p \in Txs /\ cmd.by = p /\ cmd = work[c][1]
    BY <2>2 DEF Commands, p, cmd
  <2>5. cmd.what = "begin" => srv[c] = Clean
    BY <1>1, <2>1, <2>2, <2>4 DEF Open, Fits
  <2>6. cmd.what # "begin" => srv[c].tx = p \/ (srv[c] = Clean /\ fate[p] # "none")
    BY <1>1, <2>1, <2>2, <2>4 DEF Open, Fits, Holds
  <2>7. FALSE \in BOOLEAN
    OBVIOUS
  <2> QED
    BY <2>1, <2>3, <2>4, <2>5, <2>6, <2>7, AnsweredLeases
<1>7. ASSUME NEW c \in Conns, Lose(c) PROVE LeaseInv'
  <2>1. /\ st[c] \in {"ready", "pipelining", "busy"} /\ st' = [st EXCEPT ![c] = "dead"]
        /\ UNCHANGED <<flow, settled, conn, sp, idle, work>>
    BY <1>7 DEF Lose, txVars
  <2>2. \/ srv' = srv /\ fate' = fate
        \/ /\ work[c] # <<>> /\ Head(work[c]).what = "commit"
           /\ srv' = [srv EXCEPT ![c] = Clean]
           /\ fate' = Fate(srv[c], Clean, TRUE)
    BY <1>7 DEF Lose
  <2>3. /\ \A d \in Conns : d # c => st'[d] = st[d] /\ srv'[d] = srv[d]
        /\ st'[c] = "dead"
        /\ \A q \in Txs : fate[q] # "none" => fate'[q] # "none"
    <3>1. \A q \in Txs : fate[q] # "none" => Fate(srv[c], Clean, TRUE)[q] # "none"
      BY <1>1, <1>2, Fates
    <3> QED
      BY <1>2, <2>1, <2>2, <3>1
  <2>4. \/ srv'[c] = srv[c]
        \/ /\ srv'[c] = Clean
           /\ \A q \in Txs : srv[c].tx = q => fate'[q] # "none"
    <3>1. srv[c].tx # None => Fate(srv[c], Clean, TRUE)[srv[c].tx] # "none"
      BY <1>1, <1>2, Fates
    <3> QED
      BY <1>2, <2>2, <3>1
  <2>5. \A q \in Txs, d \in Conns : Leases(q, d)' <=> Leases(q, d)
    BY <2>1 DEF Leases
  <2>6. OneCommand'
    BY <1>1, <2>1 DEF OneCommand
  <2>7. Where'
    <3>1. \A d \in Conns : st'[d] \in {"none", "ended"} <=> st[d] \in {"none", "ended"}
      BY <2>1, <2>3
    <3> QED
      BY <1>1, <2>1, <2>5, <3>1 DEF Where
  <2>8. Open'
    <3>1. ASSUME NEW q \in Txs, NEW d \in Conns, Leases(q, d)
          PROVE  IF flow[q] = "begins" THEN srv'[d] = Clean ELSE Holds(q, d)'
      <4>1. IF flow[q] = "begins" THEN srv[d] = Clean ELSE Holds(q, d)
        BY <1>1, <3>1 DEF Open
      <4>2. CASE d = c
        BY <4>1, <4>2, <2>1, <2>3, <2>4 DEF Holds
      <4>3. CASE d # c
        BY <4>1, <4>3, <2>3 DEF Holds
      <4> QED
        BY <4>2, <4>3
    <3>2. \A d \in Conns : st'[d] = "none" => srv'[d] = Clean
      BY <1>1, <2>3 DEF Open
    <3>3. \A d \in Range(idle) : work[d] = <<>> /\ (st'[d] # "dead" => srv'[d] = Clean)
      <4>1. \A d \in Range(idle) : d \in Conns
        <5>1. idle \in Seq(Conns)
          BY <1>1 DEF TypeOK
        <5> QED
          BY <5>1, RangeByIndex, ElementOfSeq
      <4> QED
        BY <1>1, <2>3, <4>1 DEF Open
    <3>4. ASSUME NEW q \in Txs
          PROVE  /\ settled[q] => /\ conn[q] \in Conns /\ Sealed(q, conn[q])'
                                  /\ flow[q] \in {"body", "resolved", "left"}
                 /\ flow[q] \in {"resolved", "left"} => settled[q]
      <4>1. settled[q] => conn[q] \in Conns /\ Sealed(q, conn[q])
        BY <1>1 DEF Open
      <4>2. settled[q] => Sealed(q, conn[q])'
        <5>1. CASE conn[q] = c
          BY <4>1, <5>1, <2>1, <2>3 DEF Sealed, Lost
        <5>2. CASE conn[q] # c
          BY <4>1, <5>2, <2>1, <2>3 DEF Sealed, Lost
        <5> QED
          BY <5>1, <5>2
      <4> QED
        BY <1>1, <4>1, <4>2 DEF Open
    <3> QED
      BY <2>1, <2>5, <3>1, <3>2, <3>3, <3>4 DEF Open
  <2> QED
    BY <2>6, <2>7, <2>8 DEF LeaseInv
<1>a. ASSUME NEW c \in Conns, SessionEnds(c) PROVE LeaseInv'
  <2>1. /\ Lost(c)
        /\ srv' = [srv EXCEPT ![c] = Clean]
        /\ fate' = Fate(srv[c], Clean, FALSE)
        /\ UNCHANGED <<flow, settled, conn, sp, idle, st, work>>
    BY <1>a DEF SessionEnds, Lost, txVars
  <2>2. /\ \A d \in Conns : d # c => srv'[d] = srv[d]
        /\ srv'[c] = Clean
        /\ \A q \in Txs : fate[q] # "none" => fate'[q] # "none"
        /\ \A q \in Txs : srv[c].tx = q => fate'[q] # "none"
    <3>1. /\ \A q \in Txs : fate[q] # "none" => Fate(srv[c], Clean, FALSE)[q] # "none"
          /\ srv[c].tx # None => Fate(srv[c], Clean, FALSE)[srv[c].tx] # "none"
      BY <1>1, <1>2, Fates
    <3> QED
      BY <1>2, <2>1, <3>1
  <2>3. \A q \in Txs, d \in Conns : Leases(q, d)' <=> Leases(q, d)
    BY <2>1 DEF Leases
  <2>4. OneCommand'
    BY <1>1, <2>1 DEF OneCommand
  <2>5. Where'
    BY <1>1, <2>1, <2>3 DEF Where
  <2>6. Open'
    <3>1. ASSUME NEW q \in Txs, NEW d \in Conns, Leases(q, d)
          PROVE  IF flow[q] = "begins" THEN srv'[d] = Clean ELSE Holds(q, d)'
      <4>1. IF flow[q] = "begins" THEN srv[d] = Clean ELSE Holds(q, d)
        BY <1>1, <3>1 DEF Open
      <4>2. CASE d = c
        <5>1. st[c] = "dead"
          BY <1>1, <2>1, <3>1, <4>2 DEF Where, Lost
        <5> QED
          BY <4>1, <4>2, <5>1, <2>1, <2>2 DEF Holds
      <4>3. CASE d # c
        BY <4>1, <4>3, <2>1, <2>2 DEF Holds
      <4> QED
        BY <4>2, <4>3
    <3>2. \A d \in Conns : st[d] = "none" => srv'[d] = Clean
      BY <1>1, <2>2 DEF Open
    <3>3. \A d \in Range(idle) : work[d] = <<>> /\ (st[d] # "dead" => srv'[d] = Clean)
      <4>1. \A d \in Range(idle) : d \in Conns
        <5>1. idle \in Seq(Conns)
          BY <1>1 DEF TypeOK
        <5> QED
          BY <5>1, RangeByIndex, ElementOfSeq
      <4> QED
        BY <1>1, <2>2, <4>1 DEF Open
    <3>4. ASSUME NEW q \in Txs
          PROVE  /\ settled[q] => /\ conn[q] \in Conns /\ Sealed(q, conn[q])'
                                  /\ flow[q] \in {"body", "resolved", "left"}
                 /\ flow[q] \in {"resolved", "left"} => settled[q]
      <4>1. settled[q] => conn[q] \in Conns /\ Sealed(q, conn[q])
        BY <1>1 DEF Open
      <4>2. settled[q] => Sealed(q, conn[q])'
        <5>1. CASE conn[q] = c
          BY <4>1, <5>1, <2>2 DEF Sealed
        <5>2. CASE conn[q] # c
          BY <4>1, <5>2, <2>1, <2>2 DEF Sealed, Lost
        <5> QED
          BY <5>1, <5>2
      <4> QED
        BY <1>1, <4>1, <4>2 DEF Open
    <3> QED
      BY <2>1, <2>3, <3>1, <3>2, <3>3, <3>4 DEF Open
  <2> QED
    BY <2>4, <2>5, <2>6 DEF LeaseInv
<1>8. ASSUME NEW c \in Conns, Gone(c) PROVE LeaseInv'
  <2>1. /\ st[c] = "ended" /\ st' = [st EXCEPT ![c] = "none"] /\ srv[c] = Clean
        /\ UNCHANGED <<flow, settled, conn, sp, idle, work, srv, fate>>
    BY <1>8 DEF Gone, txVars
  <2>2. \A d \in Conns : /\ d # c => st'[d] = st[d]
                         /\ st'[d] \in {"none", "ended"} <=> st[d] \in {"none", "ended"}
                         /\ st'[d] = "dead" <=> st[d] = "dead"
    BY <1>2, <2>1
  <2>3. \A q \in Txs, d \in Conns : Leases(q, d)' <=> Leases(q, d)
    BY <2>1 DEF Leases
  <2>4. OneCommand'
    BY <1>1, <2>1 DEF OneCommand
  <2>5. Where'
    BY <1>1, <2>1, <2>2, <2>3 DEF Where
  <2>6. Open'
    <3>1. \A d \in Conns : st'[d] = "none" => srv[d] = Clean
      BY <1>1, <2>1, <2>2 DEF Open
    <3>2. \A q \in Txs, d \in Conns :
            Leases(q, d) => IF flow[q] = "begins" THEN srv[d] = Clean ELSE Holds(q, d)'
      BY <1>1, <2>1, <2>2 DEF Open, Holds
    <3>3. \A d \in Range(idle) : work[d] = <<>> /\ (st'[d] # "dead" => srv[d] = Clean)
      <4>1. \A d \in Range(idle) : d \in Conns
        <5>1. idle \in Seq(Conns)
          BY <1>1 DEF TypeOK
        <5> QED
          BY <5>1, RangeByIndex, ElementOfSeq
      <4> QED
        BY <1>1, <2>2, <4>1 DEF Open
    <3>4. ASSUME NEW q \in Txs
          PROVE  /\ settled[q] => /\ conn[q] \in Conns /\ Sealed(q, conn[q])'
                                  /\ flow[q] \in {"body", "resolved", "left"}
                 /\ flow[q] \in {"resolved", "left"} => settled[q]
      <4>1. settled[q] => conn[q] \in Conns /\ Sealed(q, conn[q])
        BY <1>1 DEF Open
      <4>2. settled[q] => Sealed(q, conn[q])'
        <5>1. CASE conn[q] = c
          BY <4>1, <5>1, <1>2, <2>1 DEF Sealed
        <5>2. CASE conn[q] # c
          BY <4>1, <5>2, <2>1, <2>2 DEF Sealed, Lost
        <5> QED
          BY <5>1, <5>2
      <4> QED
        BY <1>1, <4>1, <4>2 DEF Open
    <3> QED
      BY <2>1, <2>3, <3>1, <3>2, <3>3, <3>4 DEF Open
  <2> QED
    BY <2>4, <2>5, <2>6 DEF LeaseInv
<1>9. ASSUME UNCHANGED vars PROVE LeaseInv'
  <2>1. \A q \in Txs, d \in Conns : Leases(q, d)' <=> Leases(q, d)
    BY <1>9 DEF vars, txVars, Leases
  <2>2. OneCommand'
    BY <1>1, <1>9 DEF vars, txVars, OneCommand
  <2>3. Where'
    BY <1>1, <1>9, <2>1 DEF vars, txVars, Where
  <2>4. Open'
    BY <1>1, <1>9, <2>1 DEF vars, txVars, Open, Holds, Sealed, Lost
  <2> QED
    BY <2>2, <2>3, <2>4 DEF LeaseInv
<1> QED
  BY <1>3, <1>4, <1>5, <1>6, <1>7, <1>a, <1>8, <1>9 DEF Next

-----------------------------------------------------------------------------
(* What the invariants say *)

\* A live connection is idle once or leased to one transaction, whichever way
\* the transactions end: the lease is given back, and given back once.
THEOREM LeaseCorrect ==
  ASSUME Habits = {}
  PROVE  Spec => []LeaseExact
<1>1. TypeInv /\ LeaseInv => LeaseExact
  <2> SUFFICES ASSUME TypeInv, LeaseInv, NEW c \in Conns
               PROVE  LET owners == {p \in Txs : Leases(p, c)}
                          places == {i \in DOMAIN idle : idle[i] = c}
                      IN  Cardinality(owners) + Cardinality(places) =
                            IF st[c] \in {"none", "ended"} THEN 0 ELSE 1
    BY DEF LeaseExact
  <2> DEFINE owners == {p \in Txs : Leases(p, c)}
             places == {i \in DOMAIN idle : idle[i] = c}
  <2>1. Where
    BY DEF LeaseInv
  <2>2. c \notin Range(idle) => Cardinality(places) = 0
    <3>1. c \notin Range(idle) => places = {}
      BY DEF Range
    <3> QED
      BY <3>1, FS_EmptySet
  <2>3. c \in Range(idle) => Cardinality(places) = 1
    <3> SUFFICES ASSUME c \in Range(idle) PROVE Cardinality(places) = 1
      OBVIOUS
    <3>1. PICK i \in DOMAIN idle : idle[i] = c
      BY DEF Range
    <3>2. places = {i}
      BY <2>1, <3>1 DEF Where, IsInjective
    <3> QED
      BY <3>2, FS_Singleton
  <2>4. (\A p \in Txs : ~Leases(p, c)) => Cardinality(owners) = 0
    <3>1. (\A p \in Txs : ~Leases(p, c)) => owners = {}
      OBVIOUS
    <3> QED
      BY <3>1, FS_EmptySet
  <2>5. ASSUME NEW p \in Txs, Leases(p, c) PROVE Cardinality(owners) = 1
    <3>1. owners = {p}
      BY <2>1, <2>5 DEF Where
    <3> QED
      BY <3>1, FS_Singleton
  <2> HIDE DEF owners, places
  <2>6. Cardinality(owners) + Cardinality(places) =
          IF st[c] \in {"none", "ended"} THEN 0 ELSE 1
    <3>1. CASE c \in Range(idle)
      <4>1. \A p \in Txs : ~Leases(p, c)
        BY <2>1, <3>1 DEF Where
      <4>2. st[c] \notin {"none", "ended"}
        BY <2>1, <3>1 DEF Where
      <4> QED
        BY <2>3, <2>4, <3>1, <4>1, <4>2
    <3>2. CASE c \notin Range(idle) /\ \A p \in Txs : ~Leases(p, c)
      <4>1. st[c] \in {"none", "ended"}
        BY <2>1, <3>2 DEF Where
      <4> QED
        BY <2>2, <2>4, <3>2, <4>1
    <3>3. ASSUME c \notin Range(idle), NEW p \in Txs, Leases(p, c)
          PROVE  Cardinality(owners) + Cardinality(places) =
                   IF st[c] \in {"none", "ended"} THEN 0 ELSE 1
      <4>1. st[c] \notin {"none", "ended"}
        BY <2>1, <3>3 DEF Where
      <4> QED
        BY <2>2, <2>5, <3>3, <4>1
    <3> QED
      BY <3>1, <3>2, <3>3
  <2> QED
    BY <2>6 DEF owners, places
<1> QED
  BY TypeInit, TypeNext, LeaseInit, LeaseNext, <1>1, PTL DEF Spec

\* A connection that goes back to the pool has no transaction open and nothing
\* in flight: not after a refused BEGIN, a failed COMMIT or a disposal.
THEOREM ReturnCorrect ==
  ASSUME Habits = {}
  PROVE  Spec => []ReturnedClean
<1>1. TypeInv /\ LeaseInv => ReturnedClean
  <2> SUFFICES ASSUME LeaseInv, NEW i \in DOMAIN idle, st[idle[i]] # "dead"
               PROVE  srv[idle[i]] = Clean /\ work[idle[i]] = <<>>
    BY DEF ReturnedClean
  <2>1. idle[i] \in Range(idle)
    BY DEF Range
  <2> QED
    BY <2>1 DEF LeaseInv, Open
<1> QED
  BY TypeInit, TypeNext, LeaseInit, LeaseNext, <1>1, PTL DEF Spec

\* A command runs in the transaction that sent it, however many transactions
\* use one connection after another.
THEOREM OwnCorrect ==
  ASSUME Habits = {}
  PROVE  Spec => []OwnTransaction
<1>1. TypeInv /\ LeaseInv => OwnTransaction
  <2> SUFFICES ASSUME TypeInv, LeaseInv, NEW c \in Conns, NEW i \in DOMAIN work[c],
                      st[c] # "dead"
               PROVE  srv[c].tx = IF work[c][i].what = "begin" THEN None ELSE work[c][i].by
    BY DEF OwnTransaction
  <2>1. work[c] \in Seq(Commands) /\ Open
    BY DEF TypeInv, TypeOK, LeaseInv
  <2>2. work[c] # <<>> /\ i \in 1 .. Len(work[c])
    <3>1. DOMAIN work[c] = 1 .. Len(work[c])
      BY <2>1, LenProperties
    <3>2. i \in 1 .. Len(work[c])
      BY <3>1
    <3> QED
      BY <3>2, EmptySeq
  <2>3. /\ Len(work[c]) = 1 /\ work[c][1] \in Commands
        /\ Leases(work[c][1].by, c)
        /\ Fits(flow[work[c][1].by], work[c][1].what)
    BY <2>2, Lessees
  <2>4. i = 1 /\ work[c][1].by \in Txs
    BY <2>2, <2>3 DEF Commands
  <2>5. IF work[c][1].what = "begin" THEN srv[c] = Clean ELSE srv[c].tx = work[c][1].by
    BY <2>1, <2>3, <2>4 DEF Open, Fits, Holds
  <2> QED
    BY <2>4, <2>5 DEF Clean
<1> QED
  BY TypeInit, TypeNext, LeaseInit, LeaseNext, <1>1, PTL DEF Spec

\* When transaction() has settled, or a scope of `await using` is left, the
\* transaction is over at the server, unless its connection is lost.
THEOREM EndCorrect ==
  ASSUME Habits = {}
  PROVE  Spec => []EndedIsOver
<1>1. LeaseInv => EndedIsOver
  BY DEF LeaseInv, Open, Sealed, Lost, EndedIsOver
<1> QED
  BY TypeInit, TypeNext, LeaseInit, LeaseNext, <1>1, PTL DEF Spec

=============================================================================

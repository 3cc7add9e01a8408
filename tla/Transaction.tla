---------------------------- MODULE Transaction -----------------------------
(***************************************************************************)
(* Transactions and savepoints (src/packages/pg-rocket/src/transaction.ts) *)
(* over leased connections: begin, the statements and verbs of the body,   *)
(* and the commit or rollback with which runInTransaction() or the         *)
(* disposal of `await using` ends it.                                      *)
(*                                                                         *)
(* The pool is reduced to what a transaction sees of it, the idle stack    *)
(* (module Pool), and a connection to its state and its commands in flight *)
(* (module Connection).  The server executes a command and the client      *)
(* continues in one step: nothing of a transaction depends on the time     *)
(* between, except when the connection is lost (Lose).                     *)
(***************************************************************************)
EXTENDS Integers, Sequences, FiniteSets, SequencesExt

CONSTANTS
  Txs,          \* transactions: calls of db.transaction() or db.begin()
  Conns,        \* connection objects, used again once they are gone
  None,         \* no transaction, no connection
  Habits,       \* liberties of a body: "sql" and "verb", leaves such a call
                \* un-awaited; "late", uses a savepoint of a settled transaction
  MaxInFlight   \* bound on the commands in flight on a connection

ASSUME TransactionAssumption ==
  /\ None \notin Txs \cup Conns
  /\ Habits \subseteq {"sql", "verb", "late"}
  /\ MaxInFlight \in Nat \ {0}

VARIABLES
  flow,     \* where each transaction() call, or `await using` scope, stands
  settled,  \* the field settled of each Transaction
  conn,     \* the connection of each Transaction
  sp,       \* the Savepoint object of each body
  idle,     \* the pool's idle connections
  st,       \* the state of each connection
  work,     \* commands in flight on each connection
  srv,      \* the server's side: the transaction that is open, if any
  fate      \* what became of each transaction at the server

txVars == <<flow, settled, conn, sp>>
vars == <<txVars, idle, st, work, srv, fate>>

\* "body": the body runs; "waits": it awaits a call; "commits" and "leaves":
\* the commit of a normal return, and the rollback of a throw or a disposal;
\* "resolved", "left" and "refused": how it ended.
Flows == {"none", "begins", "body", "waits", "commits", "leaves", "resolved",
          "left", "refused"}

\* "none": no object; "ended": the pool has called end() on it.
ConnStates == {"none", "ready", "pipelining", "busy", "dead", "ended"}

Whats == {"begin", "sql", "savepoint", "release", "rollback to", "commit",
          "rollback"}

Commands == [by : Txs, what : Whats, awaited : BOOLEAN]

Command(p, what, awaited) == [by |-> p, what |-> what, awaited |-> awaited]

\* The transaction status of a session.
Clean == [tx |-> None, failed |-> FALSE, savepoint |-> FALSE]

-----------------------------------------------------------------------------
(* What a transaction uses of the pool and of a connection *)

\* Pool.release(): whatever the state of the connection.
Returned(c) == Append(idle, c)

\* Pool.destroy().
Without(c) == RemoveFirst(idle, c)

\* Connection.query() and extQuery() accept a command, or reject it at once.
TakesQuery(c) == st[c] = "ready"
TakesExtQuery(c) == st[c] \in {"ready", "pipelining"}

MutDispatch(c, cmd) ==
  /\ work' = [work EXCEPT ![c] = Append(@, cmd)]
  /\ st' = st

Dispatch(c, cmd) ==
  /\ work' = [work EXCEPT ![c] = Append(@, cmd)]
  /\ st' = [st EXCEPT ![c] = IF cmd.what = "sql" THEN "pipelining" ELSE "busy"]

\* The body awaits a call, unless it may leave it un-awaited.
Awaits(p, kind, awaited) ==
  /\ awaited \/ kind \in Habits
  /\ Len(work[conn[p]]) < MaxInFlight
  /\ flow' = IF awaited THEN [flow EXCEPT ![p] = "waits"] ELSE flow

-----------------------------------------------------------------------------
(* beginTransaction() *)

\* The acquire pops the idle stack or opens a connection; a dead connection
\* refuses the BEGIN and is released all the same.
Begin(p, c) ==
  /\ flow[p] = "none"
  /\ IF idle # <<>> THEN c = Last(idle) ELSE st[c] = "none"
  /\ LET rest == IF idle # <<>> THEN Front(idle) ELSE idle
         now == IF st[c] = "none" THEN "ready" ELSE st[c]
     IN  IF now = "ready"
         THEN /\ idle' = rest
              /\ st' = [st EXCEPT ![c] = "busy"]
              /\ work' = [work EXCEPT ![c] = Append(@, Command(p, "begin", TRUE))]
              /\ flow' = [flow EXCEPT ![p] = "begins"]
              /\ conn' = [conn EXCEPT ![p] = c]
         ELSE /\ flow' = [flow EXCEPT ![p] = "refused"]
              /\ idle' = Append(rest, c)
              /\ UNCHANGED <<st, work, conn>>
  /\ UNCHANGED <<settled, sp, srv, fate>>

-----------------------------------------------------------------------------
(* The body.  A call that is rejected at once changes nothing and is left   *)
(* out, except where the rejection has consequences.                        *)

MutTxUsable(p) == TRUE
TxUsable(p) == ~settled[p]

\* A savepoint does not look at its transaction: it remains usable when that
\* has settled.
SavepointUsable(p) == sp[p] = "open" /\ (settled[p] => "late" \in Habits)

\* sql of the transaction or of a savepoint.
Sql(p, awaited) ==
  /\ flow[p] = "body"
  /\ TxUsable(p) \/ SavepointUsable(p)
  /\ TakesExtQuery(conn[p])
  /\ Dispatch(conn[p], Command(p, "sql", awaited))
  /\ Awaits(p, "sql", awaited)
  /\ UNCHANGED <<settled, conn, sp, idle, srv, fate>>

OpenSavepoint(p) ==
  /\ flow[p] = "body"
  /\ TxUsable(p)
  /\ sp[p] \in {"none", "settled"}
  /\ TakesQuery(conn[p])
  /\ Dispatch(conn[p], Command(p, "savepoint", TRUE))
  /\ Awaits(p, "verb", TRUE)
  /\ UNCHANGED <<settled, conn, sp, idle, srv, fate>>

\* release() and rollback() of a savepoint, or its disposal, which rolls back.
EndSavepoint(p, verb) ==
  /\ flow[p] = "body"
  /\ SavepointUsable(p)
  /\ TakesQuery(conn[p])
  /\ Dispatch(conn[p], Command(p, verb, TRUE))
  /\ Awaits(p, "verb", TRUE)
  /\ UNCHANGED <<settled, conn, sp, idle, srv, fate>>

\* commit() of the transaction.  A commit the connection does not take settles
\* the transaction and releases the connection as well.
Commit(p, next) ==
  /\ ~settled[p]
  /\ IF TakesQuery(conn[p])
     THEN /\ Dispatch(conn[p], Command(p, "commit", next # "body"))
          /\ flow' = [flow EXCEPT ![p] = next]
          /\ UNCHANGED <<settled, idle>>
     ELSE /\ settled' = [settled EXCEPT ![p] = TRUE]
          /\ idle' = Returned(conn[p])
          /\ flow' = [flow EXCEPT ![p] = IF next = "commits" THEN "left" ELSE "body"]
          /\ UNCHANGED <<st, work>>
  /\ UNCHANGED <<conn, sp, srv, fate>>

MutRollback(p, next) ==
  /\ ~settled[p]
  /\ TakesQuery(conn[p])
  /\ Dispatch(conn[p], Command(p, "rollback", next # "body"))
  /\ idle' = Returned(conn[p])
  /\ settled' = [settled EXCEPT ![p] = TRUE]
  /\ flow' = [flow EXCEPT ![p] = next]
  /\ UNCHANGED <<conn, sp, srv, fate>>

\* rollback() of the transaction.  One that the connection does not take
\* destroys the connection.
Rollback(p, next) ==
  /\ ~settled[p]
  /\ IF TakesQuery(conn[p])
     THEN /\ Dispatch(conn[p], Command(p, "rollback", next # "body"))
          /\ flow' = [flow EXCEPT ![p] = next]
          /\ UNCHANGED <<settled, idle>>
     ELSE /\ settled' = [settled EXCEPT ![p] = TRUE]
          /\ idle' = Without(conn[p])
          /\ st' = [st EXCEPT ![conn[p]] = "ended"]
          /\ flow' = [flow EXCEPT ![p] = IF next = "leaves" THEN "left" ELSE "body"]
          /\ UNCHANGED work
  /\ UNCHANGED <<conn, sp, srv, fate>>

\* The body calls a verb itself, and awaits it or not.
BodyVerb(p) ==
  /\ flow[p] = "body"
  /\ \E next \in {"waits"} \cup (IF "verb" \in Habits THEN {"body"} ELSE {}) :
       Commit(p, next) \/ Rollback(p, next)

\* The body returns: transaction() commits, unless the body has settled it.
Return(p) ==
  /\ flow[p] = "body"
  /\ \/ Commit(p, "commits")
     \/ /\ settled[p]
        /\ flow' = [flow EXCEPT ![p] = "resolved"]
        /\ UNCHANGED <<settled, conn, sp, idle, st, work, srv, fate>>

MutLeave(p) ==
  /\ flow[p] = "body"
  /\ flow' = [flow EXCEPT ![p] = "left"]
  /\ UNCHANGED <<settled, conn, sp, idle, st, work, srv, fate>>

\* The body throws, or the `await using` scope ends: rollback.
Leave(p) ==
  /\ flow[p] = "body"
  /\ \/ Rollback(p, "leaves")
     \/ /\ settled[p]
        /\ flow' = [flow EXCEPT ![p] = "left"]
        /\ UNCHANGED <<settled, conn, sp, idle, st, work, srv, fate>>

-----------------------------------------------------------------------------
(* Completion of a command *)

\* What the server makes of a command, external: it may fail a BEGIN, a
\* statement or a COMMIT; a failed transaction takes only rollbacks, and turns
\* COMMIT into one without an error.
Execute(cmd, s) ==
  LET done(t) == [ok |-> TRUE, srv |-> t]
      fails == [ok |-> FALSE, srv |-> [s EXCEPT !.failed = s.tx # None]]
      healthy == s.tx # None /\ ~s.failed
  IN  CASE cmd.what = "begin" ->
             {fails, done(IF s.tx = None THEN [Clean EXCEPT !.tx = cmd.by] ELSE s)}
        [] cmd.what = "sql" -> {fails} \cup (IF s.failed THEN {} ELSE {done(s)})
        [] cmd.what = "savepoint" ->
             {IF healthy THEN done([s EXCEPT !.savepoint = TRUE]) ELSE fails}
        [] cmd.what = "release" ->
             {IF healthy /\ s.savepoint THEN done([s EXCEPT !.savepoint = FALSE])
                                        ELSE fails}
        [] cmd.what = "rollback to" ->
             {IF s.savepoint THEN done([s EXCEPT !.failed = FALSE]) ELSE fails}
        [] cmd.what = "commit" ->
             {done(Clean)} \cup (IF healthy THEN {[ok |-> FALSE, srv |-> Clean]} ELSE {})
        [] cmd.what = "rollback" -> {done(Clean)}

\* The fate of the transaction that is open at the server, when it ends there.
Fate(s, t, committed) ==
  IF t.tx # s.tx /\ s.tx # None
  THEN [fate EXCEPT ![s.tx] = IF committed /\ ~s.failed THEN "committed" ELSE "aborted"]
  ELSE fate

\* The state of a connection once its oldest command is answered.  Of one that
\* end() was called on nothing more is asked here (module Connection).
Answered(c, cmd) ==
  IF st[c] \in {"dead", "ended"} THEN st[c]
  ELSE IF cmd.what # "sql" THEN "ready"
  ELSE IF st[c] = "pipelining" /\ Len(work[c]) = 1 THEN "ready" ELSE st[c]

MutCommitReleases(ok) == ok
CommitReleases(ok) == TRUE

MutBeginReleases(ok) == FALSE
BeginReleases(ok) == ~ok

\* Where a transaction stands once the call it awaits has settled.
Onward(was, ok) ==
  CASE was = "begins" -> IF ok THEN "body" ELSE "refused"
    [] was = "waits" -> "body"
    [] was = "commits" -> IF ok THEN "resolved" ELSE "left"
    [] was = "leaves" -> "left"

\* The continuation of the call that sent the command: the catch of
\* beginTransaction(), the finally of commit(), the branches of rollback().
Continue(c, cmd, ok) ==
  LET p == cmd.by
      over == cmd.what \in {"commit", "rollback"}
      destroys == cmd.what = "rollback" /\ ~ok
      releases == \/ cmd.what = "begin" /\ BeginReleases(ok)
                  \/ cmd.what = "commit" /\ CommitReleases(ok)
                  \/ cmd.what = "rollback" /\ ok
  IN  /\ settled' = IF over THEN [settled EXCEPT ![p] = TRUE] ELSE settled
      /\ idle' = IF destroys THEN Without(c)
                 ELSE IF releases THEN Returned(c) ELSE idle
      /\ st' = [st EXCEPT ![c] = IF destroys THEN "ended" ELSE Answered(c, cmd)]
      /\ sp' = IF ok /\ cmd.what = "savepoint" THEN [sp EXCEPT ![p] = "open"]
               ELSE IF ok /\ cmd.what \in {"release", "rollback to"}
               THEN [sp EXCEPT ![p] = "settled"] ELSE sp
      /\ flow' = IF cmd.awaited THEN [flow EXCEPT ![p] = Onward(@, ok)] ELSE flow
      /\ UNCHANGED conn

\* The server executes the oldest command of a connection and the answer
\* arrives.
Finish(c) ==
  /\ work[c] # <<>>
  /\ st[c] # "dead"
  /\ LET cmd == Head(work[c])
     IN  \E r \in Execute(cmd, srv[c]) :
           /\ srv' = [srv EXCEPT ![c] = r.srv]
           /\ fate' = Fate(srv[c], r.srv, cmd.what = "commit" /\ r.ok)
           /\ Continue(c, cmd, r.ok)
  /\ work' = [work EXCEPT ![c] = Tail(@)]

\* A command of a connection that was lost is rejected.
Reject(c) ==
  /\ work[c] # <<>>
  /\ st[c] = "dead"
  /\ Continue(c, Head(work[c]), FALSE)
  /\ work' = [work EXCEPT ![c] = Tail(@)]
  /\ UNCHANGED <<srv, fate>>

\* The connection is lost, before or after the server has executed a COMMIT.
\* The session knows nothing of it yet and keeps its transaction open.
Lose(c) ==
  /\ st[c] \in {"ready", "pipelining", "busy"}
  /\ st' = [st EXCEPT ![c] = "dead"]
  /\ \/ UNCHANGED <<srv, fate>>
     \/ /\ work[c] # <<>>
        /\ Head(work[c]).what = "commit"
        /\ srv' = [srv EXCEPT ![c] = Clean]
        /\ fate' = Fate(srv[c], Clean, TRUE)
  /\ UNCHANGED <<txVars, idle, work>>

\* The server notices that the client is gone, at any time after.
SessionEnds(c) ==
  /\ st[c] = "dead" \/ (st[c] = "ended" /\ work[c] = <<>>)
  /\ srv[c] # Clean
  /\ srv' = [srv EXCEPT ![c] = Clean]
  /\ fate' = Fate(srv[c], Clean, FALSE)
  /\ UNCHANGED <<txVars, idle, st, work>>

\* A connection the pool has dropped is gone with its session.
Gone(c) ==
  /\ st[c] = "ended"
  /\ work[c] = <<>>
  /\ srv[c] = Clean
  /\ st' = [st EXCEPT ![c] = "none"]
  /\ UNCHANGED <<txVars, idle, work, srv, fate>>

-----------------------------------------------------------------------------

Init ==
  /\ flow = [p \in Txs |-> "none"]
  /\ settled = [p \in Txs |-> FALSE]
  /\ conn = [p \in Txs |-> None]
  /\ sp = [p \in Txs |-> "none"]
  /\ idle = <<>>
  /\ st = [c \in Conns |-> "none"]
  /\ work = [c \in Conns |-> <<>>]
  /\ srv = [c \in Conns |-> Clean]
  /\ fate = [p \in Txs |-> "none"]

Body(p) ==
  \/ \E awaited \in BOOLEAN : Sql(p, awaited)
  \/ OpenSavepoint(p)
  \/ \E verb \in {"release", "rollback to"} : EndSavepoint(p, verb)
  \/ BodyVerb(p)
  \/ Return(p)
  \/ Leave(p)

Next ==
  \/ \E p \in Txs : Body(p) \/ \E c \in Conns : Begin(p, c)
  \/ \E c \in Conns : Finish(c) \/ Reject(c) \/ Lose(c) \/ SessionEnds(c) \/ Gone(c)

Spec == Init /\ [][Next]_vars

-----------------------------------------------------------------------------
(* Properties *)

\* The types of the variables; a ready connection has nothing in flight.
TypeOK ==
  /\ flow \in [Txs -> Flows]
  /\ settled \in [Txs -> BOOLEAN]
  /\ conn \in [Txs -> Conns \cup {None}]
  /\ sp \in [Txs -> {"none", "open", "settled"}]
  /\ idle \in Seq(Conns)
  /\ st \in [Conns -> ConnStates]
  /\ work \in [Conns -> Seq(Commands)]
  /\ srv \in [Conns -> [tx : Txs \cup {None}, failed : BOOLEAN, savepoint : BOOLEAN]]
  /\ fate \in [Txs -> {"none", "committed", "aborted"}]
  /\ \A c \in Conns : st[c] = "ready" => work[c] = <<>>

\* p holds its lease.
Leases(p, c) == conn[p] = c /\ ~settled[p] /\ flow[p] # "refused"

\* A live connection is idle once or leased to one transaction: settling gives
\* the lease back (finally of commit(), both branches of rollback(), catch of
\* beginTransaction()) and gives it back once.
LeaseExact ==
  \A c \in Conns :
    LET owners == {p \in Txs : Leases(p, c)}
        places == {i \in DOMAIN idle : idle[i] = c}
    IN  Cardinality(owners) + Cardinality(places) =
          IF st[c] \in {"none", "ended"} THEN 0 ELSE 1

\* A connection that the pool may hand out has no transaction open and nothing
\* in flight: "refuse to release a connection back to the pool while a
\* transaction is open" (docs/design/0002-connection-layer.md:110).
ReturnedClean ==
  \A i \in DOMAIN idle :
    st[idle[i]] # "dead" => srv[idle[i]] = Clean /\ work[idle[i]] = <<>>

\* A command runs in the transaction that sent it, never in another's or in
\* none: "transactions never silently pool-share" (transaction.ts, the comment
\* on class Transaction).
OwnTransaction ==
  \A c \in Conns : \A i \in DOMAIN work[c] :
    st[c] # "dead" =>
      srv[c].tx = IF work[c][i].what = "begin" THEN None ELSE work[c][i].by

\* When transaction() or the disposal has settled, the transaction is over at
\* the server: "the next statement after the disposing scope runs after the
\* server has acknowledged the rollback" (transaction.ts, header).  Not if its
\* connection was lost: the session may still have it open.
EndedIsOver ==
  \A p \in Txs :
    flow[p] \in {"resolved", "left"} =>
      fate[p] # "none" \/ st[conn[p]] \in {"dead", "ended"}
=============================================================================

------------------------------ MODULE Prepared ------------------------------
(***************************************************************************)
(* Prepared statements of one connection: the client's LRU cache           *)
(* (src/packages/pg-rocket/src/connection/prepared-cache.ts), the batches  *)
(* extQuery() builds from it and its retry (connection.ts), against the    *)
(* server's table of prepared statements.                                  *)
(*                                                                         *)
(* The cache is changed when a batch is staged, the server's table when    *)
(* the batch is executed, and other batches may be under way in between.   *)
(* That batches and answers stay in order, and that an answer reaches its  *)
(* call, is what module Connection shows.  A statement's name is a hash of *)
(* its SQL; two statements with the same hash are left out.                *)
(***************************************************************************)
EXTENDS Integers, Sequences, FiniteSets, SequencesExt

CONSTANTS
  Calls,       \* calls of extQuery()
  Stmts,       \* SQL texts
  None,        \* nothing: no statement, no entry, columns not known
  CacheSize,   \* the option preparedCacheSize
  MaxFaults,   \* bound on the faults: migrations, deallocations, rejections
  Faults       \* what may happen: "ddl", "deallocate", "abort"; "reject" and
               \* "unsupported", of a Parse and of a planned statement

ASSUME PreparedAssumption ==
  /\ CacheSize \in Nat
  /\ MaxFaults \in Nat
  /\ None \notin Stmts \cup (Calls \X {1, 2}) \cup Nat

VARIABLES
  sql,       \* the SQL of each call
  cache,     \* entries: the cached ones, least recently used first
  oids,      \* resultOids of each entry: the columns' schema version, or None
  status,    \* where each call stands
  bound,     \* the entry that the command of a call holds
  outbox,    \* batches staged or under way, up to their Sync
  answers,   \* answers under way
  table,     \* the server's statements: the version each was planned with
  schema,    \* the version of the schema
  faults,    \* how often something happened that the client cannot foresee
  disturbed, \* ghost: the statements it happened to
  tangled    \* ghost: those with a name in use when a plan was refused or
             \* outdated, and those two calls of which were open at once

clientVars == <<sql, cache, oids, status, bound>>
serverVars == <<table, schema, faults, disturbed>>
vars == <<clientVars, outbox, answers, serverVars, tangled>>

Versions == 0 .. MaxFaults

\* An entry object is named after the attempt that created it.
Entries == Calls \X {1, 2}

SqlOf(e) == sql[e[1]]

\* "sent1" and "sent2": the first and the second attempt is under way.  "done"
\* stands for a result and for any error that has nothing to do with statements.
Statuses == {"new", "sent1", "retrying", "sent2", "done", "abandoned",
             "26000", "0A000", "42P05", "08P01"}

MutRetryable == {"0A000"}
\* Auto-reprepare trigger codes.
Retryable == {"0A000", "26000"}

\* preparedCacheSize 0: a cache of one entry, and every call is forced fresh.
MaxSize == IF CacheSize > 0 THEN CacheSize ELSE 1

PreparedDisabled == CacheSize = 0

-----------------------------------------------------------------------------
(* PreparedCache *)

IsCached(s) == \E e \in Range(cache) : SqlOf(e) = s

EntryFor(s) == CHOOSE e \in Range(cache) : SqlOf(e) = s

\* forget(): the key leaves the Map, the others keep their order.
MutForgotten(s) == cache
Forgotten(s) ==
  IF IsCached(s)
  THEN RemoveAt(cache, CHOOSE i \in DOMAIN cache : SqlOf(cache[i]) = s)
  ELSE cache

\* bump(): the entry becomes the most recently used one.
Bumped(s) == Append(Forgotten(s), EntryFor(s))

\* add(): the oldest entry makes room.
MutEvicted(s) == IF Len(Forgotten(s)) > MaxSize THEN SqlOf(Head(cache)) ELSE None
Evicted(s) ==
  IF Len(Forgotten(s)) >= MaxSize THEN SqlOf(Head(Forgotten(s))) ELSE None

MutAdded(s, e) ==
  Append(IF Evicted(s) = None THEN Forgotten(s) ELSE Front(Forgotten(s)), e)

Added(s, e) ==
  Append(IF Evicted(s) = None THEN Forgotten(s) ELSE Tail(Forgotten(s)), e)

-----------------------------------------------------------------------------
(* extQuery() *)

\* The Close of the evicted statement goes out with the Parse of the new one.
MutCloseFor(s) == None
CloseFor(s) == Evicted(s)

\* ensurePrepared() and encodeExtQuery() for attempt n: on a hit the batch is
\* Bind .. Sync, otherwise [Close of the evicted statement] Parse Bind .. Sync.
\* The result formats are those of the columns the entry knows.
Stage(k, n, forceFresh) ==
  LET s == sql[k]
      hit == ~forceFresh /\ IsCached(s)
      entry == IF hit THEN EntryFor(s) ELSE <<k, n>>
  IN  /\ cache' = IF hit THEN Bumped(s) ELSE Added(s, entry)
      /\ bound' = [bound EXCEPT ![k] = entry]
      /\ outbox' = Append(outbox,
                     [call |-> k,
                      close |-> IF hit THEN None ELSE CloseFor(s),
                      parse |-> ~hit,
                      formats |-> oids[entry]])
      /\ status' = [status EXCEPT ![k] = IF n = 1 THEN "sent1" ELSE "sent2"]

Open(k) == status[k] \in {"sent1", "retrying", "sent2"}

ExtQuery(k) ==
  /\ status[k] = "new"
  /\ Stage(k, 1, PreparedDisabled)
  /\ tangled' = tangled \cup (IF \E l \in Calls : Open(l) /\ sql[l] = sql[k]
                             THEN {sql[k]} ELSE {})
  /\ UNCHANGED <<sql, oids, answers, serverVars>>

\* The catch of the first attempt: the entry is forgotten and parsed afresh.
Reprepare(k) ==
  /\ status[k] = "retrying"
  /\ Stage(k, 2, TRUE)
  /\ UNCHANGED <<sql, oids, answers, serverVars, tangled>>

\* ... unless the signal has fired meanwhile: the second attempt rejects, with
\* the entry forgotten.
Abandon(k) ==
  /\ "abort" \in Faults
  /\ status[k] = "retrying"
  /\ cache' = Forgotten(sql[k])
  /\ status' = [status EXCEPT ![k] = "abandoned"]
  /\ UNCHANGED <<sql, oids, bound, outbox, answers, serverVars, tangled>>

\* ExtQueryCommand: the first RowDescription an entry sees fills its columns,
\* the ReadyForQuery settles the call or lets it retry.
Receive ==
  /\ answers # <<>>
  /\ LET a == Head(answers)
     IN  /\ oids' = IF a.columns # None /\ oids[bound[a.call]] = None
                    THEN [oids EXCEPT ![bound[a.call]] = a.columns]
                    ELSE oids
         /\ bound' = [bound EXCEPT ![a.call] = None]
         /\ status' = [status EXCEPT ![a.call] =
                         IF @ = "sent1" /\ a.result \in Retryable
                         THEN "retrying" ELSE a.result]
  /\ answers' = Tail(answers)
  /\ UNCHANGED <<sql, cache, outbox, serverVars, tangled>>

-----------------------------------------------------------------------------
(* The server, external: what the extended-query protocol promises *)

AtServer == {s \in Stmts : table[s] # None}

Fault(stmts) ==
  /\ faults < MaxFaults
  /\ faults' = faults + 1
  /\ disturbed' = disturbed \cup stmts

NoFault == UNCHANGED <<faults, disturbed>>

\* Close comes first.  Parse of a name in use is an error, and so is a Parse
\* the server rejects; Bind needs the name (26000), the plan's columns
\* (0A000), and as many result formats as there are columns (08P01).  An error
\* skips the rest of the batch; Describe answers before Execute runs or fails.
\* A statement may also be rejected for a feature the server lacks (0A000).
ServerRuns ==
  /\ outbox # <<>>
  /\ LET b == Head(outbox)
         s == sql[b.call]
         closed == [t \in Stmts |-> IF t = b.close THEN None ELSE table[t]]
         taken == b.parse /\ closed[s] # None
         parsed == IF b.parse /\ ~taken THEN [closed EXCEPT ![s] = schema] ELSE closed
         planned == ~taken /\ parsed[s] = schema
         Reply(result, columns) ==
           answers' = Append(answers, [call |-> b.call, result |-> result,
                                       columns |-> columns])
     IN  \/ /\ b.parse /\ ~taken /\ "reject" \in Faults /\ Fault({s})
            /\ \E result \in {"done", "0A000"} : Reply(result, None)
            /\ table' = closed /\ UNCHANGED tangled
         \/ /\ planned /\ "unsupported" \in Faults /\ Fault({s})
            /\ Reply("0A000", schema)
            /\ table' = parsed /\ tangled' = tangled \cup {s}
         \/ /\ planned
            /\ Reply(IF b.formats \in {None, schema} THEN "done" ELSE "08P01", schema)
            /\ table' = parsed /\ NoFault /\ UNCHANGED tangled
         \/ /\ ~planned
            /\ Reply(IF taken THEN "42P05" ELSE IF parsed[s] = None THEN "26000"
                                                                 ELSE "0A000", None)
            /\ table' = parsed /\ NoFault /\ UNCHANGED tangled
  /\ outbox' = Tail(outbox)
  /\ UNCHANGED <<clientVars, schema>>

\* A migration, in this session or another one, changes the result columns.
Migrate ==
  /\ "ddl" \in Faults
  /\ Fault(AtServer)
  /\ schema' = schema + 1
  /\ tangled' = tangled \cup AtServer
  /\ UNCHANGED <<clientVars, outbox, answers, table>>

\* DEALLOCATE ALL, DISCARD ALL, or a connection pooler that resets the session.
Deallocate ==
  /\ "deallocate" \in Faults
  /\ AtServer # {}
  /\ Fault(AtServer)
  /\ table' = [s \in Stmts |-> None]
  /\ UNCHANGED <<clientVars, outbox, answers, schema, tangled>>

-----------------------------------------------------------------------------

Init ==
  /\ sql \in [Calls -> Stmts]
  /\ cache = <<>>
  /\ oids = [e \in Entries |-> None]
  /\ status = [k \in Calls |-> "new"]
  /\ bound = [k \in Calls |-> None]
  /\ outbox = <<>>
  /\ answers = <<>>
  /\ table = [s \in Stmts |-> None]
  /\ schema = 0
  /\ faults = 0
  /\ disturbed = {}
  /\ tangled = {}

Next ==
  \/ \E k \in Calls : ExtQuery(k) \/ Reprepare(k) \/ Abandon(k)
  \/ Receive
  \/ ServerRuns
  \/ Migrate
  \/ Deallocate

Spec == Init /\ [][Next]_vars

-----------------------------------------------------------------------------
(* Properties *)

Batches == [call : Calls, close : Stmts \cup {None}, parse : BOOLEAN,
            formats : Versions \cup {None}]

\* Types of the variables; the cache is a map from SQL within its limit.
TypeOK ==
  /\ sql \in [Calls -> Stmts]
  /\ cache \in Seq(Entries)
  /\ \A i, j \in DOMAIN cache : SqlOf(cache[i]) = SqlOf(cache[j]) => i = j
  /\ Len(cache) <= MaxSize
  /\ oids \in [Entries -> Versions \cup {None}]
  /\ status \in [Calls -> Statuses]
  /\ bound \in [Calls -> Entries \cup {None}]
  /\ outbox \in Seq(Batches)
  /\ answers \in Seq([call : Calls, result : Statuses,
                      columns : Versions \cup {None}])
  /\ table \in [Stmts -> Versions \cup {None}]
  /\ schema \in Versions
  /\ faults \in 0 .. MaxFaults
  /\ disturbed \subseteq Stmts
  /\ tangled \subseteq Stmts

\* A statement to which nothing has happened stays in step, whatever was
\* rejected, migrated, deallocated and retried of the others and whatever was
\* evicted while batches were under way: no Bind names it when it is not there,
\* no Parse when it is, and a quiet server has it exactly if it is cached.
InStep ==
  \A s \in Stmts \ disturbed :
    /\ \A k \in Calls :
         sql[k] = s => status[k] \notin {"retrying", "26000", "42P05", "0A000"}
    /\ outbox = <<>> => (s \in AtServer <=> IsCached(s))

\* The entry of a Parse the server has rejected stays cached, and so does that
\* of a statement deallocated: the next call binds a name that is not there.
\* Its retry parses it anew, and no caller sees the error, nor one of a name in
\* use; unless two calls of the statement were open at once, or its plan was
\* refused or outdated while the name was in use (RetryRecovers).
NamesRecover ==
  \A k \in Calls : status[k] \in {"26000", "42P05"} => sql[k] \in tangled

\* The result formats of a Bind are those of the plan the server holds, though
\* they come from an entry that an earlier answer has filled, and the
\* statement may have been parsed again since.
FormatsMatchPlan ==
  \A k \in Calls : status[k] # "08P01"

\* The server accumulates no statement that the cache has lost, whatever was
\* migrated, deallocated, rejected or retried; the one exception is a retry
\* abandoned between forget() and Parse.
NothingAccumulates ==
  outbox = <<>> =>
    \A s \in AtServer :
      IsCached(s) \/ \E k \in Calls : status[k] = "abandoned" /\ sql[k] = s

-----------------------------------------------------------------------------
(* What the documentation says and the code does not do *)

\* doc 0002:208, connection.ts:2058: after 0A000 or 26000 the entry is evicted
\* and the statement prepared again, and the retry is invisible to the caller.
RetryRecovers ==
  \A k \in Calls : status[k] \notin {"42P05", "26000", "0A000"}
=============================================================================

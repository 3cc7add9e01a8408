# A formal model of pg-rocket

TLA+ modules, TLC configurations and TLAPS proofs for pg-rocket, a PostgreSQL
client library in TypeScript (`src/packages/pg-rocket/src`). The source is the
reference: every definition is a translation of code, and `PROJECT.json` names
the lines ("map"). Source paths below are relative to that directory unless
they start with `docs/` (`src/docs/design`).

## 1. Inventory of the system

JavaScript is single-threaded: nothing runs in parallel, but every `await` is a
point where any other callback may run, and microtasks (promise continuations)
run before the next socket event. All hazards of the library come from there,
from the server and the socket behind it, and from timers.

| Component | State | Operations | Talks to | Hard part | What makes it correct |
|---|---|---|---|---|---|
| Pool (`pool/pool.ts`) | `idle`, `idleSince`, `leased`, `waiters`, reaper timer, `closed` | `acquire`, `release`, `destroy`, `close`, `reap` | opens and ends Connections; called by the client and transactions | `acquire` awaits a connect in the middle; queueing; timer against releases; close against leases | capacity, one owner per connection, no leak, FIFO without starvation, idle connections reaped in time and not early |
| Connection dispatcher (`connection/connection.ts`) | state, `commandQueue`, `messageWaiter`, reader and writer buffers, `pendingFlush`, `closeError` | `extQuery`, `query`, `end`, `cancel`, `drain`, `fatal` | socket, server, prepared cache, observability hooks | pipelining: answers matched by order alone; chunking; failure at any await; half-close | each call gets its own answer, every call settles, `ready` means quiescent, a healthy connection is never torn down |
| Cursors and COPY (`connection.ts` 545-1065, 2247-2330; `copy.ts`) | `busy` state, portal, COPY sub-state, controller `settled` | `cursor`, `copyIn`, `copyOut`, `write`, `end`, `fail` | dispatcher; the consumer of a generator | a consumer that is slow or leaves early while the server keeps sending | the connection is ready again after every way out, or is marked unusable |
| Prepared statements (`connection/prepared-cache.ts`, `ensurePrepared`, `extQuery`) | LRU map of SQL to entry; the server's statement table | `bump`, `add`, `forget`, retry | dispatcher, server | cache and server table drift apart on errors, eviction, retries | a Bind never names a statement the server does not have, a Parse never one it has |
| Transactions (`transaction.ts`) | `settled`, savepoint counter, the lease | `begin`, `commit`, `rollback`, `savepoint`, dispose | pool, connection | `settled` is tested before and set after an await; errors in COMMIT and ROLLBACK | the lease is given back once, and never with an open transaction |
| LISTEN/NOTIFY (`listen.ts`) | channel map, connection, connect promise, grace timer, `closed` | `subscribe`, `unsubscribe`, `close`, release | its own connection | concurrent subscribes, reconnects, grace timer | a live subscription is registered at the server |
| Client (`client.ts`) | pool, listener, options | `sql`, `begin`, `cursor`, `copy`, `listen`, `close` | all of the above | lease discipline in `finally` | every lease is given back or destroyed, once |
| Handshake and authentication (`connection.ts` 270-291, 1212-1416; `tcp.ts`, `protocol/auth`) | handshake states, salt, SCRAM session, the transport's socket | TLS upgrade, startup, cleartext, MD5, SCRAM, `onConnect` | server, password callback, crypto provider | awaits on something else than the server, with no waiter registered; a byte that is not a frame | both ends stay in step, TLS as asked for, a failure is reported as what it is, `connect()` settles |
| Wire buffers (`protocol/writer.ts`, `protocol/reader.ts`) | two growable buffers with positions | typed frames, `flush`, `push`, `next` | dispatcher, socket | growth, compaction and reuse under frames and records that hold offsets; chunks cut anywhere | what is parsed is what was encoded |
| Value codecs, SQL fragments, URLs, errors, hooks | none | conversions | - | boundary arithmetic | reference definitions |

`PROJECT.json` lists every component with its status and every hazard with the
property that watches it, or why none does yet.

## 2. Plan

Modules, in order. Each is parameterised by CONSTANTS with a named assumption,
has one action per stretch between awaits, and declares no RECURSIVE operator.

1. **Pool** with **Lease**, the lease discipline it implements, and
   **PoolProofs**. *Done.*
2. **Connection**, the dispatcher with the wire and the server, with
   **ConnectionProofs**. *Done.*
3. **Prepared**: LRU cache, pipelined batches, evictions and the retry, against
   the server's statement table, and **PreparedProofs**. *Done.*
4. **Transaction**: begin, commit, rollback and savepoints over a lease and a
   connection reduced to its states, and **TransactionProofs**. *Done.*
5. **Streams**: cursors and COPY in both directions, from the client call to the
   server, taking turns on one pooled connection, and **StreamsProofs**. *Done.*
   It does not extend Connection: a stream owns its connection alone, so only the
   single-message waiter of the dispatcher matters to it.
6. **Listen**: subscriptions, successive connections and the grace timer,
   against the server's registrations, and **ListenProofs**. *Done.*
7. **Handshake**: TLS answer, startup and authentication up to "ready" and the
   `onConnect` hook, and **HandshakeProofs**. *Done.*
8. **Wire**: the write buffer, the stream and the read buffer. *Done*, without
   proofs (section 5 says why).
9. Pure algorithms over bounded inputs: placeholder numbering of fragments, array
   text, the COPY text codec.

Every safety invariant of the passing runs is proved but those of Wire.

## 3. Module by module

### Pool

State is that of the class, field by field, plus what lies outside it: where
each caller stands (`request`, `lease`), the socket behind each Connection
object (`sock`), the connections `close()` waits for (`ending`) and the clock.
A caller is one call site that leases at most one connection at a time; the
placeholder object that reserves a slot during a connect is the caller itself.

| Action | Code |
|---|---|
| `AcquireIdle`, `AcquireConnect`, `AcquireWait` | the three branches of `acquire()` |
| `ConnectOk`, `ConnectFail` | the code after its await |
| `ReleaseToWaiter`, `ReleaseToClosed`, `ReleaseToIdle` | the three branches of `release()`, with `scheduleReaper()` in the last |
| `Destroy` | `destroy()`, as `releaseOrDestroy` and `Transaction.rollback` call it |
| `Close`, `CloseResolved` | `close()` up to its await, and its resolution |
| `Reap` | one tick of the interval timer |
| `SocketDies`, `EndDone`, `Advance` | socket failure, completion of a background `end()`, time |

An ended Connection object becomes free (`"none"`) and its model value is used
again for the next connect: the number of objects over time is unbounded. A
connection whose socket is still closing is no longer counted by the pool, nor
by the model.

**Lease** is the abstract specification: an owner per connection (a caller, the
pool, nobody) and seven actions. `ImplementsLease` is the refinement, with the
owner computed from the pool's lists.

### Connection

State is that of the class from the end of the handshake on, plus the wire (two
FIFO sequences), the server and one promise per call. `holder` and `phase`
describe the one `query()` that may own the connection: awaiting its write
callback, registered as `messageWaiter`, or resolved with its continuation
queued as a microtask. `callbacks` are the write callbacks that `query()` and
`end()` still await, in the order of the writes.

| Action | Code |
|---|---|
| `ExtQuery` | `runExtQueryOnce()` and `encodeExtQuery()`: one frame stands for Parse..Sync |
| `SimpleQuery`, `FlushDone`, `Resume` | `runQuery()` up to its write, the write callback, one round of `consumeUntilReady()` |
| `Refuse` | the early rejections of both |
| `Abort`, `ServerCancels` | the abort handler, and the CancelRequest reaching the server |
| `End`, `EndDone` | `end()` before and after its await |
| `Flush` | the microtask of `scheduleFlush()` |
| `DataToWaiter`, `DataToQueue`, `Step`, `DrainToWaiter` | `onTransportData()`, `drain()`, `ExtQueryCommand.step()`; the return of `drain()` once it has served a waiter, with the rest of the chunk in the reader |
| `TransportClose`, `TransportError`, `Fatal`, `FailPending` | the failure path |
| `Server*` | the server, external |

A chunk is a number of whole messages; with a waiter it may be of any length
(the rest stays in the reader), on the queue path one at a time is enough,
since a longer chunk is processed in one go with the same result. Left out:
what a call computes from its rows, observability hooks (which run inside
`drain()` and may only call the public operations), `decodeRow` throwing, the
prepared cache and its retry, `txStatus` (no code reads it).

`end()` tests the state only, so that it may be called again once a late
ReadyForQuery or a failure has changed it, and sends Terminate again.

Assumption on Node: a write callback is called before the answer to that write
is delivered, and write callbacks come in the order of the writes. What answers
nobody (a notification, a parting error) may be delivered before the callback
and then finds no waiter (`DataToQueue` in phase "flushing").

### Prepared

One connection's cache against the server's statement table. State is the
cache's Map (entries by age, each with its `resultOids`), the entry each
`ExtQueryCommand` holds, the batches and answers under way, and at the server
the plan of each statement and the version of the schema. An entry object is
named after the attempt that created it, a statement's name is its SQL, a
column list is the version of the schema it was read under.

| Action | Code |
|---|---|
| `ExtQuery`, `Stage` | `runExtQueryOnce()`, `encodeExtQuery()`, `ensurePrepared()` with `bump`, `add` and the Close of what `add` evicts |
| `Reprepare`, `Abandon` | the catch of `extQuery()`: `forget` and the second attempt, refused if the signal has fired |
| `Receive` | `ExtQueryCommand.step()`: RowDescription and ReadyForQuery |
| `ServerRuns`, `Migrate`, `Deallocate` | the server, external |

Order and attribution of answers are taken from module Connection.

`disturbed` is a ghost: the statements to which something happened that the
client cannot foresee, be it from outside (a migration, a deallocation) or the
server's rejection of the client's own Parse. `InStep` is stated for each
statement outside it: what befalls one never spills over to another. What a
rejected or deallocated one leaves is a cached entry for a name the server does
not have; `NamesRecover` says that the retry makes up for it. It is false of a
statement two calls of which were open at once, where both may retry, and of one
whose plan was refused or outdated while its name was in use, where the retry
parses a name that is taken (section 6): a second ghost, `tangled`, holds these,
and nothing else.

### Transaction

State is one record's worth per transaction (where its caller stands, `settled`,
the connection, one Savepoint object), the pool's idle stack, and per connection
its state, its commands in flight and the transaction the server has open.
`fate` records what became of each transaction.

| Action | Code |
|---|---|
| `Begin` | `acquire()` and `beginTransaction()` up to its await |
| `Sql`, `OpenSavepoint`, `EndSavepoint` | `sql`, `savepoint`, `Savepoint.release`, `rollback` |
| `Commit`, `Rollback` | the two verbs up to their await, with the synchronous refusal of a connection that is not ready |
| `BodyVerb`, `Return`, `Leave` | the body calls a verb; `runInTransaction()` commits, or rolls back; disposal |
| `Finish`, `Reject`, `Continue` | the answer or the loss of a command, and the code after the await: `finally` of `commit()`, both branches of `rollback()`, `catch` of `beginTransaction()` |
| `Lose`, `SessionEnds`, `Gone` | the socket fails; the server notices, at any time after; a destroyed connection is gone with its session |

A session outlives the client's socket: its transaction stays open, and a COMMIT
under way may still have been executed, until the server ends the session.
`EndedIsOver` claims nothing of a connection lost in that state.

`Habits` are liberties a caller may take (a statement or a verb left
un-awaited, a savepoint used after its transaction settled). The passing run
grants none: its promises are to callers that await their calls. A call that
is rejected at once and changes nothing is no step, isolation options are data,
and a body has one savepoint open at a time.

### Streams

A use is one stream: `db.cursor()`, `db.copy.out()` or `db.copy.in()`. The uses
take turns on one pool slot, so that what one leaves behind is what the next
one finds. State is the connection's (`state`, `messageWaiter`, the messages in
the reader), the slot, where each use and its consumer stand, the two FIFO
sequences of the wire and the server with its portal or COPY. `moved` is what a
consumer was given, or wrote; `stored` what a COPY has brought to the server.

| Action | Code |
|---|---|
| `OpenCursor`, `StartCopy`, `Refuse`, `CursorBadParam`, `WriteFails` | `acquire()`, and `cursor()`, `copyIn()`, `copyOut()` up to their first await, with the ways they throw before or at it |
| `CursorRow`, `CursorYields`, `CursorSyncs`, `CursorSynced`, `CursorUnexpected` | the loop of `cursor()`, message by message, with `syncCursorToReady()` |
| `ReaderYields`, `WriterOpens`, `NoteError`, `Skip`, `Settle` | the loops of `copyOut()`, `copyIn()`, `_copyDrainTrailer()`, `_copyFail()` and of the two `finally` blocks |
| `NextCall`, `LastNext`, `Return`, `BreakReader` | what a consumer of a cursor or a reader does: `next()`, `return()`, a break out of `iterate()` |
| `WriteChunk`, `EndOrFail`, `SettleAgain`, `Bereft` | the writer: `writeBytes()`, `end()`, `fail()`, disposal, a second one of them while the first awaits, any on a lost connection |
| `Receive`, `Close`, `Fatal`, `Reject` | `onTransportData()`, `onTransportClose()`, `fatal()`, the rejected waiter and the code behind its await |
| `Server*` | the server, external |

`leak` is a ghost that names the calls which let go of a connection untidily:
`ReturnedClean` holds for all others, and `NothingPoisonsThePool`, which has no
such exception, is violated.

### Listen

State is that of `ListenerManager`, a record of each call of `subscribe()`, and
per connection its life, the one `query()` it runs and what the server has
registered for it. A Set of handlers is named by the subscription that created
it: code that looked a Set up keeps it across its await, when the channel may
have another Set by then.

| Action | Code |
|---|---|
| `Subscribe`, `Refuse`, `Proceed` | `subscribe()` up to and after `ensureConnection()` |
| `Connected` | the connect settles, for all who wait for it |
| `Unsubscribe`, `GoesOn` | `unsubscribe()`, and what follows its UNLISTEN, or `subscribe()`'s LISTEN |
| `TimerFires`, `EndConn`, `Close` | `releaseNow()`, `close()` |
| `Answered`, `Dies` | the connection and the server, external |

`dispatch()` reads the table and changes nothing: it is the operator
`Dispatched`. One LISTEN or UNLISTEN runs at a time and a second `query()` is
refused, which is what module Connection's `Refuse` is.

### Handshake

State is where `connect()` stands, the connection's state, the messages in the
reader, the fields that outlive a message (MD5 salt, server signature, backend
key), both ends' idea of TLS, the wire, and how far the server is. Phases in
which `connect()` awaits something else than the server (`Thinking`) have no
waiter, and a message that comes then is fatal.

| Action | Code |
|---|---|
| `Unreachable`, `Begin`, `Negotiate`, `Upgrade`, `UpgradeFails` | `connectTcp()`, `maybeUpgradeTls()`, `upgradeTls()` |
| `Absorb`, `Ready`, `Rejected` | the loop of `startup()` |
| `AskPassword`, `PasswordResolves`, `PasswordRejects` | `handleAuthRequest()` and the password callback |
| `SaslContinue`, `Derived`, `SaslFinal`, `SaslRefused` | `handleSasl()`, `clientFinal()`, `verifyServerFinal()` |
| `HookEnds` | `onConnect` in `connect()` |
| `Receive`, `Close`, `RejectWaiter` | the socket's events and `failPending()` |
| `Server*` | the server, external |

Digests are free constructors (equal exactly if their parts are): the model
says which inputs a digest is made from, not how. A salt is a value: that
`handleAuthRequest()` slices it out of the reader's buffer, where a view of it
might be overwritten during the password callback, is not told apart.

### Wire

The two buffers, cell by cell, with a stream between them that may be cut
anywhere. The int32 of a length is one cell, so a header has two; what stands in
for the server echoes the frames.

| Action | Code |
|---|---|
| `Encode` (`StartFrame`, `WriteField`, `FinishFrame`, `Ensure`) | one of the `write*` functions of `MessageWriter` |
| `Flush` | `flush()`: `bytes()`, the copy, `reset()` |
| `Push` (`EnsureWritable`) | `onTransportData()`: `push()` |
| `NextMessage` (`Complete`, `Peeled`), `ParseLent` | `next()` in `drain()`: the message is parsed at once by the head of the queue, or lent to the waiter, whose continuation parses it |

## 4. Runs

| Run | Instance | Shows |
|---|---|---|
| `pool_safety` | `MCPool.cfg`: 2 slots, 4 callers, 4 connections, timeout 4, tick 1, time up to 9, all faults, symmetric | all safety invariants, refinement of Lease |
| `pool_liveness` | `MCPool_live.cfg`: 2 slots, 4 callers, 3 connections, no faults | `EveryWaiterServed`, `ClosedPoolDrains` |
| `connection` | `MCConnection.cfg`: 2 pipelined calls, 1 simple query, 1 notice under way, 1 abort, all faults | all safety invariants and `CallsSettle` |
| `prepared` | `MCPrepared.cfg`: 4 calls, up to 3 statements, cache of 2, 2 faults, symmetric | `InStep`, `NamesRecover`, `FormatsMatchPlan`, `NothingAccumulates` |
| `prepared_retry` | 2 calls of 1 statement, 1 migration | violated: the retry after 0A000 fails with 42P05 |
| `transaction` | `MCTransaction.cfg`: 3 transactions, 2 connections, each may be lost and used again, symmetric | `LeaseExact`, `ReturnedClean`, `OwnTransaction`, `EndedIsOver` |
| `transaction_release` | 1 transaction, 1 connection, un-awaited statements | violated: a connection returned with its transaction open |
| `streams` | `MCStreams.cfg`: any two of two cursors, a reader and a writer, 2 rows each | `ReturnedClean`, `StreamExact`, `EveryAwaitEnds` |
| `streams_break` | 2 readers, 1 row | violated: a break returns a connection in the middle of a COPY |
| `listen` | `MCListen.cfg`: 3 subscriptions, 2 channels, 2 connections, `unlisten()` up to twice each | `RegistrationsInStep`, `HandlersKept`, `ReleasedWhenUnused` |
| `handshake` | `MCHandshake.cfg`: 3 TLS modes, 5 answers to startup, 2 passwords, 2 salts | `InStep`, `TruthfulFailure`, `EveryConnectSettles` |
| `wire` | `MCWire.cfg`: 3 frames of up to 2 fields, capacity 3 | `FramesExact` |

Bounds. Two slots and four callers let two callers queue behind two leases
while a third list operation runs, and make every pair of pool operations
interleave; four connections let two be closing while two are in use. Time up to
9 with timeout 4 and tick 1 holds two full idle periods, so the timer is
stopped and armed again. In Connection two pipelined calls show every order of
staging, flushing and answering (a third adds only length), and one exclusive
query shows the hand-over in both directions. In Prepared three statements over
a cache of two evict, a fourth call uses again what was evicted or migrated, and
all four may be under way at once; two faults (`MaxFaults`) make a migration
follow a deallocation or a rejection (three faults, 972 000 states, were checked
as well). In Transaction two transactions suffice to
use one connection one after the other, two connections to run side by side; the
third does one while the others do the other;
`MaxInFlight` bounds un-awaited statements. In Streams two uses make every pair
of streams follow each other (`MaxUses`); of the two cursors over two rows one
fetches them one by one, with an empty fetch behind a full last batch, the other
ends with a batch that is not full. (Three rows fetched two at a time by a
single cursor, 262 000 states, were checked as well.) In Listen three subscriptions put two on
one channel while a third changes the other one; two connections (`MaxConns`)
show the loss and the reconnect, and a second `unlisten()` of a subscription
(`MaxUnlistens`) meets its successor's Set. Handshake has no counter. In Wire three
frames (`Messages`) of up to two fields (`MaxFields`) make both buffers grow,
slide and be used again, in each order. Clock, notices and aborts are the other
bounded counters (`MaxTime`, `MaxNotices`, `MaxAborts`). `CHECK_DEADLOCK
FALSE` everywhere: a client that nobody calls rests, and the bounded clock stops.

Fairness. Pool: a connect settles (TCP answers or fails), a lease is given back
(the `finally` blocks of `client.ts`), a background `end()` completes; nothing
makes a caller acquire, a user close, or a socket die. Connection: microtasks
run, writes complete, arrived data is read, a finished socket reports its
closure and a server that is up answers; the application, faults, cancels and
notices are not fair. Streams:
continuations run, arrived data is read, a finished socket reports its closure,
and a server that is up answers and sends on; consumers owe nothing. Listen:
continuations run, connects and queries come to an end, the grace timer fires.
Handshake: the client's steps run, the password callback, key derivation and
the hook resolve, the socket delivers, and the server answers or closes
(`connect()` has no timeout of its own). Prepared, Transaction and Wire have no
liveness property: that a `query()` or an `extQuery()` settles is shown of
Connection, and what they add to it is bounded (one retry, one verb after the
other).

## 5. Proofs

The theorems hold for every value of the constants (section 4 bounds them only
for TLC). Each component has an inductive invariant, which TLC checked on the
instances of section 4 before it was proved; a module of proofs states it first,
then one lemma per action or kind of step, then the theorems.

`SeqFacts` holds the lemmas on sequences: range, front, tail, append, suffix
and removal of a stack or a queue, most of them without repetitions; and
concatenation.

### Pool (`PoolProofs`)

For every number of connections, callers and slots, every timeout and every
bound on the clock:

| Theorem | States | Argument |
|---|---|---|
| `TypeCorrect` | `Spec => []TypeOK` | inductive as it stands |
| `QueueCorrect` | `Spec => [](QueueConsistent /\ ClosedPoolIsEmpty)` | inductive with TypeOK: a caller queues only when nothing is idle, and a release prefers the queue |
| `LeaseCorrect` | `Spec => [](LeaseExclusive /\ NoOrphans)` | an inductive strengthening that says where each connection is: idle once, held by one caller, or gone |
| `CapacityCorrect` | `Spec => []CapacityRespected` | a placeholder is counted, and swapped for one connection; needs LeaseCorrect, since adding a connection that was idle as well would not change the sum |
| `ReaperCorrect` | `Spec => [](ReaperArmed /\ ReapedInTime)` | idleSince is sorted, the armed tick is in the future and not more than one period away, and the oldest entry is younger than the timeout at the last tick |
| `Refinement` | `Spec => ImplementsLease` | each action moves the owners of the connections as one action of Lease does, or leaves them alone; rests on LeaseCorrect, which makes the owner of a connection unique |

### Connection (`ConnectionProofs`)

For any sets of pipelined and simple queries and every bound on notices and
aborts:

| Theorem | States | Argument |
|---|---|---|
| `TypeCorrect` | `Spec => []TypeOK` | inductive as it stands |
| `OwnershipCorrect` | `Spec => [](NoPromiseForgotten /\ Exclusive)` | `ControlInv` below |
| `FailureCorrect` | `Spec => []FailureReachesAll` | a conjunct of `ControlInv` gives it: once `closeError` is set the queue is empty and stays so |
| `AnswersCorrect` | `Spec => []AnswersMatch` | `PipelineInv` below |
| `QuiescenceCorrect` | `Spec => []ReadyIsQuiescent` | in state "ready" nobody is owed an answer, so that `PipelineInv` leaves only notices under way |
| `HealthyCorrect` | `Spec => []HealthyNeverTornDown` | a conjunct of `PipelineInv` |

`ControlInv` strengthens `Exclusive`, which is not inductive: a settled call
might be in the queue twice, or the connection's state might not tell who owns
it, and then a step of `drain()` or of `query()` would break it. It adds that
every pending call is in the queue or is the holder, that the queue has no
repetitions, that the state says which of the two owns the connection, and that
failure is final.

`PipelineInv` is about three sequences: the messages sent by the server and not
consumed (`Incoming`: what a resolved waiter holds, the reader, the socket), the
calls owed an answer in order (`Owed`), and the frames not executed (`Upstream`:
the socket, the writer). `AnswersMatch` is not inductive, since that a message is for the
head of the queue rests on all that is behind it. The invariant says, for any
lengths: an answer is for a call that waits and comes after the complete replies
to those before it (`Expected`), a reply is data or an error and then its end
(`Paired`, `Kinds`), the end of a reply finds the call marked as failed exactly
if an error was sent (`Verdicts`), a frame not executed belongs to a waiting
call of which nothing was answered (`Unanswered`), frames keep the order of the
calls (`InOrder`, `Once`, `Unfailed`), and each waiting call has its frame or
its reply under way (`AllUnderWay`). Steps are lemmas on these sequences: drop a
notice, consume, answer, append, cut.

### Prepared (`PreparedProofs`)

For any calls and statements and any number and kind of faults:

| Theorem | States | Argument |
|---|---|---|
| `TypeCorrect` | `Spec => []TypeOK` | with the server's schema no newer than the faults |
| `FormatsCorrect` | `Spec => []FormatsMatchPlan` | `FormatsInv`: columns that a batch, an answer or a cached entry carries are those of the server's plan, since whoever parses the statement again has put a new entry in the place of the old one; it needs that a batch's entry is never created twice (`Fresh`) and that nobody parses behind a batch that holds a cached entry (`HeldEntries`) |
| `AccountsCorrect` | `Spec => []NothingAccumulates` | the property is about a quiet connection; the invariant (`Accounted`) is about what the batches under way will leave at the server (`Left`) |
| `StepCorrect` | `CacheSize > 0` implies `Spec => []InStep` | `Agreed`, for each statement not disturbed: what the batches will leave at the server is what the cache holds, and a batch parses its statement exactly if it will not be there |
| `RecoveryCorrect` | `CacheSize > 0` implies `Spec => []NamesRecover` | `Untangled`, for each statement not tangled: it has one call open at a time; what the batches will leave is cached, though not the converse; a batch parses only what will not be there; an error of names comes to a first attempt, and leaves nothing behind |

`StepCorrect` and `RecoveryCorrect` need a cache: with `preparedCacheSize: 0` each
call parses again what the server still has (section 6).

### Transaction (`TransactionProofs`)

For any number of transactions and connections; all but the first for bodies
that await their calls (`Habits = {}`), without which they are false:

| Theorem | States | Argument |
|---|---|---|
| `TypeCorrect` | `Spec => []TypeOK` | for all `Habits`: the state of a connection says what it has in flight (`Shape`), and who awaits a command stands where it was sent (`Attended`) |
| `LeaseCorrect` | `Spec => []LeaseExact` | `Where`: each connection is idle once, leased once, or gone; a verb can give a lease back only once because it has no rival (`OneCommand`) |
| `ReturnCorrect` | `Spec => []ReturnedClean` | `Open`: a connection that is dead or idle has nothing open |
| `OwnCorrect` | `Spec => []OwnTransaction` | `Open`: what is open at the server is the transaction that leases the connection |
| `EndCorrect` | `Spec => []EndedIsOver` | `Open`: who has settled has a fate, or its lost connection's session still holds the transaction (`Sealed`) |

The three conjuncts of `LeaseInv` need each other: that a command in flight is
the lessee's (`OneCommand`) makes its answer end the right lease, and that a
refused verb finds a dead connection, not a busy one, makes its early release
harmless.

### Streams (`StreamsProofs`)

For any cursors, readers and writers, any number of rows, batch sizes and uses:

| Theorem | States | Argument |
|---|---|---|
| `TypeCorrect` | `Spec => []TypeOK` | with what the server can say at all (`TypeInv`): a message of the server to nobody is its parting error |
| `ReturnCorrect` | `Spec => []ReturnedClean` | a use that has the connection does not leave it in the pool (`Control`), so that the pool finds it as `Calm` says |
| `ExactCorrect` | `Spec => []StreamExact` | `Account` for what was moved and stored, `Live` and `Addressed` for who is handed a message |

None of the three is inductive: what a use may find at the head of its reader
depends on all that is behind it, on the server and on the frames it has still
to take. `IInv` has five parts. `Control` says who has the connection and in
which state it is; at most one use is going at a time, and one that let go
early is a writer in its last phase. `Account` relates, for each use, the rows
in the batch, those moved and those stored to the phase and the outcome.
`Live` is about a connection that has not failed. If a use is going, `Flow`
holds of it: the messages under way (`Inflow`, the reader and the socket
together, since where the one ends does not matter) are all for it and each
may follow the one before it (`Linked`, `Follows`), the first is one it expects
in its phase (`Expects`), and the last one determines what the server does and
which frames it has still to take (`Ends`, or `Rest` when there is none).
`Feeding` counts the chunks of a COPY that are stored and those under way. If
no use is going, the connection is `Calm`: nothing is under way but frames that
a server outside a COPY drops, or it was let go in one of the ways `leak`
names, and then it is busy and nobody starts on it. `Addressed` covers the
failed connection, whose reader may still hold messages for its waiter. The
server's replies are one lemma (`FlowReplies`) applied to each of its actions;
a message taken is another (`Consumed`).

### Listen (`ListenProofs`)

For any subscriptions, channels, connections and repeated `unlisten()`:

| Theorem | States | Argument |
|---|---|---|
| `TypeCorrect` | `Spec => []TypeOK` | a `query()` in progress belongs to a call that awaits it (`CommandsKnown`) |
| `RegistrationsCorrect` | `Spec => []RegistrationsInStep` | only the manager's connection is up (`OneConn`), and while an UNLISTEN runs its channel has no Set registered on that connection (`Registered`) |
| `HandlersCorrect` | `Spec => []HandlersKept` | while a LISTEN runs, the Set it is for stays in the table unless it is in `orphans` (`Kept`) |

### Handshake (`HandshakeProofs`)

For any sets of TLS modes, methods, passwords and salts:

| Theorem | States | Argument |
|---|---|---|
| `TypeCorrect` | `Spec => []TypeOK` | the bound on what is under way follows from `Sync`; a digest names a password because one was given (`GivenKnown`) |
| `StepCorrect` | `Spec => []InStep` | `Sync`, with the connection's state in each phase (`StateKnown`) and `TlsAgreed` |
| `FailureCorrect` | `Spec => []TruthfulFailure` | `RefusalKnown`: a refusal lies in front of a client that waits for it on a live connection, or was reported |

`InStep` says what may be at the head of the reader, which depends on all that
follows. `Sync` therefore names, for each phase of `connect()`, the messages
sent and not taken (`Inflow`, the reader and the socket together), the frame
under way and the phase of the server that go together; a server that has gone
away since may have left an error behind them. It also carries, through the
exchange, that the salt is the server's, that the SCRAM signature was compared,
and that BackendKeyData came before ReadyForQuery.

### Assumptions, and what is not proved

The only assumptions are those on the constants, evaluated by TLC on every run:
`PoolAssumption`, `OwnersAssumption` (the names "pooled" and "absent" of owners
are no callers), `ConnectionAssumption`, `PreparedAssumption`,
`TransactionAssumption`, `StreamsAssumption` and `ListenAssumption`; and the
hypotheses named above. Handshake needs none.

`ClosedPoolIsEmpty`, `ReaperArmed` and `Exclusive` are not checked by a run of
their own: the theorems include them, as parts of the argument.

Only model-checked: liveness (out of TLAPS's reach), and the two invariants of
Wire. A frame there is what a fold over its fields writes, a stream of frames is
a flattened sequence, and a buffer grows to the first sufficient power of two:
each is defined by recursion over data, what it computes for every input needs
an induction that none of the provers can carry out, and powers have no
meaning to them. What does not depend on it (positions moving over
cells) is too little to state as a theorem of its own.

## 6. Disagreements found

With a run:

* After 0A000 the retry parses a name the server still holds and fails with
  42P05 (`prepared_retry`).
* `commit()` returns a connection that refused the COMMIT to the pool with its
  transaction open (`transaction_release`).
* A consumer that breaks out of a `copy.out` reader returns the connection in
  the middle of the COPY (`streams_break`).

Steps of the models that a doc or a comment contradicts, without a run:

* Pool: a queued `acquire()` is not woken when a slot is freed by `destroy()` or
  by a failed connect (`docs/design/0004-client-layer.md:339`); `close()` does not
  wait for leases (`pool.ts:145`).
* Connection: a call in flight when `end()` is called never settles if the server
  closes without answering (`docs/design/0002-connection-layer.md:357`);
  aborting a pipelined call that was not sent cancels another call (0002:319); a
  notification behind the last answer of a `query()`, in the same chunk, is not
  dispatched until more data comes (0004:508); a `query()` answered after
  `end()` sets the state to "ready" again (`connection.ts:201`).
* Prepared: `preparedCacheSize: 0` makes the second run of a statement fail with
  42P05; two calls of a rejected or deallocated statement that are under way at
  once may both retry, and the second Parse fails with 42P05.
* Transaction: a BEGIN that fails on a dead connection returns that connection to
  the pool (`transaction.ts:185`); `transaction()` resolves when its COMMIT was answered with
  ROLLBACK; two verbs called at once release the connection twice, and a
  savepoint stays usable after its transaction settled (`Habits` "verb" and
  "late").
* Streams: a COPY OUT whose consumer is slower than the server is torn down as
  soon as a chunk arrives between two `next()`; an error of the server between
  two writes of a COPY IN is a `ProtocolError` and not the `PgError`; a
  cursor parameter that cannot be encoded leaves the connection busy, and in the
  pool (`CursorBadParam`); a second `end()`, `fail()` or disposal of a writer
  releases its connection while the first is still draining (`SettleAgain`).
* Listen: a LISTEN that fails, or is refused because another one is running,
  leaves its channel in the table, so that later subscribers are never
  registered; after the loss of the connection nothing LISTENs again for the
  channels already in the table; an `unlisten()` may take a Set away under the
  subscriber whose LISTEN is running (`orphans`), although `listen.ts:48` says
  that it "removes just this handler"; `close()` during a connect leaves the new
  connection open.
* Handshake: a wrong SCRAM password is reported as a `ProtocolError`, since
  `handleSasl()` does not look for an ErrorResponse after the proof
  (0002:326-335: an ErrorResponse is a `PgError`, and a wrong password rejects with it);
  a password asked for in clear is sent on a plain socket
  (`docs/design/0001-protocol-layer.md:179`: "allowed only when TLS is active.
  Otherwise we error out"), which `PasswordResolves` does in phase "clear"; `connect()` has no timeout
  (0002:383 has `connectionTimeoutMs`), and resolves with a dead connection when
  the `onConnect` hook did not notice.

## 7. Not modelled

Value codecs, the COPY text codec, URL parsing, error classes, hooks, benchmarks
and examples: conversions and types without state of their own. SQL fragments
are planned as a pure algorithm. Of the wire, untyped frames (sent alone, during
connect), the error-field parser and base64. Of the client, option layering
(timeouts become an AbortSignal) and row shaping. In Streams, abort signals
appear as what they cause, an error of the running statement; `text()` of a
reader is left out. In Connection, row decoding and hooks. Timers and memory of
the JavaScript runtime are taken as specified: timers fire on time in Pool,
which is what its tick arithmetic relies on.

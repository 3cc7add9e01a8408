------------------------------ MODULE Streams ------------------------------
(***************************************************************************)
(* Streams over a pooled connection: db.cursor(), db.copy.out() and        *)
(* db.copy.in() (src/packages/pg-rocket/src/client.ts and copy.ts) on top  *)
(* of cursor(), copyOut() and copyIn() of the connection.                  *)
(*                                                                         *)
(* A use is one stream.  The uses take turns on the one slot of a pool, so *)
(* that what one leaves behind is what the next one finds.  A stretch of   *)
(* JavaScript between two awaits is one action; the write callback that    *)
(* flush() awaits comes before the answer to what it wrote and is part of  *)
(* the action.  Quiet guards the socket and the application: microtasks    *)
(* run first.  Notices are left to Connection.                             *)
(***************************************************************************)
EXTENDS Integers, Sequences, FiniteSets, SequencesExt

CONSTANTS
  Cursors,    \* uses that are db.cursor()
  Outs,       \* uses that are db.copy.out()
  Ins,        \* uses that are db.copy.in()
  None,       \* nobody
  Rows,       \* rows of a cursor's query, CopyData messages of a COPY
  BatchSize,  \* rows each cursor asks for at a time
  MaxUses     \* bound on the uses that are made

Uses == Cursors \cup Outs \cup Ins

ASSUME StreamsAssumption ==
  /\ None \notin Uses
  /\ Cursors \cap Outs = {} /\ Cursors \cap Ins = {} /\ Outs \cap Ins = {}
  /\ Rows \in Nat
  /\ BatchSize \in [Cursors -> Nat \ {0}]
  /\ MaxUses \in Nat

VARIABLES
  state,      \* the connection's state
  waiter,     \* the use that messageWaiter belongs to
  rbuf,       \* messages in the reader
  where,      \* the pool: "idle", "leased", or "none" (no connection)
  early,      \* copy.in writers that have released the connection already
  leak,       \* ghost: a call that lets go of the connection untidily
  pc,         \* where each use is
  batch,      \* rows of the fetch in progress
  moved,      \* what each use gave its consumer, or was given to write
  failed,     \* uses whose pendingError is set
  outcome,    \* how each use ended
  toServer, toClient,
  server,     \* the server: its mode, the use it serves, the rows it has sent
  stored,     \* what the COPY of each writer has brought to the server
  committed   \* writers whose COPY the server has completed

connVars == <<state, waiter, rbuf, where, early, leak>>
useVars == <<pc, batch, moved, failed, outcome>>
serverVars == <<server, stored, committed>>
vars == <<connVars, useVars, toServer, toClient, serverVars>>

\* "fetching" to "closing" are a cursor's, "reading" and "draining" a reader's,
\* "starting" to "failing" a writer's.  A use is "yielded" while its consumer
\* has a batch, "last" when that batch came with the end of the rows.
Phases == {"new", "fetching", "yielded", "last", "syncing", "closing",
           "reading", "draining", "starting", "open", "ending", "failing",
           "over"}

Outcomes == {"none", "done", "error", "left", "failed", "lost", "refused"}

Frames == [kind : {"open", "fetch", "sync", "close", "query", "chunk", "done",
                   "fail"}, use : Uses, row : 0 .. Rows]

Messages == [kind : {"data", "suspended", "complete", "error", "ready",
                     "copyIn", "copyOut"}, use : Uses \cup {None},
             row : 0 .. Rows]

\* The server between two statements.
Idle == [mode |-> "idle", use |-> None, pos |-> 0]

Frame(kind, u) == [kind |-> kind, use |-> u, row |-> 0]
Msg(kind, u) == [kind |-> kind, use |-> u, row |-> 0]
Row(u, i) == [kind |-> "data", use |-> u, row |-> i]

Broken == state \in {"errored", "closed"}

\* isUsable
Usable(s) == s \in {"ready", "busy"}

\* No continuation is queued.
Quiet == waiter = None \/ (rbuf = <<>> /\ ~Broken)

Send(frame) ==
  toServer' = IF server.mode = "down" THEN toServer ELSE Append(toServer, frame)

\* releaseOrDestroy(), of a connection in state s.
LetGo(s) == where' = IF Usable(s) THEN "idle" ELSE "none"

\* The use is over: it lets go of its connection, now in state s, unless it has
\* done so.
Finish(u, how, s) ==
  /\ pc' = [pc EXCEPT ![u] = "over"]
  /\ outcome' = [outcome EXCEPT ![u] = how]
  /\ IF u \in early THEN UNCHANGED where ELSE LetGo(s)

Move(u, phase) == pc' = [pc EXCEPT ![u] = phase]

\* Goes on to await a message, in the given phase.
Await(u, phase) == Move(u, phase) /\ waiter' = u

\* fatal(): what is under way is discarded; the waiter, if any, is rejected by
\* Reject.
Fatal ==
  /\ state' = "errored"
  /\ rbuf' = <<>> /\ toServer' = <<>> /\ toClient' = <<>>

-----------------------------------------------------------------------------
(* The application starts a stream: pool.acquire() and the call *)

Acquire(u) ==
  /\ Quiet
  /\ where = "idle"
  /\ pc[u] = "new"
  /\ Cardinality({v \in Uses : pc[v] # "new"}) < MaxUses

\* A pool without a connection opens one.
Connect ==
  /\ where = "none"
  /\ where' = "idle"
  /\ state' = "ready"
  /\ waiter' = None
  /\ rbuf' = <<>> /\ toServer' = <<>> /\ toClient' = <<>>
  /\ leak' = "none"
  /\ server' = Idle
  /\ UNCHANGED <<early, useVars, stored, committed>>

\* The connection is not ready, or the signal has fired already: the call
\* throws before it touches anything.
Refuse(u) ==
  /\ Acquire(u)
  /\ \E signalFired \in BOOLEAN : state # "ready" \/ signalFired
  /\ Finish(u, "refused", state)
  /\ UNCHANGED <<state, waiter, rbuf, early, leak, batch, moved, failed,
                 toServer, toClient, serverVars>>

MutStarted(u) ==
  /\ Acquire(u)
  /\ state \in {"ready", "busy"}
  /\ state' = "busy"

Started(u) ==
  /\ Acquire(u)
  /\ state = "ready"
  /\ state' = "busy"

\* Connection.cursor(): Parse, Bind, Describe, Execute and Flush.
OpenCursor(u) ==
  /\ u \in Cursors
  /\ Started(u)
  /\ where' = "leased"
  /\ Await(u, "fetching")
  /\ Send(Frame("open", u))
  /\ UNCHANGED <<rbuf, early, leak, batch, moved, failed, outcome, toClient,
                 serverVars>>

\* ... whose parameters cannot be encoded: the throw leaves it busy.
CursorBadParam(u) ==
  /\ u \in Cursors
  /\ Started(u)
  /\ Finish(u, "error", "busy")
  /\ leak' = "encode"
  /\ UNCHANGED <<waiter, rbuf, early, batch, moved, failed, toServer, toClient,
                 serverVars>>

\* CopyApi.out() and the first next() of its reader; CopyApi.in().
StartCopy(u) ==
  /\ u \in Outs \cup Ins
  /\ Started(u)
  /\ where' = "leased"
  /\ Await(u, IF u \in Outs THEN "reading" ELSE "starting")
  /\ Send(Frame("query", u))
  /\ UNCHANGED <<rbuf, early, leak, batch, moved, failed, outcome, toClient,
                 serverVars>>

\* The first write of a cursor or a writer fails on a finished socket whose
\* 'close' is still to come: the one leaves the state busy, the other ready.
WriteFails(u) ==
  /\ u \in Cursors \cup Ins
  /\ Acquire(u)
  /\ state = "ready"
  /\ server.mode = "down" /\ toClient = <<>>
  /\ state' = IF u \in Ins THEN "ready" ELSE "busy"
  /\ Finish(u, "lost", state')
  /\ UNCHANGED <<waiter, rbuf, early, leak, batch, moved, failed, toServer,
                 toClient, serverVars>>

-----------------------------------------------------------------------------
(* The continuations: one message handed to the waiter *)

\* The message at the head of the reader is delivered to u in one of the phases.
Deliver(u, phases, kinds) ==
  /\ waiter = u
  /\ ~Broken
  /\ pc[u] \in phases
  /\ rbuf # <<>>
  /\ Head(rbuf).kind \in kinds
  /\ rbuf' = Tail(rbuf)

\* A message that the loop only takes note of.
Skip(u) ==
  /\ \/ Deliver(u, {"syncing", "closing", "draining"},
                {"data", "suspended", "complete", "error"})
     \/ Deliver(u, {"reading"}, {"copyOut", "complete"})
     \/ Deliver(u, {"starting", "ending", "failing"}, {"complete"})
     \/ Deliver(u, {"failing"}, {"error"})
  /\ UNCHANGED <<state, waiter, where, early, leak, useVars, toServer, toClient,
                 serverVars>>

\* pendingError of a COPY: thrown once the server is ready.
NoteError(u) ==
  /\ Deliver(u, {"reading", "starting", "ending"}, {"error"})
  /\ failed' = failed \cup {u}
  /\ UNCHANGED <<state, waiter, where, early, leak, pc, batch, moved, outcome,
                 toServer, toClient, serverVars>>

CursorRow(u) ==
  /\ Deliver(u, {"fetching"}, {"data"})
  /\ batch' = Append(batch, Head(rbuf).row)
  /\ UNCHANGED <<state, waiter, where, early, leak, pc, moved, failed, outcome,
                 toServer, toClient, serverVars>>

\* PortalSuspended: the batch is full, so it is not empty.
CursorYields(u) ==
  /\ Deliver(u, {"fetching"}, {"suspended"})
  /\ Move(u, "yielded")
  /\ waiter' = None
  /\ moved' = [moved EXCEPT ![u] = @ \o batch]
  /\ batch' = <<>>
  /\ UNCHANGED <<state, where, early, leak, failed, outcome, toServer, toClient,
                 serverVars>>

\* CommandComplete or ErrorResponse: syncCursorToReady(), the batch kept only
\* if the rows ended.
MutCursorSyncs(u) ==
  /\ Deliver(u, {"fetching"}, {"complete", "error"})
  /\ Move(u, "syncing")
  /\ Send(Frame("sync", u))
  /\ UNCHANGED <<state, waiter, where, early, leak, batch, moved, failed,
                 outcome, toClient, serverVars>>

MutSyncless(u) ==
  /\ Deliver(u, {"fetching"}, {"complete", "error"})
  /\ Move(u, "syncing")
  /\ failed' = IF Head(rbuf).kind = "error" THEN failed \cup {u} ELSE failed
  /\ batch' = IF Head(rbuf).kind = "error" THEN <<>> ELSE batch
  /\ UNCHANGED <<state, waiter, where, early, leak, moved, outcome, toServer,
                 toClient, serverVars>>

CursorSyncs(u) ==
  /\ Deliver(u, {"fetching"}, {"complete", "error"})
  /\ Move(u, "syncing")
  /\ Send(Frame("sync", u))
  /\ IF Head(rbuf).kind = "error"
     THEN failed' = failed \cup {u} /\ batch' = <<>>
     ELSE UNCHANGED <<failed, batch>>
  /\ UNCHANGED <<state, waiter, where, early, leak, moved, outcome, toClient,
                 serverVars>>

\* Ready after the end of the rows or an error.
CursorSynced(u) ==
  /\ Deliver(u, {"syncing"}, {"ready"})
  /\ state' = "ready"
  /\ waiter' = None
  /\ IF u \in failed \/ batch = <<>>
     THEN /\ Finish(u, IF u \in failed THEN "error" ELSE "done", "ready")
          /\ UNCHANGED <<moved, batch>>
     ELSE /\ Move(u, "last")
          /\ moved' = [moved EXCEPT ![u] = @ \o batch]
          /\ batch' = <<>>
          /\ UNCHANGED <<outcome, where>>
  /\ UNCHANGED <<early, leak, failed, toServer, toClient, serverVars>>

\* A statement that is no query: the cursor does not know its answer.
CursorUnexpected(u) ==
  /\ Deliver(u, {"fetching"}, {"copyOut"})
  /\ state' = "errored"
  /\ toServer' = <<>> /\ toClient' = <<>>
  /\ UNCHANGED <<waiter, where, early, leak, useVars, serverVars>>

\* CopyData: the payload is yielded, and nobody waits.
ReaderYields(u) ==
  /\ Deliver(u, {"reading"}, {"data"})
  /\ Move(u, "yielded")
  /\ waiter' = None
  /\ moved' = [moved EXCEPT ![u] = Append(@, Head(rbuf).row)]
  /\ UNCHANGED <<state, where, early, leak, batch, failed, outcome, toServer,
                 toClient, serverVars>>

\* CopyInResponse: the writer is handed to the application.
WriterOpens(u) ==
  /\ Deliver(u, {"starting"}, {"copyIn"})
  /\ Move(u, "open")
  /\ waiter' = None
  /\ UNCHANGED <<state, where, early, leak, batch, moved, failed, outcome,
                 toServer, toClient, serverVars>>

\* How a use ends at the ReadyForQuery it waited for in this phase.  A writer
\* that never came to open was no COPY FROM STDIN.
HowItEnded(u) ==
  CASE pc[u] \in {"closing", "draining"} -> "left"
    [] pc[u] = "failing" -> "failed"
    [] pc[u] = "starting" \/ u \in failed -> "error"
    [] OTHER -> "done"

\* ReadyForQuery ends every stream but a cursor's regular one.
MutSettle(u) ==
  /\ Deliver(u, {"closing", "draining", "reading", "starting", "ending",
                 "failing"}, {"ready", "complete"})
  /\ state' = "ready"
  /\ waiter' = None
  /\ Finish(u, HowItEnded(u), "ready")
  /\ leak' = IF u \in early THEN "none" ELSE leak
  /\ UNCHANGED <<early, batch, moved, failed, toServer, toClient, serverVars>>

Settle(u) ==
  /\ Deliver(u, {"closing", "draining", "reading", "starting", "ending",
                 "failing"}, {"ready"})
  /\ state' = "ready"
  /\ waiter' = None
  /\ Finish(u, HowItEnded(u), "ready")
  /\ leak' = IF u \in early THEN "none" ELSE leak
  /\ UNCHANGED <<early, batch, moved, failed, toServer, toClient, serverVars>>

\* failPending() rejects the waiter; its finally writes to a dead socket, and
\* the connection is dropped.
Reject(u) ==
  /\ waiter = u
  /\ Broken
  /\ waiter' = None
  /\ batch' = <<>>
  /\ Finish(u, "lost", state)
  /\ UNCHANGED <<state, rbuf, early, leak, moved, failed, toServer, toClient,
                 serverVars>>

-----------------------------------------------------------------------------
(* The consumer of a stream *)

Consumer(u, phases) == Quiet /\ pc[u] \in phases

\* next(), while the connection lives.
NextCall(u) ==
  /\ Consumer(u, {"yielded"})
  /\ ~Broken
  /\ Await(u, IF u \in Cursors THEN "fetching" ELSE "reading")
  /\ IF u \in Cursors THEN Send(Frame("fetch", u)) ELSE UNCHANGED toServer
  /\ UNCHANGED <<state, rbuf, where, early, leak, batch, moved, failed, outcome,
                 toClient, serverVars>>

\* A cursor that has synchronised is over, whatever the consumer does next.
LastNext(u) ==
  /\ Consumer(u, {"last"})
  /\ \E how \in {"done", "left"} : Finish(u, how, state)
  /\ UNCHANGED <<state, waiter, rbuf, early, leak, batch, moved, failed,
                 toServer, toClient, serverVars>>

\* The consumer of a cursor breaks off: Close and Sync.  The dispose of a
\* reader nobody iterates any more: CopyFail.  Both drain to ReadyForQuery.
Return(u) ==
  /\ Consumer(u, {"yielded"})
  /\ ~Broken
  /\ IF u \in Cursors
     THEN Await(u, "closing") /\ Send(Frame("close", u))
     ELSE Await(u, "draining") /\ Send(Frame("fail", u))
  /\ UNCHANGED <<state, rbuf, where, early, leak, batch, moved, failed, outcome,
                 toClient, serverVars>>

\* iterate() when the consumer of a reader breaks off: the connection goes
\* back, and the generator below stays where it was.
BreakReader(u) ==
  /\ Consumer(u, {"yielded"})
  /\ u \in Outs
  /\ Finish(u, "left", state)
  /\ leak' = "break"
  /\ UNCHANGED <<state, waiter, rbuf, early, batch, moved, failed, toServer,
                 toClient, serverVars>>

\* writeBytes(): nobody waits for an answer.
WriteChunk(u) ==
  /\ Consumer(u, {"open"})
  /\ ~Broken
  /\ Len(moved[u]) < Rows
  /\ LET i == Len(moved[u]) + 1
     IN  /\ moved' = [moved EXCEPT ![u] = Append(@, i)]
         /\ Send([Frame("chunk", u) EXCEPT !.row = i])
  /\ UNCHANGED <<connVars, pc, batch, failed, outcome, toClient, serverVars>>

\* end(), or fail() and the disposal of an open writer.
EndOrFail(u) ==
  /\ Consumer(u, {"open"})
  /\ ~Broken
  /\ \/ Await(u, "ending") /\ Send(Frame("done", u))
     \/ Await(u, "failing") /\ Send(Frame("fail", u))
  /\ UNCHANGED <<state, rbuf, where, early, leak, batch, moved, failed, outcome,
                 toClient, serverVars>>

\* end(), fail() or the disposal of a writer that is settling already: nothing
\* but releaseOnce() happens.
MutSettleAgain(u) ==
  /\ Consumer(u, {"ending", "failing", "draining"})
  /\ u \notin early
  /\ early' = early \cup {u}
  /\ leak' = "again"
  /\ LetGo(state)
  /\ UNCHANGED <<state, waiter, rbuf, useVars, toServer, toClient, serverVars>>

SettleAgain(u) ==
  /\ Consumer(u, {"ending", "failing"})
  /\ u \notin early
  /\ early' = early \cup {u}
  /\ leak' = "again"
  /\ LetGo(state)
  /\ UNCHANGED <<state, waiter, rbuf, useVars, toServer, toClient, serverVars>>

\* Any call on a stream whose connection is gone fails and lets go of it.
Bereft(u) ==
  /\ Consumer(u, {"yielded", "open"})
  /\ Broken
  /\ Finish(u, "lost", state)
  /\ UNCHANGED <<state, waiter, rbuf, early, leak, batch, moved, failed,
                 toServer, toClient, serverVars>>

-----------------------------------------------------------------------------
(* The socket *)

\* drain(): a chunk that nobody waits for is a protocol violation.
Receive ==
  /\ Quiet
  /\ ~Broken
  /\ \E n \in 1 .. Len(toClient) :
       IF waiter = None
       THEN Fatal
       ELSE /\ rbuf' = rbuf \o SubSeq(toClient, 1, n)
            /\ toClient' = SubSeq(toClient, n + 1, Len(toClient))
            /\ UNCHANGED <<state, toServer>>
  /\ UNCHANGED <<waiter, where, early, leak, useVars, serverVars>>

\* 'close', after everything the server sent has been read.
Close ==
  /\ Quiet
  /\ ~Broken
  /\ server.mode = "down" /\ toClient = <<>>
  /\ state' = "closed"
  /\ UNCHANGED <<waiter, rbuf, where, early, leak, useVars, toServer, toClient,
                 serverVars>>

-----------------------------------------------------------------------------
(* The server, external: what the streams rely on *)

Incoming(kinds) == toServer # <<>> /\ Head(toServer).kind \in kinds

Reply(messages) == toClient' = toClient \o messages

\* Execute with a row limit: PortalSuspended when the limit is reached, be it
\* at the very last row.
Fetched(u, from) ==
  LET full == Rows - from >= BatchSize[u]
      n == IF full THEN BatchSize[u] ELSE Rows - from
  IN  [j \in 1 .. n |-> Row(u, from + j)] \o
      <<Msg(IF full THEN "suspended" ELSE "complete", u)>>

ServerFetches ==
  /\ Incoming({"open", "fetch"}) /\ server.mode \in {"idle", "portal"}
  /\ LET u == Head(toServer).use
         rows == Fetched(u, server.pos)
     IN  \/ /\ Reply(rows)
            /\ server' = [mode |-> "portal", use |-> u,
                          pos |-> server.pos + Len(rows) - 1]
         \/ \E n \in 0 .. Len(rows) - 1 :
              /\ Reply(SubSeq(rows, 1, n) \o <<Msg("error", u)>>)
              /\ server' = [server EXCEPT !.mode = "skip"]
         \/ /\ Head(toServer).kind = "open"
            /\ Reply(<<Msg("copyOut", u)>>)
            /\ server' = [server EXCEPT !.mode = "skip"]
  /\ toServer' = Tail(toServer)
  /\ UNCHANGED <<connVars, useVars, stored, committed>>

ServerSyncs ==
  /\ Incoming({"sync", "close"})
  /\ Reply(<<Msg("ready", Head(toServer).use)>>)
  /\ server' = Idle
  /\ toServer' = Tail(toServer)
  /\ UNCHANGED <<connVars, useVars, stored, committed>>

\* The COPY statement: accepted, refused, or no COPY FROM STDIN after all.
ServerCopies ==
  /\ Incoming({"query"}) /\ server.mode = "idle"
  /\ LET u == Head(toServer).use
         mode == IF u \in Outs THEN "copyOut" ELSE "copyIn"
     IN  \/ Reply(<<Msg(mode, u)>>)
              /\ server' = [mode |-> mode, use |-> u, pos |-> 0]
         \/ \E kind \in {"error"} \cup (IF u \in Ins THEN {"complete"} ELSE {}) :
              Reply(<<Msg(kind, u), Msg("ready", u)>>) /\ UNCHANGED server
  /\ toServer' = Tail(toServer)
  /\ UNCHANGED <<connVars, useVars, stored, committed>>

\* COPY TO STDOUT sends on without waiting for anybody, to its end.
ServerStreams ==
  /\ server.mode = "copyOut"
  /\ IF server.pos < Rows
     THEN /\ Reply(<<Row(server.use, server.pos + 1)>>)
          /\ server' = [server EXCEPT !.pos = @ + 1]
     ELSE /\ Reply(<<Msg("complete", server.use), Msg("ready", server.use)>>)
          /\ server' = Idle
  /\ UNCHANGED <<connVars, useVars, toServer, stored, committed>>

\* A COPY in progress fails: bad data, a full disk, a cancel request.
ServerFails ==
  /\ server.mode \in {"copyIn", "copyOut"}
  /\ Reply(<<Msg("error", server.use), Msg("ready", server.use)>>)
  /\ server' = Idle
  /\ UNCHANGED <<connVars, useVars, toServer, stored, committed>>

\* COPY frames; outside a COPY they are dropped.
ServerTakes ==
  /\ Incoming({"chunk", "done", "fail"}) /\ server.mode \in {"copyIn", "idle"}
  /\ toServer' = Tail(toServer)
  /\ LET frame == Head(toServer)
         u == server.use
     IN  IF server.mode = "idle"
         THEN UNCHANGED <<toClient, serverVars>>
         ELSE IF frame.kind = "chunk"
         THEN /\ stored' = [stored EXCEPT ![u] = Append(@, frame)]
              /\ UNCHANGED <<toClient, server, committed>>
         ELSE /\ server' = Idle
              /\ committed' = IF frame.kind = "done" THEN committed \cup {u}
                                                     ELSE committed
              /\ Reply(<<Msg(IF frame.kind = "done" THEN "complete" ELSE "error",
                             u), Msg("ready", u)>>)
              /\ UNCHANGED stored
  /\ UNCHANGED <<connVars, useVars>>

\* The server goes away; some of what it sent has got out, with or without the
\* error that announces it.
ServerStops ==
  /\ server.mode # "down"
  /\ where # "none"
  /\ server' = [Idle EXCEPT !.mode = "down"]
  /\ toServer' = <<>>
  /\ \E n \in 0 .. Len(toClient), announced \in {<<>>, <<Msg("error", None)>>} :
       toClient' = SubSeq(toClient, 1, n) \o announced
  /\ UNCHANGED <<connVars, useVars, stored, committed>>

-----------------------------------------------------------------------------

Init ==
  /\ state = "ready"
  /\ waiter = None
  /\ rbuf = <<>>
  /\ where = "idle"
  /\ early = {}
  /\ leak = "none"
  /\ pc = [u \in Uses |-> "new"]
  /\ batch = <<>>
  /\ moved = [u \in Uses |-> <<>>]
  /\ failed = {}
  /\ outcome = [u \in Uses |-> "none"]
  /\ toServer = <<>>
  /\ toClient = <<>>
  /\ server = Idle
  /\ stored = [u \in Uses |-> <<>>]
  /\ committed = {}

Start(u) == \/ Refuse(u) \/ OpenCursor(u) \/ CursorBadParam(u)
            \/ StartCopy(u) \/ WriteFails(u)

Continue(u) == \/ Skip(u) \/ NoteError(u) \/ CursorRow(u) \/ CursorYields(u)
               \/ CursorSyncs(u) \/ CursorSynced(u) \/ CursorUnexpected(u)
               \/ ReaderYields(u) \/ WriterOpens(u) \/ Settle(u) \/ Reject(u)

Consume(u) == \/ NextCall(u) \/ LastNext(u) \/ Return(u) \/ BreakReader(u)
              \/ WriteChunk(u) \/ EndOrFail(u) \/ SettleAgain(u) \/ Bereft(u)

Socket == Receive \/ Close

Server == \/ ServerFetches \/ ServerSyncs \/ ServerCopies \/ ServerStreams
          \/ ServerFails \/ ServerTakes \/ ServerStops

Next == \/ Connect
        \/ \E u \in Uses : Start(u) \/ Continue(u) \/ Consume(u)
        \/ Socket
        \/ Server

Spec == Init /\ [][Next]_vars

\* Continuations run, what has arrived is read, a finished socket reports its
\* closure, and a server that is up answers.  Consumers owe nothing.
Fairness ==
  /\ \A u \in Uses : WF_vars(Continue(u))
  /\ WF_vars(Receive) /\ WF_vars(Close)
  /\ WF_vars(ServerFetches) /\ WF_vars(ServerSyncs) /\ WF_vars(ServerCopies)
  /\ WF_vars(ServerStreams) /\ WF_vars(ServerTakes)

FairSpec == Spec /\ Fairness

-----------------------------------------------------------------------------
(* Properties *)

\* Types of the variables.
TypeOK ==
  /\ state \in {"ready", "busy", "errored", "closed"}
  /\ waiter \in Uses \cup {None}
  /\ rbuf \in Seq(Messages)
  /\ where \in {"idle", "leased", "none"}
  /\ early \subseteq Ins
  /\ leak \in {"none", "break", "encode", "again"}
  /\ pc \in [Uses -> Phases]
  /\ batch \in Seq(1 .. Rows)
  /\ moved \in [Uses -> Seq(1 .. Rows)]
  /\ failed \subseteq Uses
  /\ outcome \in [Uses -> Outcomes]
  /\ toServer \in Seq(Frames)
  /\ toClient \in Seq(Messages)
  /\ server \in [mode : {"idle", "portal", "skip", "copyIn", "copyOut", "down"},
                 use : Uses \cup {None}, pos : 0 .. Rows]
  /\ stored \in [Uses -> Seq(Frames)]
  /\ committed \subseteq Ins

\* Nothing of a stream is left on the connection.  CopyData, CopyDone or
\* CopyFail of a COPY that the server ended may still be under way: a server
\* outside a COPY drops them.
Clean ==
  /\ state = "ready"
  /\ waiter = None
  /\ rbuf = <<>> /\ toClient = <<>>
  /\ server.mode = "idle"
  /\ \A i \in DOMAIN toServer : toServer[i].kind \in {"chunk", "done", "fail"}

\* A connection that lies in the pool is clean, unless it is broken, its server
\* has gone, or a stream let go of it in one of the three ways `leak` names: a
\* break out of a copy.out reader, a cursor whose parameters cannot be encoded,
\* and a second end(), fail() or dispose of a writer that is still settling.
\* Every other end of a stream, at whatever point its consumer gives up or its
\* statement fails, puts the connection back in step with the server first.
ReturnedClean ==
  where = "idle" => Broken \/ server.mode = "down" \/ leak # "none" \/ Clean

\* copy.ts:111 makes the claim without exception: what a stream has left
\* unusable is dropped and does not come back to the pool.
NothingPoisonsThePool ==
  where = "idle" /\ server.mode # "down" /\ ~Broken => Clean

InOrder(s) == \A i \in DOMAIN s : s[i] = i

RowsOf(frames) == [i \in DOMAIN frames |-> frames[i].row]

\* A consumer sees the rows in order, each once, and all of them when its
\* stream ends without an error or an early exit.  A COPY that end() reports
\* is on the server with exactly the chunks written; one that fail() or the
\* disposal aborted, or that end() rejected with the server's error, is not.
\* Whatever a stream left behind, nobody else is ever given it: a message goes
\* to the use it answers, and a COPY stores its own writer's chunks only.
StreamExact ==
  /\ waiter # None /\ rbuf # <<>> => Head(rbuf).use \in {waiter, None}
  /\ \A u \in Uses :
    /\ InOrder(moved[u])
    /\ \A i \in DOMAIN stored[u] : stored[u][i].use = u
    /\ outcome[u] = "done" =>
         IF u \in Ins THEN u \in committed /\ RowsOf(stored[u]) = moved[u]
                      ELSE Len(moved[u]) = Rows
    /\ outcome[u] \in {"failed", "error"} => u \notin committed

\* No stream waits for ever: a message or a failure reaches every waiter, so
\* that a cursor, reader or writer that is being closed lets go of its
\* connection.
EveryAwaitEnds == \A u \in Uses : (waiter = u) ~> (waiter # u)
=============================================================================

----------------------------- MODULE Connection -----------------------------
(***************************************************************************)
(* The command dispatcher of one PostgreSQL connection after its handshake *)
(* (src/packages/pg-rocket/src/connection/connection.ts): the pipelined    *)
(* extended-query path, the exclusive simple-query path, end(), transport  *)
(* failures, and the cancel requests an AbortSignal sends.                 *)
(*                                                                         *)
(* Granularity.  A stretch of JavaScript between two awaits is one action. *)
(* Microtasks run before the next socket event: NoMicrotask guards every   *)
(* action that stands for one, and calls of the application may come at    *)
(* any point.  A chunk of bytes is a number of whole messages (a partial   *)
(* message waits in the reader, as if it had not arrived).                 *)
(*                                                                         *)
(* The wire is two FIFO sequences.  The server answers a statement and its *)
(* Sync with <<data, ready>> or <<error, ready>>; "data" stands for        *)
(* everything else a reply may hold (acknowledgements, RowDescription,     *)
(* rows, CommandComplete).  The tag `call` of a message says which call it *)
(* answers: the client does not see it, the properties do.                 *)
(***************************************************************************)
EXTENDS Integers, Sequences, FiniteSets, SequencesExt

CONSTANTS
  ExtCalls,     \* calls of extQuery(), each made at most once
  SimpleCalls,  \* calls of query(), each made at most once
  None,         \* no call; the tag of messages that answer nobody
  Terminate,    \* the Terminate frame
  MaxNotices,   \* bound on the notices and notifications under way at a time
  MaxAborts,    \* bound on the AbortSignals that fire
  Faults        \* what may happen: "end", "copy", "fin", "shutdown", "reset"

Calls == ExtCalls \cup SimpleCalls

ASSUME ConnectionAssumption ==
  /\ ExtCalls \cap SimpleCalls = {}
  /\ None \notin Calls
  /\ Terminate \notin Calls \cup {None}
  /\ MaxNotices \in Nat
  /\ MaxAborts \in Nat

VARIABLES
  state,         \* the field state, from the end of the handshake on
  queue,         \* commandQueue
  holder,        \* the query() in progress, which owns the connection
  phase,         \* where the holder is: see Phases
  delivered,     \* the message the waiter was resolved with, or Nothing
  rbuf,          \* messages in the reader that drain() has not come to
  wbuf,          \* frames in the writer that flush() has not taken
  pendingFlush,  \* pendingFlush # null: the flush microtask is queued
  closeError,    \* what closeError says went wrong, or "none"
  transport,     \* the socket, as the client sees it
  callbacks,     \* the awaited write callbacks still to come, in order
  ended,         \* ghost: end() has been called
  status,        \* the promise of each call
  errs,          \* calls whose pendingError is set
  got,           \* ghost: the calls whose answers each call has consumed
  aborted,       \* calls whose AbortSignal fired while they were pending
  toServer,      \* frames under way to the server, or not yet executed
  toClient,      \* messages under way to the client
  peer,          \* the server process
  verdict,       \* ghost: how the server answered each call
  cancels        \* CancelRequests under way, with the call they are for

clientVars == <<state, queue, holder, phase, delivered, rbuf, wbuf,
                pendingFlush, closeError, transport, callbacks, ended>>
callVars == <<status, errs, got, aborted>>
serverVars == <<peer, verdict, cancels>>
vars == <<clientVars, callVars, toServer, toClient, serverVars>>

States == {"ready", "busy", "pipelining", "closing", "closed", "errored"}

\* "flushing": flush() awaits the write callback; "waiting": messageWaiter is
\* set; "resumed": the waiter is resolved, its continuation is a microtask.
Phases == {"none", "flushing", "waiting", "resumed"}

Statuses == {"new", "pending", "ok", "error", "lost", "refused"}

Messages == [kind : {"data", "error", "ready", "copy", "notice"},
             call : Calls \cup {None}]

Msg(kind, call) == [kind |-> kind, call |-> call]

\* No message has been handed to the holder.
Nothing == Msg("data", None)

\* Notices, parameter changes and notifications are handled inline when drain()
\* comes to them: neither the waiter nor the queue sees them.
MutRegular(m) == TRUE
Regular(m) == m.kind # "notice"

FirstRegular(buffer, i) ==
  Regular(buffer[i]) /\ \A j \in 1 .. i - 1 : ~Regular(buffer[j])

\* No continuation and no flush is queued: the event loop may take an event.
NoMicrotask == phase # "resumed" /\ ~pendingFlush

IsUsable == state \in {"ready", "busy"}

Settle(k, s) == status' = [status EXCEPT ![k] = s]

-----------------------------------------------------------------------------
(* The failure path: fatal() and failPending() *)

\* The calls failPending() rejects: the waiter's and every queued one.  A
\* holder that has just been resumed is the one that calls fatal() itself.
MutDoomedWaiter == IF phase \in {"waiting", "resumed"} THEN {holder} ELSE {}
MutDoomedQueue == Range(queue)

Doomed == Range(queue) \cup (IF phase \in {"waiting", "resumed"} THEN {holder}
                                                                 ELSE {})

MutFailPending ==
  /\ queue' = <<>>
  /\ status' = [k \in Calls |-> IF k \in Doomed THEN "lost" ELSE status[k]]
  /\ phase' = IF phase \in {"waiting", "resumed"} THEN "none" ELSE phase
  /\ UNCHANGED holder

FailPending ==
  /\ queue' = <<>>
  /\ status' = [k \in Calls |-> IF k \in Doomed THEN "lost" ELSE status[k]]
  /\ holder' = IF phase \in {"waiting", "resumed"} THEN None ELSE holder
  /\ phase' = IF phase \in {"waiting", "resumed"} THEN "none" ELSE phase

\* fatal(): only the first error counts.  transport.destroy() discards what is
\* under way in both directions.
Fatal(why) ==
  IF closeError = "none"
  THEN /\ closeError' = why
       /\ state' = "errored"
       /\ FailPending
       /\ transport' = "destroyed"
       /\ toServer' = <<>>
       /\ toClient' = <<>>
  ELSE UNCHANGED <<closeError, state, queue, status, holder, phase, transport,
                   toServer, toClient>>

\* A write to the socket: it is lost when the server is gone.
Send(frames) == toServer' = IF peer = "up" THEN toServer \o frames ELSE toServer

-----------------------------------------------------------------------------
(* Calls of the application *)

Accepts == {"ready", "pipelining"}

\* runExtQueryOnce(): the frames go into the shared writer, the command onto
\* the queue, and one flush is scheduled for all calls of this tick.
ExtQuery(k) ==
  /\ status[k] = "new"
  /\ state \in Accepts
  /\ wbuf' = Append(wbuf, k)
  /\ queue' = Append(queue, k)
  /\ state' = "pipelining"
  /\ pendingFlush' = TRUE
  /\ Settle(k, "pending")
  /\ UNCHANGED <<holder, phase, delivered, rbuf, closeError, transport,
                 callbacks, ended, errs, got, aborted, toServer, toClient,
                 serverVars>>

\* runQuery(): takes the connection for itself, writes at once and awaits the
\* write.  On a finished socket the write is an error.
Idle == state = "ready"

SimpleQuery(k) ==
  /\ status[k] = "new"
  /\ Idle
  /\ wbuf' = <<>>
  /\ IF transport = "open"
     THEN /\ state' = "busy"
          /\ Send(wbuf \o <<k>>)
          /\ holder' = k
          /\ phase' = "flushing"
          /\ callbacks' = Append(callbacks, "query")
          /\ Settle(k, "pending")
          /\ UNCHANGED <<queue, closeError, transport, toClient>>
     ELSE /\ closeError' = IF closeError = "none" THEN "transport" ELSE closeError
          /\ state' = "errored"
          /\ transport' = "destroyed"
          /\ Settle(k, "lost")
          /\ toServer' = <<>>
          /\ toClient' = <<>>
          /\ UNCHANGED <<queue, holder, phase, callbacks>>
  /\ UNCHANGED <<delivered, rbuf, pendingFlush, ended, errs, got, aborted,
                 serverVars>>

\* Either call, made when the connection cannot take it or with a signal that
\* has already fired, rejects at once and changes nothing.
Refuse(k) ==
  /\ status[k] = "new"
  /\ \E signalFired \in BOOLEAN :
     \/ signalFired
     \/ k \in ExtCalls /\ state \notin Accepts
     \/ k \in SimpleCalls /\ ~Idle
  /\ Settle(k, "refused")
  /\ UNCHANGED <<clientVars, errs, got, aborted, toServer, toClient, serverVars>>

\* The AbortSignal of a pending call fires: its listener sends a CancelRequest,
\* whether or not the statement has been sent.
Abort(k) ==
  /\ Cardinality(aborted) < MaxAborts
  /\ status[k] = "pending"
  /\ k \notin aborted
  /\ aborted' = aborted \cup {k}
  /\ cancels' = cancels \cup {k}
  /\ UNCHANGED <<clientVars, status, errs, got, toServer, toClient, peer,
                 verdict>>

\* end(), up to the await of its flush.  Called again it does nothing, unless a
\* late ReadyForQuery or a failure has changed the state in between.
End ==
  /\ "end" \in Faults
  /\ state \notin {"closed", "closing"}
  /\ state' = "closing"
  /\ callbacks' = Append(callbacks, "end")
  /\ ended' = TRUE
  /\ wbuf' = <<>>
  /\ IF transport = "open" THEN Send(wbuf \o <<Terminate>>)
                           ELSE UNCHANGED toServer
  /\ UNCHANGED <<queue, holder, phase, delivered, rbuf, pendingFlush,
                 closeError, transport, callVars, toClient, serverVars>>

\* ... and the rest of it, after the write callback (which follows the ones of
\* earlier writes): the socket is half-closed.
EndDone ==
  /\ callbacks # <<>>
  /\ Head(callbacks) = "end"
  /\ callbacks' = Tail(callbacks)
  /\ state' = "closed"
  /\ transport' = IF transport = "open" THEN "ended" ELSE transport
  /\ UNCHANGED <<queue, holder, phase, delivered, rbuf, wbuf, pendingFlush,
                 closeError, ended, callVars, toServer, toClient, serverVars>>

-----------------------------------------------------------------------------
(* Microtasks: the coalesced flush and the continuation of query() *)

\* The microtask of scheduleFlush(): one write for everything staged.
MutStaged == IF wbuf = <<>> THEN <<>> ELSE <<Head(wbuf)>>
Staged == wbuf

Flush ==
  /\ pendingFlush
  /\ pendingFlush' = FALSE
  /\ wbuf' = <<>>
  /\ IF wbuf = <<>> \/ transport = "open"
     THEN /\ Send(Staged)
          /\ UNCHANGED <<closeError, state, queue, status, holder, phase,
                         transport, toClient>>
     ELSE Fatal("transport")
  /\ UNCHANGED <<delivered, rbuf, callbacks, ended, errs, got, aborted,
                 serverVars>>

\* drain() with a waiter registered stops at the message that resolves it: what
\* lies behind that message stays in the reader.
DrainToWaiter(buffer) ==
  \/ /\ \A i \in DOMAIN buffer : ~Regular(buffer[i])
     /\ phase' = "waiting"
     /\ delivered' = Nothing
     /\ rbuf' = <<>>
  \/ \E i \in DOMAIN buffer :
       /\ FirstRegular(buffer, i)
       /\ phase' = "resumed"
       /\ delivered' = buffer[i]
       /\ rbuf' = SubSeq(buffer, i + 1, Len(buffer))

\* awaitMessage(): becomes the waiter and drains what is buffered.
AwaitMessage ==
  IF closeError # "none"
  THEN /\ Settle(holder, "lost")
       /\ holder' = None
       /\ phase' = "none"
       /\ delivered' = Nothing
       /\ UNCHANGED rbuf
  ELSE DrainToWaiter(rbuf) /\ UNCHANGED <<status, holder>>

\* The write callback of the holder's flush().
FlushDone ==
  /\ phase = "flushing"
  /\ callbacks # <<>>
  /\ Head(callbacks) = "query"
  /\ callbacks' = Tail(callbacks)
  /\ AwaitMessage
  /\ UNCHANGED <<state, queue, wbuf, pendingFlush, closeError, transport,
                 ended, errs, got, aborted, toServer, toClient, serverVars>>

Consumed(k, m) ==
  got' = [got EXCEPT ![k] = @ \cup ({m.call} \ {None})]

\* One round of the loop in consumeUntilReady().
Resume ==
  /\ phase = "resumed"
  /\ Consumed(holder, delivered)
  /\ \/ /\ delivered.kind \in {"data", "error"}
        /\ errs' = IF delivered.kind = "error" THEN errs \cup {holder} ELSE errs
        /\ AwaitMessage
        /\ UNCHANGED <<state, closeError, transport, queue, toServer, toClient>>
     \/ /\ delivered.kind = "ready"
        /\ state' = "ready"
        /\ Settle(holder, IF holder \in errs THEN "error" ELSE "ok")
        /\ holder' = None
        /\ phase' = "none"
        /\ delivered' = Nothing
        /\ UNCHANGED <<errs, rbuf, closeError, transport, queue, toServer,
                       toClient>>
     \/ /\ delivered.kind = "copy"
        /\ Fatal("protocol")
        /\ delivered' = Nothing
        /\ UNCHANGED <<errs, rbuf>>
  /\ UNCHANGED <<wbuf, pendingFlush, callbacks, ended, aborted, serverVars>>

-----------------------------------------------------------------------------
(* Socket events *)

\* ExtQueryCommand.step() of the queue head and the advance in drain().
MutDone(m) == m.kind \in {"ready", "error"}
Done(m) == m.kind = "ready"

\* The settled command was the last one in the queue.
MutLastCommand == TRUE
LastCommand == Len(queue) = 1

Step(k, m) ==
  /\ Consumed(k, m)
  /\ errs' = IF m.kind = "error" THEN errs \cup {k} ELSE errs
  /\ IF Done(m)
     THEN /\ Settle(k, IF k \in errs' THEN "error" ELSE "ok")
          /\ queue' = Tail(queue)
          /\ state' = IF LastCommand /\ state = "pipelining" THEN "ready"
                                                              ELSE state
     ELSE UNCHANGED <<status, queue, state>>

\* onTransportData() with a waiter registered.
DataToWaiter ==
  /\ phase = "waiting"
  /\ NoMicrotask
  /\ transport \in {"open", "ended"}
  /\ \E n \in 1 .. Len(toClient) :
       /\ toClient' = SubSeq(toClient, n + 1, Len(toClient))
       /\ DrainToWaiter(rbuf \o SubSeq(toClient, 1, n))
  /\ UNCHANGED <<state, queue, holder, wbuf, pendingFlush, closeError,
                 transport, callbacks, ended, callVars, toServer, serverVars>>

\* ... and with none: the queue takes message after message.  One at a time is
\* enough here, a longer chunk is the same as several with nothing in between.
\* The write callback of a statement comes before the answer to it: Node
\* reports a completed write before it reads what the server sent in return.
\* What answers nobody may arrive before the callback, and finds no waiter.
\* What the last query() left in the reader comes first: notices, if anything.
DataToQueue ==
  /\ phase \in {"none", "flushing"}
  /\ NoMicrotask
  /\ transport \in {"open", "ended"}
  /\ toClient # <<>>
  /\ phase = "flushing" => Head(toClient).call = None
  /\ LET m == Head(toClient)
     IN  IF ~Regular(m)
         THEN /\ toClient' = Tail(toClient)
              /\ UNCHANGED <<closeError, state, queue, status, holder, phase,
                             transport, toServer, errs, got>>
         ELSE IF queue # <<>> /\ m.kind # "copy"
         THEN /\ toClient' = Tail(toClient)
              /\ Step(Head(queue), m)
              /\ UNCHANGED <<closeError, holder, phase, transport, toServer>>
         ELSE /\ Fatal("protocol")
              /\ UNCHANGED <<errs, got>>
  /\ rbuf' = <<>>
  /\ UNCHANGED <<delivered, wbuf, pendingFlush, callbacks, ended, aborted,
                 serverVars>>

\* The 'close' event, once everything the server sent has been read.  After
\* end() it is ignored.
TransportClose ==
  /\ NoMicrotask
  /\ \/ transport = "destroyed"
     \/ transport \in {"open", "ended"} /\ peer \in {"crashed", "terminated"}
                                        /\ toClient = <<>>
  /\ transport' = "closed"
  /\ IF state = "closed"
     THEN UNCHANGED <<closeError, state, queue, status, holder, phase>>
     ELSE /\ closeError' = IF closeError = "none" THEN "peer" ELSE closeError
          /\ state' = "closed"
          /\ FailPending
  /\ UNCHANGED <<delivered, rbuf, wbuf, pendingFlush, callbacks, ended, errs,
                 got, aborted, toServer, toClient, serverVars>>

\* The 'error' event: the connection is reset.
TransportError ==
  /\ "reset" \in Faults
  /\ NoMicrotask
  /\ transport \in {"open", "ended"}
  /\ Fatal("transport")
  /\ peer' = "crashed"
  /\ UNCHANGED <<delivered, rbuf, wbuf, pendingFlush, callbacks, ended, errs,
                 got, aborted, verdict, cancels>>

-----------------------------------------------------------------------------
(* The server, external: what connection.ts relies on *)

\* What the server does matters while the socket connects it to the client.
Serving == peer = "up" /\ transport \in {"open", "ended"}

Answer(k, how) ==
  /\ verdict' = [verdict EXCEPT ![k] = how]
  /\ toServer' = Tail(toServer)
  /\ toClient' = toClient \o <<Msg(IF how = "ok" THEN "data" ELSE "error", k),
                               Msg("ready", k)>>

\* A statement runs up to its Sync, with or without an error.
ServerRuns ==
  /\ Serving
  /\ toServer # <<>>
  /\ Head(toServer) # Terminate
  /\ \E how \in {"ok", "error"} : Answer(Head(toServer), how)
  /\ UNCHANGED <<clientVars, callVars, peer, cancels>>

\* The statement is a COPY: the server enters a mode that neither query() nor
\* extQuery() knows.
ServerEntersCopy ==
  /\ "copy" \in Faults
  /\ Serving
  /\ toServer # <<>>
  /\ Head(toServer) # Terminate
  /\ peer' = "copying"
  /\ toServer' = Tail(toServer)
  /\ toClient' = Append(toClient, Msg("copy", Head(toServer)))
  /\ UNCHANGED <<clientVars, callVars, verdict, cancels>>

\* A CancelRequest names the server process, not a statement: it stops
\* whatever runs when it arrives, or nothing.
ServerCancels ==
  /\ \E k \in cancels : cancels' = cancels \ {k}
  /\ IF Serving /\ toServer # <<>> /\ Head(toServer) # Terminate
     THEN Answer(Head(toServer), "error")
     ELSE UNCHANGED <<verdict, toServer, toClient>>
  /\ UNCHANGED <<clientVars, callVars, peer>>

ServerNotifies ==
  /\ Serving
  /\ Len(SelectSeq(rbuf \o toClient, LAMBDA m : m.kind = "notice")) < MaxNotices
  /\ toClient' = Append(toClient, Msg("notice", None))
  /\ UNCHANGED <<clientVars, callVars, toServer, peer, verdict, cancels>>

\* Everything before Terminate has been answered: the server closes the socket.
ServerTerminates ==
  /\ Serving
  /\ toServer # <<>>
  /\ Head(toServer) = Terminate
  /\ peer' = "terminated"
  /\ toServer' = <<>>
  /\ UNCHANGED <<clientVars, callVars, toClient, verdict, cancels>>

\* The server goes away without a reset: some of its answers have got out,
\* with or without the error that announces a shutdown.
ServerStops ==
  /\ Serving
  /\ \E n \in 0 .. Len(toClient) :
       \/ "fin" \in Faults /\ toClient' = SubSeq(toClient, 1, n)
       \/ "shutdown" \in Faults
            /\ toClient' = SubSeq(toClient, 1, n) \o <<Msg("error", None)>>
  /\ peer' = "crashed"
  /\ toServer' = <<>>
  /\ UNCHANGED <<clientVars, callVars, verdict, cancels>>

-----------------------------------------------------------------------------

Init ==
  /\ state = "ready"
  /\ queue = <<>>
  /\ holder = None
  /\ phase = "none"
  /\ delivered = Nothing
  /\ rbuf = <<>>
  /\ wbuf = <<>>
  /\ pendingFlush = FALSE
  /\ closeError = "none"
  /\ transport = "open"
  /\ callbacks = <<>>
  /\ ended = FALSE
  /\ status = [k \in Calls |-> "new"]
  /\ errs = {}
  /\ got = [k \in Calls |-> {}]
  /\ aborted = {}
  /\ toServer = <<>>
  /\ toClient = <<>>
  /\ peer = "up"
  /\ verdict = [k \in Calls |-> "none"]
  /\ cancels = {}

Application ==
  \/ \E k \in ExtCalls : ExtQuery(k)
  \/ \E k \in SimpleCalls : SimpleQuery(k)
  \/ \E k \in Calls : Refuse(k) \/ Abort(k)
  \/ End

Client == EndDone \/ Flush \/ FlushDone \/ Resume
Socket == DataToWaiter \/ DataToQueue \/ TransportClose \/ TransportError
Server == \/ ServerRuns \/ ServerEntersCopy \/ ServerCancels
          \/ ServerNotifies \/ ServerTerminates \/ ServerStops

Next == Application \/ Client \/ Socket \/ Server

Spec == Init /\ [][Next]_vars

\* Microtasks run, writes complete, data that has arrived is read, a socket
\* that is finished reports its closure, and a server that is up answers.
Fairness ==
  /\ WF_vars(EndDone) /\ WF_vars(Flush) /\ WF_vars(FlushDone) /\ WF_vars(Resume)
  /\ WF_vars(DataToWaiter) /\ WF_vars(DataToQueue) /\ WF_vars(TransportClose)
  /\ WF_vars(ServerRuns) /\ WF_vars(ServerTerminates)

FairSpec == Spec /\ Fairness

-----------------------------------------------------------------------------
(* Properties *)

Pending == {k \in Calls : status[k] = "pending"}

\* Types of the variables.
TypeOK ==
  /\ state \in States
  /\ queue \in Seq(ExtCalls)
  /\ holder \in SimpleCalls \cup {None}
  /\ phase \in Phases
  /\ (holder = None) = (phase = "none")
  /\ delivered \in Messages
  /\ rbuf \in Seq(Messages)
  /\ wbuf \in Seq(ExtCalls)
  /\ pendingFlush \in BOOLEAN
  /\ closeError \in {"none", "protocol", "transport", "peer"}
  /\ transport \in {"open", "ended", "destroyed", "closed"}
  /\ callbacks \in Seq({"query", "end"})
  /\ ended \in BOOLEAN
  /\ status \in [Calls -> Statuses]
  /\ errs \in SUBSET Calls
  /\ got \in [Calls -> SUBSET Calls]
  /\ aborted \in SUBSET Calls
  /\ toServer \in Seq(Calls \cup {Terminate})
  /\ toClient \in Seq(Messages)
  /\ peer \in {"up", "copying", "crashed", "terminated"}
  /\ verdict \in [Calls -> {"none", "ok", "error"}]
  /\ cancels \in SUBSET Calls

\* Every promise still open belongs to a command the dispatcher will come to:
\* the queued ones, in the order of the queue, and the holder.
NoPromiseForgotten ==
  /\ Pending = Range(queue) \cup ({holder} \ {None})
  /\ IsInjective(queue)

\* The pipelining contract: a call consumes the answers to its own statement
\* only, and resolves or rejects as the server answered that statement,
\* whatever was pipelined around it.
AnswersMatch ==
  /\ \A k \in Calls : got[k] \subseteq {k}
  /\ \A k \in Calls : status[k] \in {"ok", "error"} => verdict[k] = status[k]

\* query() and the pipeline never share the connection: the single waiter is
\* served before the queue and would take its messages.
Exclusive == holder # None => queue = <<>> /\ ~pendingFlush

\* A connection that says it is ready owes nothing and is owed nothing: no
\* statement is staged, under way, being answered or waiting to be read.  (The
\* error that announces a shutdown, and notices, answer nobody.)
ReadyIsQuiescent ==
  state = "ready" =>
    /\ queue = <<>> /\ holder = None /\ wbuf = <<>>
    /\ \A i \in DOMAIN toServer : toServer[i] = Terminate
    /\ \A i \in DOMAIN toClient : toClient[i].call = None
    /\ \A i \in DOMAIN rbuf : rbuf[i].call = None

\* The client tears a connection down for a protocol violation only when the
\* server left the protocol of queries (a COPY, or a shutdown): never because
\* it misread a healthy exchange or a notification on an idle connection.
HealthyNeverTornDown ==
  closeError = "protocol" => peer \in {"copying", "crashed"}

\* Once the connection has failed nobody waits for it: only a query() whose
\* write callback is outstanding is still open, and it fails on its next step.
FailureReachesAll ==
  closeError # "none" => \A k \in Pending : k = holder /\ phase = "flushing"

\* Every call settles, whatever happens to the socket and the server, unless
\* end() was called and the server is gone: onTransportClose() then returns
\* before failPending(), and the call stays pending.
CallsSettle ==
  \A k \in Calls :
    status[k] = "pending" ~>
      (status[k] # "pending" \/ (ended /\ peer # "up"))
=============================================================================

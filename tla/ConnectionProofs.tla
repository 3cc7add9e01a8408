-------------------------- MODULE ConnectionProofs --------------------------
(***************************************************************************)
(* The dispatcher's invariants, proved for every number of calls, notices  *)
(* and aborts, and for every set of faults: first who owns the reader and  *)
(* who waits, then the pipelining contract.                                *)
(***************************************************************************)
EXTENDS Connection, SeqFacts

-----------------------------------------------------------------------------
(* Types *)

LEMMA CallFacts ==
  /\ ExtCalls \subseteq Calls
  /\ SimpleCalls \subseteq Calls
  /\ None \notin ExtCalls
  /\ None \notin SimpleCalls
  /\ \A k \in ExtCalls : k \notin SimpleCalls
BY ConnectionAssumption DEF Calls

LEMMA MessageFacts ==
  /\ Nothing \in Messages
  /\ \A k \in Calls \cup {None} : \A kind \in {"data", "error", "ready", "copy", "notice"} :
       Msg(kind, k) \in Messages
BY DEF Nothing, Msg, Messages

\* A write adds frames the server knows, or nothing.
LEMMA SendType ==
  ASSUME toServer \in Seq(Calls \cup {Terminate}),
         NEW frames \in Seq(Calls \cup {Terminate}), Send(frames)
  PROVE  toServer' \in Seq(Calls \cup {Terminate})
BY ConcatProperties DEF Send

\* Either drain() leaves a waiter, or it resolves it.
LEMMA DrainType ==
  ASSUME NEW buffer \in Seq(Messages), DrainToWaiter(buffer)
  PROVE  /\ phase' \in {"waiting", "resumed"}
         /\ delivered' \in Messages
         /\ rbuf' \in Seq(Messages)
<1>1. CASE \A i \in DOMAIN buffer : ~Regular(buffer[i])
  <2>1. \A i \in DOMAIN buffer : ~FirstRegular(buffer, i)
    BY <1>1 DEF FirstRegular
  <2> QED
    BY <2>1, MessageFacts, EmptySeq DEF DrainToWaiter
<1>2. CASE ~ \A i \in DOMAIN buffer : ~Regular(buffer[i])
  <2>1. PICK i \in DOMAIN buffer : /\ phase' = "resumed"
                                   /\ delivered' = buffer[i]
                                   /\ rbuf' = SubSeq(buffer, i + 1, Len(buffer))
    BY <1>2 DEF DrainToWaiter
  <2>2. i \in 0 .. Len(buffer) /\ i \in 1 .. Len(buffer)
    BY <2>1, LenProperties
  <2>3. rbuf' \in Seq(Messages)
    BY <2>1, <2>2, SuffixFacts
  <2>4. buffer[i] \in Messages
    BY <2>2, ElementOfSeq
  <2> QED
    BY <2>1, <2>3, <2>4
<1> QED
  BY <1>1, <1>2

LEMMA AwaitType ==
  ASSUME TypeOK, holder # None, AwaitMessage
  PROVE  /\ holder' \in SimpleCalls \cup {None}
         /\ phase' \in Phases
         /\ (holder' = None) = (phase' = "none")
         /\ delivered' \in Messages
         /\ rbuf' \in Seq(Messages)
         /\ status' \in [Calls -> Statuses]
<1>1. CASE closeError # "none"
  BY <1>1, MessageFacts, CallFacts DEF AwaitMessage, TypeOK, Phases, Settle, Statuses
<1>2. CASE closeError = "none"
  <2>1. /\ DrainToWaiter(rbuf)
        /\ UNCHANGED <<status, holder>>
    BY <1>2 DEF AwaitMessage
  <2>2. /\ phase' \in {"waiting", "resumed"}
        /\ delivered' \in Messages
        /\ rbuf' \in Seq(Messages)
    BY <2>1, DrainType DEF TypeOK
  <2> QED
    BY <2>1, <2>2 DEF TypeOK, Phases
<1> QED
  BY <1>1, <1>2

LEMMA FailPendingType ==
  ASSUME TypeOK, FailPending
  PROVE  /\ queue' \in Seq(ExtCalls)
         /\ holder' \in SimpleCalls \cup {None}
         /\ phase' \in Phases
         /\ (holder' = None) = (phase' = "none")
         /\ status' \in [Calls -> Statuses]
<1>1. status' \in [Calls -> Statuses]
  BY DEF FailPending, TypeOK, Statuses
<1>2. queue' \in Seq(ExtCalls)
  BY EmptySeq DEF FailPending
<1> QED
  BY <1>1, <1>2 DEF FailPending, TypeOK, Phases

LEMMA FatalType ==
  ASSUME TypeOK, NEW why \in {"protocol", "transport"}, Fatal(why)
  PROVE  /\ state' \in States
         /\ closeError' \in {"none", "protocol", "transport", "peer"}
         /\ transport' \in {"open", "ended", "destroyed", "closed"}
         /\ queue' \in Seq(ExtCalls)
         /\ holder' \in SimpleCalls \cup {None}
         /\ phase' \in Phases
         /\ (holder' = None) = (phase' = "none")
         /\ status' \in [Calls -> Statuses]
         /\ toServer' \in Seq(Calls \cup {Terminate})
         /\ toClient' \in Seq(Messages)
<1>1. CASE closeError = "none"
  <2>1. FailPending
    BY <1>1 DEF Fatal
  <2>2. toServer' \in Seq(Calls \cup {Terminate}) /\ toClient' \in Seq(Messages)
    BY <1>1, EmptySeq DEF Fatal
  <2> QED
    BY <1>1, <2>1, <2>2, FailPendingType DEF Fatal, States
<1>2. CASE closeError # "none"
  BY <1>2 DEF Fatal, TypeOK
<1> QED
  BY <1>1, <1>2

LEMMA AnswerType ==
  ASSUME TypeOK, toServer # <<>>, Head(toServer) \in Calls,
         NEW how \in {"ok", "error"}, Answer(Head(toServer), how)
  PROVE  /\ verdict' \in [Calls -> {"none", "ok", "error"}]
         /\ toServer' \in Seq(Calls \cup {Terminate})
         /\ toClient' \in Seq(Messages)
<1>1. verdict' \in [Calls -> {"none", "ok", "error"}]
  BY DEF Answer, TypeOK
<1>2. toServer' \in Seq(Calls \cup {Terminate})
  BY HeadTailProperties DEF Answer, TypeOK
<1>3. PICK m1 \in Messages, m2 \in Messages : toClient' = toClient \o <<m1, m2>>
  BY MessageFacts DEF Answer
<1>4. <<m1, m2>> \in Seq(Messages)
  OBVIOUS
<1>5. toClient' \in Seq(Messages)
  BY <1>3, <1>4, ConcatProperties DEF TypeOK
<1> QED
  BY <1>1, <1>2, <1>5

\* A frame that is not Terminate is a statement.
LEMMA FrameType ==
  ASSUME TypeOK, toServer # <<>>
  PROVE  /\ Head(toServer) # Terminate => Head(toServer) \in Calls
         /\ Tail(toServer) \in Seq(Calls \cup {Terminate})
BY HeadTailProperties DEF TypeOK

LEMMA TypeInit == Init => TypeOK
<1> SUFFICES ASSUME Init PROVE TypeOK
  OBVIOUS
<1>1. /\ queue \in Seq(ExtCalls) /\ rbuf \in Seq(Messages) /\ wbuf \in Seq(ExtCalls)
      /\ toServer \in Seq(Calls \cup {Terminate}) /\ toClient \in Seq(Messages)
      /\ callbacks \in Seq({"query", "end"})
  BY EmptySeq DEF Init
<1>2. /\ status \in [Calls -> Statuses] /\ got \in [Calls -> SUBSET Calls]
      /\ verdict \in [Calls -> {"none", "ok", "error"}]
  BY DEF Init, Statuses
<1>3. /\ state \in States /\ phase \in Phases
      /\ (holder = None) = (phase = "none") /\ delivered \in Messages
  BY MessageFacts DEF Init, States, Phases
<1>4. pendingFlush \in BOOLEAN /\ ended \in BOOLEAN
  BY Zenon DEF Init
<1> QED
  BY <1>1, <1>2, <1>3, <1>4 DEF Init, TypeOK

LEMMA TypeNext == TypeOK /\ [Next]_vars => TypeOK'
<1> SUFFICES ASSUME TypeOK, [Next]_vars PROVE TypeOK'
  OBVIOUS
<1> USE CallFacts DEF TypeOK
<1>1. ASSUME NEW k \in ExtCalls, ExtQuery(k) PROVE TypeOK'
  <2>1. wbuf' \in Seq(ExtCalls) /\ queue' \in Seq(ExtCalls)
    BY <1>1, AppendProperties DEF ExtQuery
  <2>2. state' \in States /\ status' \in [Calls -> Statuses]
    BY <1>1 DEF ExtQuery, States, Statuses, Settle
  <2>3. pendingFlush' \in BOOLEAN
    BY <1>1, Zenon DEF ExtQuery
  <2> QED
    BY <1>1, <2>1, <2>2, <2>3 DEF ExtQuery, serverVars
<1>2. ASSUME NEW k \in SimpleCalls, SimpleQuery(k) PROVE TypeOK'
  <2>1. status' \in [Calls -> Statuses] /\ wbuf' \in Seq(ExtCalls)
    BY <1>2, EmptySeq DEF SimpleQuery, Statuses, Settle
  <2>2. CASE transport = "open"
    <3>1. wbuf \o <<k>> \in Seq(Calls \cup {Terminate})
      <4>1. wbuf \in Seq(Calls \cup {Terminate}) /\ <<k>> \in Seq(Calls \cup {Terminate})
        OBVIOUS
      <4> QED
        BY <4>1, ConcatProperties
    <3>2. toServer' \in Seq(Calls \cup {Terminate})
      BY <1>2, <2>2, <3>1, SendType DEF SimpleQuery
    <3>3. state' \in States /\ holder' \in SimpleCalls /\ phase' = "flushing"
      BY <1>2, <2>2 DEF SimpleQuery, States
    <3>4. callbacks' \in Seq({"query", "end"})
      <4>1. callbacks' = Append(callbacks, "query")
        BY <1>2, <2>2 DEF SimpleQuery
      <4>2. callbacks \in Seq({"query", "end"}) /\ "query" \in {"query", "end"}
        OBVIOUS
      <4> QED
        BY <4>1, <4>2, AppendProperties
    <3>5. /\ wbuf' = <<>>
          /\ UNCHANGED <<queue, closeError, transport, toClient, delivered, rbuf,
                         pendingFlush, ended, errs, got, aborted, serverVars>>
      BY <1>2, <2>2 DEF SimpleQuery
    <3>6. <<>> \in Seq(ExtCalls)
      BY EmptySeq
    <3>7. (holder' = None) = (phase' = "none")
      BY <3>3, ConnectionAssumption DEF Calls
    <3> QED
      BY <2>1, <3>2, <3>3, <3>4, <3>5, <3>6, <3>7 DEF Phases, serverVars
  <2>3. CASE transport # "open"
    <3>1. toServer' \in Seq(Calls \cup {Terminate}) /\ toClient' \in Seq(Messages)
      BY <1>2, <2>3, EmptySeq DEF SimpleQuery
    <3>2. state' \in States
      BY <1>2, <2>3 DEF SimpleQuery, States
    <3> QED
      BY <1>2, <2>1, <2>3, <3>1, <3>2 DEF SimpleQuery, serverVars
  <2> QED
    BY <2>2, <2>3
<1>3. ASSUME NEW k \in Calls, Refuse(k) PROVE TypeOK'
  <2>1. status' \in [Calls -> Statuses]
    BY <1>3 DEF Refuse, Settle, Statuses
  <2> QED
    BY <1>3, <2>1 DEF Refuse, clientVars, serverVars
<1>4. ASSUME NEW k \in Calls, Abort(k) PROVE TypeOK'
  BY <1>4 DEF Abort, clientVars
<1>5. CASE End
  <2>1. state' \in States /\ wbuf' \in Seq(ExtCalls)
    BY <1>5, EmptySeq DEF End, States
  <2>2. toServer' \in Seq(Calls \cup {Terminate})
    <3>1. CASE transport = "open"
      <4>1. wbuf \in Seq(Calls \cup {Terminate})
            /\ <<Terminate>> \in Seq(Calls \cup {Terminate})
        OBVIOUS
      <4>2. wbuf \o <<Terminate>> \in Seq(Calls \cup {Terminate})
        BY <4>1, ConcatProperties
      <4> QED
        BY <1>5, <3>1, <4>2, SendType DEF End
    <3> QED
      BY <1>5, <3>1 DEF End
  <2>3. callbacks' \in Seq({"query", "end"})
    BY <1>5, AppendProperties DEF End
  <2>4. ended' \in BOOLEAN
    BY <1>5, Zenon DEF End
  <2> QED
    BY <1>5, <2>1, <2>2, <2>3, <2>4 DEF End, callVars, serverVars
<1>6. CASE EndDone
  <2>1. callbacks' \in Seq({"query", "end"})
    BY <1>6, HeadTailProperties, EmptySeq DEF EndDone
  <2> QED
    BY <1>6, <2>1 DEF EndDone, States, callVars, serverVars
<1>7. CASE Flush
  <2>1. wbuf' \in Seq(ExtCalls) /\ pendingFlush' \in BOOLEAN
    <3>1. pendingFlush' \in BOOLEAN
      BY <1>7, Zenon DEF Flush
    <3> QED
      BY <1>7, <3>1, EmptySeq DEF Flush
  <2>2. CASE wbuf = <<>> \/ transport = "open"
    <3>1. Staged \in Seq(Calls \cup {Terminate})
      BY DEF Staged
    <3>2. toServer' \in Seq(Calls \cup {Terminate})
      BY <1>7, <2>2, <3>1, SendType DEF Flush
    <3> QED
      BY <1>7, <2>1, <2>2, <3>2 DEF Flush, serverVars
  <2>3. CASE ~(wbuf = <<>> \/ transport = "open")
    <3>1. Fatal("transport")
      BY <1>7, <2>3 DEF Flush
    <3> QED
      BY <1>7, <2>1, <3>1, FatalType DEF Flush, serverVars
  <2> QED
    BY <2>2, <2>3
<1>8. CASE FlushDone
  <2>1. holder # None /\ AwaitMessage
    BY <1>8 DEF FlushDone
  <2> QED
    BY <1>8, <2>1, AwaitType DEF FlushDone, serverVars
<1>9. CASE Resume
  <2>1. got' \in [Calls -> SUBSET Calls] /\ holder # None /\ holder \in SimpleCalls
    <3>1. holder \in SimpleCalls /\ delivered.call \in Calls \cup {None}
      BY <1>9 DEF Resume, Messages
    <3> QED
      BY <1>9, <3>1 DEF Resume, Consumed
  <2>2. CASE delivered.kind \in {"data", "error"}
    <3>1. AwaitMessage /\ errs' \in SUBSET Calls
      BY <1>9, <2>1, <2>2 DEF Resume
    <3> QED
      BY <1>9, <2>1, <2>2, <3>1, AwaitType DEF Resume, serverVars
  <2>3. CASE delivered.kind = "ready"
    <3>1. state' \in States /\ status' \in [Calls -> Statuses]
      BY <1>9, <2>1, <2>3 DEF Resume, States, Settle, Statuses
    <3> QED
      BY <1>9, <2>1, <2>3, <3>1, MessageFacts DEF Resume, Phases, serverVars
  <2>4. CASE delivered.kind = "copy"
    <3>1. Fatal("protocol")
      BY <1>9, <2>4 DEF Resume
    <3> QED
      BY <1>9, <2>1, <2>4, <3>1, FatalType, MessageFacts DEF Resume, serverVars
  <2> QED
    BY <1>9, <2>2, <2>3, <2>4 DEF Resume
<1>10. CASE DataToWaiter
  <2>1. PICK n \in 1 .. Len(toClient) :
          /\ toClient' = SubSeq(toClient, n + 1, Len(toClient))
          /\ DrainToWaiter(rbuf \o SubSeq(toClient, 1, n))
    BY <1>10 DEF DataToWaiter
  <2>2. n \in 0 .. Len(toClient) /\ Len(toClient) \in Nat
    BY LenProperties
  <2>3. toClient' \in Seq(Messages) /\ SubSeq(toClient, 1, n) \in Seq(Messages)
    BY <2>1, <2>2, SuffixFacts, SubSeqProperties
  <2>4. rbuf \o SubSeq(toClient, 1, n) \in Seq(Messages)
    BY <2>3, ConcatProperties
  <2>5. /\ phase' \in {"waiting", "resumed"}
        /\ delivered' \in Messages
        /\ rbuf' \in Seq(Messages)
    BY <2>1, <2>4, DrainType
  <2> QED
    BY <1>10, <2>3, <2>5 DEF DataToWaiter, Phases, callVars, serverVars
<1>11. CASE DataToQueue
  <2>1. /\ Head(toClient) \in Messages /\ Tail(toClient) \in Seq(Messages)
        /\ rbuf' \in Seq(Messages)
    BY <1>11, HeadTailProperties, EmptySeq DEF DataToQueue
  <2>2. CASE ~Regular(Head(toClient))
    BY <1>11, <2>1, <2>2 DEF DataToQueue, serverVars
  <2>3. CASE Regular(Head(toClient)) /\ queue # <<>> /\ Head(toClient).kind # "copy"
    <3>1. Step(Head(queue), Head(toClient)) /\ toClient' = Tail(toClient)
      BY <1>11, <2>3 DEF DataToQueue
    <3>2. Head(queue) \in ExtCalls /\ Tail(queue) \in Seq(ExtCalls)
      BY <2>3, HeadTailProperties
    <3>3. got' \in [Calls -> SUBSET Calls]
      <4>1. Head(toClient).call \in Calls \cup {None}
        BY <2>1 DEF Messages
      <4> QED
        BY <3>1, <3>2, <4>1 DEF Step, Consumed
    <3>4. errs' \in SUBSET Calls
      BY <3>1, <3>2 DEF Step
    <3>5. status' \in [Calls -> Statuses] /\ queue' \in Seq(ExtCalls) /\ state' \in States
      BY <3>1, <3>2 DEF Step, Settle, Statuses, States
    <3> QED
      BY <1>11, <2>1, <2>3, <3>1, <3>3, <3>4, <3>5 DEF DataToQueue, serverVars
  <2>4. CASE Regular(Head(toClient)) /\ ~(queue # <<>> /\ Head(toClient).kind # "copy")
    <3>1. Fatal("protocol")
      BY <1>11, <2>4 DEF DataToQueue
    <3> QED
      BY <1>11, <2>1, <2>4, <3>1, FatalType DEF DataToQueue, serverVars
  <2> QED
    BY <2>2, <2>3, <2>4
<1>12. CASE TransportClose
  <2>1. CASE state = "closed"
    BY <1>12, <2>1 DEF TransportClose, serverVars
  <2>2. CASE state # "closed"
    <3>1. FailPending
      BY <1>12, <2>2 DEF TransportClose
    <3> QED
      BY <1>12, <2>2, <3>1, FailPendingType DEF TransportClose, States, serverVars
  <2> QED
    BY <2>1, <2>2
<1>13. CASE TransportError
  <2>1. Fatal("transport")
    BY <1>13 DEF TransportError
  <2> QED
    BY <1>13, <2>1, FatalType DEF TransportError
<1>14. CASE ServerRuns
  <2>1. PICK how \in {"ok", "error"} : Answer(Head(toServer), how)
    BY <1>14 DEF ServerRuns
  <2>2. toServer # <<>> /\ Head(toServer) \in Calls
    BY <1>14, FrameType DEF ServerRuns
  <2> QED
    BY <1>14, <2>1, <2>2, AnswerType DEF ServerRuns, clientVars, callVars
<1>15. CASE ServerEntersCopy
  <2>1. Head(toServer) \in Calls /\ toServer' \in Seq(Calls \cup {Terminate})
    BY <1>15, FrameType DEF ServerEntersCopy
  <2>2. toClient' \in Seq(Messages)
    BY <1>15, <2>1, MessageFacts, AppendProperties DEF ServerEntersCopy
  <2> QED
    BY <1>15, <2>1, <2>2 DEF ServerEntersCopy, clientVars, callVars
<1>16. CASE ServerCancels
  <2>1. cancels' \in SUBSET Calls
    BY <1>16 DEF ServerCancels
  <2>2. CASE Serving /\ toServer # <<>> /\ Head(toServer) # Terminate
    <3>1. Head(toServer) \in Calls
      BY <2>2, FrameType
    <3>2. Answer(Head(toServer), "error")
      BY <1>16, <2>2, <3>1 DEF ServerCancels
    <3> QED
      BY <1>16, <2>1, <2>2, <3>1, <3>2, AnswerType DEF ServerCancels, clientVars, callVars
  <2>3. CASE ~(Serving /\ toServer # <<>> /\ Head(toServer) # Terminate)
    BY <1>16, <2>1, <2>3 DEF ServerCancels, clientVars, callVars
  <2> QED
    BY <2>2, <2>3
<1>17. CASE ServerNotifies
  <2>1. toClient' \in Seq(Messages)
    BY <1>17, MessageFacts, AppendProperties DEF ServerNotifies
  <2> QED
    BY <1>17, <2>1 DEF ServerNotifies, clientVars, callVars
<1>18. CASE ServerTerminates
  <2>1. toServer' \in Seq(Calls \cup {Terminate})
    BY <1>18, EmptySeq DEF ServerTerminates
  <2> QED
    BY <1>18, <2>1 DEF ServerTerminates, clientVars, callVars
<1>19. CASE ServerStops
  <2>1. PICK n \in 0 .. Len(toClient) :
          \/ toClient' = SubSeq(toClient, 1, n)
          \/ toClient' = SubSeq(toClient, 1, n) \o <<Msg("error", None)>>
    BY <1>19 DEF ServerStops
  <2>2. SubSeq(toClient, 1, n) \in Seq(Messages)
    BY SubSeqProperties, LenProperties
  <2>3. Msg("error", None) \in Messages
    BY MessageFacts
  <2>4. SubSeq(toClient, 1, n) \o <<Msg("error", None)>> \in Seq(Messages)
    BY <2>2, <2>3, ConcatProperties
  <2>5. toClient' \in Seq(Messages) /\ toServer' \in Seq(Calls \cup {Terminate})
    BY <1>19, <2>1, <2>2, <2>4, EmptySeq DEF ServerStops
  <2> QED
    BY <1>19, <2>5 DEF ServerStops, clientVars, callVars
<1>20. CASE UNCHANGED vars
  BY <1>20 DEF vars, clientVars, callVars, serverVars
<1> QED
  BY <1>1, <1>2, <1>3, <1>4, <1>5, <1>6, <1>7, <1>8, <1>9, <1>10, <1>11, <1>12, <1>13,
     <1>14, <1>15, <1>16, <1>17, <1>18, <1>19, <1>20
     DEF Next, Application, Client, Socket, Server

\* The dispatcher's variables stay within their types, whatever the calls, the
\* chunks and the faults.
THEOREM TypeCorrect == Spec => []TypeOK
<1> QED
  BY TypeInit, TypeNext, PTL DEF Spec

-----------------------------------------------------------------------------
(* Ownership of the connection and of the promises *)

\* NoPromiseForgotten, call by call.
Owned ==
  \A k \in Calls : status[k] = "pending" <=> (k \in Range(queue) \/ k = holder)

\* What a ready or pipelining connection may not have, on which every call
\* relies when it tests the state only.
StateTells ==
  /\ state = "ready" => queue = <<>> /\ holder = None /\ ~pendingFlush
  /\ state = "pipelining" => holder = None

\* What is left of a connection that has failed.
FailureFinal ==
  closeError # "none" =>
    /\ state \in {"errored", "closing", "closed"}
    /\ phase \in {"none", "flushing"}
    /\ queue = <<>>

\* NoPromiseForgotten and Exclusive are not inductive: a call enters on the
\* strength of the state alone, and a failed connection must take no call.
ControlInv ==
  Owned /\ IsInjective(queue) /\ Exclusive /\ StateTells /\ FailureFinal

LEMMA QueueFacts ==
  /\ Range(<<>>) = {}
  /\ IsInjective(<<>>)
  /\ TypeOK => \A k \in Range(queue) : k \in ExtCalls
<1>1. Range(<<>>) = {} /\ IsInjective(<<>>)
  BY DEF Range, IsInjective
<1>2. ASSUME TypeOK PROVE \A k \in Range(queue) : k \in ExtCalls
  BY <1>2, RangeByIndex, ElementOfSeq, LenProperties DEF TypeOK
<1> QED
  BY <1>1, <1>2

\* A step that touches neither the queue nor the holder nor the state.
LEMMA ControlFrame ==
  ASSUME ControlInv,
         UNCHANGED <<status, queue, holder, phase, state, pendingFlush, closeError>>
  PROVE  ControlInv'
BY DEF ControlInv, Owned, Exclusive, StateTells, FailureFinal

\* failPending() leaves nobody behind but a query() whose write is under way.
LEMMA FailPendingControl ==
  ASSUME TypeOK, ControlInv, FailPending, pendingFlush' => pendingFlush
  PROVE  /\ Owned' /\ IsInjective(queue') /\ Exclusive'
         /\ queue' = <<>> /\ phase' \in {"none", "flushing"}
<1>1. queue' = <<>> /\ phase' \in {"none", "flushing"} /\ IsInjective(queue')
  BY QueueFacts DEF FailPending, TypeOK, Phases
<1>2. CASE phase \in {"waiting", "resumed"}
  <2>1. holder' = None /\ Doomed = Range(queue) \cup {holder}
    BY <1>2 DEF FailPending, Doomed
  <2>2. \A k \in Calls : status'[k] # "pending"
    BY <2>1 DEF FailPending, ControlInv, Owned
  <2>3. Owned'
    <3>1. Range(queue') = {} /\ \A k \in Calls : k # holder'
      BY <1>1, <2>1, QueueFacts, CallFacts, ConnectionAssumption
    <3> QED
      BY <2>2, <3>1 DEF Owned
  <2> QED
    BY <1>1, <2>1, <2>3 DEF Exclusive
<1>3. CASE phase \notin {"waiting", "resumed"}
  <2>1. holder' = holder /\ Doomed = Range(queue) /\ holder \notin Range(queue)
    BY <1>3, QueueFacts, CallFacts DEF FailPending, Doomed, TypeOK
  <2>2. \A k \in Calls : status'[k] = "pending" <=> k = holder
    BY <2>1 DEF FailPending, ControlInv, Owned
  <2>3. holder # None => ~pendingFlush
    BY DEF ControlInv, Exclusive
  <2>4. Owned'
    BY <1>1, <2>1, <2>2, QueueFacts DEF Owned
  <2> QED
    BY <1>1, <2>1, <2>3, <2>4 DEF Exclusive
<1> QED
  BY <1>2, <1>3, <1>1

LEMMA FatalControl ==
  ASSUME TypeOK, ControlInv, NEW why \in {"protocol", "transport"}, Fatal(why),
         pendingFlush' => pendingFlush
  PROVE  ControlInv'
<1>1. CASE closeError = "none"
  <2>1. FailPending /\ state' = "errored"
    BY <1>1 DEF Fatal
  <2> QED
    BY <2>1, FailPendingControl DEF ControlInv, StateTells, FailureFinal
<1>2. CASE closeError # "none"
  BY <1>2 DEF Fatal, ControlInv, Owned, Exclusive, StateTells, FailureFinal
<1> QED
  BY <1>1, <1>2

\* A query() that takes its next message: nothing else moves.
LEMMA AwaitControl ==
  ASSUME TypeOK, ControlInv, holder # None, AwaitMessage,
         UNCHANGED <<queue, state, pendingFlush, closeError>>
  PROVE  ControlInv'
<1>1. holder \in SimpleCalls /\ holder \in Calls /\ queue = <<>> /\ ~pendingFlush
  BY CallFacts DEF TypeOK, ControlInv, Exclusive
<1>2. CASE closeError # "none"
  <2>1. /\ status' = [status EXCEPT ![holder] = "lost"]
        /\ holder' = None /\ phase' = "none"
    BY <1>2 DEF AwaitMessage, Settle
  <2>2. Owned'
    <3>1. Range(queue) = {} /\ Range(queue') = {}
      BY <1>1, QueueFacts
    <3>2. \A k \in Calls : k # holder'
      BY <2>1, CallFacts, ConnectionAssumption
    <3> QED
      BY <1>1, <2>1, <3>1, <3>2 DEF TypeOK, ControlInv, Owned
  <2> QED
    BY <1>1, <1>2, <2>1, <2>2 DEF ControlInv, Exclusive, StateTells, FailureFinal
<1>3. CASE closeError = "none"
  <2>1. UNCHANGED <<status, holder>>
    BY <1>3 DEF AwaitMessage
  <2> QED
    BY <1>3, <2>1 DEF ControlInv, Owned, Exclusive, StateTells, FailureFinal
<1> QED
  BY <1>2, <1>3

LEMMA ControlInit == Init => ControlInv
<1> SUFFICES ASSUME Init PROVE ControlInv
  OBVIOUS
<1>1. Owned
  <2>1. Range(queue) = {} /\ \A k \in Calls : k # holder
    BY QueueFacts, ConnectionAssumption DEF Init
  <2> QED
    BY <2>1 DEF Init, Owned
<1>2. pendingFlush = FALSE
  BY Zenon DEF Init
<1> QED
  BY <1>1, <1>2, QueueFacts DEF Init, ControlInv, Exclusive, StateTells, FailureFinal

LEMMA ControlNext == TypeOK /\ ControlInv /\ [Next]_vars => ControlInv'
<1> SUFFICES ASSUME TypeOK, ControlInv, [Next]_vars PROVE ControlInv'
  OBVIOUS
<1>1. ASSUME NEW k \in ExtCalls, ExtQuery(k) PROVE ControlInv'
  <2>1. holder = None /\ holder' = None /\ closeError = "none" /\ closeError' = "none"
    BY <1>1 DEF ExtQuery, Accepts, ControlInv, StateTells, FailureFinal
  <2>2. k \in Calls /\ status[k] = "new" /\ status' = [status EXCEPT ![k] = "pending"]
    BY <1>1, CallFacts DEF ExtQuery, Settle
  <2>3. k \notin Range(queue)
    BY <2>2 DEF ControlInv, Owned
  <2>4. IsInjective(queue') /\ Range(queue') = Range(queue) \cup {k}
    BY <1>1, <2>3, AppendDistinct DEF ExtQuery, TypeOK, ControlInv
  <2>5. Owned'
    BY <2>1, <2>2, <2>4 DEF TypeOK, ControlInv, Owned
  <2>6. state' = "pipelining"
    BY <1>1 DEF ExtQuery
  <2> QED
    BY <2>1, <2>4, <2>5, <2>6 DEF ControlInv, Exclusive, StateTells, FailureFinal
<1>2. ASSUME NEW k \in SimpleCalls, SimpleQuery(k) PROVE ControlInv'
  <2>1. queue = <<>> /\ holder = None /\ ~pendingFlush /\ closeError = "none" /\ phase = "none"
    BY <1>2 DEF SimpleQuery, Idle, TypeOK, ControlInv, StateTells, FailureFinal
  <2>2. k \in Calls /\ status[k] = "new" /\ queue' = <<>> /\ ~pendingFlush'
    BY <1>2, <2>1, CallFacts DEF SimpleQuery
  <2>3. Range(queue) = {} /\ Range(queue') = {} /\ IsInjective(queue')
    BY <2>1, <2>2, QueueFacts
  <2>4. CASE transport = "open"
    <3>1. /\ status' = [status EXCEPT ![k] = "pending"]
          /\ holder' = k /\ state' = "busy" /\ closeError' = "none"
      BY <1>2, <2>1, <2>4 DEF SimpleQuery, Settle
    <3>2. Owned'
      BY <2>1, <2>2, <2>3, <3>1, CallFacts, ConnectionAssumption DEF TypeOK, ControlInv, Owned
    <3> QED
      BY <2>2, <2>3, <3>1, <3>2 DEF ControlInv, Exclusive, StateTells, FailureFinal
  <2>5. CASE transport # "open"
    <3>1. /\ status' = [status EXCEPT ![k] = "lost"]
          /\ holder' = None /\ phase' = "none" /\ state' = "errored"
      BY <1>2, <2>1, <2>5 DEF SimpleQuery, Settle
    <3>2. Owned'
      BY <2>1, <2>2, <2>3, <3>1, ConnectionAssumption DEF TypeOK, ControlInv, Owned
    <3> QED
      BY <2>2, <2>3, <3>1, <3>2 DEF ControlInv, Exclusive, StateTells, FailureFinal
  <2> QED
    BY <2>4, <2>5
<1>3. ASSUME NEW k \in Calls, Refuse(k) PROVE ControlInv'
  <2>1. status[k] = "new" /\ status' = [status EXCEPT ![k] = "refused"]
    BY <1>3 DEF Refuse, Settle
  <2>2. UNCHANGED <<queue, holder, phase, state, pendingFlush, closeError>>
    BY <1>3 DEF Refuse, clientVars
  <2>3. Owned'
    BY <2>1, <2>2 DEF TypeOK, ControlInv, Owned
  <2> QED
    BY <2>2, <2>3 DEF ControlInv, Exclusive, StateTells, FailureFinal
<1>4. ASSUME NEW k \in Calls, Abort(k) PROVE ControlInv'
  BY <1>4, ControlFrame DEF Abort, clientVars
<1>5. CASE End
  <2>1. state' = "closing" /\ UNCHANGED <<status, queue, holder, phase, pendingFlush, closeError>>
    BY <1>5 DEF End, callVars
  <2> QED
    BY <2>1 DEF ControlInv, Owned, Exclusive, StateTells, FailureFinal
<1>6. CASE EndDone
  <2>1. state' = "closed" /\ UNCHANGED <<status, queue, holder, phase, pendingFlush, closeError>>
    BY <1>6 DEF EndDone, callVars
  <2> QED
    BY <2>1 DEF ControlInv, Owned, Exclusive, StateTells, FailureFinal
<1>7. CASE Flush
  <2>1. ~pendingFlush'
    BY <1>7 DEF Flush
  <2>2. CASE wbuf = <<>> \/ transport = "open"
    <3>1. UNCHANGED <<status, queue, holder, phase, state, closeError>>
      BY <1>7, <2>2 DEF Flush
    <3> QED
      BY <2>1, <3>1 DEF ControlInv, Owned, Exclusive, StateTells, FailureFinal
  <2>3. CASE ~(wbuf = <<>> \/ transport = "open")
    BY <1>7, <2>1, <2>3, FatalControl DEF Flush
  <2> QED
    BY <2>2, <2>3
<1>8. CASE FlushDone
  <2>1. holder # None
    BY <1>8 DEF FlushDone, TypeOK
  <2> QED
    BY <1>8, <2>1, AwaitControl DEF FlushDone
<1>9. CASE Resume
  <2>1. /\ holder # None /\ holder \in Calls /\ holder \in SimpleCalls
        /\ queue = <<>> /\ ~pendingFlush /\ closeError = "none"
    BY <1>9, CallFacts DEF Resume, TypeOK, ControlInv, Exclusive, FailureFinal
  <2>2. UNCHANGED pendingFlush
    BY <1>9 DEF Resume
  <2>3. CASE delivered.kind \in {"data", "error"}
    BY <1>9, <2>1, <2>2, <2>3, AwaitControl DEF Resume
  <2>4. CASE delivered.kind = "ready"
    <3>1. PICK s \in {"ok", "error"} : status' = [status EXCEPT ![holder] = s]
      BY <1>9, <2>4 DEF Resume, Settle
    <3>2. state' = "ready" /\ holder' = None /\ queue' = <<>> /\ closeError' = "none"
      BY <1>9, <2>1, <2>4 DEF Resume
    <3>3. Range(queue) = {} /\ Range(queue') = {} /\ IsInjective(queue')
      BY <2>1, <3>2, QueueFacts
    <3>4. Owned'
      BY <2>1, <3>1, <3>2, <3>3, ConnectionAssumption DEF TypeOK, ControlInv, Owned
    <3> QED
      BY <2>1, <2>2, <3>2, <3>3, <3>4 DEF ControlInv, Exclusive, StateTells, FailureFinal
  <2>5. CASE delivered.kind = "copy"
    BY <1>9, <2>2, <2>5, FatalControl DEF Resume
  <2> QED
    BY <1>9, <2>3, <2>4, <2>5 DEF Resume
<1>10. CASE DataToWaiter
  <2>1. closeError = "none" /\ UNCHANGED <<status, queue, holder, state, pendingFlush, closeError>>
    BY <1>10 DEF DataToWaiter, callVars, ControlInv, FailureFinal
  <2> QED
    BY <2>1 DEF ControlInv, Owned, Exclusive, StateTells, FailureFinal
<1>11. CASE DataToQueue
  <2>1. /\ queue # <<>> => holder = None
        /\ ~pendingFlush /\ UNCHANGED pendingFlush
    BY <1>11 DEF DataToQueue, NoMicrotask, ControlInv, Exclusive
  <2>2. CASE ~Regular(Head(toClient))
    BY <1>11, <2>2, ControlFrame DEF DataToQueue
  <2>3. CASE Regular(Head(toClient)) /\ queue # <<>> /\ Head(toClient).kind # "copy"
    <3>1. /\ Step(Head(queue), Head(toClient))
          /\ UNCHANGED <<closeError, holder, phase>>
      BY <1>11, <2>3 DEF DataToQueue
    <3>2. /\ Head(queue) \in Range(queue) /\ IsInjective(Tail(queue))
          /\ Range(Tail(queue)) = Range(queue) \ {Head(queue)}
      BY <2>3, TailDistinct DEF TypeOK, ControlInv
    <3>3. Head(queue) \in Calls /\ closeError = "none"
      BY <2>3, <3>2, QueueFacts, CallFacts DEF ControlInv, FailureFinal
    <3>4. CASE Done(Head(toClient))
      <4>1. PICK s \in {"ok", "error"} : status' = [status EXCEPT ![Head(queue)] = s]
        BY <3>1, <3>4 DEF Step, Settle
      <4>2. queue' = Tail(queue)
        BY <3>1, <3>4 DEF Step
      <4>3. Owned'
        <5>1. /\ Owned /\ status \in [Calls -> Statuses]
              /\ holder = None /\ holder' = holder /\ None \notin Calls
          BY <2>1, <2>3, <3>1, ConnectionAssumption DEF TypeOK, ControlInv
        <5> QED
          BY <3>2, <3>3, <4>1, <4>2, <5>1 DEF Owned
      <4>4. state' = state \/ (LastCommand /\ state' = "ready")
        BY <3>1, <3>4 DEF Step
      <4>5. LastCommand => queue' = <<>>
        <5>1. queue \in Seq(ExtCalls) /\ queue # <<>>
          BY <2>3 DEF TypeOK
        <5>2. Len(Tail(queue)) = Len(queue) - 1 /\ Tail(queue) \in Seq(ExtCalls)
          BY <5>1, HeadTailProperties
        <5> QED
          BY <4>2, <5>2, EmptySeq, LenProperties DEF LastCommand
      <4>6. state = "ready" => queue = <<>>
        BY DEF ControlInv, StateTells
      <4> QED
        BY <2>1, <2>3, <3>1, <3>2, <3>3, <4>2, <4>3, <4>4, <4>5, <4>6
           DEF ControlInv, Exclusive, StateTells, FailureFinal
    <3>5. CASE ~Done(Head(toClient))
      BY <2>1, <3>1, <3>5, ControlFrame DEF Step
    <3> QED
      BY <3>4, <3>5
  <2>4. CASE Regular(Head(toClient)) /\ ~(queue # <<>> /\ Head(toClient).kind # "copy")
    BY <1>11, <2>1, <2>4, FatalControl DEF DataToQueue
  <2> QED
    BY <2>2, <2>3, <2>4
<1>12. CASE TransportClose
  <2>1. CASE state = "closed"
    BY <1>12, <2>1, ControlFrame DEF TransportClose
  <2>2. CASE state # "closed"
    <3>1. FailPending /\ state' = "closed" /\ UNCHANGED pendingFlush
      BY <1>12, <2>2 DEF TransportClose
    <3> QED
      BY <3>1, FailPendingControl DEF ControlInv, StateTells, FailureFinal
  <2> QED
    BY <2>1, <2>2
<1>13. CASE TransportError
  BY <1>13, FatalControl DEF TransportError
<1>14. CASE Server
  BY <1>14, ControlFrame DEF Server, ServerRuns, ServerEntersCopy, ServerCancels,
     ServerNotifies, ServerTerminates, ServerStops, clientVars, callVars
<1>15. CASE UNCHANGED vars
  BY <1>15, ControlFrame DEF vars, clientVars, callVars
<1> QED
  BY <1>1, <1>2, <1>3, <1>4, <1>5, <1>6, <1>7, <1>8, <1>9, <1>10, <1>11, <1>12, <1>13,
     <1>14, <1>15
     DEF Next, Application, Client, Socket

\* Every open promise belongs to a queued call or to the query() in progress,
\* and the two never share the connection.
THEOREM OwnershipCorrect == Spec => [](NoPromiseForgotten /\ Exclusive)
<1>1. TypeOK /\ ControlInv => NoPromiseForgotten /\ Exclusive
  <2> SUFFICES ASSUME TypeOK, ControlInv PROVE NoPromiseForgotten
    BY DEF ControlInv
  <2>1. \A k \in Range(queue) : k \in Calls
    BY QueueFacts, CallFacts
  <2>2. holder \in Calls \cup {None}
    BY CallFacts DEF TypeOK
  <2>3. Pending = Range(queue) \cup ({holder} \ {None})
    BY <2>1, <2>2, ConnectionAssumption DEF Pending, ControlInv, Owned
  <2> QED
    BY <2>3 DEF NoPromiseForgotten, ControlInv
<1> QED
  BY <1>1, TypeInit, TypeNext, ControlInit, ControlNext, PTL DEF Spec

\* When the connection has failed, however it failed, no call is left waiting
\* except a query() between its write and the write's callback.
THEOREM FailureCorrect == Spec => []FailureReachesAll
<1>1. TypeOK /\ ControlInv => FailureReachesAll
  <2> SUFFICES ASSUME TypeOK, ControlInv, closeError # "none", NEW k \in Pending
               PROVE  k = holder /\ phase = "flushing"
    BY DEF FailureReachesAll
  <2>1. k \in Calls /\ k # None /\ status[k] = "pending"
    BY ConnectionAssumption DEF Pending
  <2>2. Range(queue) = {} /\ phase \in {"none", "flushing"}
    BY QueueFacts DEF ControlInv, FailureFinal
  <2> QED
    BY <2>1, <2>2 DEF ControlInv, Owned, TypeOK
<1> QED
  BY <1>1, TypeInit, TypeNext, ControlInit, ControlNext, PTL DEF Spec

-----------------------------------------------------------------------------
(***************************************************************************)
(* The pipelining contract: the answers on the wire and the calls that are *)
(* owed them are in step, whatever the number of calls, chunks, cancel     *)
(* requests and faults.                                                    *)
(*                                                                         *)
(* The invariant is stated of three sequences: the messages the client has *)
(* not consumed, the calls it owes an answer, and the frames the server    *)
(* has not executed.  What a step does to them (drop, consume, answer,     *)
(* append, cut) is a lemma about sequences, and each action is one or two  *)
(* of those.                                                               *)
(***************************************************************************)

-----------------------------------------------------------------------------
(* The wire *)

\* The calls waiting for an answer, in the order they will take it.
Owed == IF holder # None THEN <<holder>> ELSE queue

\* What the server has sent and no call has consumed.
Delivered == IF phase = "resumed" THEN <<delivered>> ELSE <<>>
Incoming == Delivered \o (rbuf \o toClient)

\* What the server has yet to execute, if it ever does.
Upstream == toServer \o wbuf

\* l is to be answered before k.
Before(Q, l, k) ==
  \E a, b \in 1 .. Len(Q) : a < b /\ Q[a] = l /\ Q[b] = k

\* The end of the reply to l is among the first n messages.
Answered(I, n, l) == \E j \in 1 .. n : I[j] = Msg("ready", l)

\* A message that answers a call answers one that waits, and comes after the
\* whole reply to each call before it.
Expected(I, Q) ==
  \A i \in 1 .. Len(I) :
    I[i].call # None =>
      /\ I[i].call \in Range(Q)
      /\ \A l \in Calls : Before(Q, l, I[i].call) => Answered(I, i - 1, l)

\* A reply is a data or an error, and its end; a COPY has no end.
Paired(I) ==
  \A i, j \in 1 .. Len(I) :
    i < j /\ I[i].call = I[j].call /\ I[i].call # None =>
      I[i].kind \in {"data", "error"} /\ I[j].kind = "ready"

\* Notices answer nobody, the error of a shutdown is the last thing a server
\* says, and a COPY is the end of the protocol of queries.
Kinds(I, p) ==
  \A i \in 1 .. Len(I) :
    /\ I[i].call = None => I[i].kind \in {"notice", "error"}
    /\ I[i].kind = "notice" => I[i].call = None
    /\ I[i].kind = "error" /\ I[i].call = None => i = Len(I) /\ p = "crashed"
    /\ I[i].kind = "copy" => p \in {"copying", "crashed"}

\* The end of a reply finds its call marked as failed exactly when the server
\* answered with an error (which may still be ahead of it).
Verdicts(I, v, e) ==
  \A i \in 1 .. Len(I) : \A k \in Calls :
    /\ I[i] = Msg("error", k) => v[k] = "error"
    /\ I[i] = Msg("ready", k) =>
         /\ v[k] \in {"ok", "error"}
         /\ k \in e => v[k] = "error"
         /\ v[k] = "error" => k \in e \/ \E j \in 1 .. i - 1 : I[j] = Msg("error", k)

\* A statement the server has not executed belongs to a call that waits, and
\* nothing of its reply has been sent.
Unanswered(I, Q, U) ==
  \A i \in 1 .. Len(U) :
    U[i] # Terminate => U[i] \in Range(Q) /\ \A j \in 1 .. Len(I) : I[j].call # U[i]

\* Statements reach the server in the order of the calls, once.
InOrder(I, Q, U) ==
  \A i \in 1 .. Len(U) :
    U[i] # Terminate =>
      \A l \in Calls : Before(Q, l, U[i]) =>
        (\E j \in 1 .. i - 1 : U[j] = l) \/ Answered(I, Len(I), l)

Once(U) ==
  \A i, j \in 1 .. Len(U) : i # j => U[i] # U[j] \/ U[i] = Terminate

\* No call has failed before its statement was executed.
Unfailed(U, e) == \A i \in 1 .. Len(U) : U[i] \notin e

WireOK(I, Q, U, p, v, e) ==
  /\ Expected(I, Q) /\ Paired(I) /\ Kinds(I, p) /\ Verdicts(I, v, e)
  /\ Unanswered(I, Q, U)
  /\ p = "up" => InOrder(I, Q, U) /\ Once(U) /\ Unfailed(U, e)

\* Every call that waits has its statement or the end of its reply under way.
AllUnderWay(I, Q, U) ==
  \A k \in Range(Q) : (\E i \in 1 .. Len(U) : U[i] = k) \/ Answered(I, Len(I), k)

\* What the last query() left in the reader answers nobody.
LeftOver ==
  closeError = "none" /\ phase \in {"none", "flushing"} =>
    \A i \in 1 .. Len(rbuf) : rbuf[i].call = None

WireInv ==
  closeError = "none" =>
    /\ WireOK(Incoming, Owed, Upstream, peer, verdict, errs)
    /\ peer = "up" /\ state \in {"ready", "pipelining"} =>
         AllUnderWay(Incoming, Owed, Upstream)

\* A connection that failed has no socket, and a call that has not been made
\* has not failed.
Aftermath ==
  /\ closeError # "none" => transport \in {"destroyed", "closed"}
  /\ \A k \in errs : status[k] # "new"

\* AnswersMatch is not inductive: that an answer is for the call at the head of
\* the queue rests on everything behind it.
PipelineInv ==
  /\ TypeOK /\ ControlInv
  /\ WireInv /\ LeftOver /\ Aftermath
  /\ AnswersMatch /\ HealthyNeverTornDown

-----------------------------------------------------------------------------
(* Calls before others in a queue *)

LEMMA BeforeRange ==
  ASSUME NEW Q \in Seq(Calls), NEW l, NEW k, Before(Q, l, k)
  PROVE  l \in Range(Q) /\ k \in Range(Q)
BY RangeByIndex DEF Before

\* The head comes before everything else.
LEMMA BeforeHead ==
  ASSUME NEW Q \in Seq(Calls), NEW k \in Range(Q), k # Q[1]
  PROVE  Before(Q, Q[1], k)
<1>1. PICK b \in 1 .. Len(Q) : Q[b] = k
  BY RangeByIndex
<1>2. 1 < b /\ 1 \in 1 .. Len(Q) /\ Len(Q) \in Nat
  BY <1>1, LenProperties
<1> QED
  BY <1>1, <1>2 DEF Before

LEMMA BeforeTail ==
  ASSUME NEW Q \in Seq(Calls), Q # <<>>, NEW l, NEW k, Before(Tail(Q), l, k)
  PROVE  Before(Q, l, k)
<1>1. PICK a \in 1 .. Len(Tail(Q)), b \in 1 .. Len(Tail(Q)) :
         a < b /\ Tail(Q)[a] = l /\ Tail(Q)[b] = k
  BY DEF Before
<1>2. /\ Len(Q) \in Nat /\ Len(Tail(Q)) = Len(Q) - 1
      /\ Q[a + 1] = l /\ Q[b + 1] = k
  BY <1>1, HeadTailProperties, LenProperties
<1>3. a + 1 \in 1 .. Len(Q) /\ b + 1 \in 1 .. Len(Q) /\ a + 1 < b + 1
  BY <1>1, <1>2
<1> QED
  BY <1>2, <1>3 DEF Before

\* A call that joins the queue comes after all others, and before none.
LEMMA BeforeAppend ==
  ASSUME NEW Q \in Seq(Calls), NEW k \in Calls, k \notin Range(Q),
         NEW l, NEW c, Before(Append(Q, k), l, c)
  PROVE  l \in Range(Q) /\ (c # k => Before(Q, l, c))
<1>1. /\ Len(Q) \in Nat /\ Len(Append(Q, k)) = Len(Q) + 1
      /\ \A i \in 1 .. Len(Q) : Append(Q, k)[i] = Q[i]
      /\ Append(Q, k)[Len(Q) + 1] = k
  BY AppendProperties, LenProperties
<1>2. PICK a \in 1 .. Len(Q) + 1, b \in 1 .. Len(Q) + 1 :
         a < b /\ Append(Q, k)[a] = l /\ Append(Q, k)[b] = c
  BY <1>1 DEF Before
<1>3. a \in 1 .. Len(Q) /\ Q[a] = l
  BY <1>1, <1>2
<1>4. l \in Range(Q)
  BY <1>3, RangeByIndex
<1>5. ASSUME c # k PROVE Before(Q, l, c)
  <2>1. b \in 1 .. Len(Q) /\ Q[b] = c
    BY <1>1, <1>2, <1>5
  <2> QED
    BY <1>2, <1>3, <2>1 DEF Before
<1> QED
  BY <1>4, <1>5

-----------------------------------------------------------------------------
(* What the client does to the wire: it drops notices, and consumes replies *)

\* J is what is left of I after its first n members.
Drops(J, I, n) ==
  /\ n \in 0 .. Len(I)
  /\ Len(J) = Len(I) - n
  /\ \A i \in 1 .. Len(J) : J[i] = I[n + i]

\* Dropping what ends no reply takes nothing from the order of the replies.
LEMMA DropOrder ==
  ASSUME NEW I \in Seq(Messages), NEW J \in Seq(Messages), NEW n, Drops(J, I, n),
         \A i \in 1 .. n : I[i].kind # "ready",
         NEW Q, NEW U, Expected(I, Q), Paired(I), Unanswered(I, Q, U)
  PROVE  /\ Expected(J, Q) /\ Paired(J) /\ Unanswered(J, Q, U)
         /\ InOrder(I, Q, U) => InOrder(J, Q, U)
         /\ AllUnderWay(I, Q, U) => AllUnderWay(J, Q, U)
<1>1. Len(I) \in Nat /\ Len(J) \in Nat /\ Len(J) = Len(I) - n /\ n \in Nat
  BY LenProperties DEF Drops
<1>2. \A i \in 1 .. Len(J) : J[i] = I[n + i] /\ n + i \in 1 .. Len(I)
  BY <1>1 DEF Drops
<1>3. ASSUME NEW m \in 0 .. Len(J), NEW l, Answered(I, n + m, l)
      PROVE  Answered(J, m, l)
  <2>1. PICK j \in 1 .. n + m : I[j] = Msg("ready", l)
    BY <1>3 DEF Answered
  <2>2. I[j].kind = "ready"
    BY <2>1 DEF Msg
  <2>3. j > n
    BY <1>1, <2>1, <2>2
  <2>4. j - n \in 1 .. m /\ j - n \in 1 .. Len(J) /\ n + (j - n) = j
    BY <1>1, <2>1, <2>3
  <2>5. J[j - n] = Msg("ready", l)
    BY <1>2, <2>1, <2>4
  <2> QED
    BY <2>4, <2>5 DEF Answered
<1>4. Expected(J, Q)
  <2> SUFFICES ASSUME NEW i \in 1 .. Len(J), J[i].call # None
               PROVE  /\ J[i].call \in Range(Q)
                      /\ \A l \in Calls : Before(Q, l, J[i].call) => Answered(J, i - 1, l)
    BY DEF Expected
  <2>1. /\ I[n + i].call \in Range(Q)
        /\ \A l \in Calls : Before(Q, l, I[n + i].call) => Answered(I, n + i - 1, l)
    <3>1. n + i \in 1 .. Len(I) /\ I[n + i].call # None
      BY <1>2
    <3> QED
      BY <1>1, <3>1 DEF Expected
  <2>2. i - 1 \in 0 .. Len(J) /\ n + i - 1 = n + (i - 1)
    BY <1>1
  <2> QED
    BY <1>2, <1>3, <2>1, <2>2
<1>5. Paired(J)
  BY <1>1, <1>2 DEF Paired
<1>6. Unanswered(J, Q, U)
  BY <1>2 DEF Unanswered
<1>7. \A l : Answered(I, Len(I), l) => Answered(J, Len(J), l)
  <2>1. Len(J) \in 0 .. Len(J) /\ Len(I) = n + Len(J)
    BY <1>1
  <2> QED
    BY <1>3, <2>1
<1> QED
  BY <1>4, <1>5, <1>6, <1>7 DEF InOrder, AllUnderWay

\* Notices are handled inline: whoever is owed what does not change.
LEMMA DropNotices ==
  ASSUME NEW I \in Seq(Messages), NEW J \in Seq(Messages), NEW n, Drops(J, I, n),
         \A i \in 1 .. n : I[i].kind = "notice",
         NEW Q, NEW U, NEW p, NEW v, NEW e, WireOK(I, Q, U, p, v, e)
  PROVE  /\ WireOK(J, Q, U, p, v, e)
         /\ AllUnderWay(I, Q, U) => AllUnderWay(J, Q, U)
<1>1. Len(I) \in Nat /\ Len(J) \in Nat /\ Len(J) = Len(I) - n /\ n \in Nat
  BY LenProperties DEF Drops
<1>2. \A i \in 1 .. Len(J) : J[i] = I[n + i] /\ n + i \in 1 .. Len(I)
  BY <1>1 DEF Drops
<1>3. \A i \in 1 .. n : I[i].kind # "ready"
  OBVIOUS
<1>4. Kinds(J, p)
  BY <1>1, <1>2 DEF WireOK, Kinds
<1>5. Verdicts(J, v, e)
  <2> SUFFICES ASSUME NEW i \in 1 .. Len(J), NEW k \in Calls
               PROVE  /\ J[i] = Msg("error", k) => v[k] = "error"
                      /\ J[i] = Msg("ready", k) =>
                           /\ v[k] \in {"ok", "error"}
                           /\ k \in e => v[k] = "error"
                           /\ v[k] = "error" =>
                                k \in e \/ \E j \in 1 .. i - 1 : J[j] = Msg("error", k)
    BY DEF Verdicts
  <2>1. Verdicts(I, v, e) /\ n + i \in 1 .. Len(I) /\ J[i] = I[n + i]
    BY <1>2 DEF WireOK
  <2>2. ASSUME NEW j \in 1 .. n + i - 1, I[j] = Msg("error", k)
        PROVE  \E m \in 1 .. i - 1 : J[m] = Msg("error", k)
    <3>1. I[j].kind = "error"
      BY <2>2 DEF Msg
    <3>2. j > n
      BY <1>1, <3>1
    <3>3. j - n \in 1 .. i - 1 /\ j - n \in 1 .. Len(J) /\ n + (j - n) = j
      BY <1>1, <3>2
    <3> QED
      BY <1>2, <2>2, <3>3
  <2>3. /\ I[n + i] = Msg("error", k) => v[k] = "error"
        /\ I[n + i] = Msg("ready", k) =>
             /\ v[k] \in {"ok", "error"}
             /\ k \in e => v[k] = "error"
             /\ v[k] = "error" =>
                  k \in e \/ \E j \in 1 .. n + i - 1 : I[j] = Msg("error", k)
    BY <1>1, <2>1 DEF Verdicts
  <2> QED
    BY <2>1, <2>2, <2>3
<1> QED
  BY <1>3, <1>4, <1>5, DropOrder DEF WireOK

\* What the client consumes next answers the call that consumes it, or nobody;
\* the end of a reply always answers a call.
LEMMA HeadMatches ==
  ASSUME NEW I \in Seq(Messages), Len(I) > 0, NEW Q \in Seq(Calls),
         Expected(I, Q), I[1].call # None
  PROVE  Q # <<>> /\ I[1].call = Q[1]
<1>1. 1 \in 1 .. Len(I)
  BY LenProperties
<1>2. I[1].call \in Range(Q)
  BY <1>1 DEF Expected
<1>3. Len(Q) \in Nat /\ \E i \in 1 .. Len(Q) : I[1].call = Q[i]
  BY <1>2, RangeByIndex, LenProperties
<1>4. 1 \in 1 .. Len(Q) /\ Q[1] \in Calls
  BY <1>3, ElementOfSeq
<1>5. ~Answered(I, 1 - 1, Q[1])
  BY DEF Answered
<1>6. ~Before(Q, Q[1], I[1].call)
  BY <1>1, <1>4, <1>5 DEF Expected
<1> QED
  BY <1>2, <1>3, <1>4, <1>6, BeforeHead

\* A message in the middle of a reply, or the error of a shutdown, is consumed
\* by the first call that waits: it fails if the message is an error.
LEMMA ConsumePart ==
  ASSUME NEW I \in Seq(Messages), NEW J \in Seq(Messages), Drops(J, I, 1),
         I[1].kind \in {"data", "error"},
         NEW Q \in Seq(Calls), Q # <<>>, NEW U, NEW p, NEW v, NEW e,
         WireOK(I, Q, U, p, v, e),
         NEW f, f = IF I[1].kind = "error" THEN e \cup {Q[1]} ELSE e
  PROVE  /\ WireOK(J, Q, U, p, v, f)
         /\ AllUnderWay(I, Q, U) => AllUnderWay(J, Q, U)
         /\ I[1].call \in {None, Q[1]}
<1>1. Len(I) \in Nat /\ Len(J) \in Nat /\ Len(J) = Len(I) - 1 /\ 1 \in 1 .. Len(I)
  BY LenProperties DEF Drops
<1>2. \A i \in 1 .. Len(J) : J[i] = I[1 + i] /\ 1 + i \in 1 .. Len(I)
  BY <1>1 DEF Drops
<1>3. \A i \in 1 .. 1 : I[i].kind # "ready"
  OBVIOUS
<1>4. I[1].call \in {None, Q[1]}
  BY <1>1, HeadMatches DEF WireOK
<1>5. Kinds(J, p)
  <2>1. \A i \in 1 .. Len(J) : 1 + i = Len(I) => i = Len(J)
    BY <1>1
  <2> QED
    BY <1>1, <1>2, <2>1 DEF WireOK, Kinds
<1>6. ASSUME I[1].kind = "error", I[1].call = None PROVE Len(J) = 0 /\ p # "up"
  BY <1>1, <1>6 DEF WireOK, Kinds
<1>7. ASSUME I[1].kind = "error", I[1].call # None
      PROVE  I[1] = Msg("error", Q[1]) /\ Q[1] \in Calls
  <2>1. I[1] \in Messages
    BY <1>1, ElementOfSeq
  <2> QED
    BY <1>4, <1>7, <2>1 DEF Messages, Msg
<1>8. Verdicts(J, v, f)
  <2> SUFFICES ASSUME NEW i \in 1 .. Len(J), NEW k \in Calls
               PROVE  /\ J[i] = Msg("error", k) => v[k] = "error"
                      /\ J[i] = Msg("ready", k) =>
                           /\ v[k] \in {"ok", "error"}
                           /\ k \in f => v[k] = "error"
                           /\ v[k] = "error" =>
                                k \in f \/ \E j \in 1 .. i - 1 : J[j] = Msg("error", k)
    BY DEF Verdicts
  <2>1. Verdicts(I, v, e) /\ 1 + i \in 1 .. Len(I) /\ J[i] = I[1 + i]
    BY <1>2 DEF WireOK
  <2>2. /\ I[1 + i] = Msg("error", k) => v[k] = "error"
        /\ I[1 + i] = Msg("ready", k) =>
             /\ v[k] \in {"ok", "error"}
             /\ k \in e => v[k] = "error"
             /\ v[k] = "error" =>
                  k \in e \/ \E j \in 1 .. 1 + i - 1 : I[j] = Msg("error", k)
    BY <2>1 DEF Verdicts
  <2>3. k \in f /\ k \notin e => I[1] = Msg("error", k) /\ v[k] = "error"
    <3>1. k \in f /\ k \notin e => I[1].kind = "error" /\ k = Q[1]
      OBVIOUS
    <3>2. I[1].kind = "error" => I[1].call # None
      BY <1>1, <1>6
    <3>3. I[1] = Msg("error", k) => v[k] = "error"
      BY <1>1, <2>1 DEF Verdicts
    <3> QED
      BY <1>7, <3>1, <3>2, <3>3
  <2>4. ASSUME NEW j \in 1 .. 1 + i - 1, I[j] = Msg("error", k)
        PROVE  k \in f \/ \E m \in 1 .. i - 1 : J[m] = Msg("error", k)
    <3>1. CASE j = 1
      <4>1. I[1].kind = "error" /\ I[1].call = k
        BY <2>4, <3>1 DEF Msg
      <4>2. k = Q[1]
        BY <1>4, <4>1, ConnectionAssumption
      <4> QED
        BY <4>1, <4>2
    <3>2. CASE j # 1
      <4>1. j - 1 \in 1 .. i - 1 /\ j - 1 \in 1 .. Len(J) /\ 1 + (j - 1) = j
        BY <1>1, <3>2
      <4> QED
        BY <1>2, <2>4, <4>1
    <3> QED
      BY <3>1, <3>2
  <2>5. e \subseteq f
    OBVIOUS
  <2> QED
    BY <2>1, <2>2, <2>3, <2>4, <2>5
<1>9. p = "up" => Unfailed(U, f)
  <2> SUFFICES ASSUME p = "up", NEW i \in 1 .. Len(U) PROVE U[i] \notin f
    BY DEF Unfailed
  <2>1. U[i] \notin e
    BY DEF WireOK, Unfailed
  <2>2. ASSUME I[1].kind = "error" PROVE U[i] # Q[1]
    <3>1. I[1].call = Q[1] /\ Q[1] \in Calls
      BY <1>4, <1>6, <1>7, <2>2
    <3> QED
      BY <1>1, <3>1, ConnectionAssumption DEF WireOK, Unanswered
  <2> QED
    BY <2>1, <2>2
<1> QED
  BY <1>3, <1>4, <1>5, <1>8, <1>9, DropOrder DEF WireOK

\* The end of a reply settles the first call that waits, as the server answered
\* it, and the call leaves the queue.
LEMMA ConsumeEnd ==
  ASSUME NEW I \in Seq(Messages), NEW J \in Seq(Messages), Drops(J, I, 1),
         I[1].kind = "ready",
         NEW Q \in Seq(Calls), IsInjective(Q),
         NEW U, NEW p, NEW v, NEW e, WireOK(I, Q, U, p, v, e)
  PROVE  /\ Q # <<>> /\ I[1].call = Q[1]
         /\ WireOK(J, Tail(Q), U, p, v, e)
         /\ AllUnderWay(I, Q, U) => AllUnderWay(J, Tail(Q), U)
         /\ v[Q[1]] = IF Q[1] \in e THEN "error" ELSE "ok"
<1>1. Len(I) \in Nat /\ Len(J) \in Nat /\ Len(J) = Len(I) - 1 /\ 1 \in 1 .. Len(I)
  BY LenProperties DEF Drops
<1>2. \A i \in 1 .. Len(J) : J[i] = I[1 + i] /\ 1 + i \in 1 .. Len(I)
  BY <1>1 DEF Drops
<1>3. I[1].call # None
  BY <1>1 DEF WireOK, Kinds
<1>4. Q # <<>> /\ I[1].call = Q[1]
  BY <1>1, <1>3, HeadMatches DEF WireOK
<1>5. Q[1] = Head(Q) /\ Q[1] \in Calls /\ Range(Tail(Q)) = Range(Q) \ {Q[1]}
  BY <1>4, TailDistinct, HeadTailProperties
<1>6. I[1] = Msg("ready", Q[1])
  <2>1. I[1] \in Messages
    BY <1>1, ElementOfSeq
  <2> QED
    BY <1>4, <2>1 DEF Messages, Msg
<1>7. \A i \in 1 .. Len(J) : J[i].call # Q[1]
  BY <1>1, <1>2, <1>3, <1>4 DEF WireOK, Paired
<1>8. ASSUME NEW m \in 0 .. Len(J), NEW l \in Calls, l # Q[1], Answered(I, 1 + m, l)
      PROVE  Answered(J, m, l)
  <2>1. PICK j \in 1 .. 1 + m : I[j] = Msg("ready", l)
    BY <1>8 DEF Answered
  <2>2. j # 1
    BY <1>4, <1>8, <2>1 DEF Msg
  <2>3. j - 1 \in 1 .. m /\ j - 1 \in 1 .. Len(J) /\ 1 + (j - 1) = j
    BY <1>1, <2>1, <2>2
  <2> QED
    BY <1>2, <2>1, <2>3 DEF Answered
<1>9. Expected(J, Tail(Q))
  <2> SUFFICES ASSUME NEW i \in 1 .. Len(J), J[i].call # None
               PROVE  /\ J[i].call \in Range(Tail(Q))
                      /\ \A l \in Calls : Before(Tail(Q), l, J[i].call) => Answered(J, i - 1, l)
    BY DEF Expected
  <2>1. 1 + i \in 1 .. Len(I) /\ J[i] = I[1 + i] /\ J[i].call # Q[1]
    BY <1>2, <1>7
  <2>2. /\ I[1 + i].call \in Range(Q)
        /\ \A l \in Calls : Before(Q, l, I[1 + i].call) => Answered(I, 1 + i - 1, l)
    BY <2>1 DEF WireOK, Expected
  <2>3. ASSUME NEW l \in Calls, Before(Tail(Q), l, J[i].call) PROVE Answered(J, i - 1, l)
    <3>1. Before(Q, l, J[i].call) /\ l # Q[1]
      BY <1>4, <1>5, <2>3, BeforeTail, BeforeRange, HeadTailProperties
    <3>2. Answered(I, 1 + (i - 1), l) /\ i - 1 \in 0 .. Len(J)
      BY <1>1, <2>1, <2>2, <3>1
    <3> QED
      BY <1>8, <3>1, <3>2
  <2> QED
    BY <1>5, <2>1, <2>2, <2>3
<1>10. Paired(J)
  BY <1>1, <1>2 DEF WireOK, Paired
<1>11. Kinds(J, p)
  BY <1>1, <1>2 DEF WireOK, Kinds
<1>12. Verdicts(J, v, e)
  <2> SUFFICES ASSUME NEW i \in 1 .. Len(J), NEW k \in Calls
               PROVE  /\ J[i] = Msg("error", k) => v[k] = "error"
                      /\ J[i] = Msg("ready", k) =>
                           /\ v[k] \in {"ok", "error"}
                           /\ k \in e => v[k] = "error"
                           /\ v[k] = "error" =>
                                k \in e \/ \E j \in 1 .. i - 1 : J[j] = Msg("error", k)
    BY DEF Verdicts
  <2>1. Verdicts(I, v, e) /\ 1 + i \in 1 .. Len(I) /\ J[i] = I[1 + i]
    BY <1>2 DEF WireOK
  <2>2. /\ I[1 + i] = Msg("error", k) => v[k] = "error"
        /\ I[1 + i] = Msg("ready", k) =>
             /\ v[k] \in {"ok", "error"}
             /\ k \in e => v[k] = "error"
             /\ v[k] = "error" =>
                  k \in e \/ \E j \in 1 .. 1 + i - 1 : I[j] = Msg("error", k)
    BY <2>1 DEF Verdicts
  <2>3. ASSUME NEW j \in 1 .. 1 + i - 1, I[j] = Msg("error", k)
        PROVE  \E m \in 1 .. i - 1 : J[m] = Msg("error", k)
    <3>1. j # 1
      BY <2>3 DEF Msg
    <3>2. j - 1 \in 1 .. i - 1 /\ j - 1 \in 1 .. Len(J) /\ 1 + (j - 1) = j
      BY <1>1, <3>1
    <3> QED
      BY <1>2, <2>3, <3>2
  <2> QED
    BY <2>1, <2>2, <2>3
<1>13. Unanswered(J, Tail(Q), U)
  BY <1>1, <1>2, <1>4, <1>5 DEF WireOK, Unanswered
<1>14. \A l \in Calls : l # Q[1] /\ Answered(I, Len(I), l) => Answered(J, Len(J), l)
  <2>1. Len(J) \in 0 .. Len(J) /\ Len(I) = 1 + Len(J)
    BY <1>1
  <2> QED
    BY <1>8, <2>1
<1>15. InOrder(I, Q, U) => InOrder(J, Tail(Q), U)
  <2> SUFFICES ASSUME InOrder(I, Q, U), NEW i \in 1 .. Len(U), U[i] # Terminate,
                      NEW l \in Calls, Before(Tail(Q), l, U[i])
               PROVE  (\E j \in 1 .. i - 1 : U[j] = l) \/ Answered(J, Len(J), l)
    BY DEF InOrder
  <2>1. Before(Q, l, U[i]) /\ l # Q[1]
    BY <1>4, <1>5, BeforeTail, BeforeRange, HeadTailProperties
  <2> QED
    BY <1>14, <2>1 DEF InOrder
<1>16. AllUnderWay(I, Q, U) => AllUnderWay(J, Tail(Q), U)
  <2>1. \A k \in Range(Q) : k \in Calls
    BY RangeByIndex, ElementOfSeq
  <2> QED
    BY <1>5, <1>14, <2>1 DEF AllUnderWay
<1>17. v[Q[1]] = IF Q[1] \in e THEN "error" ELSE "ok"
  <2>1. /\ v[Q[1]] \in {"ok", "error"}
        /\ Q[1] \in e => v[Q[1]] = "error"
        /\ v[Q[1]] = "error" => Q[1] \in e \/ \E j \in 1 .. 1 - 1 : I[j] = Msg("error", Q[1])
    BY <1>1, <1>5, <1>6 DEF WireOK, Verdicts
  <2> QED
    BY <2>1
<1> QED
  BY <1>4, <1>9, <1>10, <1>11, <1>12, <1>13, <1>15, <1>16, <1>17 DEF WireOK

-----------------------------------------------------------------------------
(* What the server does to the wire: it answers, it says more, it stops *)

\* J is I with n members more.
Extends(J, I, n) ==
  /\ Len(J) = Len(I) + n
  /\ \A i \in 1 .. Len(I) : J[i] = I[i]

\* The statement at the head of the wire is the next one owed an answer by the
\* server: every call before it has the end of its reply under way.
LEMMA HeadIsNext ==
  ASSUME NEW I \in Seq(Messages), NEW Q, NEW e, NEW v,
         NEW U \in Seq(Calls \cup {Terminate}), NEW V \in Seq(Calls \cup {Terminate}),
         Drops(V, U, 1), U[1] # Terminate, WireOK(I, Q, U, "up", v, e)
  PROVE  /\ U[1] \in Calls /\ U[1] \in Range(Q) /\ U[1] \notin e
         /\ \A j \in 1 .. Len(I) : I[j].call # U[1]
         /\ \A l \in Calls : Before(Q, l, U[1]) => Answered(I, Len(I), l)
         /\ Unanswered(I, Q, V) /\ Once(V) /\ Unfailed(V, e)
         /\ \A i \in 1 .. Len(V) : V[i] # U[1]
<1>1. /\ Len(U) \in Nat /\ Len(V) \in Nat /\ Len(V) = Len(U) - 1 /\ 1 \in 1 .. Len(U)
      /\ \A i \in 1 .. Len(V) : V[i] = U[1 + i] /\ 1 + i \in 1 .. Len(U)
  BY LenProperties DEF Drops
<1>2. U[1] \in Calls
  BY <1>1, ElementOfSeq
<1>3. \A l \in Calls : Before(Q, l, U[1]) => Answered(I, Len(I), l)
  BY <1>1 DEF WireOK, InOrder
<1>4. Unanswered(I, Q, V)
  BY <1>1 DEF WireOK, Unanswered
<1>5. Once(V) /\ Unfailed(V, e)
  BY <1>1 DEF WireOK, Once, Unfailed
<1>6. \A i \in 1 .. Len(V) : V[i] # U[1]
  BY <1>1 DEF WireOK, Once
<1> QED
  BY <1>1, <1>2, <1>3, <1>4, <1>5, <1>6 DEF WireOK, Unanswered, Unfailed

\* J is I and the reply to k.
Replies(J, I, k, how) ==
  /\ Extends(J, I, 2)
  /\ J[Len(I) + 1] = Msg(IF how = "ok" THEN "data" ELSE "error", k)
  /\ J[Len(I) + 2] = Msg("ready", k)

\* w is v and the verdict on k.
Ruled(w, v, k, how) == w[k] = how /\ \A c \in Calls \ {k} : w[c] = v[c]

\* The first of the statements U runs.
Runs(I, J, U, V, v, w, how) ==
  /\ I \in Seq(Messages) /\ J \in Seq(Messages)
  /\ U \in Seq(Calls \cup {Terminate}) /\ V \in Seq(Calls \cup {Terminate})
  /\ U[1] # Terminate /\ Drops(V, U, 1)
  /\ how \in {"ok", "error"}
  /\ Replies(J, I, U[1], how) /\ Ruled(w, v, U[1], how)

\* Its whole reply is sent, after everything sent before.
LEMMA ServerAnswers ==
  ASSUME NEW I, NEW J, NEW Q, NEW e, NEW U, NEW V, NEW v, NEW w, NEW how,
         Runs(I, J, U, V, v, w, how), WireOK(I, Q, U, "up", v, e)
  PROVE  /\ WireOK(J, Q, V, "up", w, e)
         /\ AllUnderWay(I, Q, U) => AllUnderWay(J, Q, V)
<1> USE DEF Runs
<1>0. /\ U[1] \in Calls /\ U[1] \in Range(Q) /\ U[1] \notin e
      /\ \A j \in 1 .. Len(I) : I[j].call # U[1]
      /\ \A l \in Calls : Before(Q, l, U[1]) => Answered(I, Len(I), l)
      /\ Unanswered(I, Q, V) /\ Once(V) /\ Unfailed(V, e)
      /\ \A i \in 1 .. Len(V) : V[i] # U[1]
  BY HeadIsNext
<1> DEFINE k == U[1]
           n == Len(I)
<1>1. /\ n \in Nat /\ Len(J) = n + 2
      /\ \A i \in 1 .. n : J[i] = I[i]
      /\ \A i \in 1 .. Len(J) : i \in 1 .. n \/ i = n + 1 \/ i = n + 2
  BY LenProperties DEF Replies, Extends
<1>2. /\ J[n + 1].call = k /\ J[n + 1].kind \in {"data", "error"}
      /\ J[n + 2].call = k /\ J[n + 2].kind = "ready"
      /\ J[n + 1].kind = "error" <=> how = "error"
  BY DEF Replies, Msg
<1>3. /\ k \in Calls /\ k \in Range(Q) /\ k \notin e
      /\ \A j \in 1 .. n : I[j].call # k
      /\ \A l \in Calls : Before(Q, l, k) => Answered(I, n, l)
      /\ Unanswered(I, Q, V) /\ Once(V) /\ Unfailed(V, e)
      /\ \A i \in 1 .. Len(V) : V[i] # k
  BY <1>0
<1>4. k # None
  BY <1>3, ConnectionAssumption
<1>5. ASSUME NEW m \in 0 .. n, NEW l, Answered(I, m, l) PROVE Answered(J, m, l)
  <2>1. PICK j \in 1 .. m : I[j] = Msg("ready", l)
    BY <1>5 DEF Answered
  <2>2. j \in 1 .. n
    BY <1>1
  <2> QED
    BY <1>1, <2>1, <2>2 DEF Answered
<1>6. \A l : Answered(I, n, l) => Answered(J, n, l) /\ Answered(J, n + 1, l) /\ Answered(J, n + 2, l)
  BY <1>1 DEF Answered
<1>7. Answered(J, n + 2, k)
  <2>1. n + 2 \in 1 .. n + 2
    BY <1>1
  <2> QED
    BY <2>1 DEF Replies, Answered
<1>15. w[k] = how /\ \A c \in Calls \ {k} : w[c] = v[c]
  BY DEF Ruled
<1> HIDE DEF k, n
<1>8. Expected(J, Q)
  <2> SUFFICES ASSUME NEW i \in 1 .. Len(J), J[i].call # None
               PROVE  /\ J[i].call \in Range(Q)
                      /\ \A l \in Calls : Before(Q, l, J[i].call) => Answered(J, i - 1, l)
    BY DEF Expected
  <2>1. CASE i \in 1 .. n
    <3>1. /\ I[i].call \in Range(Q)
          /\ \A l \in Calls : Before(Q, l, I[i].call) => Answered(I, i - 1, l)
      BY <1>1, <2>1 DEF WireOK, Expected, n
    <3>2. i - 1 \in 0 .. n
      BY <1>1, <2>1
    <3> QED
      BY <1>1, <1>5, <2>1, <3>1, <3>2
  <2>2. CASE i = n + 1
    <3>1. i - 1 = n
      BY <1>1, <2>2
    <3> QED
      BY <1>2, <1>3, <1>6, <2>2, <3>1
  <2>3. CASE i = n + 2
    <3>1. i - 1 = n + 1
      BY <1>1, <2>3
    <3> QED
      BY <1>2, <1>3, <1>6, <2>3, <3>1
  <2> QED
    BY <1>1, <2>1, <2>2, <2>3
<1>9. Paired(J)
  <2>1. Paired(I)
    BY DEF WireOK
  <2> SUFFICES ASSUME NEW i \in 1 .. Len(J), NEW j \in 1 .. Len(J), i < j,
                      J[i].call = J[j].call, J[i].call # None
               PROVE  J[i].kind \in {"data", "error"} /\ J[j].kind = "ready"
    BY DEF Paired
  <2>2. CASE j \in 1 .. n
    <3>1. i \in 1 .. n
      BY <1>1, <2>2
    <3> QED
      BY <1>1, <2>1, <2>2, <3>1 DEF Paired, n
  <2>3. CASE j \notin 1 .. n
    <3>1. J[j].call = k
      BY <1>1, <1>2, <2>3
    <3>2. i \notin 1 .. n
      BY <1>1, <1>3, <3>1 DEF n
    <3>3. i = n + 1 /\ j = n + 2
      BY <1>1, <2>3, <3>2
    <3> QED
      BY <1>2, <3>3
  <2> QED
    BY <2>2, <2>3
<1>10. Kinds(J, "up")
  <2>1. \A i \in 1 .. n : /\ I[i].call = None => I[i].kind = "notice"
                          /\ I[i].kind = "notice" => I[i].call = None
                          /\ I[i].kind # "copy"
    BY DEF WireOK, Kinds, n
  <2> QED
    BY <1>1, <1>2, <1>4, <2>1 DEF Kinds
<1>11. Verdicts(J, w, e)
  <2> SUFFICES ASSUME NEW i \in 1 .. Len(J), NEW c \in Calls
               PROVE  /\ J[i] = Msg("error", c) => w[c] = "error"
                      /\ J[i] = Msg("ready", c) =>
                           /\ w[c] \in {"ok", "error"}
                           /\ c \in e => w[c] = "error"
                           /\ w[c] = "error" =>
                                c \in e \/ \E j \in 1 .. i - 1 : J[j] = Msg("error", c)
    BY DEF Verdicts
  <2>1. CASE i \in 1 .. n
    <3>1. /\ I[i] = Msg("error", c) => v[c] = "error"
          /\ I[i] = Msg("ready", c) =>
               /\ v[c] \in {"ok", "error"}
               /\ c \in e => v[c] = "error"
               /\ v[c] = "error" => c \in e \/ \E j \in 1 .. i - 1 : I[j] = Msg("error", c)
      BY <2>1 DEF WireOK, Verdicts, n
    <3>2. (\E j \in 1 .. i - 1 : I[j] = Msg("error", c)) =>
            \E j \in 1 .. i - 1 : J[j] = Msg("error", c)
      BY <1>1, <2>1
    <3>3. I[i].call = c => w[c] = v[c]
      BY <1>3, <1>15, <2>1
    <3>4. \A kind : I[i] = Msg(kind, c) => I[i].call = c
      BY DEF Msg
    <3> QED
      BY <1>1, <2>1, <3>1, <3>2, <3>3, <3>4
  <2>2. CASE i = n + 1
    <3>1. J[i] = Msg("error", c) => w[c] = "error"
      <4>1. J[i] = Msg("error", c) => c = k /\ how = "error"
        BY <1>2, <2>2 DEF Msg
      <4> QED
        BY <1>15, <4>1
    <3>2. J[i] # Msg("ready", c)
      BY <1>2, <2>2 DEF Msg
    <3> QED
      BY <3>1, <3>2
  <2>3. CASE i = n + 2
    <3>1. J[i] # Msg("error", c)
      BY <1>2, <2>3 DEF Msg
    <3>2. ASSUME J[i] = Msg("ready", c)
          PROVE  /\ w[c] \in {"ok", "error"} /\ c \notin e
                 /\ w[c] = "error" => \E j \in 1 .. i - 1 : J[j] = Msg("error", c)
      <4>1. c = k /\ w[c] = how
        BY <1>2, <1>15, <2>3, <3>2 DEF Msg
      <4>2. how = "error" => J[n + 1] = Msg("error", k)
        BY DEF Replies, n, k
      <4>3. n + 1 \in 1 .. i - 1
        BY <1>1, <2>3
      <4> QED
        BY <1>3, <4>1, <4>2, <4>3
    <3> QED
      BY <3>1, <3>2
  <2> QED
    BY <1>1, <2>1, <2>2, <2>3
<1>12. Unanswered(J, Q, V)
  <2> SUFFICES ASSUME NEW i \in 1 .. Len(V), V[i] # Terminate
               PROVE  V[i] \in Range(Q) /\ \A j \in 1 .. Len(J) : J[j].call # V[i]
    BY DEF Unanswered
  <2>1. V[i] \in Range(Q) /\ \A j \in 1 .. n : I[j].call # V[i]
    BY <1>3 DEF Unanswered, n
  <2> QED
    BY <1>1, <1>2, <1>3, <2>1
<1>13. InOrder(J, Q, V)
  <2> SUFFICES ASSUME NEW i \in 1 .. Len(V), V[i] # Terminate,
                      NEW l \in Calls, Before(Q, l, V[i])
               PROVE  (\E j \in 1 .. i - 1 : V[j] = l) \/ Answered(J, Len(J), l)
    BY DEF InOrder
  <2>0. /\ Len(U) \in Nat /\ Len(V) = Len(U) - 1
        /\ \A j \in 1 .. Len(V) : V[j] = U[1 + j] /\ 1 + j \in 1 .. Len(U)
    BY LenProperties DEF Drops
  <2>1. (\E j \in 1 .. 1 + i - 1 : U[j] = l) \/ Answered(I, n, l)
    <3>1. InOrder(I, Q, U)
      BY DEF WireOK
    <3>2. 1 + i \in 1 .. Len(U) /\ U[1 + i] # Terminate /\ Before(Q, l, U[1 + i])
      BY <2>0
    <3> QED
      BY <3>1, <3>2 DEF InOrder, n
  <2>2. ASSUME NEW j \in 1 .. 1 + i - 1, U[j] = l
        PROVE  (\E m \in 1 .. i - 1 : V[m] = l) \/ l = k
    <3>1. CASE j = 1
      BY <2>2, <3>1 DEF k
    <3>2. CASE j # 1
      <4>1. j - 1 \in 1 .. i - 1 /\ j - 1 \in 1 .. Len(V) /\ 1 + (j - 1) = j
        BY <2>0, <3>2
      <4> QED
        BY <2>0, <2>2, <4>1
    <3> QED
      BY <3>1, <3>2
  <2> QED
    BY <1>1, <1>6, <1>7, <2>1, <2>2
<1>14. AllUnderWay(I, Q, U) => AllUnderWay(J, Q, V)
  <2> SUFFICES ASSUME AllUnderWay(I, Q, U), NEW c \in Range(Q)
               PROVE  (\E i \in 1 .. Len(V) : V[i] = c) \/ Answered(J, Len(J), c)
    BY DEF AllUnderWay
  <2>0. /\ Len(U) \in Nat /\ Len(V) = Len(U) - 1
        /\ \A j \in 1 .. Len(V) : V[j] = U[1 + j] /\ 1 + j \in 1 .. Len(U)
    BY LenProperties DEF Drops
  <2>1. (\E i \in 1 .. Len(U) : U[i] = c) \/ Answered(I, n, c)
    BY DEF AllUnderWay, n
  <2>2. ASSUME NEW j \in 1 .. Len(U), U[j] = c, c # k
        PROVE  \E i \in 1 .. Len(V) : V[i] = c
    <3>1. j # 1
      BY <2>2 DEF k
    <3>2. j - 1 \in 1 .. Len(V) /\ 1 + (j - 1) = j
      BY <2>0, <3>1
    <3> QED
      BY <2>0, <2>2, <3>2
  <2> QED
    BY <1>1, <1>6, <1>7, <2>1, <2>2
<1> QED
  BY <1>3, <1>8, <1>9, <1>10, <1>11, <1>12, <1>13, <1>14 DEF WireOK, k

\* A statement that is a COPY: its first message is the last the wire will see.
LEMMA CopyStarts ==
  ASSUME NEW I \in Seq(Messages), NEW J \in Seq(Messages), NEW Q, NEW e, NEW v,
         NEW U \in Seq(Calls \cup {Terminate}), NEW V \in Seq(Calls \cup {Terminate}),
         Drops(V, U, 1), U[1] # Terminate, WireOK(I, Q, U, "up", v, e),
         Extends(J, I, 1), J[Len(I) + 1] = Msg("copy", U[1])
  PROVE  WireOK(J, Q, V, "copying", v, e)
<1> DEFINE k == U[1]
           n == Len(I)
<1>1. /\ n \in Nat /\ Len(J) = n + 1
      /\ \A i \in 1 .. n : J[i] = I[i]
      /\ \A i \in 1 .. Len(J) : i \in 1 .. n \/ i = n + 1
  BY LenProperties DEF Extends
<1>2. J[n + 1].call = k /\ J[n + 1].kind = "copy"
  BY DEF Msg
<1>3. /\ k \in Calls /\ k \in Range(Q)
      /\ \A j \in 1 .. n : I[j].call # k
      /\ \A l \in Calls : Before(Q, l, k) => Answered(I, n, l)
      /\ Unanswered(I, Q, V)
      /\ \A i \in 1 .. Len(V) : V[i] # k
  BY HeadIsNext
<1>4. k # None
  BY <1>3, ConnectionAssumption
<1> HIDE DEF k, n
<1>5. ASSUME NEW m \in 0 .. n, NEW l, Answered(I, m, l) PROVE Answered(J, m, l)
  <2>1. PICK j \in 1 .. m : I[j] = Msg("ready", l)
    BY <1>5 DEF Answered
  <2>2. j \in 1 .. n
    BY <1>1
  <2> QED
    BY <1>1, <2>1, <2>2 DEF Answered
<1>6. Expected(J, Q)
  <2> SUFFICES ASSUME NEW i \in 1 .. Len(J), J[i].call # None
               PROVE  /\ J[i].call \in Range(Q)
                      /\ \A l \in Calls : Before(Q, l, J[i].call) => Answered(J, i - 1, l)
    BY DEF Expected
  <2>1. CASE i \in 1 .. n
    <3>1. /\ I[i].call \in Range(Q)
          /\ \A l \in Calls : Before(Q, l, I[i].call) => Answered(I, i - 1, l)
      BY <1>1, <2>1 DEF WireOK, Expected, n
    <3>2. i - 1 \in 0 .. n
      BY <1>1, <2>1
    <3> QED
      BY <1>1, <1>5, <2>1, <3>1, <3>2
  <2>2. CASE i = n + 1
    <3>1. i - 1 = n
      BY <1>1, <2>2
    <3>2. n \in 0 .. n
      BY <1>1
    <3> QED
      BY <1>2, <1>3, <1>5, <2>2, <3>1, <3>2
  <2> QED
    BY <1>1, <2>1, <2>2
<1>7. Paired(J)
  <2> SUFFICES ASSUME NEW i \in 1 .. Len(J), NEW j \in 1 .. Len(J), i < j,
                      J[i].call = J[j].call, J[i].call # None
               PROVE  J[i].kind \in {"data", "error"} /\ J[j].kind = "ready"
    BY DEF Paired
  <2>1. i \in 1 .. n
    BY <1>1
  <2>2. j \in 1 .. n
    BY <1>1, <1>2, <1>3, <2>1
  <2> QED
    BY <1>1, <2>1, <2>2 DEF WireOK, Paired, n
<1>8. Kinds(J, "copying")
  <2>1. \A i \in 1 .. n : /\ I[i].call = None => I[i].kind = "notice"
                          /\ I[i].kind = "notice" => I[i].call = None
                          /\ I[i].kind # "copy"
    BY DEF WireOK, Kinds, n
  <2> QED
    BY <1>1, <1>2, <1>4, <2>1 DEF Kinds
<1>9. Verdicts(J, v, e)
  <2> SUFFICES ASSUME NEW i \in 1 .. Len(J), NEW c \in Calls
               PROVE  /\ J[i] = Msg("error", c) => v[c] = "error"
                      /\ J[i] = Msg("ready", c) =>
                           /\ v[c] \in {"ok", "error"}
                           /\ c \in e => v[c] = "error"
                           /\ v[c] = "error" =>
                                c \in e \/ \E j \in 1 .. i - 1 : J[j] = Msg("error", c)
    BY DEF Verdicts
  <2>1. CASE i \in 1 .. n
    <3>1. (\E j \in 1 .. i - 1 : I[j] = Msg("error", c)) =>
            \E j \in 1 .. i - 1 : J[j] = Msg("error", c)
      <4>1. \A j \in 1 .. i - 1 : J[j] = I[j]
        BY <1>1, <2>1
      <4> QED
        BY <4>1
    <3> QED
      BY <1>1, <2>1, <3>1 DEF WireOK, Verdicts, n
  <2>2. CASE i = n + 1
    BY <1>2, <2>2 DEF Msg
  <2> QED
    BY <1>1, <2>1, <2>2
<1>10. Unanswered(J, Q, V)
  BY <1>1, <1>2, <1>3 DEF Unanswered, n
<1> QED
  BY <1>6, <1>7, <1>8, <1>9, <1>10 DEF WireOK

\* A notice, parameter change or notification gets in anywhere.
LEMMA NoticeSent ==
  ASSUME NEW I \in Seq(Messages), NEW J \in Seq(Messages), NEW Q, NEW e, NEW v, NEW U,
         WireOK(I, Q, U, "up", v, e), None \notin Range(Q),
         Extends(J, I, 1), J[Len(I) + 1] = Msg("notice", None)
  PROVE  /\ WireOK(J, Q, U, "up", v, e)
         /\ AllUnderWay(I, Q, U) => AllUnderWay(J, Q, U)
<1> DEFINE n == Len(I)
<1>1. /\ n \in Nat /\ Len(J) = n + 1
      /\ \A i \in 1 .. n : J[i] = I[i]
      /\ \A i \in 1 .. Len(J) : i \in 1 .. n \/ i = n + 1
  BY LenProperties DEF Extends
<1>2. J[n + 1].call = None /\ J[n + 1].kind = "notice"
  BY DEF Msg
<1> HIDE DEF n
<1>3. ASSUME NEW m \in 0 .. n, NEW l, Answered(I, m, l) PROVE Answered(J, m, l)
  <2>1. PICK j \in 1 .. m : I[j] = Msg("ready", l)
    BY <1>3 DEF Answered
  <2>2. j \in 1 .. n
    BY <1>1
  <2> QED
    BY <1>1, <2>1, <2>2 DEF Answered
<1>4. \A l : Answered(I, n, l) => Answered(J, Len(J), l)
  <2> SUFFICES ASSUME NEW l, Answered(I, n, l) PROVE Answered(J, n + 1, l)
    BY <1>1
  <2>1. PICK j \in 1 .. n : I[j] = Msg("ready", l)
    BY DEF Answered
  <2>2. j \in 1 .. n + 1 /\ J[j] = Msg("ready", l)
    BY <1>1, <2>1
  <2> QED
    BY <2>2 DEF Answered
<1>5. Expected(J, Q)
  <2> SUFFICES ASSUME NEW i \in 1 .. Len(J), J[i].call # None
               PROVE  /\ J[i].call \in Range(Q)
                      /\ \A l \in Calls : Before(Q, l, J[i].call) => Answered(J, i - 1, l)
    BY DEF Expected
  <2>1. i \in 1 .. n
    BY <1>1, <1>2
  <2>2. /\ I[i].call \in Range(Q)
        /\ \A l \in Calls : Before(Q, l, I[i].call) => Answered(I, i - 1, l)
    BY <1>1, <2>1 DEF WireOK, Expected, n
  <2>3. i - 1 \in 0 .. n
    BY <1>1, <2>1
  <2> QED
    BY <1>1, <1>3, <2>1, <2>2, <2>3
<1>6. Paired(J)
  <2> SUFFICES ASSUME NEW i \in 1 .. Len(J), NEW j \in 1 .. Len(J), i < j,
                      J[i].call = J[j].call, J[i].call # None
               PROVE  J[i].kind \in {"data", "error"} /\ J[j].kind = "ready"
    BY DEF Paired
  <2>1. i \in 1 .. n /\ j \in 1 .. n
    BY <1>1, <1>2
  <2> QED
    BY <1>1, <2>1 DEF WireOK, Paired, n
<1>7. Kinds(J, "up")
  <2>1. \A i \in 1 .. n : /\ I[i].call = None => I[i].kind = "notice"
                          /\ I[i].kind = "notice" => I[i].call = None
                          /\ I[i].kind # "copy"
    BY DEF WireOK, Kinds, n
  <2> QED
    BY <1>1, <1>2, <2>1 DEF Kinds
<1>8. Verdicts(J, v, e)
  <2> SUFFICES ASSUME NEW i \in 1 .. Len(J), NEW c \in Calls
               PROVE  /\ J[i] = Msg("error", c) => v[c] = "error"
                      /\ J[i] = Msg("ready", c) =>
                           /\ v[c] \in {"ok", "error"}
                           /\ c \in e => v[c] = "error"
                           /\ v[c] = "error" =>
                                c \in e \/ \E j \in 1 .. i - 1 : J[j] = Msg("error", c)
    BY DEF Verdicts
  <2>1. CASE i \in 1 .. n
    <3>1. (\E j \in 1 .. i - 1 : I[j] = Msg("error", c)) =>
            \E j \in 1 .. i - 1 : J[j] = Msg("error", c)
      BY <1>1, <2>1
    <3> QED
      BY <1>1, <2>1, <3>1 DEF WireOK, Verdicts, n
  <2>2. CASE i = n + 1
    BY <1>2, <2>2 DEF Msg
  <2> QED
    BY <1>1, <2>1, <2>2
<1>9. Unanswered(J, Q, U)
  <2> SUFFICES ASSUME NEW i \in 1 .. Len(U), U[i] # Terminate
               PROVE  U[i] \in Range(Q) /\ \A j \in 1 .. Len(J) : J[j].call # U[i]
    BY DEF Unanswered
  <2>1. U[i] \in Range(Q) /\ \A j \in 1 .. n : I[j].call # U[i]
    BY DEF WireOK, Unanswered, n
  <2>2. U[i] # None
    BY <2>1
  <2> QED
    BY <1>1, <1>2, <2>1, <2>2
<1>10. InOrder(I, Q, U) => InOrder(J, Q, U)
  BY <1>4 DEF InOrder, n
<1>11. AllUnderWay(I, Q, U) => AllUnderWay(J, Q, U)
  BY <1>4 DEF AllUnderWay, n
<1> QED
  BY <1>5, <1>6, <1>7, <1>8, <1>9, <1>10, <1>11 DEF WireOK

\* The server goes away: some of what it sent is lost, from the end, and what
\* it had not executed is gone.
Cuts(J, I) ==
  /\ Len(J) \in 0 .. Len(I)
  /\ \A i \in 1 .. Len(J) : J[i] = I[i]

\* No frame but Terminate is in V and not in U.
NoFrameNew(V, U) ==
  \A i \in 1 .. Len(V) : V[i] = Terminate \/ \E j \in 1 .. Len(U) : V[i] = U[j]

LEMMA CutShort ==
  ASSUME NEW I \in Seq(Messages), NEW J \in Seq(Messages), NEW Q, NEW e, NEW v,
         NEW U, NEW V, NoFrameNew(V, U), WireOK(I, Q, U, "up", v, e), Cuts(J, I)
  PROVE  /\ WireOK(J, Q, V, "crashed", v, e)
         /\ \A i \in 1 .. Len(J) : J[i].call = None => J[i].kind = "notice"
<1>1. /\ Len(I) \in Nat /\ Len(J) \in Nat
      /\ \A i \in 1 .. Len(J) : J[i] = I[i] /\ i \in 1 .. Len(I)
  BY LenProperties DEF Cuts
<1>2. ASSUME NEW m \in 0 .. Len(J), NEW l, Answered(I, m, l) PROVE Answered(J, m, l)
  <2>1. PICK j \in 1 .. m : I[j] = Msg("ready", l)
    BY <1>2 DEF Answered
  <2>2. j \in 1 .. Len(J)
    BY <1>1
  <2> QED
    BY <1>1, <2>1, <2>2 DEF Answered
<1>3. Expected(J, Q)
  <2> SUFFICES ASSUME NEW i \in 1 .. Len(J), J[i].call # None
               PROVE  /\ J[i].call \in Range(Q)
                      /\ \A l \in Calls : Before(Q, l, J[i].call) => Answered(J, i - 1, l)
    BY DEF Expected
  <2>1. /\ I[i].call \in Range(Q)
        /\ \A l \in Calls : Before(Q, l, I[i].call) => Answered(I, i - 1, l)
    BY <1>1 DEF WireOK, Expected
  <2>2. i - 1 \in 0 .. Len(J)
    BY <1>1
  <2> QED
    BY <1>1, <1>2, <2>1, <2>2
<1>4. Paired(J)
  BY <1>1 DEF WireOK, Paired
<1>5. \A i \in 1 .. Len(J) : /\ J[i].call = None => J[i].kind = "notice"
                             /\ J[i].kind = "notice" => J[i].call = None
                             /\ J[i].kind # "copy"
  BY <1>1 DEF WireOK, Kinds
<1>6. Kinds(J, "crashed")
  BY <1>5 DEF Kinds
<1>7. Verdicts(J, v, e)
  <2> SUFFICES ASSUME NEW i \in 1 .. Len(J), NEW c \in Calls
               PROVE  /\ J[i] = Msg("error", c) => v[c] = "error"
                      /\ J[i] = Msg("ready", c) =>
                           /\ v[c] \in {"ok", "error"}
                           /\ c \in e => v[c] = "error"
                           /\ v[c] = "error" =>
                                c \in e \/ \E j \in 1 .. i - 1 : J[j] = Msg("error", c)
    BY DEF Verdicts
  <2>1. (\E j \in 1 .. i - 1 : I[j] = Msg("error", c)) =>
          \E j \in 1 .. i - 1 : J[j] = Msg("error", c)
    BY <1>1
  <2> QED
    BY <1>1, <2>1 DEF WireOK, Verdicts
<1>8. Unanswered(J, Q, V)
  BY <1>1 DEF WireOK, Unanswered, NoFrameNew
<1> QED
  BY <1>3, <1>4, <1>5, <1>6, <1>7, <1>8 DEF WireOK

\* ... with or without an error that says so, to whoever waits.
LEMMA LastWords ==
  ASSUME NEW I \in Seq(Messages), NEW J \in Seq(Messages), NEW Q, NEW e, NEW v, NEW U,
         WireOK(I, Q, U, "crashed", v, e),
         \A i \in 1 .. Len(I) : I[i].call = None => I[i].kind = "notice",
         Extends(J, I, 1), J[Len(I) + 1] = Msg("error", None), None \notin Range(Q)
  PROVE  WireOK(J, Q, U, "crashed", v, e)
<1> DEFINE n == Len(I)
<1>1. /\ n \in Nat /\ Len(J) = n + 1
      /\ \A i \in 1 .. n : J[i] = I[i]
      /\ \A i \in 1 .. Len(J) : i \in 1 .. n \/ i = n + 1
  BY LenProperties DEF Extends
<1>2. J[n + 1].call = None /\ J[n + 1].kind = "error"
  BY DEF Msg
<1> HIDE DEF n
<1>3. ASSUME NEW m \in 0 .. n, NEW l, Answered(I, m, l) PROVE Answered(J, m, l)
  <2>1. PICK j \in 1 .. m : I[j] = Msg("ready", l)
    BY <1>3 DEF Answered
  <2>2. j \in 1 .. n
    BY <1>1
  <2> QED
    BY <1>1, <2>1, <2>2 DEF Answered
<1>4. Expected(J, Q)
  <2> SUFFICES ASSUME NEW i \in 1 .. Len(J), J[i].call # None
               PROVE  /\ J[i].call \in Range(Q)
                      /\ \A l \in Calls : Before(Q, l, J[i].call) => Answered(J, i - 1, l)
    BY DEF Expected
  <2>1. i \in 1 .. n
    BY <1>1, <1>2
  <2>2. /\ I[i].call \in Range(Q)
        /\ \A l \in Calls : Before(Q, l, I[i].call) => Answered(I, i - 1, l)
    BY <1>1, <2>1 DEF WireOK, Expected, n
  <2>3. i - 1 \in 0 .. n
    BY <1>1, <2>1
  <2> QED
    BY <1>1, <1>3, <2>1, <2>2, <2>3
<1>5. Paired(J)
  <2> SUFFICES ASSUME NEW i \in 1 .. Len(J), NEW j \in 1 .. Len(J), i < j,
                      J[i].call = J[j].call, J[i].call # None
               PROVE  J[i].kind \in {"data", "error"} /\ J[j].kind = "ready"
    BY DEF Paired
  <2>1. i \in 1 .. n /\ j \in 1 .. n
    BY <1>1, <1>2
  <2> QED
    BY <1>1, <2>1 DEF WireOK, Paired, n
<1>6. Kinds(J, "crashed")
  <2>1. \A i \in 1 .. n : /\ I[i].call = None => I[i].kind = "notice"
                          /\ I[i].kind = "notice" => I[i].call = None
    BY DEF WireOK, Kinds, n
  <2> QED
    BY <1>1, <1>2, <2>1 DEF Kinds
<1>7. Verdicts(J, v, e)
  <2> SUFFICES ASSUME NEW i \in 1 .. Len(J), NEW c \in Calls
               PROVE  /\ J[i] = Msg("error", c) => v[c] = "error"
                      /\ J[i] = Msg("ready", c) =>
                           /\ v[c] \in {"ok", "error"}
                           /\ c \in e => v[c] = "error"
                           /\ v[c] = "error" =>
                                c \in e \/ \E j \in 1 .. i - 1 : J[j] = Msg("error", c)
    BY DEF Verdicts
  <2>1. CASE i \in 1 .. n
    <3>1. (\E j \in 1 .. i - 1 : I[j] = Msg("error", c)) =>
            \E j \in 1 .. i - 1 : J[j] = Msg("error", c)
      BY <1>1, <2>1
    <3> QED
      BY <1>1, <2>1, <3>1 DEF WireOK, Verdicts, n
  <2>2. CASE i = n + 1
    BY <1>2, <2>2, ConnectionAssumption DEF Msg
  <2> QED
    BY <1>1, <2>1, <2>2
<1>8. Unanswered(J, Q, U)
  <2> SUFFICES ASSUME NEW i \in 1 .. Len(U), U[i] # Terminate
               PROVE  U[i] \in Range(Q) /\ \A j \in 1 .. Len(J) : J[j].call # U[i]
    BY DEF Unanswered
  <2>1. U[i] \in Range(Q) /\ \A j \in 1 .. n : I[j].call # U[i]
    BY DEF WireOK, Unanswered, n
  <2> QED
    BY <1>1, <1>2, <2>1
<1> QED
  BY <1>4, <1>5, <1>6, <1>7, <1>8 DEF WireOK

-----------------------------------------------------------------------------
(* What a write does to the wire, and a new call *)

\* A server that has closed, or is copying, executes no frame: which of them
\* are on the way no longer matters, as long as they are no others.
LEMMA UpstreamCut ==
  ASSUME NEW I \in Seq(Messages), NEW Q, NEW e, NEW v, NEW U, NEW V, NoFrameNew(V, U),
         NEW p, NEW q, WireOK(I, Q, U, p, v, e), p \in {"up", q}, q # "up"
  PROVE  WireOK(I, Q, V, q, v, e)
<1>1. Kinds(I, q)
  BY DEF WireOK, Kinds
<1>2. Unanswered(I, Q, V)
  BY DEF WireOK, Unanswered, NoFrameNew
<1> QED
  BY <1>1, <1>2 DEF WireOK

\* Frames that are dropped before they were written are the last ones.
LEMMA FramesDropped ==
  ASSUME NEW I \in Seq(Messages), NEW Q, NEW e, NEW v, NEW p,
         NEW U \in Seq(Calls \cup {Terminate}), NEW V \in Seq(Calls \cup {Terminate}),
         Cuts(V, U), WireOK(I, Q, U, p, v, e)
  PROVE  WireOK(I, Q, V, p, v, e)
<1>1. /\ Len(U) \in Nat /\ Len(V) \in Nat
      /\ \A i \in 1 .. Len(V) : V[i] = U[i] /\ i \in 1 .. Len(U)
  BY LenProperties DEF Cuts
<1>2. Unanswered(I, Q, V)
  BY <1>1 DEF WireOK, Unanswered
<1>3. InOrder(I, Q, U) => InOrder(I, Q, V)
  <2> SUFFICES ASSUME InOrder(I, Q, U), NEW i \in 1 .. Len(V), V[i] # Terminate,
                      NEW l \in Calls, Before(Q, l, V[i])
               PROVE  (\E j \in 1 .. i - 1 : V[j] = l) \/ Answered(I, Len(I), l)
    BY DEF InOrder
  <2>1. (\E j \in 1 .. i - 1 : U[j] = l) \/ Answered(I, Len(I), l)
    BY <1>1 DEF InOrder
  <2> QED
    BY <1>1, <2>1
<1>4. (Once(U) => Once(V)) /\ (Unfailed(U, e) => Unfailed(V, e))
  BY <1>1 DEF Once, Unfailed
<1> QED
  BY <1>2, <1>3, <1>4 DEF WireOK

\* end() adds Terminate behind all frames.
LEMMA TerminateSent ==
  ASSUME NEW I \in Seq(Messages), NEW Q, NEW e, e \subseteq Calls, NEW v, NEW p,
         NEW U \in Seq(Calls \cup {Terminate}), NEW V \in Seq(Calls \cup {Terminate}),
         Extends(V, U, 1), V[Len(U) + 1] = Terminate, WireOK(I, Q, U, p, v, e)
  PROVE  WireOK(I, Q, V, p, v, e)
<1>1. /\ Len(U) \in Nat /\ Len(V) = Len(U) + 1
      /\ \A i \in 1 .. Len(U) : V[i] = U[i]
      /\ \A i \in 1 .. Len(V) : i \in 1 .. Len(U) \/ V[i] = Terminate
  BY LenProperties DEF Extends
<1>2. Terminate \notin e
  BY ConnectionAssumption
<1>3. Unanswered(I, Q, V)
  BY <1>1 DEF WireOK, Unanswered
<1>4. InOrder(I, Q, U) => InOrder(I, Q, V)
  <2> SUFFICES ASSUME InOrder(I, Q, U), NEW i \in 1 .. Len(V), V[i] # Terminate,
                      NEW l \in Calls, Before(Q, l, V[i])
               PROVE  (\E j \in 1 .. i - 1 : V[j] = l) \/ Answered(I, Len(I), l)
    BY DEF InOrder
  <2>1. i \in 1 .. Len(U)
    BY <1>1
  <2>2. (\E j \in 1 .. i - 1 : U[j] = l) \/ Answered(I, Len(I), l)
    BY <1>1, <2>1 DEF InOrder
  <2> QED
    BY <1>1, <2>1, <2>2
<1>5. Once(U) => Once(V)
  <2> SUFFICES ASSUME Once(U), NEW i \in 1 .. Len(V), NEW j \in 1 .. Len(V), i # j
               PROVE  V[i] # V[j] \/ V[i] = Terminate
    BY DEF Once
  <2>1. CASE i \in 1 .. Len(U) /\ j \in 1 .. Len(U)
    BY <1>1, <2>1 DEF Once
  <2>2. CASE ~(i \in 1 .. Len(U) /\ j \in 1 .. Len(U))
    BY <1>1, <2>2
  <2> QED
    BY <2>1, <2>2
<1>6. Unfailed(U, e) => Unfailed(V, e)
  BY <1>1, <1>2 DEF Unfailed
<1> QED
  BY <1>3, <1>4, <1>5, <1>6 DEF WireOK

\* A new call joins the calls that are owed an answer, at the end.
LEMMA CallJoins ==
  ASSUME NEW I \in Seq(Messages), NEW Q \in Seq(Calls), IsInjective(Q),
         NEW e, NEW v, NEW U, NEW p,
         NEW k \in Calls, k \notin Range(Q), WireOK(I, Q, U, p, v, e)
  PROVE  /\ WireOK(I, Append(Q, k), U, p, v, e)
         /\ \A j \in 1 .. Len(I) : I[j].call # k
         /\ \A i \in 1 .. Len(U) : U[i] # k
         /\ Range(Append(Q, k)) = Range(Q) \cup {k}
<1>1. Range(Append(Q, k)) = Range(Q) \cup {k}
  BY AppendDistinct
<1>2. /\ \A j \in 1 .. Len(I) : I[j].call # k
      /\ \A i \in 1 .. Len(U) : U[i] # k
  BY ConnectionAssumption DEF WireOK, Expected, Unanswered
<1>3. Expected(I, Append(Q, k))
  BY <1>1, <1>2, BeforeAppend DEF WireOK, Expected
<1>4. Unanswered(I, Append(Q, k), U)
  BY <1>1 DEF WireOK, Unanswered
<1>5. InOrder(I, Q, U) => InOrder(I, Append(Q, k), U)
  BY <1>2, BeforeAppend DEF InOrder
<1> QED
  BY <1>1, <1>2, <1>3, <1>4, <1>5 DEF WireOK

\* ... and its statement the frames the server has yet to execute.
LEMMA StatementStaged ==
  ASSUME NEW I \in Seq(Messages), NEW Q \in Seq(Calls), IsInjective(Q),
         NEW e, NEW v, NEW p,
         NEW U \in Seq(Calls \cup {Terminate}), NEW V \in Seq(Calls \cup {Terminate}),
         NEW k \in Calls, k \notin Range(Q), k \notin e, WireOK(I, Q, U, p, v, e),
         p = "up" => AllUnderWay(I, Q, U),
         Extends(V, U, 1), V[Len(U) + 1] = k
  PROVE  /\ WireOK(I, Append(Q, k), V, p, v, e)
         /\ p = "up" => AllUnderWay(I, Append(Q, k), V)
<1> DEFINE R == Append(Q, k)
<1>1. /\ WireOK(I, R, U, p, v, e)
      /\ \A j \in 1 .. Len(I) : I[j].call # k
      /\ \A i \in 1 .. Len(U) : U[i] # k
      /\ Range(R) = Range(Q) \cup {k}
  <2>1. WireOK(I, R, U, p, v, e)
    BY CallJoins
  <2>2. \A j \in 1 .. Len(I) : I[j].call # k
    BY ConnectionAssumption DEF WireOK, Expected
  <2>3. \A i \in 1 .. Len(U) : U[i] # k
    BY ConnectionAssumption DEF WireOK, Unanswered
  <2>4. Range(R) = Range(Q) \cup {k}
    BY AppendDistinct
  <2> QED
    BY <2>1, <2>2, <2>3, <2>4
<1>2. /\ Len(U) \in Nat /\ Len(V) = Len(U) + 1
      /\ \A i \in 1 .. Len(U) : V[i] = U[i] /\ i \in 1 .. Len(V)
      /\ \A i \in 1 .. Len(V) : i \in 1 .. Len(U) \/ (i = Len(U) + 1 /\ V[i] = k)
      /\ Len(V) \in 1 .. Len(V) /\ V[Len(V)] = k
  BY LenProperties DEF Extends
<1>3. \A l, c : Before(R, l, c) => l \in Range(Q)
  BY BeforeAppend
<1> HIDE DEF R
<1>4. Unanswered(I, R, V)
  BY <1>1, <1>2 DEF WireOK, Unanswered
<1>5. p = "up" => InOrder(I, R, V)
  <2> SUFFICES ASSUME p = "up", NEW i \in 1 .. Len(V), V[i] # Terminate,
                      NEW l \in Calls, Before(R, l, V[i])
               PROVE  (\E j \in 1 .. i - 1 : V[j] = l) \/ Answered(I, Len(I), l)
    BY DEF InOrder
  <2>1. CASE i \in 1 .. Len(U)
    <3>1. (\E j \in 1 .. i - 1 : U[j] = l) \/ Answered(I, Len(I), l)
      BY <1>1, <1>2, <2>1 DEF WireOK, InOrder
    <3>2. \A j \in 1 .. i - 1 : V[j] = U[j]
      BY <1>2, <2>1
    <3> QED
      BY <3>1, <3>2
  <2>2. CASE i = Len(U) + 1
    <3>1. l \in Range(Q)
      BY <1>3
    <3>2. (\E j \in 1 .. Len(U) : U[j] = l) \/ Answered(I, Len(I), l)
      BY <3>1 DEF AllUnderWay
    <3>3. i - 1 = Len(U)
      BY <1>2, <2>2
    <3> QED
      BY <1>2, <3>2, <3>3
  <2> QED
    BY <1>2, <2>1, <2>2
<1>6. p = "up" => Once(V) /\ Unfailed(V, e)
  <2>1. Unfailed(U, e) => Unfailed(V, e)
    BY <1>2 DEF Unfailed
  <2>2. ASSUME Once(U), NEW i \in 1 .. Len(V), NEW j \in 1 .. Len(V), i # j
        PROVE  V[i] # V[j] \/ V[i] = Terminate
    <3>1. CASE i \in 1 .. Len(U) /\ j \in 1 .. Len(U)
      BY <1>2, <2>2, <3>1 DEF Once
    <3>2. CASE ~(i \in 1 .. Len(U) /\ j \in 1 .. Len(U))
      BY <1>1, <1>2, <2>2, <3>2
    <3> QED
      BY <3>1, <3>2
  <2> QED
    BY <1>1, <2>1, <2>2 DEF WireOK, Once
<1>7. p = "up" => AllUnderWay(I, R, V)
  BY <1>1, <1>2 DEF AllUnderWay
<1> QED
  BY <1>1, <1>4, <1>5, <1>6, <1>7 DEF WireOK, R

-----------------------------------------------------------------------------
(* Concatenations: where a step cuts the sequences of the wire *)

LEMMA ConcatFacts ==
  ASSUME NEW S, NEW a \in Seq(S), NEW b \in Seq(S)
  PROVE  /\ Drops(b, a \o b, Len(a))
         /\ Cuts(a, a \o b)
         /\ Extends(a \o b, a, Len(b))
         /\ \A i \in 1 .. Len(b) : (a \o b)[Len(a) + i] = b[i]
<1>1. /\ Len(a) \in Nat /\ Len(b) \in Nat /\ Len(a \o b) = Len(a) + Len(b)
      /\ \A i \in 1 .. Len(a) + Len(b) :
           (a \o b)[i] = IF i <= Len(a) THEN a[i] ELSE b[i - Len(a)]
  BY ConcatProperties, LenProperties
<1>2. \A i \in 1 .. Len(b) : (a \o b)[Len(a) + i] = b[i]
  BY <1>1
<1>3. \A i \in 1 .. Len(a) : (a \o b)[i] = a[i]
  BY <1>1
<1> QED
  BY <1>1, <1>2, <1>3 DEF Drops, Cuts, Extends

\* What is dropped from a part at the front is dropped from the whole.
LEMMA DropInFront ==
  ASSUME NEW S, NEW a \in Seq(S), NEW b \in Seq(S), NEW c \in Seq(S),
         NEW n, Drops(b, a, n)
  PROVE  /\ Drops(b \o c, a \o c, n)
         /\ \A i \in 1 .. n : (a \o c)[i] = a[i]
<1>1. /\ Len(a) \in Nat /\ Len(b) \in Nat /\ Len(c) \in Nat
      /\ Len(a \o c) = Len(a) + Len(c) /\ Len(b \o c) = Len(b) + Len(c)
      /\ Len(b) = Len(a) - n /\ n \in 0 .. Len(a)
  BY ConcatProperties, LenProperties DEF Drops
<1>2. \A i \in 1 .. Len(a) + Len(c) :
        (a \o c)[i] = IF i <= Len(a) THEN a[i] ELSE c[i - Len(a)]
  BY ConcatProperties
<1>3. \A i \in 1 .. Len(b) + Len(c) :
        (b \o c)[i] = IF i <= Len(b) THEN b[i] ELSE c[i - Len(b)]
  BY ConcatProperties
<1>4. ASSUME NEW i \in 1 .. Len(b) + Len(c) PROVE (b \o c)[i] = (a \o c)[n + i]
  <2>1. n + i \in 1 .. Len(a) + Len(c) /\ (i <= Len(b) <=> n + i <= Len(a))
        /\ i - Len(b) = n + i - Len(a)
    BY <1>1
  <2>2. i <= Len(b) => b[i] = a[n + i]
    BY <1>1 DEF Drops
  <2>3. (a \o c)[n + i] = IF n + i <= Len(a) THEN a[n + i] ELSE c[n + i - Len(a)]
    BY <1>1, <1>2, <2>1
  <2>4. (b \o c)[i] = IF i <= Len(b) THEN b[i] ELSE c[i - Len(b)]
    BY <1>3
  <2> QED
    BY <2>1, <2>2, <2>3, <2>4
<1>5. \A i \in 1 .. n : (a \o c)[i] = a[i]
  BY <1>1, <1>2
<1> QED
  BY <1>1, <1>4, <1>5 DEF Drops

LEMMA Regroup ==
  ASSUME NEW S, NEW a \in Seq(S), NEW b \in Seq(S), NEW c \in Seq(S),
         NEW d, NEW n, Drops((a \o b) \o c, d, n)
  PROVE  Drops(a \o (b \o c), d, n)
<1>1. Cat(Cat(a, b), c) = Cat(a, Cat(b, c))
  BY CatAssociative
<1> QED
  BY <1>1 DEF Cat

\* Taking a member out of a part at the front, and dropping those before it.
LEMMA TakeFirst ==
  ASSUME NEW S, NEW a \in Seq(S), NEW c \in Seq(S), NEW m \in 0 .. Len(a) - 1,
         NEW h \in Seq(S), Len(h) = 1, h[1] = a[m + 1],
         NEW r \in Seq(S), Drops(r, a, m + 1)
  PROVE  /\ Drops(h \o (r \o c), a \o c, m)
         /\ \A j \in 1 .. m : (a \o c)[j] = a[j]
<1>1. /\ Len(a) \in Nat /\ Len(r) = Len(a) - (m + 1) /\ Len(r) \in Nat
      /\ \A j \in 1 .. Len(r) : r[j] = a[m + 1 + j]
  BY LenProperties DEF Drops
<1>0. /\ h \o r \in Seq(S) /\ Len(h \o r) = Len(h) + Len(r)
      /\ \A j \in 1 .. Len(h) + Len(r) :
           (h \o r)[j] = IF j <= Len(h) THEN h[j] ELSE r[j - Len(h)]
  BY ConcatProperties, Zenon
<1>2. /\ h \o r \in Seq(S) /\ Len(h \o r) = 1 + Len(r)
      /\ \A j \in 1 .. 1 + Len(r) : (h \o r)[j] = IF j <= 1 THEN h[j] ELSE r[j - 1]
  BY <1>0
<1>3. ASSUME NEW j \in 1 .. 1 + Len(r) PROVE (h \o r)[j] = a[m + j]
  <2>1. CASE j = 1
    BY <1>2, <2>1
  <2>2. CASE j # 1
    <3>1. j - 1 \in 1 .. Len(r) /\ m + 1 + (j - 1) = m + j
      BY <1>1, <2>2
    <3> QED
      BY <1>1, <1>2, <2>2, <3>1
  <2> QED
    BY <2>1, <2>2
<1>4. Drops(h \o r, a, m)
  BY <1>1, <1>2, <1>3 DEF Drops
<1> DEFINE b == h \o r
<1>5. b \in Seq(S) /\ Drops(b, a, m)
  BY <1>2, <1>4
<1> HIDE DEF b
<1>6. /\ Drops(b \o c, a \o c, m)
      /\ \A j \in 1 .. m : (a \o c)[j] = a[j]
  BY <1>5, DropInFront
<1>7. Drops((h \o r) \o c, a \o c, m)
  BY <1>6 DEF b
<1> QED
  BY <1>6, <1>7, Regroup

LEMMA CutBehind ==
  ASSUME NEW S, NEW a \in Seq(S), NEW b \in Seq(S), NEW c \in Seq(S), Cuts(b, c)
  PROVE  Cuts(a \o b, a \o c)
<1>1. /\ Len(a) \in Nat /\ Len(b) \in Nat /\ Len(c) \in Nat /\ Len(b) <= Len(c)
      /\ Len(a \o c) = Len(a) + Len(c) /\ Len(a \o b) = Len(a) + Len(b)
  BY ConcatProperties, LenProperties DEF Cuts
<1>2. \A i \in 1 .. Len(a) + Len(b) :
        (a \o b)[i] = IF i <= Len(a) THEN a[i] ELSE b[i - Len(a)]
  BY ConcatProperties
<1>3. \A i \in 1 .. Len(a) + Len(c) :
        (a \o c)[i] = IF i <= Len(a) THEN a[i] ELSE c[i - Len(a)]
  BY ConcatProperties
<1>4. ASSUME NEW i \in 1 .. Len(a) + Len(b) PROVE (a \o b)[i] = (a \o c)[i]
  <2>1. i \in 1 .. Len(a) + Len(c)
    BY <1>1
  <2>2. ~(i <= Len(a)) => b[i - Len(a)] = c[i - Len(a)]
    BY <1>1 DEF Cuts
  <2> QED
    BY <1>2, <1>3, <2>1, <2>2
<1> QED
  BY <1>1, <1>4 DEF Cuts

LEMMA SuffixDrops ==
  ASSUME NEW S, NEW s \in Seq(S)
  PROVE  /\ \A n \in 0 .. Len(s) : Drops(SubSeq(s, n + 1, Len(s)), s, n)
         /\ s # <<>> => Drops(Tail(s), s, 1) /\ Tail(s) \in Seq(S) /\ s[1] = Head(s)
<1>1. \A n \in 0 .. Len(s) : Drops(SubSeq(s, n + 1, Len(s)), s, n)
  <2> TAKE n \in 0 .. Len(s)
  <2>1. /\ Len(s) \in Nat
        /\ Len(SubSeq(s, n + 1, Len(s))) = Len(s) - n
        /\ \A i \in 1 .. Len(s) - n : SubSeq(s, n + 1, Len(s))[i] = s[n + i]
    BY SuffixFacts, LenProperties
  <2> QED
    BY <2>1 DEF Drops
<1>2. ASSUME s # <<>> PROVE Drops(Tail(s), s, 1) /\ Tail(s) \in Seq(S) /\ s[1] = Head(s)
  <2>1. /\ Len(s) \in Nat \ {0} /\ Len(Tail(s)) = Len(s) - 1 /\ Tail(s) \in Seq(S)
        /\ \A i \in 1 .. Len(Tail(s)) : Tail(s)[i] = s[i + 1]
    BY <1>2, EmptySeq, HeadTailProperties
  <2>2. Drops(Tail(s), s, 1)
    BY <2>1 DEF Drops
  <2> QED
    BY <2>1, <2>2
<1> QED
  BY <1>1, <1>2

\* A frame staged behind others is the last one under way.
LEMMA StageFacts ==
  ASSUME NEW S, NEW a \in Seq(S), NEW b \in Seq(S), NEW x \in S
  PROVE  /\ a \o Append(b, x) \in Seq(S)
         /\ Extends(a \o Append(b, x), a \o b, 1)
         /\ (a \o Append(b, x))[Len(a \o b) + 1] = x
<1>1. /\ Append(b, x) \in Seq(S) /\ Len(Append(b, x)) = Len(b) + 1
      /\ \A i \in 1 .. Len(b) : Append(b, x)[i] = b[i]
      /\ Append(b, x)[Len(b) + 1] = x
  BY AppendProperties
<1>2. Len(a) \in Nat /\ Len(b) \in Nat
  BY LenProperties
<1>3. /\ Len(a \o b) = Len(a) + Len(b)
      /\ \A i \in 1 .. Len(a) + Len(b) :
           (a \o b)[i] = IF i <= Len(a) THEN a[i] ELSE b[i - Len(a)]
  BY ConcatProperties
<1>4. /\ a \o Append(b, x) \in Seq(S) /\ Len(a \o Append(b, x)) = Len(a) + Len(b) + 1
      /\ \A i \in 1 .. Len(a) + Len(b) + 1 :
           (a \o Append(b, x))[i] =
             IF i <= Len(a) THEN a[i] ELSE Append(b, x)[i - Len(a)]
  <2> DEFINE c == Append(b, x)
  <2>1. c \in Seq(S) /\ Len(c) = Len(b) + 1
    BY <1>1
  <2> HIDE DEF c
  <2>2. a \o c \in Seq(S) /\ Len(a \o c) = Len(a) + Len(c)
    BY <2>1, ConcatProperties
  <2>3. \A i \in 1 .. Len(a) + Len(c) :
          (a \o c)[i] = IF i <= Len(a) THEN a[i] ELSE c[i - Len(a)]
    BY <2>1, ConcatProperties
  <2> QED
    BY <1>2, <2>1, <2>2, <2>3 DEF c
<1>5. ASSUME NEW i \in 1 .. Len(a) + Len(b) PROVE (a \o Append(b, x))[i] = (a \o b)[i]
  <2>1. i \in 1 .. Len(a) + Len(b) + 1 /\ (~(i <= Len(a)) => i - Len(a) \in 1 .. Len(b))
    BY <1>2
  <2> QED
    BY <1>1, <1>3, <1>4, <2>1
<1>6. (a \o Append(b, x))[Len(a) + Len(b) + 1] = x
  BY <1>1, <1>2, <1>4
<1> QED
  BY <1>3, <1>4, <1>5, <1>6 DEF Extends

\* ... or written at once behind what was staged.
LEMMA WriteFacts ==
  ASSUME NEW S, NEW a \in Seq(S), NEW b \in Seq(S)
  PROVE  /\ (a \o b) \o <<>> = a \o b
         /\ \A x \in S : (a \o (b \o <<x>>)) \o <<>> = a \o Append(b, x)
<1>1. a \o b \in Seq(S)
  BY ConcatProperties
<1>2. (a \o b) \o <<>> = a \o b
  BY <1>1, ConcatEmptySeq
<1>3. ASSUME NEW x \in S PROVE (a \o (b \o <<x>>)) \o <<>> = a \o Append(b, x)
  <2>1. b \o <<x>> = Append(b, x)
    BY AppendIsConcat
  <2>2. a \o Append(b, x) \in Seq(S)
    BY StageFacts
  <2> QED
    BY <2>1, <2>2, ConcatEmptySeq
<1> QED
  BY <1>2, <1>3

\* The first of the frames under way is executed.
LEMMA ExecuteFacts ==
  ASSUME NEW S, NEW a \in Seq(S), NEW b \in Seq(S), a # <<>>
  PROVE  /\ Drops(Tail(a) \o b, a \o b, 1)
         /\ Tail(a) \o b \in Seq(S)
         /\ (a \o b)[1] = Head(a)
<1>1. Drops(Tail(a), a, 1) /\ Tail(a) \in Seq(S) /\ a[1] = Head(a)
  BY SuffixDrops
<1> DEFINE c == Tail(a)
<1>2. Drops(c \o b, a \o b, 1) /\ \A i \in 1 .. 1 : (a \o b)[i] = a[i]
  <2>1. c \in Seq(S) /\ Drops(c, a, 1)
    BY <1>1
  <2> HIDE DEF c
  <2> QED
    BY <2>1, DropInFront
<1>3. Tail(a) \o b \in Seq(S)
  BY <1>1, ConcatProperties
<1> QED
  BY <1>1, <1>2, <1>3

\* A message behind the others, wherever the client has got to.
LEMMA SayFacts ==
  ASSUME NEW S, NEW d \in Seq(S), NEW r \in Seq(S), NEW c \in Seq(S), NEW s \in Seq(S)
  PROVE  /\ Extends(d \o (r \o (c \o s)), d \o (r \o c), Len(s))
         /\ \A i \in 1 .. Len(s) :
              (d \o (r \o (c \o s)))[Len(d \o (r \o c)) + i] = s[i]
         /\ d \o (r \o (c \o s)) \in Seq(S)
<1> DEFINE rc == r \o c
           I == d \o rc
<1>1. rc \in Seq(S)
  BY ConcatProperties
<1>2. I \in Seq(S)
  BY <1>1, ConcatProperties
<1>3. Cat(Cat(r, c), s) = Cat(r, Cat(c, s))
  BY CatAssociative
<1> HIDE DEF rc
<1>4. Cat(Cat(d, rc), s) = Cat(d, Cat(rc, s))
  BY <1>1, CatAssociative
<1> HIDE DEF I
<1>5. /\ Extends(I \o s, I, Len(s))
      /\ \A i \in 1 .. Len(s) : (I \o s)[Len(I) + i] = s[i]
  BY <1>2, ConcatFacts
<1>6. I \o s \in Seq(S)
  BY <1>2, ConcatProperties
<1> QED
  BY <1>3, <1>4, <1>5, <1>6 DEF I, rc, Cat

\* The same of the sequence of all incoming messages: J is I with s behind it.
Joined(d, r, c) == d \o (r \o c)

Says(J, I, s) ==
  /\ Extends(J, I, Len(s)) /\ J \in Seq(Messages)
  /\ \A i \in 1 .. Len(s) : J[Len(I) + i] = s[i]

LEMMA SaySaid ==
  ASSUME NEW d \in Seq(Messages), NEW r \in Seq(Messages), NEW c \in Seq(Messages),
         NEW s \in Seq(Messages)
  PROVE  Says(Joined(d, r, Cat(c, s)), Joined(d, r, c), s)
<1>1. /\ Extends(d \o (r \o (c \o s)), d \o (r \o c), Len(s))
      /\ d \o (r \o (c \o s)) \in Seq(Messages)
  BY SayFacts
<1>2. \A i \in 1 .. Len(s) : (d \o (r \o (c \o s)))[Len(d \o (r \o c)) + i] = s[i]
  BY SayFacts
<1> QED
  BY <1>1, <1>2 DEF Says, Joined, Cat

\* A chunk that is read goes from the socket to the reader.
LEMMA ReadFacts ==
  ASSUME NEW S, NEW r \in Seq(S), NEW c \in Seq(S), NEW n \in 1 .. Len(c)
  PROVE  (r \o SubSeq(c, 1, n)) \o SubSeq(c, n + 1, Len(c)) = r \o c
<1> DEFINE x == SubSeq(c, 1, n)
           y == SubSeq(c, n + 1, Len(c))
<1>1. Len(c) \in Nat /\ \A i \in 1 .. Len(c) : c[i] \in S
  BY LenProperties, ElementOfSeq
<1>2. x \in Seq(S) /\ y \in Seq(S)
  BY <1>1, SubSeqProperties
<1>3. x \o y = c
  <2>1. 1 \in 1 .. Len(c) + 1 /\ n \in 1 - 1 .. Len(c) /\ Len(c) \in n .. Len(c)
    BY <1>1
  <2>2. x \o y = SubSeq(c, 1, Len(c))
    BY <2>1, ConcatAdjacentSubSeq
  <2>3. SubSeq(c, 1, Len(c)) = c
    BY <1>1, SubSeqFull
  <2> QED
    BY <2>2, <2>3
<1> HIDE DEF x, y
<1>4. Cat(Cat(r, x), y) = Cat(r, Cat(x, y))
  BY <1>2, CatAssociative
<1> QED
  BY <1>3, <1>4 DEF x, y, Cat

-----------------------------------------------------------------------------
(* The wire in a state *)

LEMMA WireTypes ==
  ASSUME TypeOK
  PROVE  /\ Delivered \in Seq(Messages) /\ rbuf \o toClient \in Seq(Messages)
         /\ Incoming \in Seq(Messages)
         /\ Upstream \in Seq(Calls \cup {Terminate})
         /\ rbuf \in Seq(Messages) /\ toClient \in Seq(Messages)
         /\ toServer \in Seq(Calls \cup {Terminate})
         /\ wbuf \in Seq(Calls \cup {Terminate})
         /\ verdict \in [Calls -> {"none", "ok", "error"}] /\ errs \subseteq Calls
         /\ phase # "resumed" => Incoming = rbuf \o toClient
<1>1. Delivered \in Seq(Messages)
  BY DEF TypeOK, Delivered
<1>2. /\ rbuf \in Seq(Messages) /\ toClient \in Seq(Messages)
      /\ toServer \in Seq(Calls \cup {Terminate})
      /\ verdict \in [Calls -> {"none", "ok", "error"}] /\ errs \subseteq Calls
  BY DEF TypeOK
<1>3. wbuf \in Seq(Calls \cup {Terminate})
  BY CallFacts, SeqMonotonic DEF TypeOK
<1>4. rbuf \o toClient \in Seq(Messages)
  BY <1>2, ConcatProperties
<1>5. Incoming \in Seq(Messages)
  BY <1>1, <1>4, ConcatProperties DEF Incoming
<1>6. Upstream \in Seq(Calls \cup {Terminate})
  BY <1>2, <1>3, ConcatProperties DEF Upstream
<1>7. phase # "resumed" => Incoming = rbuf \o toClient
  BY <1>4, ConcatEmptySeq DEF Incoming, Delivered
<1> QED
  BY <1>1, <1>2, <1>3, <1>4, <1>5, <1>6, <1>7

LEMMA IncomingNext ==
  ASSUME TypeOK'
  PROVE  Incoming' \in Seq(Messages) /\ toClient' \in Seq(Messages)
<1>1. /\ rbuf' \in Seq(Messages) /\ toClient' \in Seq(Messages)
      /\ Delivered' \in Seq(Messages)
  BY DEF TypeOK, Delivered
<1> DEFINE c == rbuf' \o toClient'
<1>2. c \in Seq(Messages)
  BY <1>1, ConcatProperties
<1> HIDE DEF c
<1>3. Delivered' \o c \in Seq(Messages)
  BY <1>1, <1>2, ConcatProperties
<1> QED
  BY <1>1, <1>3 DEF Incoming, c

\* The server speaks, and the client does nothing.
LEMMA IncomingSays ==
  ASSUME TypeOK, NEW s \in Seq(Messages), toClient' = toClient \o s,
         UNCHANGED <<phase, delivered, rbuf>>
  PROVE  Says(Incoming', Incoming, s)
<1>1. Incoming = Joined(Delivered, rbuf, toClient)
  BY DEF Incoming, Joined
<1>2. Incoming' = Joined(Delivered, rbuf, Cat(toClient, s))
  BY DEF Incoming, Delivered, Joined, Cat
<1>3. /\ Delivered \in Seq(Messages) /\ rbuf \in Seq(Messages) /\ toClient \in Seq(Messages)
  BY WireTypes
<1> QED
  BY <1>1, <1>2, <1>3, SaySaid

\* The calls owed an answer are the ones whose promise is open.
LEMMA OwedFacts ==
  ASSUME TypeOK, ControlInv
  PROVE  /\ Owed \in Seq(Calls) /\ IsInjective(Owed)
         /\ None \notin Range(Owed)
         /\ \A k \in Calls : k \in Range(Owed) <=> status[k] = "pending"
<1>1. CASE holder # None
  <2>1. holder \in Calls /\ queue = <<>> /\ Owed = <<holder>>
    BY <1>1, CallFacts DEF TypeOK, ControlInv, Exclusive, Owed
  <2>2. Owed \in Seq(Calls) /\ Range(Owed) = {holder} /\ IsInjective(Owed)
    BY <2>1 DEF Range, IsInjective
  <2>3. Range(queue) = {}
    BY <2>1, QueueFacts
  <2> QED
    BY <2>1, <2>2, <2>3, ConnectionAssumption DEF ControlInv, Owned
<1>2. CASE holder = None
  <2>1. Owed = queue
    BY <1>2 DEF Owed
  <2>2. Owed \in Seq(Calls)
    BY <2>1, CallFacts, SeqMonotonic DEF TypeOK
  <2>3. None \notin Range(queue)
    BY QueueFacts, CallFacts
  <2> QED
    BY <1>2, <2>1, <2>2, <2>3, ConnectionAssumption DEF ControlInv, Owned
<1> QED
  BY <1>1, <1>2

\* drain() with a waiter drops notices, up to the message that resolves it.
LEMMA DrainDrops ==
  ASSUME NEW buffer \in Seq(Messages), toClient' \in Seq(Messages), DrainToWaiter(buffer)
  PROVE  \E n \in 0 .. Len(buffer) :
           /\ Drops(Incoming', buffer \o toClient', n)
           /\ \A i \in 1 .. n : (buffer \o toClient')[i].kind = "notice"
<1>0. Len(buffer) \in Nat /\ DOMAIN buffer = 1 .. Len(buffer)
  BY LenProperties
<1>1. CASE \A i \in DOMAIN buffer : ~Regular(buffer[i])
  <2>1. \A i \in DOMAIN buffer : ~FirstRegular(buffer, i)
    BY <1>1 DEF FirstRegular
  <2>2. phase' = "waiting" /\ rbuf' = <<>>
    BY <2>1 DEF DrainToWaiter
  <2>3. Incoming' = toClient'
    BY <2>2, ConcatEmptySeq DEF Incoming, Delivered
  <2>4. Drops(toClient', buffer \o toClient', Len(buffer))
    BY ConcatFacts
  <2>5. \A i \in 1 .. Len(buffer) : (buffer \o toClient')[i] = buffer[i]
    BY ConcatFacts DEF Cuts
  <2>6. \A i \in 1 .. Len(buffer) : (buffer \o toClient')[i].kind = "notice"
    BY <1>0, <1>1, <2>5 DEF Regular
  <2> QED
    BY <1>0, <2>3, <2>4, <2>6
<1>2. CASE ~ \A i \in DOMAIN buffer : ~Regular(buffer[i])
  <2>1. PICK i \in DOMAIN buffer : /\ FirstRegular(buffer, i)
                                   /\ phase' = "resumed"
                                   /\ delivered' = buffer[i]
                                   /\ rbuf' = SubSeq(buffer, i + 1, Len(buffer))
    BY <1>2 DEF DrainToWaiter
  <2>2. i \in 1 .. Len(buffer) /\ i - 1 \in 0 .. Len(buffer) - 1 /\ i - 1 + 1 = i
    BY <1>0
  <2>3. <<buffer[i]>> \in Seq(Messages) /\ Len(<<buffer[i]>>) = 1 /\ <<buffer[i]>>[1] = buffer[i]
    BY <2>2, ElementOfSeq
  <2>4. rbuf' \in Seq(Messages) /\ Drops(rbuf', buffer, i)
    BY <1>0, <2>1, <2>2, SuffixFacts, SuffixDrops
  <2>5. Incoming' = <<buffer[i]>> \o (rbuf' \o toClient')
    BY <2>1 DEF Incoming, Delivered
  <2>9. /\ Drops(Incoming', buffer \o toClient', i - 1)
        /\ \A j \in 1 .. i - 1 : (buffer \o toClient')[j] = buffer[j]
    BY <2>2, <2>3, <2>4, <2>5, TakeFirst
  <2>10. \A j \in 1 .. i - 1 : buffer[j].kind = "notice"
    BY <2>1 DEF FirstRegular, Regular
  <2> QED
    BY <2>2, <2>9, <2>10
<1> QED
  BY <1>1, <1>2

-----------------------------------------------------------------------------
(* The wire is kept, action by action *)

Healthy == WireOK(Incoming, Owed, Upstream, peer, verdict, errs)

Complete ==
  peer = "up" /\ state \in {"ready", "pipelining"} =>
    AllUnderWay(Incoming, Owed, Upstream)

\* What each of the following steps starts from: the connection has not failed.
Known ==
  /\ TypeOK /\ ControlInv /\ LeftOver /\ Aftermath
  /\ closeError = "none" /\ Healthy /\ Complete

\* A step that moves nothing on the wire and does not make the connection ready.
LEMMA WireFrame ==
  ASSUME Known,
         UNCHANGED <<phase, delivered, rbuf, toClient, holder, queue, toServer, wbuf,
                     peer, verdict, errs>>,
         state' \in {"ready", "pipelining"} => state \in {"ready", "pipelining"}
  PROVE  Healthy' /\ Complete'
<1>1. /\ Incoming' = Incoming /\ Owed' = Owed /\ Upstream' = Upstream
  BY DEF Incoming, Delivered, Owed, Upstream
<1> QED
  BY <1>1 DEF Known, Healthy, Complete

LEMMA WireExtQuery ==
  ASSUME Known, NEW k \in ExtCalls, ExtQuery(k)
  PROVE  Healthy' /\ Complete'
<1>1. /\ k \in Calls /\ k \notin Range(Owed) /\ k \notin errs
      /\ Owed \in Seq(Calls) /\ IsInjective(Owed)
  <2>1. k \in Calls /\ status[k] = "new"
    BY CallFacts DEF ExtQuery
  <2> QED
    BY <2>1, OwedFacts DEF Known, Aftermath
<1>2. Owed' = Append(Owed, k)
  BY DEF ExtQuery, Accepts, Known, ControlInv, StateTells, Owed
<1>3. Incoming' = Incoming
  BY DEF ExtQuery, Incoming, Delivered
<1>4. /\ Upstream' = toServer \o Append(wbuf, k)
      /\ UNCHANGED <<peer, verdict, errs>>
  BY DEF ExtQuery, Upstream, serverVars
<1>5. /\ Upstream' \in Seq(Calls \cup {Terminate})
      /\ Extends(Upstream', Upstream, 1) /\ Upstream'[Len(Upstream) + 1] = k
  BY <1>1, <1>4, WireTypes, StageFacts DEF Known, Upstream
<1>6. peer = "up" => AllUnderWay(Incoming, Owed, Upstream)
  BY DEF ExtQuery, Accepts, Known, Complete
<1>7. Incoming \in Seq(Messages) /\ Upstream \in Seq(Calls \cup {Terminate})
  BY WireTypes DEF Known
<1> DEFINE V == Upstream'
<1>8. /\ WireOK(Incoming, Append(Owed, k), V, peer, verdict, errs)
      /\ peer = "up" => AllUnderWay(Incoming, Append(Owed, k), V)
  <2>1. /\ V \in Seq(Calls \cup {Terminate})
        /\ Extends(V, Upstream, 1) /\ V[Len(Upstream) + 1] = k
    BY <1>5
  <2> HIDE DEF V
  <2> QED
    BY <1>1, <1>6, <1>7, <2>1, StatementStaged DEF Known, Healthy
<1> QED
  BY <1>2, <1>3, <1>4, <1>8 DEF Healthy, Complete

\* A ready connection has nothing staged but what end() has left: nothing.
LEMMA ReadyIsEmpty ==
  ASSUME Known, state = "ready"
  PROVE  /\ Owed = <<>> /\ wbuf = <<>>
         /\ \A i \in 1 .. Len(toServer) : toServer[i] = Terminate
<1>1. Owed = <<>> /\ Range(Owed) = {}
  BY QueueFacts DEF Known, ControlInv, StateTells, Owed
<1>2. \A i \in 1 .. Len(Upstream) : Upstream[i] = Terminate
  BY <1>1 DEF Known, Healthy, WireOK, Unanswered
<1>3. /\ toServer \in Seq(Calls \cup {Terminate}) /\ wbuf \in Seq(Calls \cup {Terminate})
      /\ wbuf \in Seq(ExtCalls) /\ Len(toServer) \in Nat /\ Len(wbuf) \in Nat
  BY WireTypes, LenProperties DEF Known, TypeOK
<1>4. /\ Extends(Upstream, toServer, Len(wbuf))
      /\ \A i \in 1 .. Len(wbuf) : Upstream[Len(toServer) + i] = wbuf[i]
  BY <1>3, ConcatFacts DEF Upstream
<1>5. \A i \in 1 .. Len(toServer) : toServer[i] = Terminate
  BY <1>2, <1>3, <1>4 DEF Extends
<1>6. \A i \in 1 .. Len(wbuf) : wbuf[i] = Terminate /\ wbuf[i] \in Calls
  <2> TAKE i \in 1 .. Len(wbuf)
  <2>1. Len(toServer) + i \in 1 .. Len(Upstream)
    BY <1>3, <1>4 DEF Extends
  <2>2. wbuf[i] \in ExtCalls
    BY <1>3, ElementOfSeq
  <2> QED
    BY <1>2, <1>4, <2>1, <2>2, CallFacts
<1>7. ~(1 \in 1 .. Len(wbuf))
  BY <1>6, ConnectionAssumption
<1>8. wbuf = <<>>
  BY <1>3, <1>7, EmptySeq
<1> QED
  BY <1>1, <1>5, <1>8

LEMMA WireSimpleQuery ==
  ASSUME Known, closeError' = "none", NEW k \in SimpleCalls, SimpleQuery(k)
  PROVE  Healthy' /\ Complete'
<1>1. /\ k \in Calls /\ k \notin Range(Owed) /\ k \notin errs
      /\ Owed \in Seq(Calls) /\ IsInjective(Owed)
  <2>1. k \in Calls /\ status[k] = "new"
    BY CallFacts DEF SimpleQuery
  <2> QED
    BY <2>1, OwedFacts DEF Known, Aftermath
<1>2. Owed = <<>> /\ wbuf = <<>> /\ Range(Owed) = {}
  BY ReadyIsEmpty, QueueFacts DEF SimpleQuery, Idle
<1>3. transport = "open"
  BY DEF SimpleQuery
<1>4. /\ phase = "none" /\ phase' = "flushing" /\ wbuf' = <<>> /\ holder' = k /\ k # None
      /\ UNCHANGED <<rbuf, toClient, peer, verdict, errs>>
      /\ Send(wbuf \o <<k>>) /\ state' = "busy"
  BY <1>3, CallFacts DEF SimpleQuery, Idle, serverVars, Known, TypeOK, ControlInv, StateTells
<1>5. Incoming' = Incoming
  BY <1>4 DEF Incoming, Delivered
<1>6. Owed' = Append(Owed, k)
  BY <1>2, <1>4 DEF Owed
<1>7. Incoming \in Seq(Messages) /\ Upstream \in Seq(Calls \cup {Terminate})
  BY WireTypes DEF Known
<1>8. ~Complete' => FALSE
  BY <1>4 DEF Complete
<1>9. CASE peer = "up"
  <2>1. Upstream' = (toServer \o (wbuf \o <<k>>)) \o <<>>
    BY <1>4, <1>9 DEF Send, Upstream
  <2>2. Upstream' = toServer \o Append(wbuf, k)
    <3>1. /\ toServer \in Seq(Calls \cup {Terminate}) /\ wbuf \in Seq(Calls \cup {Terminate})
          /\ k \in Calls \cup {Terminate}
      BY <1>1, WireTypes DEF Known
    <3> QED
      BY <2>1, <3>1, WriteFacts
  <2>3. /\ Upstream' \in Seq(Calls \cup {Terminate})
        /\ Extends(Upstream', Upstream, 1) /\ Upstream'[Len(Upstream) + 1] = k
    BY <1>1, <2>2, WireTypes, StageFacts DEF Known, Upstream
  <2>4. AllUnderWay(Incoming, Owed, Upstream)
    BY <1>2 DEF AllUnderWay
  <2> DEFINE V == Upstream'
  <2>5. WireOK(Incoming, Append(Owed, k), V, peer, verdict, errs)
    <3>1. /\ V \in Seq(Calls \cup {Terminate})
          /\ Extends(V, Upstream, 1) /\ V[Len(Upstream) + 1] = k
      BY <2>3
    <3> HIDE DEF V
    <3> QED
      BY <1>1, <1>7, <2>4, <3>1, StatementStaged DEF Known, Healthy
  <2> QED
    BY <1>4, <1>5, <1>6, <1>8, <2>5 DEF Healthy
<1>10. CASE peer # "up"
  <2>1. Upstream' = Upstream
    BY <1>2, <1>4, <1>10 DEF Send, Upstream
  <2>2. WireOK(Incoming, Append(Owed, k), Upstream, peer, verdict, errs)
    BY <1>1, <1>7, CallJoins DEF Known, Healthy
  <2> QED
    BY <1>4, <1>5, <1>6, <1>8, <2>1, <2>2 DEF Healthy
<1> QED
  BY <1>9, <1>10

LEMMA WireEnd ==
  ASSUME Known, End
  PROVE  Healthy' /\ Complete'
<1>1. /\ state' = "closing" /\ wbuf' = <<>>
      /\ UNCHANGED <<holder, queue, phase, delivered, rbuf, toClient, peer, verdict, errs>>
  BY DEF End, callVars, serverVars
<1>2. Incoming' = Incoming /\ Owed' = Owed /\ Complete'
  BY <1>1 DEF Incoming, Delivered, Owed, Complete
<1>3. /\ Incoming \in Seq(Messages) /\ Upstream \in Seq(Calls \cup {Terminate})
      /\ toServer \in Seq(Calls \cup {Terminate}) /\ wbuf \in Seq(Calls \cup {Terminate})
      /\ errs \subseteq Calls
  BY WireTypes DEF Known
<1>4. CASE transport = "open" /\ peer = "up"
  <2>1. Upstream' = (toServer \o (wbuf \o <<Terminate>>)) \o <<>>
    BY <1>1, <1>4 DEF End, Send, Upstream
  <2>2. Upstream' = toServer \o Append(wbuf, Terminate)
    BY <1>3, <2>1, WriteFacts
  <2>3. /\ Upstream' \in Seq(Calls \cup {Terminate})
        /\ Extends(Upstream', Upstream, 1) /\ Upstream'[Len(Upstream) + 1] = Terminate
    BY <1>3, <2>2, StageFacts DEF Upstream
  <2> DEFINE V == Upstream'
  <2>4. WireOK(Incoming, Owed, V, peer, verdict, errs)
    <3>1. /\ V \in Seq(Calls \cup {Terminate})
          /\ Extends(V, Upstream, 1) /\ V[Len(Upstream) + 1] = Terminate
      BY <2>3
    <3> HIDE DEF V
    <3> QED
      BY <1>3, <3>1, TerminateSent DEF Known, Healthy
  <2> QED
    BY <1>1, <1>2, <2>4 DEF Healthy
<1>5. CASE ~(transport = "open" /\ peer = "up")
  <2>1. Upstream' = toServer
    <3>1. Upstream' = toServer \o <<>>
      BY <1>1, <1>5 DEF End, Send, Upstream
    <3> QED
      BY <1>3, <3>1, ConcatEmptySeq
  <2>2. Cuts(toServer, Upstream)
    BY <1>3, ConcatFacts DEF Upstream
  <2>3. WireOK(Incoming, Owed, toServer, peer, verdict, errs)
    BY <1>3, <2>2, FramesDropped DEF Known, Healthy
  <2> QED
    BY <1>1, <1>2, <2>1, <2>3 DEF Healthy
<1> QED
  BY <1>4, <1>5

LEMMA WireFlush ==
  ASSUME Known, closeError' = "none", Flush
  PROVE  Healthy' /\ Complete'
<1>1. wbuf = <<>> \/ transport = "open"
  BY DEF Flush, Fatal, Known
<1>2. /\ wbuf' = <<>> /\ Send(wbuf)
      /\ UNCHANGED <<state, holder, queue, phase, delivered, rbuf, toClient, peer, verdict, errs>>
  BY <1>1 DEF Flush, Staged, serverVars
<1>3. Incoming' = Incoming /\ Owed' = Owed
  BY <1>2 DEF Incoming, Delivered, Owed
<1>4. /\ Upstream \in Seq(Calls \cup {Terminate})
      /\ toServer \in Seq(Calls \cup {Terminate}) /\ wbuf \in Seq(Calls \cup {Terminate})
  BY WireTypes DEF Known
<1>5. CASE peer = "up"
  <2>1. Upstream' = (toServer \o wbuf) \o <<>>
    BY <1>2, <1>5 DEF Send, Upstream
  <2>2. Upstream' = Upstream
    BY <1>4, <2>1, WriteFacts DEF Upstream
  <2> QED
    BY <1>2, <1>3, <2>2 DEF Known, Healthy, Complete
<1>6. CASE peer # "up"
  <2>1. Upstream' = toServer
    <3>1. Upstream' = toServer \o <<>>
      BY <1>2, <1>6 DEF Send, Upstream
    <3> QED
      BY <1>4, <3>1, ConcatEmptySeq
  <2>2. Cuts(toServer, Upstream)
    BY <1>4, ConcatFacts DEF Upstream
  <2>3. WireOK(Incoming, Owed, toServer, peer, verdict, errs)
    <3>1. Incoming \in Seq(Messages)
      BY WireTypes DEF Known
    <3> QED
      BY <1>4, <2>2, <3>1, FramesDropped DEF Known, Healthy
  <2> QED
    BY <1>2, <1>3, <1>6, <2>1, <2>3 DEF Healthy, Complete
<1> QED
  BY <1>5, <1>6

LEMMA WireFlushDone ==
  ASSUME Known, FlushDone, TypeOK'
  PROVE  Healthy' /\ Complete'
<1>1. /\ DrainToWaiter(rbuf) /\ phase # "resumed"
      /\ UNCHANGED <<state, holder, queue, toServer, wbuf, toClient, peer, verdict, errs>>
  BY DEF FlushDone, AwaitMessage, Known, serverVars
<1>2. Owed' = Owed /\ Upstream' = Upstream
  BY <1>1 DEF Owed, Upstream
<1>3. /\ Incoming \in Seq(Messages) /\ Incoming' \in Seq(Messages) /\ toClient' \in Seq(Messages)
      /\ Incoming = rbuf \o toClient' /\ rbuf \in Seq(Messages)
  <2>1. Incoming' \in Seq(Messages) /\ toClient' \in Seq(Messages)
    BY IncomingNext
  <2> QED
    BY <1>1, <2>1, WireTypes DEF Known
<1>4. PICK n \in 0 .. Len(rbuf) :
         /\ Drops(Incoming', Incoming, n)
         /\ \A i \in 1 .. n : Incoming[i].kind = "notice"
  BY <1>1, <1>3, DrainDrops
<1> DEFINE J == Incoming'
<1>5. /\ WireOK(J, Owed, Upstream, peer, verdict, errs)
      /\ AllUnderWay(Incoming, Owed, Upstream) => AllUnderWay(J, Owed, Upstream)
  <2>1. J \in Seq(Messages) /\ Drops(J, Incoming, n)
    BY <1>3, <1>4
  <2> HIDE DEF J
  <2> QED
    BY <1>3, <1>4, <2>1, DropNotices DEF Known, Healthy
<1> QED
  BY <1>1, <1>2, <1>5 DEF Known, Healthy, Complete

LEMMA WireResume ==
  ASSUME Known, closeError' = "none", Resume, TypeOK'
  PROVE  Healthy' /\ Complete'
<1> DEFINE J == rbuf \o toClient
<1>1. /\ holder \in Calls /\ holder # None /\ Owed = <<holder>> /\ queue = <<>>
      /\ Owed \in Seq(Calls) /\ IsInjective(Owed) /\ Owed # <<>> /\ Owed[1] = holder
      /\ Tail(Owed) = <<>>
  <2>1. holder \in Calls /\ holder # None /\ queue = <<>>
    BY CallFacts DEF Resume, Known, TypeOK, ControlInv, Exclusive
  <2>2. Owed = <<holder>>
    BY <2>1 DEF Owed
  <2> QED
    BY <2>1, <2>2, OwedFacts DEF Known
<1>2. /\ J \in Seq(Messages) /\ Incoming \in Seq(Messages)
      /\ Drops(J, Incoming, 1) /\ Incoming[1] = delivered
  <2>1. /\ Delivered = <<delivered>> /\ Delivered \in Seq(Messages) /\ J \in Seq(Messages)
        /\ Incoming \in Seq(Messages) /\ Len(Delivered) = 1 /\ Delivered[1] = delivered
    BY WireTypes DEF Known, Resume, Delivered
  <2>2. Incoming = Delivered \o J
    BY DEF Incoming
  <2> HIDE DEF J
  <2>3. Drops(J, Incoming, Len(Delivered)) /\ Cuts(Delivered, Incoming)
    BY <2>1, <2>2, ConcatFacts
  <2> QED
    BY <2>1, <2>3 DEF Cuts
<1>3. UNCHANGED <<wbuf, peer, verdict>>
  BY DEF Resume, serverVars
<1> HIDE DEF J
<1>4. CASE delivered.kind \in {"data", "error"}
  <2>1. /\ DrainToWaiter(rbuf)
        /\ UNCHANGED <<state, holder, queue, toServer, toClient>>
        /\ errs' = IF delivered.kind = "error" THEN errs \cup {holder} ELSE errs
    BY <1>4 DEF Resume, AwaitMessage, Known
  <2>2. Owed' = Owed /\ Upstream' = Upstream
    BY <1>3, <2>1 DEF Owed, Upstream
  <2> DEFINE f == errs'
  <2>3. f = IF Incoming[1].kind = "error" THEN errs \cup {Owed[1]} ELSE errs
    BY <1>1, <1>2, <2>1
  <2> HIDE DEF f
  <2>4. /\ WireOK(J, Owed, Upstream, peer, verdict, f)
        /\ AllUnderWay(Incoming, Owed, Upstream) => AllUnderWay(J, Owed, Upstream)
    <3>1. WireOK(Incoming, Owed, Upstream, peer, verdict, errs)
      BY DEF Known, Healthy
    <3>2. Incoming[1].kind \in {"data", "error"}
      BY <1>2, <1>4
    <3>3. Owed \in Seq(Calls) /\ Owed # <<>>
      BY <1>1
    <3>4. J \in Seq(Messages) /\ Incoming \in Seq(Messages) /\ Drops(J, Incoming, 1)
      BY <1>2
    <3> QED
      BY <2>3, <3>1, <3>2, <3>3, <3>4, ConsumePart
  <2>5. /\ Incoming' \in Seq(Messages) /\ toClient' \in Seq(Messages)
        /\ J = rbuf \o toClient' /\ rbuf \in Seq(Messages)
    <3>1. Incoming' \in Seq(Messages) /\ toClient' \in Seq(Messages)
      BY IncomingNext
    <3> QED
      BY <2>1, <3>1, WireTypes DEF Known, J
  <2>6. PICK n \in 0 .. Len(rbuf) :
           /\ Drops(Incoming', J, n)
           /\ \A i \in 1 .. n : J[i].kind = "notice"
    BY <2>1, <2>5, DrainDrops
  <2> DEFINE K == Incoming'
  <2>7. /\ WireOK(K, Owed, Upstream, peer, verdict, f)
        /\ AllUnderWay(J, Owed, Upstream) => AllUnderWay(K, Owed, Upstream)
    <3>1. K \in Seq(Messages) /\ Drops(K, J, n)
      BY <2>5, <2>6
    <3> HIDE DEF K
    <3> QED
      BY <1>2, <2>4, <2>6, <3>1, DropNotices
  <2> QED
    BY <1>3, <2>1, <2>2, <2>4, <2>7 DEF Known, Healthy, Complete, f
<1>5. CASE delivered.kind = "ready"
  <2>1. /\ holder' = None /\ phase' = "none"
        /\ UNCHANGED <<errs, rbuf, toClient, toServer, queue>>
    BY <1>5 DEF Resume
  <2>2. /\ Owed' = <<>> /\ Upstream' = Upstream
    BY <1>1, <1>3, <2>1 DEF Owed, Upstream
  <2>3. Incoming' = J
    <3>1. Incoming' = <<>> \o J
      BY <2>1 DEF Incoming, Delivered, J
    <3> QED
      BY <1>2, <3>1, ConcatEmptySeq
  <2>4. WireOK(J, Tail(Owed), Upstream, peer, verdict, errs)
    BY <1>1, <1>2, <1>5, ConsumeEnd DEF Known, Healthy
  <2>5. AllUnderWay(J, <<>>, Upstream)
    BY QueueFacts DEF AllUnderWay
  <2> QED
    BY <1>1, <1>3, <2>1, <2>2, <2>3, <2>4, <2>5 DEF Healthy, Complete
<1>6. delivered.kind # "copy"
  BY DEF Resume, Fatal, Known
<1> QED
  BY <1>4, <1>5, <1>6 DEF Resume

LEMMA WireDataToWaiter ==
  ASSUME Known, DataToWaiter, TypeOK'
  PROVE  Healthy' /\ Complete'
<1>1. PICK n \in 1 .. Len(toClient) :
        /\ toClient' = SubSeq(toClient, n + 1, Len(toClient))
        /\ DrainToWaiter(rbuf \o SubSeq(toClient, 1, n))
  BY DEF DataToWaiter
<1>2. /\ phase # "resumed"
      /\ UNCHANGED <<state, holder, queue, toServer, wbuf, peer, verdict, errs>>
  BY DEF DataToWaiter, callVars, serverVars
<1>3. Owed' = Owed /\ Upstream' = Upstream
  BY <1>2 DEF Owed, Upstream
<1> DEFINE b == rbuf \o SubSeq(toClient, 1, n)
<1>4. /\ rbuf \in Seq(Messages) /\ toClient \in Seq(Messages) /\ Incoming \in Seq(Messages)
      /\ Incoming = rbuf \o toClient
      /\ Incoming' \in Seq(Messages) /\ toClient' \in Seq(Messages)
  <2>1. Incoming' \in Seq(Messages) /\ toClient' \in Seq(Messages)
    BY IncomingNext
  <2> QED
    BY <1>2, <2>1, WireTypes DEF Known
<1>5. b \in Seq(Messages)
  <2>1. SubSeq(toClient, 1, n) \in Seq(Messages)
    BY <1>4, SubSeqProperties, ElementOfSeq, LenProperties
  <2> QED
    BY <1>4, <2>1, ConcatProperties
<1>6. b \o toClient' = Incoming
  BY <1>1, <1>4, ReadFacts
<1>7. DrainToWaiter(b)
  BY <1>1
<1> HIDE DEF b
<1>8. PICK m \in 0 .. Len(b) :
         /\ Drops(Incoming', Incoming, m)
         /\ \A i \in 1 .. m : Incoming[i].kind = "notice"
  BY <1>4, <1>5, <1>6, <1>7, DrainDrops
<1> DEFINE J == Incoming'
<1>9. /\ WireOK(J, Owed, Upstream, peer, verdict, errs)
      /\ AllUnderWay(Incoming, Owed, Upstream) => AllUnderWay(J, Owed, Upstream)
  <2>1. J \in Seq(Messages) /\ Drops(J, Incoming, m)
    BY <1>4, <1>8
  <2> HIDE DEF J
  <2> QED
    BY <1>4, <1>8, <2>1, DropNotices DEF Known, Healthy
<1> QED
  BY <1>2, <1>3, <1>9 DEF Known, Healthy, Complete

\* With no query() in progress, what is left in the reader is dropped when more
\* arrives: notices, since the error of a shutdown is the last thing to arrive.
LEMMA LeftOverDropped ==
  ASSUME Known, phase \in {"none", "flushing"}, toClient # <<>>
  PROVE  /\ WireOK(toClient, Owed, Upstream, peer, verdict, errs)
         /\ AllUnderWay(Incoming, Owed, Upstream) => AllUnderWay(toClient, Owed, Upstream)
<1>1. /\ rbuf \in Seq(Messages) /\ toClient \in Seq(Messages) /\ Incoming \in Seq(Messages)
      /\ Incoming = rbuf \o toClient
  BY WireTypes DEF Known
<1>2. /\ Drops(toClient, Incoming, Len(rbuf)) /\ Cuts(rbuf, Incoming)
      /\ Extends(Incoming, rbuf, Len(toClient))
  BY <1>1, ConcatFacts
<1>3. Len(rbuf) \in Nat /\ Len(toClient) \in Nat \ {0}
  BY <1>1, EmptySeq, LenProperties
<1>4. ASSUME NEW i \in 1 .. Len(rbuf) PROVE Incoming[i].kind = "notice"
  <2>1. Incoming[i].call = None /\ i \in 1 .. Len(Incoming) /\ i # Len(Incoming)
    BY <1>2, <1>3 DEF Known, LeftOver, Cuts, Extends
  <2> QED
    BY <2>1 DEF Known, Healthy, WireOK, Kinds
<1> QED
  BY <1>1, <1>2, <1>4, DropNotices DEF Known, Healthy

LEMMA WireDataToQueue ==
  ASSUME Known, closeError' = "none", DataToQueue
  PROVE  Healthy' /\ Complete'
<1> DEFINE m == Head(toClient)
           J == Tail(toClient)
<1>1. /\ phase \in {"none", "flushing"} /\ toClient # <<>>
      /\ UNCHANGED <<wbuf, peer, verdict>> /\ rbuf' = <<>>
  BY DEF DataToQueue, serverVars
<1>2. /\ toClient \in Seq(Messages) /\ J \in Seq(Messages)
      /\ Drops(J, toClient, 1) /\ toClient[1] = m
      /\ m \in Messages
  <2>1. toClient \in Seq(Messages)
    BY WireTypes DEF Known
  <2> QED
    BY <1>1, <2>1, SuffixDrops, HeadTailProperties
<1>3. /\ WireOK(toClient, Owed, Upstream, peer, verdict, errs)
      /\ AllUnderWay(Incoming, Owed, Upstream) => AllUnderWay(toClient, Owed, Upstream)
  BY <1>1, LeftOverDropped
<1>4. /\ Owed \in Seq(Calls) /\ IsInjective(Owed)
      /\ queue # <<>> => holder = None /\ Owed = queue
  BY OwedFacts DEF Owed, Known, ControlInv, Exclusive
<1>5. ASSUME toClient' = J, phase' = phase PROVE Incoming' = J
  <2>1. Incoming' = <<>> \o (<<>> \o J)
    BY <1>1, <1>5 DEF Incoming, Delivered
  <2> QED
    BY <1>2, <2>1, ConcatEmptySeq
<1>6. CASE ~Regular(m)
  <2>1. /\ toClient' = J
        /\ UNCHANGED <<state, queue, holder, phase, toServer, errs>>
    BY <1>6 DEF DataToQueue
  <2>2. Incoming' = J /\ Owed' = Owed /\ Upstream' = Upstream
    BY <1>1, <1>5, <2>1 DEF Owed, Upstream
  <2>3. \A i \in 1 .. 1 : toClient[i].kind = "notice"
    BY <1>2, <1>6 DEF Regular
  <2> HIDE DEF m, J
  <2>4. /\ WireOK(J, Owed, Upstream, peer, verdict, errs)
        /\ AllUnderWay(toClient, Owed, Upstream) => AllUnderWay(J, Owed, Upstream)
    BY <1>2, <1>3, <2>3, DropNotices
  <2> QED
    BY <1>1, <1>3, <2>1, <2>2, <2>4 DEF Known, Healthy, Complete
<1>7. CASE Regular(m) /\ queue # <<>> /\ m.kind # "copy"
  <2>1. /\ toClient' = J /\ Step(Head(queue), m)
        /\ UNCHANGED <<holder, phase, toServer>>
    BY <1>7 DEF DataToQueue
  <2>2. Incoming' = J /\ Upstream' = Upstream /\ Owed' = queue' /\ Owed = queue
    BY <1>1, <1>4, <1>5, <1>7, <2>1 DEF Owed, Upstream
  <2>3. Owed # <<>> /\ Owed[1] = Head(queue)
    BY <1>4, <1>7, <2>2
  <2>4. CASE m.kind \in {"data", "error"}
    <3>1. /\ UNCHANGED <<queue, state>>
          /\ errs' = IF m.kind = "error" THEN errs \cup {Owed[1]} ELSE errs
      BY <2>1, <2>3, <2>4 DEF Step, Done
    <3> DEFINE f == errs'
    <3>2. /\ f = IF toClient[1].kind = "error" THEN errs \cup {Owed[1]} ELSE errs
          /\ toClient[1].kind \in {"data", "error"}
      BY <1>2, <2>4, <3>1
    <3>3. J \in Seq(Messages) /\ toClient \in Seq(Messages) /\ Drops(J, toClient, 1)
      BY <1>2
    <3>4. Owed \in Seq(Calls) /\ Owed # <<>>
      BY <1>4, <2>3
    <3> HIDE DEF f, J, m
    <3>5. /\ WireOK(J, Owed, Upstream, peer, verdict, f)
          /\ AllUnderWay(toClient, Owed, Upstream) => AllUnderWay(J, Owed, Upstream)
      <4>1. WireOK(toClient, Owed, Upstream, peer, verdict, errs)
        BY <1>3
      <4>2. f = IF toClient[1].kind = "error" THEN errs \cup {Owed[1]} ELSE errs
        BY <3>2
      <4>3. toClient[1].kind \in {"data", "error"}
        BY <3>2
      <4> QED
        BY <3>3, <3>4, <4>1, <4>2, <4>3, ConsumePart
    <3> QED
      BY <1>1, <1>3, <1>4, <2>2, <3>1, <3>5 DEF Known, Healthy, Complete, f
  <2>5. CASE m.kind = "ready"
    <3>1. /\ queue' = Tail(queue) /\ errs' = errs
          /\ state' \in {"ready", "pipelining"} => state \in {"ready", "pipelining"}
      BY <2>1, <2>5 DEF Step, Done
    <3>2. Owed' = Tail(Owed)
      BY <1>4, <2>2, <3>1
    <3>3. J \in Seq(Messages) /\ toClient \in Seq(Messages) /\ Drops(J, toClient, 1)
          /\ toClient[1].kind = "ready"
      BY <1>2, <2>5
    <3> HIDE DEF J, m
    <3>4. /\ WireOK(J, Tail(Owed), Upstream, peer, verdict, errs)
          /\ AllUnderWay(toClient, Owed, Upstream) => AllUnderWay(J, Tail(Owed), Upstream)
      BY <1>3, <1>4, <3>3, ConsumeEnd
    <3> QED
      BY <1>1, <1>3, <2>2, <3>1, <3>2, <3>4 DEF Known, Healthy, Complete
  <2>6. m.kind \in {"data", "error", "ready"}
    BY <1>2, <1>7 DEF Messages, Regular
  <2> QED
    BY <2>4, <2>5, <2>6
<1>8. ~Regular(m) \/ (queue # <<>> /\ m.kind # "copy")
  BY DEF DataToQueue, Fatal, Known
<1> QED
  BY <1>6, <1>7, <1>8

\* What the server's steps do to the sequences of the wire.
LEMMA WireAnswer ==
  ASSUME Known, peer = "up", toServer # <<>>, Head(toServer) # Terminate,
         NEW how \in {"ok", "error"}, Answer(Head(toServer), how),
         UNCHANGED <<clientVars, callVars, peer>>
  PROVE  Healthy' /\ Complete'
<1> DEFINE k == Head(toServer)
           s == <<Msg(IF how = "ok" THEN "data" ELSE "error", k), Msg("ready", k)>>
<1>1. /\ Owed' = Owed
      /\ Upstream' = Tail(toServer) \o wbuf
      /\ verdict' = [verdict EXCEPT ![k] = how]
      /\ UNCHANGED <<state, peer, errs>>
  BY DEF clientVars, callVars, Answer, Owed, Incoming, Delivered, Upstream
<1>2. /\ Drops(Upstream', Upstream, 1) /\ Upstream' \in Seq(Calls \cup {Terminate})
      /\ Upstream[1] = k /\ Upstream \in Seq(Calls \cup {Terminate})
  <2>1. /\ toServer \in Seq(Calls \cup {Terminate}) /\ wbuf \in Seq(Calls \cup {Terminate})
        /\ Upstream \in Seq(Calls \cup {Terminate})
    BY WireTypes DEF Known
  <2> QED
    BY <1>1, <2>1, ExecuteFacts DEF Upstream
<1>3. k \in Calls
  BY FrameType DEF Known
<1>4. /\ s \in Seq(Messages) /\ Len(s) = 2
      /\ s[1] = Msg(IF how = "ok" THEN "data" ELSE "error", k) /\ s[2] = Msg("ready", k)
  BY <1>3, MessageFacts
<1>5. Incoming' \in Seq(Messages) /\ Replies(Incoming', Incoming, k, how)
  <2>1. toClient' = toClient \o s /\ UNCHANGED <<phase, delivered, rbuf>>
    BY DEF Answer, clientVars
  <2> HIDE DEF s
  <2>2. Says(Incoming', Incoming, s)
    BY <1>4, <2>1, IncomingSays DEF Known
  <2> QED
    BY <1>4, <2>2 DEF Replies, Says
<1> DEFINE J == Incoming'
           V == Upstream'
           w == [verdict EXCEPT ![k] = how]
<1>6. /\ WireOK(J, Owed, V, "up", w, errs)
      /\ AllUnderWay(Incoming, Owed, Upstream) => AllUnderWay(J, Owed, V)
  <2>1. /\ J \in Seq(Messages) /\ Replies(J, Incoming, Upstream[1], how)
        /\ V \in Seq(Calls \cup {Terminate}) /\ Drops(V, Upstream, 1)
        /\ Upstream[1] # Terminate
        /\ Ruled(w, verdict, Upstream[1], how)
    BY <1>2, <1>3, <1>5, WireTypes DEF Known, Ruled
  <2>2. /\ WireOK(Incoming, Owed, Upstream, "up", verdict, errs)
        /\ Incoming \in Seq(Messages) /\ Upstream \in Seq(Calls \cup {Terminate})
    BY WireTypes DEF Known, Healthy
  <2> HIDE DEF J, V, w, s, k
  <2>3. Runs(Incoming, J, Upstream, V, verdict, w, how)
    BY <2>1, <2>2 DEF Runs
  <2> QED
    BY <2>2, <2>3, ServerAnswers
<1> QED
  BY <1>1, <1>6 DEF Known, Healthy, Complete

LEMMA WireEntersCopy ==
  ASSUME Known, ServerEntersCopy
  PROVE  Healthy' /\ Complete'
<1> DEFINE k == Head(toServer)
           s == <<Msg("copy", k)>>
<1>1. /\ peer = "up" /\ peer' = "copying" /\ toServer # <<>> /\ k # Terminate
      /\ toClient' = Append(toClient, Msg("copy", k)) /\ toServer' = Tail(toServer)
      /\ UNCHANGED <<clientVars, callVars, verdict>>
  BY DEF ServerEntersCopy, Serving
<1>2. k \in Calls
  BY <1>1, FrameType DEF Known
<1>3. /\ s \in Seq(Messages) /\ Len(s) = 1 /\ s[1] = Msg("copy", k)
  BY <1>2, MessageFacts
<1>4. toClient' = toClient \o s
  <2>1. toClient \in Seq(Messages) /\ Msg("copy", k) \in Messages
    BY <1>2, MessageFacts DEF Known, TypeOK
  <2> QED
    BY <1>1, <2>1, AppendIsConcat
<1>5. /\ Owed' = Owed
      /\ Upstream' = Tail(toServer) \o wbuf
      /\ UNCHANGED <<verdict, errs>>
  BY <1>1, <1>4 DEF clientVars, callVars, Owed, Incoming, Delivered, Upstream
<1>6. /\ Drops(Upstream', Upstream, 1) /\ Upstream' \in Seq(Calls \cup {Terminate})
      /\ Upstream[1] = k /\ Upstream \in Seq(Calls \cup {Terminate})
  <2>1. /\ toServer \in Seq(Calls \cup {Terminate}) /\ wbuf \in Seq(Calls \cup {Terminate})
        /\ Upstream \in Seq(Calls \cup {Terminate})
    BY WireTypes DEF Known
  <2> QED
    BY <1>1, <1>5, <2>1, ExecuteFacts DEF Upstream
<1>7. /\ Incoming' \in Seq(Messages) /\ Extends(Incoming', Incoming, 1)
      /\ Incoming'[Len(Incoming) + 1] = Msg("copy", k)
  <2>1. UNCHANGED <<phase, delivered, rbuf>>
    BY <1>1 DEF clientVars
  <2> HIDE DEF s, k
  <2>2. Says(Incoming', Incoming, s)
    BY <1>3, <1>4, <2>1, IncomingSays DEF Known
  <2> QED
    BY <1>3, <2>2 DEF Says
<1> DEFINE J == Incoming'
           V == Upstream'
<1>8. WireOK(J, Owed, V, "copying", verdict, errs)
  <2>1. /\ J \in Seq(Messages) /\ Extends(J, Incoming, 1)
        /\ J[Len(Incoming) + 1] = Msg("copy", Upstream[1])
        /\ V \in Seq(Calls \cup {Terminate}) /\ Drops(V, Upstream, 1)
        /\ Upstream[1] # Terminate
    BY <1>1, <1>6, <1>7
  <2>2. /\ WireOK(Incoming, Owed, Upstream, "up", verdict, errs)
        /\ Incoming \in Seq(Messages) /\ Upstream \in Seq(Calls \cup {Terminate})
    BY <1>1, WireTypes DEF Known, Healthy
  <2> HIDE DEF J, V, s, k
  <2> QED
    BY <2>1, <2>2, CopyStarts
<1> QED
  BY <1>1, <1>5, <1>8 DEF Healthy, Complete

LEMMA WireNotifies ==
  ASSUME Known, ServerNotifies
  PROVE  Healthy' /\ Complete'
<1> DEFINE s == <<Msg("notice", None)>>
<1>1. /\ peer = "up"
      /\ toClient' = Append(toClient, Msg("notice", None))
      /\ UNCHANGED <<clientVars, callVars, toServer, peer, verdict>>
  BY DEF ServerNotifies, Serving
<1>2. /\ s \in Seq(Messages) /\ Len(s) = 1 /\ s[1] = Msg("notice", None)
  BY MessageFacts
<1>3. toClient' = toClient \o s
  BY <1>1, MessageFacts, AppendIsConcat DEF Known, TypeOK
<1>4. /\ Owed' = Owed
      /\ Upstream' = Upstream
      /\ UNCHANGED <<state, peer, verdict, errs>>
  BY <1>1, <1>3 DEF clientVars, callVars, Owed, Incoming, Delivered, Upstream
<1>5. /\ Incoming' \in Seq(Messages) /\ Extends(Incoming', Incoming, 1)
      /\ Incoming'[Len(Incoming) + 1] = Msg("notice", None)
  <2>1. UNCHANGED <<phase, delivered, rbuf>>
    BY <1>1 DEF clientVars
  <2> HIDE DEF s
  <2>2. Says(Incoming', Incoming, s)
    BY <1>2, <1>3, <2>1, IncomingSays DEF Known
  <2> QED
    BY <1>2, <2>2 DEF Says
<1> DEFINE J == Incoming'
<1>6. /\ WireOK(J, Owed, Upstream, "up", verdict, errs)
      /\ AllUnderWay(Incoming, Owed, Upstream) => AllUnderWay(J, Owed, Upstream)
  <2>1. /\ J \in Seq(Messages) /\ Extends(J, Incoming, 1)
        /\ J[Len(Incoming) + 1] = Msg("notice", None)
    BY <1>5
  <2>2. /\ WireOK(Incoming, Owed, Upstream, "up", verdict, errs)
        /\ Incoming \in Seq(Messages) /\ None \notin Range(Owed)
    BY <1>1, WireTypes, OwedFacts DEF Known, Healthy
  <2> HIDE DEF J, s
  <2> QED
    BY <2>1, <2>2, NoticeSent
<1> QED
  BY <1>1, <1>4, <1>6 DEF Known, Healthy, Complete

\* What is left of the frames when the server is gone: those not written yet.
LEMMA FramesGone ==
  ASSUME Known, toServer' = <<>>, wbuf' = wbuf
  PROVE  Upstream' = wbuf /\ NoFrameNew(wbuf, Upstream)
<1>1. wbuf \in Seq(Calls \cup {Terminate}) /\ toServer \in Seq(Calls \cup {Terminate})
  BY WireTypes DEF Known
<1>2. Upstream' = wbuf
  BY <1>1, ConcatEmptySeq DEF Upstream
<1>3. /\ Extends(Upstream, toServer, Len(wbuf))
      /\ \A i \in 1 .. Len(wbuf) : Upstream[Len(toServer) + i] = wbuf[i]
  BY <1>1, ConcatFacts DEF Upstream
<1>4. ASSUME NEW i \in 1 .. Len(wbuf) PROVE \E j \in 1 .. Len(Upstream) : wbuf[i] = Upstream[j]
  <2>1. Len(toServer) + i \in 1 .. Len(Upstream)
    BY <1>1, <1>3, LenProperties DEF Extends
  <2> QED
    BY <1>3, <2>1
<1> QED
  BY <1>2, <1>4 DEF NoFrameNew

LEMMA WireTerminates ==
  ASSUME Known, ServerTerminates
  PROVE  Healthy' /\ Complete'
<1>1. /\ peer = "up" /\ peer' = "terminated" /\ toServer' = <<>>
      /\ UNCHANGED <<clientVars, callVars, toClient, verdict>>
  BY DEF ServerTerminates, Serving
<1>2. /\ Incoming' = Incoming /\ Owed' = Owed /\ wbuf' = wbuf
      /\ UNCHANGED <<verdict, errs>>
  BY <1>1 DEF clientVars, callVars, Incoming, Delivered, Owed
<1>3. Upstream' = wbuf /\ NoFrameNew(wbuf, Upstream)
  BY <1>1, <1>2, FramesGone
<1>4. WireOK(Incoming, Owed, wbuf, "terminated", verdict, errs)
  <2>1. WireOK(Incoming, Owed, Upstream, "up", verdict, errs) /\ Incoming \in Seq(Messages)
    BY <1>1, WireTypes DEF Known, Healthy
  <2> QED
    BY <1>3, <2>1, UpstreamCut
<1> QED
  BY <1>1, <1>2, <1>3, <1>4 DEF Healthy, Complete

LEMMA WireStops ==
  ASSUME Known, ServerStops
  PROVE  Healthy' /\ Complete'
<1>1. /\ peer = "up" /\ peer' = "crashed" /\ toServer' = <<>>
      /\ UNCHANGED <<clientVars, callVars, verdict>>
  BY DEF ServerStops, Serving
<1>2. /\ Owed' = Owed /\ wbuf' = wbuf
      /\ UNCHANGED <<verdict, errs>>
      /\ Incoming' = Delivered \o (rbuf \o toClient')
  BY <1>1 DEF clientVars, callVars, Incoming, Delivered, Owed
<1>3. Upstream' = wbuf /\ NoFrameNew(wbuf, Upstream)
  BY <1>1, <1>2, FramesGone
<1>4. PICK n \in 0 .. Len(toClient) :
         \/ toClient' = SubSeq(toClient, 1, n)
         \/ toClient' = SubSeq(toClient, 1, n) \o <<Msg("error", None)>>
  BY DEF ServerStops
<1>5. /\ Delivered \in Seq(Messages) /\ rbuf \in Seq(Messages) /\ toClient \in Seq(Messages)
      /\ Incoming \in Seq(Messages) /\ None \notin Range(Owed)
      /\ WireOK(Incoming, Owed, Upstream, "up", verdict, errs)
  BY <1>1, WireTypes, OwedFacts DEF Known, Healthy
<1> DEFINE c == SubSeq(toClient, 1, n)
           rc == rbuf \o c
           J == Delivered \o rc
           s == <<Msg("error", None)>>
<1>6. c \in Seq(Messages) /\ Cuts(c, toClient)
  BY <1>5, SubSeqProperties, ElementOfSeq, LenProperties DEF Cuts
<1> HIDE DEF c
<1>7. rc \in Seq(Messages) /\ Cuts(rc, rbuf \o toClient) /\ rbuf \o toClient \in Seq(Messages)
  BY <1>5, <1>6, CutBehind, ConcatProperties
<1>8. J \in Seq(Messages)
  <2> HIDE DEF rc
  <2> QED
    BY <1>5, <1>7, ConcatProperties
<1>9. Cuts(J, Incoming)
  <2> DEFINE ri == rbuf \o toClient
  <2>1. ri \in Seq(Messages) /\ Cuts(rc, ri) /\ rc \in Seq(Messages)
    BY <1>7
  <2> HIDE DEF ri, rc
  <2>2. Cuts(Delivered \o rc, Delivered \o ri)
    BY <1>5, <2>1, CutBehind
  <2> QED
    BY <2>2 DEF ri, Incoming
<1>10. /\ WireOK(J, Owed, wbuf, "crashed", verdict, errs)
       /\ \A i \in 1 .. Len(J) : J[i].call = None => J[i].kind = "notice"
  <2> HIDE DEF J
  <2> QED
    BY <1>3, <1>5, <1>8, <1>9, CutShort
<1>11. CASE toClient' = c
  BY <1>1, <1>2, <1>3, <1>10, <1>11 DEF Healthy, Complete
<1>12. CASE toClient' = c \o s
  <2>1. /\ s \in Seq(Messages) /\ Len(s) = 1 /\ s[1] = Msg("error", None)
    BY MessageFacts
  <2>2. Incoming' = Joined(Delivered, rbuf, Cat(c, s)) /\ J = Joined(Delivered, rbuf, c)
    BY <1>2, <1>12 DEF Joined, Cat
  <2>3. /\ Extends(Incoming', J, 1) /\ Incoming' \in Seq(Messages)
        /\ Incoming'[Len(J) + 1] = Msg("error", None)
    <3> HIDE DEF s, J
    <3>1. Says(Incoming', J, s)
      BY <1>5, <1>6, <2>1, <2>2, SaySaid
    <3> QED
      BY <2>1, <3>1 DEF Says
  <2> DEFINE K == Incoming'
  <2>4. WireOK(K, Owed, wbuf, "crashed", verdict, errs)
    <3>1. /\ Extends(K, J, 1) /\ K \in Seq(Messages) /\ K[Len(J) + 1] = Msg("error", None)
      BY <2>3
    <3>2. J \in Seq(Messages) /\ None \notin Range(Owed)
      BY <1>5, <1>8
    <3>3. /\ WireOK(J, Owed, wbuf, "crashed", verdict, errs)
          /\ \A i \in 1 .. Len(J) : J[i].call = None => J[i].kind = "notice"
      BY <1>10
    <3> HIDE DEF K, J, s
    <3> QED
      BY <3>1, <3>2, <3>3, LastWords
  <2> QED
    BY <1>1, <1>2, <1>3, <2>4 DEF Healthy, Complete
<1> QED
  BY <1>4, <1>11, <1>12 DEF c

\* A connection that has failed stays failed.
LEMMA FailureIsFinal ==
  ASSUME [Next]_vars, closeError' = "none"
  PROVE  closeError = "none"
<1>1. ASSUME NEW why \in {"protocol", "transport"}, Fatal(why) PROVE closeError = "none"
  BY <1>1 DEF Fatal
<1>2. CASE Application
  BY <1>2 DEF Application, ExtQuery, SimpleQuery, Refuse, Abort, End, clientVars
<1>3. CASE Client
  BY <1>1, <1>3 DEF Client, EndDone, Flush, FlushDone, Resume
<1>4. CASE Socket
  BY <1>1, <1>4 DEF Socket, DataToWaiter, DataToQueue, TransportClose, TransportError
<1>5. CASE Server
  BY <1>5 DEF Server, ServerRuns, ServerEntersCopy, ServerCancels, ServerNotifies,
              ServerTerminates, ServerStops, clientVars
<1>6. CASE UNCHANGED vars
  BY <1>6 DEF vars, clientVars
<1> QED
  BY <1>2, <1>3, <1>4, <1>5, <1>6 DEF Next

LEMMA WireNext ==
  ASSUME TypeOK, TypeOK', ControlInv, WireInv, LeftOver, Aftermath, [Next]_vars
  PROVE  WireInv'
<1> SUFFICES ASSUME closeError' = "none" PROVE Healthy' /\ Complete'
  BY DEF WireInv, Healthy, Complete
<1>0. Known
  BY FailureIsFinal DEF Known, WireInv, Healthy, Complete
<1>1. ASSUME NEW k \in ExtCalls, ExtQuery(k) PROVE Healthy' /\ Complete'
  BY <1>0, <1>1, WireExtQuery
<1>2. ASSUME NEW k \in SimpleCalls, SimpleQuery(k) PROVE Healthy' /\ Complete'
  BY <1>0, <1>2, WireSimpleQuery
<1>3. ASSUME NEW k \in Calls, Refuse(k) \/ Abort(k) PROVE Healthy' /\ Complete'
  <2>1. UNCHANGED <<phase, delivered, rbuf, toClient, holder, queue, toServer, wbuf,
                    peer, verdict, errs, state>>
    BY <1>3 DEF Refuse, Abort, clientVars, serverVars
  <2> QED
    BY <1>0, <2>1, WireFrame
<1>4. CASE End
  BY <1>0, <1>4, WireEnd
<1>5. CASE EndDone
  <2>1. UNCHANGED <<phase, delivered, rbuf, toClient, holder, queue, toServer, wbuf,
                    peer, verdict, errs>> /\ state' = "closed"
    BY <1>5 DEF EndDone, callVars, serverVars
  <2> QED
    BY <1>0, <2>1, WireFrame
<1>6. CASE Flush
  BY <1>0, <1>6, WireFlush
<1>7. CASE FlushDone
  BY <1>0, <1>7, WireFlushDone
<1>8. CASE Resume
  BY <1>0, <1>8, WireResume
<1>9. CASE DataToWaiter
  BY <1>0, <1>9, WireDataToWaiter
<1>10. CASE DataToQueue
  BY <1>0, <1>10, WireDataToQueue
<1>11. CASE TransportClose
  <2>1. state = "closed"
    BY <1>0, <1>11 DEF TransportClose, Known
  <2>2. UNCHANGED <<phase, delivered, rbuf, toClient, holder, queue, toServer, wbuf,
                    peer, verdict, errs, state>>
    BY <1>11, <2>1 DEF TransportClose, serverVars
  <2> QED
    BY <1>0, <2>2, WireFrame
<1>12. ~TransportError
  BY <1>0 DEF TransportError, Fatal, Known
<1>13. CASE ServerRuns
  <2>1. PICK how \in {"ok", "error"} : Answer(Head(toServer), how)
    BY <1>13 DEF ServerRuns
  <2>2. /\ peer = "up" /\ toServer # <<>> /\ Head(toServer) # Terminate
        /\ UNCHANGED <<clientVars, callVars, peer>>
    BY <1>13 DEF ServerRuns, Serving
  <2> QED
    BY <1>0, <2>1, <2>2, WireAnswer
<1>14. CASE ServerEntersCopy
  BY <1>0, <1>14, WireEntersCopy
<1>15. CASE ServerCancels
  <2>1. UNCHANGED <<clientVars, callVars, peer>>
    BY <1>15 DEF ServerCancels
  <2>2. CASE Serving /\ toServer # <<>> /\ Head(toServer) # Terminate
    <3>1. Answer(Head(toServer), "error") /\ peer = "up"
      BY <1>15, <2>2 DEF ServerCancels, Serving
    <3> QED
      BY <1>0, <2>1, <2>2, <3>1, WireAnswer
  <2>3. CASE ~(Serving /\ toServer # <<>> /\ Head(toServer) # Terminate)
    <3>1. UNCHANGED <<phase, delivered, rbuf, toClient, holder, queue, toServer, wbuf,
                      peer, verdict, errs, state>>
      BY <1>15, <2>1, <2>3 DEF ServerCancels, clientVars, callVars
    <3> QED
      BY <1>0, <3>1, WireFrame
  <2> QED
    BY <2>2, <2>3
<1>16. CASE ServerNotifies
  BY <1>0, <1>16, WireNotifies
<1>17. CASE ServerTerminates
  BY <1>0, <1>17, WireTerminates
<1>18. CASE ServerStops
  BY <1>0, <1>18, WireStops
<1>19. CASE UNCHANGED vars
  <2>1. UNCHANGED <<phase, delivered, rbuf, toClient, holder, queue, toServer, wbuf,
                    peer, verdict, errs, state>>
    BY <1>19 DEF vars, clientVars, callVars, serverVars
  <2> QED
    BY <1>0, <2>1, WireFrame
<1> QED
  BY <1>1, <1>2, <1>3, <1>4, <1>5, <1>6, <1>7, <1>8, <1>9, <1>10, <1>11, <1>12, <1>13,
     <1>14, <1>15, <1>16, <1>17, <1>18, <1>19
     DEF Next, Application, Client, Socket, Server

-----------------------------------------------------------------------------
(* What is left over, and what a failure leaves *)

\* When nobody is owed an answer, nothing that has arrived or is under way
\* answers anybody.
LEMMA NobodyOwed ==
  ASSUME NEW d \in Seq(Messages), NEW r \in Seq(Messages), NEW c \in Seq(Messages),
         Expected(Joined(d, r, c), <<>>)
  PROVE  /\ \A i \in 1 .. Len(r) : r[i].call = None
         /\ \A i \in 1 .. Len(c) : c[i].call = None
<1> DEFINE b == r \o c
           I == d \o b
<1>1. b \in Seq(Messages)
  BY ConcatProperties
<1>2. /\ Len(r) \in Nat /\ Len(c) \in Nat /\ Len(d) \in Nat
      /\ Cuts(r, b) /\ Extends(b, r, Len(c))
      /\ \A i \in 1 .. Len(c) : b[Len(r) + i] = c[i]
  BY ConcatFacts, LenProperties
<1> HIDE DEF b
<1>3. /\ Extends(I, d, Len(b)) /\ \A i \in 1 .. Len(b) : I[Len(d) + i] = b[i]
  BY <1>1, ConcatFacts
<1>4. \A i \in 1 .. Len(I) : I[i].call = None
  BY QueueFacts DEF Expected, Joined, b
<1>5. Len(b) = Len(r) + Len(c) /\ Len(I) = Len(d) + Len(b)
  BY <1>2, <1>3 DEF Extends
<1> HIDE DEF I
<1>6. ASSUME NEW i \in 1 .. Len(b) PROVE b[i].call = None
  <2>1. Len(d) + i \in 1 .. Len(I)
    BY <1>2, <1>5
  <2> QED
    BY <1>3, <1>4, <2>1
<1>7. ASSUME NEW i \in 1 .. Len(r) PROVE r[i].call = None
  <2>1. i \in 1 .. Len(b) /\ r[i] = b[i]
    BY <1>2, <1>5 DEF Cuts
  <2> QED
    BY <1>6, <2>1
<1>8. ASSUME NEW i \in 1 .. Len(c) PROVE c[i].call = None
  <2>1. Len(r) + i \in 1 .. Len(b) /\ c[i] = b[Len(r) + i]
    BY <1>2, <1>5
  <2> QED
    BY <1>6, <2>1
<1> QED
  BY <1>7, <1>8

LEMMA LeftOverNext ==
  ASSUME TypeOK, TypeOK', ControlInv, WireInv, WireInv', LeftOver, Aftermath, [Next]_vars
  PROVE  LeftOver'
<1> SUFFICES ASSUME closeError' = "none", phase' \in {"none", "flushing"}
             PROVE  \A i \in 1 .. Len(rbuf') : rbuf'[i].call = None
  BY DEF LeftOver
<1>0. closeError = "none"
  BY FailureIsFinal
<1>1. ASSUME phase \in {"none", "flushing"}, rbuf' = rbuf
      PROVE  \A i \in 1 .. Len(rbuf') : rbuf'[i].call = None
  BY <1>0, <1>1 DEF LeftOver
<1>2. ASSUME NEW b, DrainToWaiter(b) PROVE FALSE
  BY <1>2 DEF DrainToWaiter
<1>3. CASE Application
  <2>1. rbuf' = rbuf /\ (phase' = phase \/ \E k \in SimpleCalls : SimpleQuery(k))
    BY <1>0, <1>3 DEF Application, ExtQuery, SimpleQuery, Refuse, Abort, End, clientVars
  <2>2. ASSUME NEW k \in SimpleCalls, SimpleQuery(k) PROVE phase \in {"none", "flushing"}
    <3>1. state = "ready"
      BY <2>2 DEF SimpleQuery, Idle
    <3> QED
      BY <3>1 DEF ControlInv, StateTells, TypeOK
  <2> QED
    BY <1>1, <2>1, <2>2
<1>4. CASE EndDone \/ Flush
  <2>1. phase \in {"none", "flushing"} /\ rbuf' = rbuf
    BY <1>0, <1>4 DEF EndDone, Flush, Fatal
  <2> QED
    BY <1>1, <2>1
<1>5. ~FlushDone
  BY <1>0, <1>2 DEF FlushDone, AwaitMessage
<1>6. CASE Resume
  <2>1. delivered.kind = "ready"
    BY <1>0, <1>2, <1>6 DEF Resume, AwaitMessage, Fatal
  <2>2. holder' = None /\ queue' = queue /\ queue = <<>>
    BY <1>6, <2>1 DEF Resume, TypeOK, ControlInv, Exclusive
  <2>3. Owed' = <<>>
    BY <2>2 DEF Owed
  <2>4. Expected(Joined(Delivered', rbuf', toClient'), <<>>)
    BY <2>3 DEF WireInv, WireOK, Incoming, Joined
  <2>5. rbuf' \in Seq(Messages) /\ toClient' \in Seq(Messages) /\ Delivered' \in Seq(Messages)
    BY DEF TypeOK, Delivered
  <2> QED
    BY <2>4, <2>5, NobodyOwed
<1>7. ~DataToWaiter
  BY <1>2 DEF DataToWaiter
<1>8. CASE DataToQueue
  BY <1>8 DEF DataToQueue
<1>9. CASE TransportClose \/ TransportError
  <2>1. phase \in {"none", "flushing"} /\ rbuf' = rbuf
    BY <1>0, <1>9 DEF TransportClose, TransportError, Fatal
  <2> QED
    BY <1>1, <2>1
<1>10. CASE Server
  <2>1. phase \in {"none", "flushing"} /\ rbuf' = rbuf
    BY <1>10 DEF Server, ServerRuns, ServerEntersCopy, ServerCancels, ServerNotifies,
                 ServerTerminates, ServerStops, clientVars
  <2> QED
    BY <1>1, <2>1
<1>11. CASE UNCHANGED vars
  <2>1. phase \in {"none", "flushing"} /\ rbuf' = rbuf
    BY <1>11 DEF vars, clientVars
  <2> QED
    BY <1>1, <2>1
<1> QED
  BY <1>3, <1>4, <1>5, <1>6, <1>7, <1>8, <1>9, <1>10, <1>11 DEF Next, Client, Socket

\* fatal() and the failed write of a query() destroy the socket, and the 'close'
\* event is the last one.
LEMMA SocketGone ==
  ASSUME TypeOK, ControlInv, Aftermath, [Next]_vars, closeError' # "none"
  PROVE  transport' \in {"destroyed", "closed"}
<1>1. closeError # "none" => transport \in {"destroyed", "closed"}
  BY DEF Aftermath
<1>2. ASSUME NEW why \in {"protocol", "transport"}, Fatal(why)
      PROVE  transport' \in {"destroyed", "closed"}
  BY <1>1, <1>2 DEF Fatal
<1>3. CASE Application
  BY <1>1, <1>3 DEF Application, ExtQuery, SimpleQuery, Refuse, Abort, End, clientVars
<1>4. CASE Client
  BY <1>1, <1>2, <1>4 DEF Client, EndDone, Flush, FlushDone, Resume
<1>5. CASE Socket
  BY <1>1, <1>2, <1>5 DEF Socket, DataToWaiter, DataToQueue, TransportClose, TransportError
<1>6. CASE Server
  BY <1>1, <1>6 DEF Server, ServerRuns, ServerEntersCopy, ServerCancels, ServerNotifies,
              ServerTerminates, ServerStops, clientVars
<1>7. CASE UNCHANGED vars
  BY <1>1, <1>7 DEF vars, clientVars
<1> QED
  BY <1>3, <1>4, <1>5, <1>6, <1>7 DEF Next

\* A call that has been made is never new again.
LEMMA MadeOnce ==
  ASSUME TypeOK, [Next]_vars, NEW c \in Calls, status[c] # "new"
  PROVE  status'[c] # "new"
<1>1. ASSUME NEW k, NEW s, s # "new", Settle(k, s) PROVE status'[c] # "new"
  BY <1>1 DEF Settle, TypeOK
<1>2. ASSUME FailPending PROVE status'[c] # "new"
  BY <1>2 DEF FailPending
<1>3. ASSUME NEW why, Fatal(why) PROVE status'[c] # "new"
  BY <1>2, <1>3 DEF Fatal
<1>4. ASSUME AwaitMessage PROVE status'[c] # "new"
  BY <1>1, <1>4 DEF AwaitMessage
<1>5. ASSUME NEW k, NEW m, Step(k, m) PROVE status'[c] # "new"
  BY <1>1, <1>5 DEF Step
<1>6. CASE Application
  BY <1>1, <1>6 DEF Application, ExtQuery, SimpleQuery, Refuse, Abort, End, callVars
<1>7. CASE EndDone \/ Flush \/ FlushDone
  BY <1>3, <1>4, <1>7 DEF EndDone, Flush, FlushDone, callVars
<1>8. CASE Resume
  <2>1. CASE delivered.kind \in {"data", "error"}
    BY <1>4, <1>8, <2>1 DEF Resume
  <2>2. CASE delivered.kind = "ready"
    BY <1>1, <1>8, <2>2 DEF Resume
  <2>3. CASE delivered.kind = "copy"
    BY <1>3, <1>8, <2>3 DEF Resume
  <2> QED
    BY <1>8, <2>1, <2>2, <2>3 DEF Resume
<1>9. CASE DataToQueue
  BY <1>3, <1>5, <1>9 DEF DataToQueue
<1>10. CASE DataToWaiter \/ TransportClose \/ TransportError
  BY <1>2, <1>3, <1>10 DEF DataToWaiter, TransportClose, TransportError, callVars
<1>11. CASE Server
  BY <1>11 DEF Server, ServerRuns, ServerEntersCopy, ServerCancels, ServerNotifies,
               ServerTerminates, ServerStops, callVars
<1>12. CASE UNCHANGED vars
  BY <1>12 DEF vars, callVars
<1> QED
  BY <1>6, <1>7, <1>8, <1>9, <1>10, <1>11, <1>12 DEF Next, Client, Socket

LEMMA AftermathNext ==
  ASSUME TypeOK, TypeOK', ControlInv, Aftermath, [Next]_vars
  PROVE  Aftermath'
<1>1. \A k \in errs : status'[k] # "new"
  BY MadeOnce DEF TypeOK, Aftermath
<1>2. ASSUME errs' = errs PROVE Aftermath'
  BY <1>1, <1>2, SocketGone DEF Aftermath
<1>3. ASSUME NEW k \in Calls, status[k] = "pending", errs' \subseteq errs \cup {k}
      PROVE  Aftermath'
  <2>1. status'[k] # "new"
    BY <1>3, MadeOnce
  <2> QED
    BY <1>1, <1>3, <2>1, SocketGone DEF Aftermath
<1>4. CASE Resume
  <2>1. holder \in Calls /\ status[holder] = "pending"
    BY <1>4, CallFacts DEF Resume, TypeOK, ControlInv, Owned
  <2>2. errs' \subseteq errs \cup {holder}
    BY <1>4 DEF Resume
  <2> QED
    BY <1>3, <2>1, <2>2
<1>5. CASE DataToQueue
  <2>1. CASE queue # <<>>
    <3>1. Head(queue) \in Range(queue)
      BY <2>1, TailDistinct DEF TypeOK, ControlInv
    <3>2. Head(queue) \in Calls /\ status[Head(queue)] = "pending"
      BY <3>1, QueueFacts, CallFacts DEF ControlInv, Owned
    <3>3. errs' \subseteq errs \cup {Head(queue)}
      BY <1>5 DEF DataToQueue, Step
    <3> QED
      BY <1>3, <3>2, <3>3
  <2>2. CASE queue = <<>>
    BY <1>2, <1>5, <2>2 DEF DataToQueue
  <2> QED
    BY <2>1, <2>2
<1>6. CASE Application
  BY <1>2, <1>6 DEF Application, ExtQuery, SimpleQuery, Refuse, Abort, End, callVars
<1>7. CASE EndDone \/ Flush \/ FlushDone \/ DataToWaiter \/ TransportClose \/ TransportError
  BY <1>2, <1>7 DEF EndDone, Flush, FlushDone, DataToWaiter, TransportClose, TransportError,
                    callVars
<1>8. CASE Server
  BY <1>2, <1>8 DEF Server, ServerRuns, ServerEntersCopy, ServerCancels, ServerNotifies,
                    ServerTerminates, ServerStops, callVars
<1>9. CASE UNCHANGED vars
  BY <1>2, <1>9 DEF vars, callVars
<1> QED
  BY <1>4, <1>5, <1>6, <1>7, <1>8, <1>9 DEF Next, Client, Socket

-----------------------------------------------------------------------------
(* Answers *)

\* What the queue takes next is for its head, and settles it as it was answered.
LEMMA QueueTakes ==
  ASSUME Known, phase \in {"none", "flushing"}, toClient # <<>>, queue # <<>>
  PROVE  /\ Head(toClient).call \in {None, Head(queue)}
         /\ Head(toClient).kind = "ready" =>
              verdict[Head(queue)] = IF Head(queue) \in errs THEN "error" ELSE "ok"
<1>1. Owed = queue /\ Owed \in Seq(Calls) /\ IsInjective(Owed) /\ Owed[1] = Head(queue)
  <2>1. holder = None
    BY DEF Known, ControlInv, Exclusive
  <2> QED
    BY <2>1, OwedFacts DEF Owed, Known
<1>2. WireOK(toClient, Owed, Upstream, peer, verdict, errs)
  BY LeftOverDropped
<1>3. /\ toClient \in Seq(Messages) /\ Tail(toClient) \in Seq(Messages)
      /\ Drops(Tail(toClient), toClient, 1) /\ toClient[1] = Head(toClient)
      /\ Len(toClient) > 0
  <2>1. toClient \in Seq(Messages)
    BY WireTypes DEF Known
  <2> QED
    BY <2>1, SuffixDrops, EmptySeq, LenProperties
<1>4. ASSUME Head(toClient).call # None PROVE Head(toClient).call = Head(queue)
  <2>1. Expected(toClient, Owed) /\ toClient[1].call # None
    BY <1>2, <1>3, <1>4 DEF WireOK
  <2> QED
    BY <1>1, <1>3, <2>1, HeadMatches
<1>5. ASSUME Head(toClient).kind = "ready"
      PROVE  verdict[Head(queue)] = IF Head(queue) \in errs THEN "error" ELSE "ok"
  <2> DEFINE J == Tail(toClient)
  <2>1. J \in Seq(Messages) /\ Drops(J, toClient, 1) /\ toClient[1].kind = "ready"
    BY <1>3, <1>5
  <2> HIDE DEF J
  <2> QED
    BY <1>1, <1>2, <1>3, <2>1, ConsumeEnd
<1> QED
  BY <1>4, <1>5

\* ... and so does the query() in progress.
LEMMA HolderTakes ==
  ASSUME Known, phase = "resumed"
  PROVE  /\ delivered.call \in {None, holder}
         /\ delivered.kind = "ready" =>
              verdict[holder] = IF holder \in errs THEN "error" ELSE "ok"
         /\ delivered.kind = "copy" => peer \in {"copying", "crashed"}
<1> DEFINE J == rbuf \o toClient
<1>1. Owed = <<holder>> /\ Owed \in Seq(Calls) /\ IsInjective(Owed) /\ Owed[1] = holder
  <2>1. holder # None
    BY DEF Known, TypeOK
  <2> QED
    BY <2>1, OwedFacts DEF Owed, Known
<1>2. WireOK(Incoming, Owed, Upstream, peer, verdict, errs) /\ Incoming \in Seq(Messages)
  BY WireTypes DEF Known, Healthy
<1>3. J \in Seq(Messages) /\ Drops(J, Incoming, 1) /\ Incoming[1] = delivered
  <2>1. /\ Delivered = <<delivered>> /\ Delivered \in Seq(Messages) /\ J \in Seq(Messages)
        /\ Len(Delivered) = 1 /\ Delivered[1] = delivered
    BY WireTypes DEF Known, Delivered
  <2>2. Incoming = Delivered \o J
    BY DEF Incoming
  <2> HIDE DEF J
  <2>3. Drops(J, Incoming, Len(Delivered)) /\ Cuts(Delivered, Incoming)
    BY <2>1, <2>2, ConcatFacts
  <2> QED
    BY <2>1, <2>3 DEF Cuts
<1> HIDE DEF J
<1>4. ASSUME delivered.call # None PROVE delivered.call = holder
  <2>1. Expected(Incoming, Owed) /\ Incoming[1].call # None /\ Len(Incoming) > 0
    BY <1>2, <1>3, <1>4, LenProperties DEF WireOK, Drops
  <2> QED
    BY <1>1, <1>2, <1>3, <2>1, HeadMatches
<1>5. ASSUME delivered.kind = "ready"
      PROVE  verdict[holder] = IF holder \in errs THEN "error" ELSE "ok"
  <2>1. Incoming[1].kind = "ready" /\ J \in Seq(Messages) /\ Drops(J, Incoming, 1)
    BY <1>3, <1>5
  <2>2. Owed \in Seq(Calls) /\ IsInjective(Owed)
    BY <1>1
  <2>3. verdict[Owed[1]] = IF Owed[1] \in errs THEN "error" ELSE "ok"
    BY <1>2, <2>1, <2>2, ConsumeEnd
  <2> QED
    BY <1>1, <2>3
<1>6. delivered.kind = "copy" => peer \in {"copying", "crashed"}
  <2>1. Kinds(Incoming, peer) /\ 1 \in 1 .. Len(Incoming)
    BY <1>2, <1>3, LenProperties DEF WireOK, Drops
  <2> QED
    BY <1>3, <2>1 DEF Kinds
<1> QED
  BY <1>4, <1>5, <1>6

\* drain() with an empty queue is left with what answers nobody: the error of a
\* shutdown.  With a queue it cannot make sense of a COPY.
LEMMA QueueRefuses ==
  ASSUME Known, phase \in {"none", "flushing"}, toClient # <<>>,
         phase = "flushing" => Head(toClient).call = None,
         Regular(Head(toClient)), queue = <<>> \/ Head(toClient).kind = "copy"
  PROVE  peer \in {"copying", "crashed"}
<1> DEFINE m == Head(toClient)
<1>1. WireOK(toClient, Owed, Upstream, peer, verdict, errs)
  BY LeftOverDropped
<1>2. toClient[1] = m /\ 1 \in 1 .. Len(toClient) /\ m \in Messages
  <2>1. toClient \in Seq(Messages)
    BY WireTypes DEF Known
  <2> QED
    BY <2>1, SuffixDrops, EmptySeq, LenProperties, ElementOfSeq
<1>3. Kinds(toClient, peer) /\ Expected(toClient, Owed)
  BY <1>1 DEF WireOK
<1> HIDE DEF m
<1>4. CASE m.kind = "copy"
  BY <1>2, <1>3, <1>4 DEF Kinds
<1>5. CASE m.kind # "copy"
  <2>1. ASSUME phase = "none" PROVE m.call = None
    <3>1. queue = <<>> /\ holder = None
      BY <1>5, <2>1 DEF Known, TypeOK, m
    <3>2. Range(Owed) = {}
      BY <3>1, QueueFacts DEF Owed
    <3> QED
      BY <1>2, <1>3, <3>2 DEF Expected
  <2>2. ASSUME phase = "flushing" PROVE m.call = None
    BY <2>2 DEF m
  <2>3. m.call = None
    BY <2>1, <2>2
  <2>4. m.kind = "error"
    BY <1>2, <1>3, <2>3 DEF Kinds, Regular, m
  <2> QED
    BY <1>2, <1>3, <2>3, <2>4 DEF Kinds
<1> QED
  BY <1>4, <1>5

\* A statement the server is about to answer is one whose call still waits.
LEMMA AnsweredIsPending ==
  ASSUME Known, toServer # <<>>, Head(toServer) # Terminate
  PROVE  Head(toServer) \in Calls /\ status[Head(toServer)] = "pending"
<1>1. Head(toServer) \in Calls
  BY FrameType DEF Known
<1>2. toServer \in Seq(Calls \cup {Terminate}) /\ wbuf \in Seq(Calls \cup {Terminate})
      /\ Len(toServer) \in Nat \ {0}
  <2>1. toServer \in Seq(Calls \cup {Terminate}) /\ wbuf \in Seq(Calls \cup {Terminate})
    BY WireTypes DEF Known
  <2> QED
    BY <2>1, EmptySeq, LenProperties
<1>3. Upstream[1] = Head(toServer) /\ 1 \in 1 .. Len(Upstream)
  <2>1. (toServer \o wbuf)[1] = Head(toServer)
    BY <1>2, ExecuteFacts
  <2>2. Extends(toServer \o wbuf, toServer, Len(wbuf)) /\ Len(wbuf) \in Nat
    BY <1>2, ConcatFacts, LenProperties
  <2> QED
    BY <1>2, <2>1, <2>2 DEF Upstream, Extends
<1>4. Head(toServer) \in Range(Owed)
  BY <1>3 DEF Known, Healthy, WireOK, Unanswered
<1> QED
  BY <1>1, <1>4, OwedFacts DEF Known

\* A step by which no call consumes anything or resolves.
LEMMA AnswersFrame ==
  ASSUME AnswersMatch, UNCHANGED <<got, verdict>>,
         \A k \in Calls : status'[k] \in {"ok", "error"} => status'[k] = status[k]
  PROVE  AnswersMatch'
BY DEF AnswersMatch

\* A step by which k consumes its own, or what answers nobody.
LEMMA AnswerTaken ==
  ASSUME TypeOK, AnswersMatch, NEW k \in Calls, NEW m, m.call \in {None, k},
         Consumed(k, m), UNCHANGED verdict,
         \A c \in Calls :
           status'[c] \in {"ok", "error"} =>
             status'[c] = status[c] \/ (c = k /\ status'[c] = verdict[c])
  PROVE  AnswersMatch'
<1>1. \A c \in Calls : got'[c] \subseteq {c}
  BY DEF Consumed, TypeOK, AnswersMatch
<1> QED
  BY <1>1 DEF AnswersMatch

LEMMA AnswersNext ==
  ASSUME TypeOK, ControlInv, WireInv, LeftOver, Aftermath, AnswersMatch, [Next]_vars
  PROVE  AnswersMatch'
<1> DEFINE Unresolved ==
             \A k \in Calls : status'[k] \in {"ok", "error"} => status'[k] = status[k]
<1>0. closeError = "none" => Known
  BY DEF Known, WireInv, Healthy, Complete
<1>1. ASSUME NEW k, NEW s, s \notin {"ok", "error"}, Settle(k, s) PROVE Unresolved
  BY <1>1 DEF Settle, TypeOK
<1>2. ASSUME FailPending PROVE Unresolved
  BY <1>2 DEF FailPending
<1>3. ASSUME NEW why, Fatal(why) PROVE Unresolved
  BY <1>2, <1>3 DEF Fatal
<1>4. ASSUME AwaitMessage PROVE Unresolved
  BY <1>1, <1>4 DEF AwaitMessage
<1>5. CASE Application
  <2>1. Unresolved
    BY <1>1, <1>5 DEF Application, ExtQuery, SimpleQuery, Refuse, Abort, End, callVars
  <2>2. UNCHANGED <<got, verdict>>
    BY <1>5 DEF Application, ExtQuery, SimpleQuery, Refuse, Abort, End, callVars, serverVars
  <2> HIDE DEF Unresolved
  <2> QED
    BY <2>1, <2>2, AnswersFrame DEF Unresolved
<1>6. CASE EndDone \/ Flush \/ FlushDone
  <2>1. Unresolved
    BY <1>3, <1>4, <1>6 DEF EndDone, Flush, FlushDone, callVars
  <2>2. UNCHANGED <<got, verdict>>
    BY <1>6 DEF EndDone, Flush, FlushDone, callVars, serverVars
  <2> HIDE DEF Unresolved
  <2> QED
    BY <2>1, <2>2, AnswersFrame DEF Unresolved
<1>7. CASE Resume
  <2>1. Known
    BY <1>0, <1>7 DEF Resume, ControlInv, FailureFinal
  <2>2. holder \in Calls /\ delivered.call \in {None, holder}
    BY <1>7, <2>1, HolderTakes, CallFacts DEF Resume, TypeOK
  <2>3. Consumed(holder, delivered) /\ UNCHANGED verdict
    BY <1>7 DEF Resume, serverVars
  <2>4. CASE delivered.kind # "ready"
    <3>1. Unresolved
      BY <1>3, <1>4, <1>7, <2>4 DEF Resume
    <3> QED
      BY <2>2, <2>3, <3>1, AnswerTaken
  <2>5. CASE delivered.kind = "ready"
    <3>1. status' = [status EXCEPT ![holder] = verdict[holder]]
      <4>1. verdict[holder] = IF holder \in errs THEN "error" ELSE "ok"
        BY <1>7, <2>1, <2>5, HolderTakes DEF Resume
      <4> QED
        BY <1>7, <2>5, <4>1 DEF Resume, Settle
    <3> QED
      BY <2>2, <2>3, <3>1, AnswerTaken DEF TypeOK
  <2> QED
    BY <2>4, <2>5
<1>8. CASE DataToQueue
  <2>1. Known /\ phase \in {"none", "flushing"} /\ toClient # <<>> /\ UNCHANGED verdict
    BY <1>0, <1>8 DEF DataToQueue, Aftermath, serverVars
  <2>2. CASE Regular(Head(toClient)) /\ queue # <<>> /\ Head(toClient).kind # "copy"
    <3> DEFINE k == Head(queue)
               m == Head(toClient)
    <3>1. Step(k, m)
      BY <1>8, <2>2 DEF DataToQueue
    <3>2. k \in Calls /\ m.call \in {None, k}
      <4>1. k \in Range(queue)
        BY <2>2, TailDistinct DEF TypeOK, ControlInv
      <4> QED
        BY <2>1, <2>2, <4>1, QueueFacts, CallFacts, QueueTakes
    <3>3. m.kind = "ready" => verdict[k] = IF k \in errs THEN "error" ELSE "ok"
      BY <2>1, <2>2, QueueTakes
    <3> HIDE DEF k, m
    <3>4. \A c \in Calls : status'[c] \in {"ok", "error"} =>
             status'[c] = status[c] \/ (c = k /\ status'[c] = verdict[c])
      <4>1. CASE m.kind = "ready"
        <5>1. errs' = errs /\ Settle(k, IF k \in errs THEN "error" ELSE "ok")
          BY <3>1, <4>1 DEF Step, Done
        <5>2. status' = [status EXCEPT ![k] = verdict[k]]
          BY <3>3, <4>1, <5>1 DEF Settle
        <5> QED
          BY <3>2, <5>2 DEF TypeOK
      <4>2. CASE m.kind # "ready"
        BY <3>1, <4>2 DEF Step, Done
      <4> QED
        BY <4>1, <4>2
    <3>5. Consumed(k, m)
      BY <3>1 DEF Step
    <3> QED
      BY <2>1, <3>2, <3>4, <3>5, AnswerTaken
  <2>3. CASE ~(Regular(Head(toClient)) /\ queue # <<>> /\ Head(toClient).kind # "copy")
    <3>1. Unresolved /\ got' = got
      BY <1>3, <1>8, <2>3 DEF DataToQueue
    <3> QED
      BY <2>1, <3>1, AnswersFrame
  <2> QED
    BY <2>2, <2>3
<1>9. CASE DataToWaiter \/ TransportClose \/ TransportError
  <2>1. Unresolved
    BY <1>2, <1>3, <1>9 DEF DataToWaiter, TransportClose, TransportError, callVars
  <2>2. UNCHANGED <<got, verdict>>
    BY <1>9 DEF DataToWaiter, TransportClose, TransportError, callVars, serverVars
  <2> HIDE DEF Unresolved
  <2> QED
    BY <2>1, <2>2, AnswersFrame DEF Unresolved
<1>10. ASSUME Serving, toServer # <<>>, Head(toServer) # Terminate, NEW how,
              Answer(Head(toServer), how), UNCHANGED callVars
       PROVE  AnswersMatch'
  <2>1. Known
    BY <1>0, <1>10 DEF Serving, Aftermath
  <2>2. Head(toServer) \in Calls /\ status[Head(toServer)] = "pending"
    BY <1>10, <2>1, AnsweredIsPending
  <2>3. verdict' = [verdict EXCEPT ![Head(toServer)] = how] /\ UNCHANGED <<status, got>>
    BY <1>10 DEF Answer, callVars
  <2> QED
    BY <2>2, <2>3 DEF TypeOK, AnswersMatch
<1>11. ASSUME UNCHANGED <<callVars, verdict>> PROVE AnswersMatch'
  BY <1>11, AnswersFrame DEF callVars
<1>12. CASE ServerRuns \/ ServerCancels
  <2>1. UNCHANGED callVars
    BY <1>12 DEF ServerRuns, ServerCancels
  <2> QED
    BY <1>10, <1>11, <1>12, <2>1 DEF ServerRuns, ServerCancels
<1>13. CASE ServerEntersCopy \/ ServerNotifies \/ ServerTerminates \/ ServerStops
  BY <1>11, <1>13 DEF ServerEntersCopy, ServerNotifies, ServerTerminates, ServerStops
<1>14. CASE UNCHANGED vars
  BY <1>11, <1>14 DEF vars, serverVars
<1> QED
  BY <1>5, <1>6, <1>7, <1>8, <1>9, <1>12, <1>13, <1>14 DEF Next, Client, Socket, Server

-----------------------------------------------------------------------------
(* Protocol violations *)

LEMMA HealthyNext ==
  ASSUME TypeOK, ControlInv, WireInv, LeftOver, Aftermath, HealthyNeverTornDown, [Next]_vars
  PROVE  HealthyNeverTornDown'
<1> SUFFICES ASSUME closeError' = "protocol" PROVE peer' \in {"copying", "crashed"}
  BY DEF HealthyNeverTornDown
<1>0. closeError = "none" => Known
  BY DEF Known, WireInv, Healthy, Complete
<1>1. ASSUME closeError = "protocol", peer' = peer PROVE peer' \in {"copying", "crashed"}
  BY <1>1 DEF HealthyNeverTornDown
<1>2. ASSUME Fatal("transport") PROVE closeError = "protocol"
  BY <1>2 DEF Fatal
<1>3. CASE Application
  BY <1>1, <1>3 DEF Application, ExtQuery, SimpleQuery, Refuse, Abort, End, clientVars,
                    serverVars, ControlInv, StateTells, FailureFinal, Idle
<1>4. CASE EndDone \/ Flush \/ FlushDone
  BY <1>1, <1>2, <1>4 DEF EndDone, Flush, FlushDone, serverVars
<1>5. CASE Resume
  <2>1. Known /\ peer' = peer
    BY <1>0, <1>5 DEF Resume, ControlInv, FailureFinal, serverVars
  <2>2. delivered.kind = "copy"
    BY <1>5, <2>1 DEF Resume, Known
  <2> QED
    BY <1>5, <2>1, <2>2, HolderTakes DEF Resume
<1>6. CASE DataToQueue
  <2>1. /\ Known /\ phase \in {"none", "flushing"} /\ toClient # <<>>
        /\ phase = "flushing" => Head(toClient).call = None
        /\ peer' = peer /\ closeError' # closeError
    BY <1>0, <1>6 DEF DataToQueue, Aftermath, serverVars, Known
  <2>2. Regular(Head(toClient)) /\ ~(queue # <<>> /\ Head(toClient).kind # "copy")
    BY <1>6, <2>1 DEF DataToQueue
  <2> QED
    BY <2>1, <2>2, QueueRefuses
<1>7. CASE DataToWaiter \/ TransportClose
  BY <1>1, <1>7 DEF DataToWaiter, TransportClose, serverVars
<1>8. CASE TransportError
  BY <1>8 DEF TransportError
<1>9. CASE Server
  <2>1. closeError = "protocol"
    BY <1>9 DEF Server, ServerRuns, ServerEntersCopy, ServerCancels, ServerNotifies,
                ServerTerminates, ServerStops, clientVars
  <2>2. ~Serving
    BY <2>1 DEF Serving, Aftermath
  <2>3. peer' = peer
    BY <1>9, <2>2 DEF Server, ServerRuns, ServerEntersCopy, ServerCancels, ServerNotifies,
                      ServerTerminates, ServerStops
  <2> QED
    BY <1>1, <2>1, <2>3
<1>10. CASE UNCHANGED vars
  BY <1>1, <1>10 DEF vars, clientVars, serverVars
<1> QED
  BY <1>3, <1>4, <1>5, <1>6, <1>7, <1>8, <1>9, <1>10 DEF Next, Client, Socket

-----------------------------------------------------------------------------
(* The theorems *)

LEMMA PipelineInit == Init => PipelineInv
<1> SUFFICES ASSUME Init PROVE PipelineInv
  OBVIOUS
<1>1. TypeOK /\ ControlInv
  BY TypeInit, ControlInit
<1>2. Owed = <<>> /\ Incoming = <<>> /\ Upstream = <<>>
  BY DEF Init, Owed, Incoming, Delivered, Upstream
<1>3. WireOK(<<>>, <<>>, <<>>, peer, verdict, errs) /\ AllUnderWay(<<>>, <<>>, <<>>)
  <2>1. Len(<<>>) = 0 /\ Range(<<>>) = {}
    BY QueueFacts
  <2> QED
    BY <2>1 DEF WireOK, Expected, Paired, Kinds, Verdicts, Unanswered, InOrder, Once, Unfailed,
                AllUnderWay
<1>4. WireInv
  BY <1>2, <1>3 DEF WireInv
<1>5. LeftOver /\ Aftermath
  BY DEF Init, LeftOver, Aftermath
<1>6. AnswersMatch /\ HealthyNeverTornDown
  BY DEF Init, AnswersMatch, HealthyNeverTornDown
<1> QED
  BY <1>1, <1>4, <1>5, <1>6 DEF PipelineInv

LEMMA PipelineNext == PipelineInv /\ [Next]_vars => PipelineInv'
<1> SUFFICES ASSUME PipelineInv, [Next]_vars PROVE PipelineInv'
  OBVIOUS
<1>1. /\ TypeOK /\ ControlInv
      /\ WireInv /\ LeftOver /\ Aftermath
      /\ AnswersMatch /\ HealthyNeverTornDown
  BY DEF PipelineInv
<1>2. TypeOK' /\ ControlInv'
  BY <1>1, TypeNext, ControlNext
<1>3. WireInv'
  BY <1>1, <1>2, WireNext
<1>4. LeftOver'
  BY <1>1, <1>2, <1>3, LeftOverNext
<1>5. Aftermath'
  BY <1>1, <1>2, AftermathNext
<1>6. AnswersMatch'
  BY <1>1, AnswersNext
<1>7. HealthyNeverTornDown'
  BY <1>1, HealthyNext
<1> QED
  BY <1>2, <1>3, <1>4, <1>5, <1>6, <1>7 DEF PipelineInv

\* Whatever the dispatcher and the server do, the wire and the calls that wait
\* for its answers stay in step.
THEOREM PipelineCorrect == Spec => []PipelineInv
<1> QED
  BY PipelineInit, PipelineNext, PTL DEF Spec

\* The pipelining contract: a call consumes the answers to its own statement
\* only, and it resolves or rejects as the server answered that statement,
\* however many calls are pipelined around it, however their answers are cut
\* into chunks, and whatever cancel requests and failures come in between.
THEOREM AnswersCorrect == Spec => []AnswersMatch
<1>1. PipelineInv => AnswersMatch
  BY DEF PipelineInv
<1> QED
  BY <1>1, PipelineCorrect, PTL

\* A connection that says it is ready (the pool hands it out on that word) owes
\* nothing and is owed nothing: nothing staged, under way or left in the reader
\* belongs to a call.
THEOREM QuiescenceCorrect == Spec => []ReadyIsQuiescent
<1>1. PipelineInv => ReadyIsQuiescent
  <2> SUFFICES ASSUME PipelineInv, state = "ready"
               PROVE  /\ queue = <<>> /\ holder = None /\ wbuf = <<>>
                      /\ \A i \in DOMAIN toServer : toServer[i] = Terminate
                      /\ \A i \in DOMAIN toClient : toClient[i].call = None
                      /\ \A i \in DOMAIN rbuf : rbuf[i].call = None
    BY DEF ReadyIsQuiescent
  <2>1. queue = <<>> /\ holder = None /\ closeError = "none"
    BY DEF PipelineInv, ControlInv, StateTells, FailureFinal
  <2>2. Known
    BY <2>1 DEF PipelineInv, WireInv, Known, Healthy, Complete
  <2>3. /\ Owed = <<>> /\ wbuf = <<>>
        /\ \A i \in 1 .. Len(toServer) : toServer[i] = Terminate
    BY <2>2, ReadyIsEmpty
  <2>4. /\ Delivered \in Seq(Messages) /\ rbuf \in Seq(Messages) /\ toClient \in Seq(Messages)
        /\ toServer \in Seq(Calls \cup {Terminate})
    BY <2>2, WireTypes DEF Known
  <2>5. Expected(Joined(Delivered, rbuf, toClient), <<>>)
    BY <2>2, <2>3 DEF Known, Healthy, WireOK, Incoming, Joined
  <2>6. /\ \A i \in 1 .. Len(rbuf) : rbuf[i].call = None
        /\ \A i \in 1 .. Len(toClient) : toClient[i].call = None
    BY <2>4, <2>5, NobodyOwed
  <2> QED
    BY <2>1, <2>3, <2>4, <2>6, LenProperties
<1> QED
  BY <1>1, PipelineCorrect, PTL

\* drain() and consumeUntilReady() tear the connection down for a message they
\* have no place for: no healthy exchange, however pipelined, has such a message.
THEOREM HealthyCorrect == Spec => []HealthyNeverTornDown
<1>1. PipelineInv => HealthyNeverTornDown
  BY DEF PipelineInv
<1> QED
  BY <1>1, PipelineCorrect, PTL
=============================================================================

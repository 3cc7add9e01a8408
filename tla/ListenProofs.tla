---------------------------- MODULE ListenProofs ----------------------------
(***************************************************************************)
(* The listener's invariants, proved for any number of subscriptions,      *)
(* channels, connections and repeated unlisten() calls.                    *)
(***************************************************************************)
EXTENDS Listen, FiniteSetTheorems, TLAPS

-----------------------------------------------------------------------------
(* The inductive invariant *)

\* A call past its first stretch has a channel, and one whose connect resolved
\* finds a connection: nothing runs between the two but continuations.
CallsKnown ==
  /\ \A s \in Subs :
       pc[s] \in {"connecting", "connected", "listening", "on"} => chan[s] \in Channels
  /\ \A s \in Subs : pc[s] = "connected" => conn # None

\* A query() in progress belongs to a call that awaits it, on a connection that
\* is busy or was ended meanwhile; no LISTEN runs twice.
CommandsKnown ==
  /\ \A c \in Conns :
       \/ command[c] = NoCommand
       \/ /\ life[c] \in {"busy", "ended"}
          /\ command[c].sub \in Subs
          /\ \/ command[c].verb = "listen" /\ pc[command[c].sub] = "listening"
             \/ command[c].verb = "unlisten" /\ pc[command[c].sub] = "on"
  /\ \A c, d \in Conns :
       /\ command[c].verb = "listen" /\ command[d].verb = "listen"
       /\ command[c].sub = command[d].sub
       => c = d

TypeInv == TypeOK /\ CallsKnown /\ CommandsKnown

\* Only the manager's connection is up, and none is while one is being opened.
OneConn ==
  /\ \A c \in Conns : life[c] \in {"ready", "busy"} => c = conn
  /\ \A c \in Conns : life[c] = "connecting" => c = connecting
  /\ connecting # None => ~Usable(conn)

\* A Set in the table belongs to the channel of its creator, who is past
\* subscribing; a LISTEN succeeds on a connection that has been up, and leaves
\* its caller on; while an UNLISTEN runs, the channel it is for has no Set that
\* was registered on that connection.
Registered ==
  /\ \A ch \in Channels :
       entry[ch] # None =>
         chan[entry[ch]] = ch /\ pc[entry[ch]] \in {"listening", "on", "failed"}
  /\ \A s \in Subs :
       home[s] # None => pc[s] = "on" /\ life[home[s]] \notin {"none", "connecting"}
  /\ \A c \in Conns :
       LET ch == chan[command[c].sub]
       IN  command[c].verb = "unlisten" /\ entry[ch] # None => home[entry[ch]] # c
  /\ \A ch \in Channels :
       entry[ch] # None /\ Usable(conn) /\ home[entry[ch]] = conn => ch \in reg[conn]

\* While a LISTEN runs, the Set it is for stays in the table, unless somebody
\* else's unlisten() or close() takes it away.
Kept ==
  /\ HandlersKept
  /\ \A s \in Subs :
       pc[s] = "listening" => entry[chan[s]] = s \/ s \in orphans \/ closed

ListenInv == TypeInv /\ OneConn /\ Registered /\ Kept

-----------------------------------------------------------------------------
(* Types, and what is in progress *)

\* None is not the name of anything.
LEMMA NoneIsNothing == None \notin Subs /\ None \notin Channels /\ None \notin Conns
BY ListenAssumption DEF Conns

\* The queries that a connection may run.
LEMMA CommandTypes ==
  /\ [verb |-> "none", sub |-> None] \in Commands
  /\ \A s \in Subs : /\ [verb |-> "listen", sub |-> s] \in Commands
                     /\ [verb |-> "unlisten", sub |-> s] \in Commands
BY DEF Commands

\* Starting a query on a connection.
LEMMA QueryTypes ==
  ASSUME life \in [Conns -> Lives], command \in [Conns -> Commands],
         NEW c \in Conns, NEW cmd \in Commands,
         life' = [life EXCEPT ![c] = "busy"],
         command' = [command EXCEPT ![c] = cmd]
  PROVE  life' \in [Conns -> Lives] /\ command' \in [Conns -> Commands]
BY DEF Lives

\* Going on to a phase without a connect.
LEMMA MoveTypes ==
  ASSUME pc \in [Subs -> Phases], NEW s, NEW phase \in Phases \ {"connecting"},
         Move(s, phase)
  PROVE  pc' \in [Subs -> Phases] /\ Waiting' \subseteq Waiting
BY DEF Move, Waiting

LEMMA TypeInit == Init => TypeInv
<1> SUFFICES ASSUME Init PROVE TypeInv
  OBVIOUS
<1> USE NoneIsNothing DEF Init
<1>1. TypeOK
  <2>1. unlistens \in [Subs -> 0 .. MaxUnlistens]
    BY ListenAssumption
  <2>2. pc \in [Subs -> Phases] /\ life \in [Conns -> Lives]
    BY DEF Phases, Lives
  <2>3. command \in [Conns -> Commands]
    BY CommandTypes DEF NoCommand
  <2>4. Waiting = {} /\ closed \in BOOLEAN /\ timer \in BOOLEAN
    BY DEF Waiting
  <2> QED
    BY <2>1, <2>2, <2>3, <2>4 DEF TypeOK
<1>2. CallsKnown /\ CommandsKnown
  BY DEF CallsKnown, CommandsKnown, NoCommand
<1> QED
  BY <1>1, <1>2 DEF TypeInv

LEMMA TypeNext == TypeInv /\ [Next]_vars => TypeInv'
<1> SUFFICES ASSUME TypeInv, [Next]_vars PROVE TypeInv'
  OBVIOUS
<1> USE NoneIsNothing DEF TypeInv, TypeOK, CallsKnown, CommandsKnown, Waiting,
        Phases, Lives, NoCommand, Move, Usable, Quiet, managerVars, subVars, ghosts
<1>1. ASSUME NEW s \in Subs, NEW ch \in Channels, Subscribe(s, ch) PROVE TypeInv'
  <2>1. TypeOK'
    <3>1. /\ chan' \in [Subs -> Channels \cup {None}] /\ timer' \in BOOLEAN
          /\ UNCHANGED <<conn, entry, members, closed, unlistens, command, reg, home, orphans>>
      BY <1>1 DEF Subscribe
    <3>2. CASE Usable(conn)
      <4>1. UNCHANGED <<connecting, life>> /\ pc' = [pc EXCEPT ![s] = "connected"]
        BY <1>1, <3>2 DEF Subscribe, MayConnect
      <4>2. pc' \in [Subs -> Phases] /\ Waiting' \subseteq Waiting
        BY <4>1
      <4> QED
        BY <3>1, <4>1, <4>2
    <3>3. CASE ~Usable(conn) /\ connecting # None
      <4>1. UNCHANGED <<connecting, life>> /\ pc' = [pc EXCEPT ![s] = "connecting"]
        BY <1>1, <3>3 DEF Subscribe, MayConnect
      <4>2. pc' \in [Subs -> Phases]
        BY <4>1
      <4> QED
        BY <3>1, <3>3, <4>1, <4>2
    <3>4. CASE ~Usable(conn) /\ connecting = None
      <4>1. PICK c \in Conns : connecting' = c /\ life' = [life EXCEPT ![c] = "connecting"]
        BY <1>1, <3>4 DEF Subscribe
      <4>2. pc' = [pc EXCEPT ![s] = "connecting"]
        BY <1>1, <3>4 DEF Subscribe, MayConnect
      <4>3. pc' \in [Subs -> Phases] /\ life' \in [Conns -> Lives] /\ connecting' # None
        BY <4>1, <4>2
      <4> QED
        BY <3>1, <4>1, <4>3
    <3> QED
      BY <3>2, <3>3, <3>4
  <2>2. CallsKnown'
    BY <1>1 DEF Subscribe, MayConnect
  <2>3. CommandsKnown'
    BY <1>1 DEF Subscribe, MayConnect
  <2> QED
    BY <2>1, <2>2, <2>3
<1>2. ASSUME NEW s \in Subs, Refuse(s) PROVE TypeInv'
  <2>1. TypeOK'
    BY <1>2 DEF Refuse
  <2>2. CallsKnown'
    BY <1>2 DEF Refuse
  <2>3. CommandsKnown'
    BY <1>2 DEF Refuse
  <2> QED
    BY <2>1, <2>2, <2>3
<1>3. ASSUME NEW s \in Subs, Unsubscribe(s) PROVE TypeInv'
  <2>1. TypeOK'
    <3>1. unlistens' \in [Subs -> 0 .. MaxUnlistens]
      BY <1>3, ListenAssumption DEF Unsubscribe
    <3>2. UNCHANGED <<conn, connecting, closed, pc, chan, reg, home>>
      BY <1>3 DEF Unsubscribe
    <3>3. entry' \in [Channels -> Subs \cup {None}] /\ members' \in [Subs -> SUBSET Subs]
      BY <1>3 DEF Unsubscribe, Without
    <3>4. timer' \in BOOLEAN
      BY <1>3 DEF Unsubscribe, ScheduleRelease
    <3>8. orphans' \subseteq Subs
      BY <1>3 DEF Unsubscribe
    <3>5. \/ life' = life /\ command' = command
          \/ /\ conn \in Conns /\ life[conn] = "ready"
             /\ life' = [life EXCEPT ![conn] = "busy"]
             /\ command' = [command EXCEPT ![conn] = [verb |-> "unlisten", sub |-> s]]
      BY <1>3 DEF Unsubscribe
    <3>6. life' \in [Conns -> Lives] /\ command' \in [Conns -> Commands]
      <4>1. [verb |-> "unlisten", sub |-> s] \in Commands
        BY CommandTypes
      <4> QED
        BY <3>5, <4>1, QueryTypes
    <3>7. connecting # None => life'[connecting] = "connecting"
      BY <3>5
    <3> QED
      BY <3>1, <3>2, <3>3, <3>4, <3>6, <3>7, <3>8
  <2>2. CallsKnown'
    BY <1>3 DEF Unsubscribe, Without, LastHandler, ScheduleRelease
  <2>3. CommandsKnown'
    <3>1. pc' = pc /\ pc[s] = "on"
      BY <1>3 DEF Unsubscribe
    <3>2. \/ life' = life /\ command' = command
          \/ /\ conn \in Conns /\ life[conn] = "ready"
             /\ life' = [life EXCEPT ![conn] = "busy"]
             /\ command' = [command EXCEPT ![conn] = [verb |-> "unlisten", sub |-> s]]
      BY <1>3 DEF Unsubscribe
    <3> QED
      BY <3>1, <3>2
  <2> QED
    BY <2>1, <2>2, <2>3
<1>4. CASE Close
  <2>1. TypeOK'
    BY <1>4 DEF Close, EndConn
  <2>2. CallsKnown'
    BY <1>4 DEF Close, EndConn
  <2>3. CommandsKnown'
    BY <1>4 DEF Close, EndConn
  <2> QED
    BY <2>1, <2>2, <2>3
<1>5. ASSUME NEW s \in Subs, Proceed(s) PROVE TypeInv'
  <2>1. TypeOK'
    <3>1. /\ conn \in Conns /\ chan[s] \in Channels
          /\ UNCHANGED <<conn, connecting, timer, closed, chan, unlistens, reg, home, orphans>>
      BY <1>5 DEF Proceed
    <3>2. entry' \in [Channels -> Subs \cup {None}]
      BY <1>5, <3>1 DEF Proceed
    <3>7. members' \in [Subs -> SUBSET Subs]
      BY <1>5, <3>1 DEF Proceed
    <3>3. Move(s, "on") \/ Move(s, "listening") \/ Move(s, "failed")
      BY <1>5 DEF Proceed
    <3>4. \/ life' = life /\ command' = command
          \/ /\ life[conn] = "ready"
             /\ life' = [life EXCEPT ![conn] = "busy"]
             /\ command' = [command EXCEPT ![conn] = [verb |-> "listen", sub |-> s]]
      BY <1>5 DEF Proceed
    <3>5. life' \in [Conns -> Lives] /\ command' \in [Conns -> Commands]
      <4>1. [verb |-> "listen", sub |-> s] \in Commands
        BY CommandTypes
      <4> QED
        BY <3>1, <3>4, <4>1, QueryTypes
    <3>8. connecting # None => life'[connecting] = "connecting"
      BY <3>1, <3>4
    <3>6. pc' \in [Subs -> Phases] /\ Waiting' \subseteq Waiting
      BY <3>3, MoveTypes
    <3> QED
      BY <3>1, <3>2, <3>5, <3>6, <3>7, <3>8
  <2>2. CallsKnown'
    BY <1>5 DEF Proceed
  <2>3. CommandsKnown'
    BY <1>5 DEF Proceed
  <2> QED
    BY <2>1, <2>2, <2>3
<1>6. CASE Connected
  <2>1. TypeOK'
    BY <1>6 DEF Connected
  <2>2. CallsKnown'
    BY <1>6 DEF Connected
  <2>3. CommandsKnown'
    BY <1>6 DEF Connected
  <2> QED
    BY <2>1, <2>2, <2>3
<1>7. CASE TimerFires
  <2>1. TypeOK'
    BY <1>7 DEF TimerFires, EndConn
  <2>2. CallsKnown'
    BY <1>7 DEF TimerFires, EndConn
  <2>3. CommandsKnown'
    BY <1>7 DEF TimerFires, EndConn
  <2> QED
    BY <2>1, <2>2, <2>3
<1>8. ASSUME NEW c \in Conns, Answered(c) PROVE TypeInv'
  <2>1. TypeOK'
    <3>1. /\ command[c].sub \in Subs /\ chan[command[c].sub] \in Channels
          /\ UNCHANGED <<conn, connecting, entry, closed, chan, unlistens, orphans>>
      BY <1>8 DEF Answered
    <3>2. pc' = pc \/ Move(command[c].sub, "on") \/ Move(command[c].sub, "failed")
      BY <1>8 DEF Answered, GoesOn
    <3>3. timer' \in BOOLEAN
      BY <1>8, <3>1 DEF Answered, GoesOn, ScheduleRelease
    <3>7. members' \in [Subs -> SUBSET Subs]
      BY <1>8, <3>1 DEF Answered, GoesOn
    <3>4. reg' \in [Conns -> SUBSET Channels] /\ home' \in [Subs -> Conns \cup {None}]
      BY <1>8, <3>1 DEF Answered
    <3>5. /\ life' \in [Conns -> Lives] /\ command' \in [Conns -> Commands]
          /\ connecting # None => life'[connecting] = "connecting"
      BY <1>8, <3>1, CommandTypes DEF Answered
    <3>6. pc' \in [Subs -> Phases] /\ Waiting' \subseteq Waiting
      BY <3>2, MoveTypes
    <3> QED
      BY <3>1, <3>3, <3>4, <3>5, <3>6, <3>7
  <2>2. CallsKnown'
    BY <1>8 DEF Answered, GoesOn, ScheduleRelease
  <2>3. CommandsKnown'
    BY <1>8 DEF Answered, GoesOn, ScheduleRelease
  <2> QED
    BY <2>1, <2>2, <2>3
<1>9. ASSUME NEW c \in Conns, Dies(c) PROVE TypeInv'
  <2>1. TypeOK'
    <3>1. UNCHANGED <<conn, connecting, entry, closed, chan, unlistens, reg, home, orphans>>
      BY <1>9 DEF Dies
    <3>2. pc' = pc \/ Move(command[c].sub, "on") \/ Move(command[c].sub, "failed")
      BY <1>9 DEF Dies, GoesOn
    <3>3. members' \in [Subs -> SUBSET Subs] /\ timer' \in BOOLEAN
      BY <1>9 DEF Dies, GoesOn, ScheduleRelease
    <3>4. /\ life' \in [Conns -> Lives] /\ command' \in [Conns -> Commands]
          /\ connecting # None => life'[connecting] = "connecting"
      BY <1>9, CommandTypes DEF Dies
    <3>5. pc' \in [Subs -> Phases] /\ Waiting' \subseteq Waiting
      BY <3>2, MoveTypes
    <3> QED
      BY <3>1, <3>3, <3>4, <3>5
  <2>2. CallsKnown'
    BY <1>9 DEF Dies, GoesOn, ScheduleRelease
  <2>3. CommandsKnown'
    BY <1>9 DEF Dies, GoesOn, ScheduleRelease
  <2> QED
    BY <2>1, <2>2, <2>3
<1>10. CASE UNCHANGED vars
  <2>1. TypeOK'
    BY <1>10 DEF vars
  <2>2. CallsKnown'
    BY <1>10 DEF vars
  <2>3. CommandsKnown'
    BY <1>10 DEF vars
  <2> QED
    BY <2>1, <2>2, <2>3
<1> QED
  BY <1>1, <1>2, <1>3, <1>4, <1>5, <1>6, <1>7, <1>8, <1>9, <1>10 DEF Next, Application

\* The listener's variables have their types; a call waits for a connection
\* only while one is being opened.
THEOREM TypeCorrect == Spec => []TypeOK
<1>1. TypeInv => TypeOK
  BY DEF TypeInv
<1> QED
  BY TypeInit, TypeNext, <1>1, PTL DEF Spec

-----------------------------------------------------------------------------
(* One connection *)

LEMMA ConnInit == Init => OneConn
BY NoneIsNothing DEF Init, OneConn, Usable

LEMMA ConnNext == TypeInv /\ OneConn /\ [Next]_vars => OneConn'
<1> SUFFICES ASSUME TypeInv, OneConn, [Next]_vars PROVE OneConn'
  OBVIOUS
<1> USE NoneIsNothing DEF TypeInv, TypeOK, CallsKnown, CommandsKnown, OneConn, Waiting,
        NoCommand, Usable, Quiet, managerVars, subVars, ghosts
<1>1. ASSUME NEW s \in Subs, NEW ch \in Channels, Subscribe(s, ch) PROVE OneConn'
  BY <1>1 DEF Subscribe, MayConnect
<1>2. ASSUME NEW s \in Subs, Refuse(s) PROVE OneConn'
  BY <1>2 DEF Refuse
<1>3. ASSUME NEW s \in Subs, Unsubscribe(s) PROVE OneConn'
  BY <1>3 DEF Unsubscribe
<1>4. CASE Close
  BY <1>4 DEF Close, EndConn
<1>5. ASSUME NEW s \in Subs, Proceed(s) PROVE OneConn'
  BY <1>5 DEF Proceed
<1>6. CASE Connected
  BY <1>6 DEF Connected
<1>7. CASE TimerFires
  BY <1>7 DEF TimerFires, EndConn
<1>8. ASSUME NEW c \in Conns, Answered(c) PROVE OneConn'
  BY <1>8 DEF Answered
<1>9. ASSUME NEW c \in Conns, Dies(c) PROVE OneConn'
  BY <1>9 DEF Dies
<1>10. CASE UNCHANGED vars
  BY <1>10 DEF vars
<1> QED
  BY <1>1, <1>2, <1>3, <1>4, <1>5, <1>6, <1>7, <1>8, <1>9, <1>10 DEF Next, Application

\* At most one connection is up or being opened.
LEMMA AtMostOne ==
  TypeInv /\ OneConn =>
    Cardinality({c \in Conns : life[c] \in {"connecting", "ready", "busy"}}) <= 1
<1> SUFFICES ASSUME TypeInv, OneConn
             PROVE Cardinality({c \in Conns : life[c] \in {"connecting", "ready", "busy"}}) <= 1
  OBVIOUS
<1> DEFINE up == {c \in Conns : life[c] \in {"connecting", "ready", "busy"}}
<1>1. \E x : up \subseteq {x}
  <2>1. CASE connecting # None
    <3>1. ASSUME NEW c \in Conns, life[c] \in {"ready", "busy"} PROVE FALSE
      BY <2>1, <3>1, NoneIsNothing DEF OneConn, Usable
    <3>2. up \subseteq {connecting}
      BY <3>1 DEF OneConn
    <3> QED
      BY <3>2
  <2>2. CASE connecting = None
    BY <2>2, NoneIsNothing DEF OneConn
  <2> QED
    BY <2>1, <2>2
<1> HIDE DEF up
<1>2. PICK x : up \in SUBSET {x}
  BY <1>1
<1>3. IsFiniteSet({x}) /\ Cardinality({x}) = 1
  BY FS_Singleton
<1>4. Cardinality(up) <= 1
  BY <1>2, <1>3, FS_Subset
<1> QED
  BY <1>4 DEF up

-----------------------------------------------------------------------------
(* Registrations *)

LEMMA RegInit == Init => Registered
BY NoneIsNothing DEF Init, Registered, NoCommand

LEMMA RegNext == TypeInv /\ OneConn /\ Registered /\ [Next]_vars => Registered'
<1> SUFFICES ASSUME TypeInv, OneConn, Registered, [Next]_vars PROVE Registered'
  OBVIOUS
<1> USE NoneIsNothing DEF TypeInv, TypeOK, CallsKnown, CommandsKnown, OneConn, Registered,
        NoCommand, Usable, Quiet, Move, managerVars, subVars, ghosts
<1>1. ASSUME NEW s \in Subs, NEW ch \in Channels, Subscribe(s, ch) PROVE Registered'
  BY <1>1 DEF Subscribe, MayConnect
<1>2. ASSUME NEW s \in Subs, Refuse(s) PROVE Registered'
  BY <1>2 DEF Refuse
<1>3. ASSUME NEW s \in Subs, Unsubscribe(s) PROVE Registered'
  <2>1. UNCHANGED <<conn, chan, pc, home, reg>> /\ chan[s] \in Channels
    BY <1>3 DEF Unsubscribe
  <2>2. \/ entry' = entry /\ command' = command /\ life' = life
        \/ /\ entry' = [entry EXCEPT ![chan[s]] = None]
           /\ \/ command' = command /\ life' = life
              \/ /\ conn \in Conns /\ life[conn] = "ready"
                 /\ life' = [life EXCEPT ![conn] = "busy"]
                 /\ command' = [command EXCEPT ![conn] = [verb |-> "unlisten", sub |-> s]]
    BY <1>3 DEF Unsubscribe, Without
  <2>3. \A ch \in Channels : entry'[ch] # None => entry'[ch] = entry[ch]
    BY <2>2
  <2>4. Usable(conn)' => Usable(conn)
    BY <2>1, <2>2
  <2>5. \A c \in Conns : life[c] \notin {"none", "connecting"}
                           => life'[c] \notin {"none", "connecting"}
    BY <2>2
  <2>6. ASSUME NEW c \in Conns, command'[c].verb = "unlisten",
               entry'[chan[command'[c].sub]] # None
        PROVE  home[entry'[chan[command'[c].sub]]] # c
    <3>1. CASE command'[c] = command[c]
      <4>1. chan[command[c].sub] \in Channels
        BY <2>6, <3>1
      <4> QED
        BY <2>3, <2>6, <3>1, <4>1
    <3>2. CASE command'[c] # command[c]
      <4>1. command'[c].sub = s /\ entry'[chan[s]] = None
        BY <2>1, <2>2, <3>2
      <4> QED
        BY <2>6, <4>1
    <3> QED
      BY <3>1, <3>2
  <2> QED
    BY <2>1, <2>3, <2>4, <2>5, <2>6
<1>4. CASE Close
  BY <1>4 DEF Close, EndConn
<1>5. ASSUME NEW s \in Subs, Proceed(s) PROVE Registered'
  BY <1>5 DEF Proceed
<1>6. CASE Connected
  <2>1. /\ connecting \in Conns /\ life[connecting] = "connecting"
        /\ UNCHANGED <<entry, chan, command, reg, home>>
    BY <1>6 DEF Connected
  <2>2. \A s \in Subs : pc[s] # "connecting" => pc'[s] = pc[s]
    BY <1>6 DEF Connected, Waiting
  <2>3. \E to \in {"ready", "dead"} : life' = [life EXCEPT ![connecting] = to]
    BY <1>6 DEF Connected
  <2>4. \A s \in Subs : home[s] # connecting
    BY <2>1
  <2>5. \/ conn' = connecting
        \/ conn' = conn /\ life' = [life EXCEPT ![connecting] = "dead"]
    BY <1>6 DEF Connected
  <2>6. conn' # connecting => conn' = conn /\ (Usable(conn)' => Usable(conn))
    BY <2>1, <2>5
  <2>7. \A ch \in Channels : entry[ch] # None =>
          chan[entry[ch]] = ch /\ pc'[entry[ch]] \in {"listening", "on", "failed"}
    BY <2>2
  <2>8. \A s \in Subs :
          home[s] # None => pc'[s] = "on" /\ life'[home[s]] \notin {"none", "connecting"}
    BY <2>2, <2>3
  <2>9. \A ch \in Channels :
          entry[ch] # None /\ Usable(conn)' /\ home[entry[ch]] = conn' => ch \in reg[conn']
    BY <2>4, <2>5, <2>6
  <2> QED
    BY <2>1, <2>7, <2>8, <2>9
<1>7. CASE TimerFires
  BY <1>7 DEF TimerFires, EndConn, NoChannels
<1>8. ASSUME NEW c \in Conns, Answered(c) PROVE Registered'
  BY <1>8 DEF Answered, GoesOn
<1>9. ASSUME NEW c \in Conns, Dies(c) PROVE Registered'
  BY <1>9 DEF Dies, GoesOn
<1>10. CASE UNCHANGED vars
  BY <1>10 DEF vars
<1> QED
  BY <1>1, <1>2, <1>3, <1>4, <1>5, <1>6, <1>7, <1>8, <1>9, <1>10 DEF Next, Application

\* One connection serves all channels, and every Set whose LISTEN succeeded on
\* it is registered there, whatever UNLISTENs of its predecessors run.
THEOREM RegistrationsCorrect == Spec => []RegistrationsInStep
<1>1. TypeInv /\ OneConn /\ Registered => RegistrationsInStep
  BY AtMostOne DEF Registered, RegistrationsInStep
<1> QED
  BY TypeInit, TypeNext, ConnInit, ConnNext, RegInit, RegNext, <1>1, PTL DEF Spec

-----------------------------------------------------------------------------
(* Handlers *)

LEMMA KeptInit == Init => Kept
BY DEF Init, Kept, HandlersKept, Live

LEMMA KeptNext == TypeInv /\ Registered /\ Kept /\ [Next]_vars => Kept'
<1> SUFFICES ASSUME TypeInv, Registered, Kept, [Next]_vars PROVE Kept'
  OBVIOUS
<1> USE NoneIsNothing DEF TypeInv, TypeOK, CallsKnown, CommandsKnown, Registered,
        Kept, HandlersKept, Live, Dispatched,
        NoCommand, Quiet, Move, managerVars, subVars, ghosts
<1>1. ASSUME NEW s \in Subs, NEW ch \in Channels, Subscribe(s, ch) PROVE Kept'
  BY <1>1 DEF Subscribe
<1>2. ASSUME NEW s \in Subs, Refuse(s) PROVE Kept'
  BY <1>2 DEF Refuse
<1>3. ASSUME NEW s \in Subs, Unsubscribe(s) PROVE Kept'
  BY <1>3 DEF Unsubscribe, Without, LastHandler
<1>4. CASE Close
  BY <1>4 DEF Close
<1>5. ASSUME NEW s \in Subs, Proceed(s) PROVE Kept'
  BY <1>5 DEF Proceed
<1>6. CASE Connected
  BY <1>6 DEF Connected, Waiting
<1>7. CASE TimerFires
  BY <1>7 DEF TimerFires
<1>8. ASSUME NEW c \in Conns, Answered(c) PROVE Kept'
  BY <1>8 DEF Answered, GoesOn
<1>9. ASSUME NEW c \in Conns, Dies(c) PROVE Kept'
  BY <1>9 DEF Dies, GoesOn
<1>10. CASE UNCHANGED vars
  BY <1>10 DEF vars
<1> QED
  BY <1>1, <1>2, <1>3, <1>4, <1>5, <1>6, <1>7, <1>8, <1>9, <1>10 DEF Next, Application

\* A handler stays reachable until its own unlisten(), but for close() and for
\* a Set taken away while the LISTEN of its creator ran.
THEOREM HandlersCorrect == Spec => []HandlersKept
<1>1. Kept => HandlersKept
  BY DEF Kept
<1> QED
  BY TypeInit, TypeNext, ConnInit, ConnNext, RegInit, RegNext, KeptInit, KeptNext,
     <1>1, PTL DEF Spec
=============================================================================

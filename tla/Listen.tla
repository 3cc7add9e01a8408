------------------------------- MODULE Listen -------------------------------
(***************************************************************************)
(* The listener of a client: ListenerManager in                            *)
(* src/packages/pg-rocket/src/listen.ts, over the connections it opens one *)
(* after the other and the LISTEN registrations the server keeps for each. *)
(*                                                                         *)
(* A stretch of JavaScript between two awaits is one action.  A connection *)
(* runs one query() at a time and refuses a second one at once.  A Set of  *)
(* handlers is named by the subscription that created it: a subscription   *)
(* keeps the Set it looked up across its await.                            *)
(***************************************************************************)
EXTENDS Integers, FiniteSets

CONSTANTS
  Subs,        \* calls of subscribe(), each with a handler of its own
  Channels,
  None,
  MaxConns,    \* bound on the connections opened
  MaxUnlistens \* bound on the calls of one Subscription's unlisten()

ASSUME ListenAssumption ==
  /\ None \notin Subs \cup Channels \cup 1 .. MaxConns
  /\ MaxConns \in Nat
  /\ MaxUnlistens \in Nat

Conns == 1 .. MaxConns

VARIABLES
  conn,        \* the field conn
  connecting,  \* connectPromise: the connection being opened
  entry,       \* channels: the Set of each channel, or None
  members,     \* the contents of each Set
  timer,       \* releaseTimer is set
  closed,
  pc,          \* where each call of subscribe() is
  chan,        \* the channel it is for
  unlistens,   \* calls of unlisten() so far
  life,        \* each connection
  command,     \* the query() in progress on each connection
  reg,         \* the server: the channels each connection listens on
  home,        \* ghost: the connection on which the LISTEN of a Set succeeded
  orphans      \* ghost: Sets taken away while their creator's LISTEN ran

managerVars == <<conn, connecting, entry, members, timer, closed>>
subVars == <<pc, chan, unlistens>>
ghosts == <<home, orphans>>
vars == <<managerVars, subVars, life, command, reg, ghosts>>

Phases == {"new", "connecting", "connected", "listening", "on", "failed"}
Lives == {"none", "connecting", "ready", "busy", "dead", "ended"}

NoCommand == [verb |-> "none", sub |-> None]
Commands == [verb : {"none", "listen", "unlisten"}, sub : Subs \cup {None}]

\* conn?.isUsable
Usable(c) == c # None /\ life[c] \in {"ready", "busy"}

\* No continuation of a resolved connect is queued.
Quiet == \A s \in Subs : pc[s] # "connected"

Move(s, phase) == pc' = [pc EXCEPT ![s] = phase]

\* channels.size === 0
NoChannels(entries) == \A ch \in Channels : entries[ch] = None

\* The handlers dispatch() calls for a notification on ch.
Dispatched(ch) == IF entry[ch] = None THEN {} ELSE members[entry[ch]]

-----------------------------------------------------------------------------
(* subscribe() *)

\* ensureConnection() opens a connection only if none is usable or under way.
MutMayConnect == ~Usable(conn)
MayConnect == ~Usable(conn) /\ connecting = None

\* The part up to ensureConnection(): use the connection, share the connect
\* that is under way, or start one.
Subscribe(s, ch) ==
  /\ Quiet
  /\ pc[s] = "new"
  /\ ~closed
  /\ chan' = [chan EXCEPT ![s] = ch]
  /\ timer' = FALSE
  /\ \/ /\ Usable(conn)
        /\ Move(s, "connected")
        /\ UNCHANGED <<connecting, life>>
     \/ /\ ~Usable(conn) /\ connecting # None
        /\ Move(s, "connecting")
        /\ UNCHANGED <<connecting, life>>
     \/ /\ MayConnect
        /\ \E c \in Conns :
             /\ life[c] = "none" /\ \A d \in 1 .. c - 1 : life[d] # "none"
             /\ connecting' = c
             /\ life' = [life EXCEPT ![c] = "connecting"]
        /\ Move(s, "connecting")
  /\ UNCHANGED <<conn, entry, members, closed, unlistens, command, reg, ghosts>>

\* A closed manager and a malformed channel name throw.
Refuse(s) ==
  /\ Quiet
  /\ pc[s] = "new"
  /\ \E badName \in BOOLEAN : closed \/ badName
  /\ Move(s, "failed")
  /\ UNCHANGED <<managerVars, chan, unlistens, life, command, reg, ghosts>>

Waiting == {s \in Subs : pc[s] = "connecting"}

MutConnected ==
  /\ Quiet
  /\ connecting # None
  /\ \/ /\ conn' = connecting
        /\ connecting' = None
        /\ life' = [life EXCEPT ![connecting] = "ready"]
        /\ pc' = [s \in Subs |-> IF s \in Waiting THEN "connected" ELSE pc[s]]
     \/ /\ life' = [life EXCEPT ![connecting] = "dead"]
        /\ pc' = [s \in Subs |-> IF s \in Waiting THEN "failed" ELSE pc[s]]
        /\ UNCHANGED <<conn, connecting>>
  /\ UNCHANGED <<entry, members, timer, closed, chan, unlistens, command, reg,
                 ghosts>>

\* Connection.connect() resolves or rejects, for every subscribe that waits.
Connected ==
  /\ Quiet
  /\ connecting # None
  /\ connecting' = None
  /\ \/ /\ conn' = connecting
        /\ life' = [life EXCEPT ![connecting] = "ready"]
        /\ pc' = [s \in Subs |-> IF s \in Waiting THEN "connected" ELSE pc[s]]
     \/ /\ life' = [life EXCEPT ![connecting] = "dead"]
        /\ pc' = [s \in Subs |-> IF s \in Waiting THEN "failed" ELSE pc[s]]
        /\ UNCHANGED conn
  /\ UNCHANGED <<entry, members, timer, closed, chan, unlistens, command, reg,
                 ghosts>>

\* The rest, a continuation, so that the connection it was given is still conn:
\* the first subscriber of a channel makes its Set and LISTENs, which a busy
\* connection refuses.  Whatever becomes of the LISTEN, the Set stays.
Proceed(s) ==
  /\ pc[s] = "connected"
  /\ LET c == conn
         ch == chan[s]
     IN  IF entry[ch] # None
         THEN /\ members' = [members EXCEPT ![entry[ch]] = @ \cup {s}]
              /\ Move(s, "on")
              /\ UNCHANGED <<entry, command, life>>
         ELSE /\ entry' = [entry EXCEPT ![ch] = s]
              /\ IF life[c] = "ready"
                 THEN /\ command' = [command EXCEPT
                                       ![c] = [verb |-> "listen", sub |-> s]]
                      /\ life' = [life EXCEPT ![c] = "busy"]
                      /\ Move(s, "listening")
                 ELSE /\ Move(s, "failed")
                      /\ UNCHANGED <<command, life>>
              /\ UNCHANGED members
  /\ UNCHANGED <<conn, connecting, timer, closed, chan, unlistens, reg,
                 ghosts>>

-----------------------------------------------------------------------------
(* unlisten() and what ends the connection *)

\* scheduleRelease(), if no channel is left.
ScheduleRelease(entries) == timer' = (timer \/ NoChannels(entries))

MutLastHandler(e, s) == TRUE
LastHandler(e, s) == members[e] \ {s} = {}

\* The table without a channel.
MutWithout(ch) == entry
Without(ch) == [entry EXCEPT ![ch] = None]

\* unsubscribe(): takes the handler out of whatever Set the channel has by now,
\* and the channel away if that leaves the Set empty.
Unsubscribe(s) ==
  /\ Quiet
  /\ pc[s] = "on"
  /\ unlistens[s] < MaxUnlistens
  /\ unlistens' = [unlistens EXCEPT ![s] = @ + 1]
  /\ LET e == entry[chan[s]]
         gone == Without(chan[s])
     IN  \/ /\ e = None
            /\ UNCHANGED <<members, entry, timer, command, life, orphans>>
         \/ /\ e # None
            /\ members' = [members EXCEPT ![e] = @ \ {s}]
            /\ IF ~LastHandler(e, s)
               THEN UNCHANGED <<entry, timer, command, life, orphans>>
               ELSE /\ entry' = gone
                    /\ orphans' = IF pc[e] = "listening" THEN orphans \cup {e}
                                                         ELSE orphans
                    /\ IF conn # None /\ life[conn] = "ready"
                       THEN /\ command' = [command EXCEPT
                                 ![conn] = [verb |-> "unlisten", sub |-> s]]
                            /\ life' = [life EXCEPT ![conn] = "busy"]
                            /\ UNCHANGED timer
                       ELSE /\ ScheduleRelease(gone)
                            /\ UNCHANGED <<command, life>>
  /\ UNCHANGED <<conn, connecting, closed, pc, chan, reg, home>>

\* The manager lets go of its connection and ends it.
EndConn ==
  /\ conn' = None
  /\ life' = IF Usable(conn) THEN [life EXCEPT ![conn] = "ended"] ELSE life

\* The grace timer: releaseNow().
TimerFires ==
  /\ Quiet
  /\ timer
  /\ timer' = FALSE
  /\ IF NoChannels(entry) THEN EndConn ELSE UNCHANGED <<conn, life>>
  /\ UNCHANGED <<connecting, entry, members, closed, subVars, command, reg, ghosts>>

\* close(): does not know of a connect that is under way.
Close ==
  /\ Quiet
  /\ ~closed
  /\ closed' = TRUE
  /\ timer' = FALSE
  /\ entry' = [ch \in Channels |-> None]
  /\ EndConn
  /\ UNCHANGED <<connecting, members, subVars, command, reg, ghosts>>

-----------------------------------------------------------------------------
(* The connections and the server, external *)

MutGoesOn(s, verb, ok) ==
  /\ Move(s, IF verb = "unlisten" \/ ok THEN "on" ELSE "failed")
  /\ members' = IF verb = "listen" /\ ok THEN [members EXCEPT ![s] = @ \cup {s}]
                                        ELSE members
  /\ UNCHANGED timer

\* How the caller of a query() goes on: subscribe() adds its handler or throws,
\* unsubscribe() ignores the failure.
GoesOn(s, verb, ok) ==
  IF verb = "listen"
  THEN /\ Move(s, IF ok THEN "on" ELSE "failed")
       /\ members' = IF ok THEN [members EXCEPT ![s] = @ \cup {s}] ELSE members
       /\ UNCHANGED timer
  ELSE ScheduleRelease(entry) /\ UNCHANGED <<pc, members>>

\* A query is answered.  One that was sent before end() still is.
Answered(c) ==
  /\ Quiet
  /\ command[c] # NoCommand
  /\ life[c] \in {"busy", "ended"}
  /\ command' = [command EXCEPT ![c] = NoCommand]
  /\ life' = [life EXCEPT ![c] = IF @ = "busy" THEN "ready" ELSE @]
  /\ LET s == command[c].sub
         verb == command[c].verb
     IN  \E ok \in BOOLEAN :
           /\ GoesOn(s, verb, ok)
           /\ reg' = [reg EXCEPT ![c] = IF ~ok THEN @
                                        ELSE IF verb = "listen" THEN @ \cup {chan[s]}
                                        ELSE @ \ {chan[s]}]
           /\ home' = IF ok /\ verb = "listen" THEN [home EXCEPT ![s] = c] ELSE home
  /\ UNCHANGED <<conn, connecting, entry, closed, chan, unlistens, orphans>>

\* The connection dies: its query is rejected.
Dies(c) ==
  /\ Quiet
  /\ life[c] \in {"ready", "busy"}
  /\ life' = [life EXCEPT ![c] = "dead"]
  /\ command' = [command EXCEPT ![c] = NoCommand]
  /\ IF command[c] = NoCommand
     THEN UNCHANGED <<pc, members, timer>>
     ELSE GoesOn(command[c].sub, command[c].verb, FALSE)
  /\ UNCHANGED <<conn, connecting, entry, closed, chan, unlistens, reg,
                 ghosts>>

-----------------------------------------------------------------------------

Init ==
  /\ conn = None
  /\ connecting = None
  /\ entry = [ch \in Channels |-> None]
  /\ members = [s \in Subs |-> {}]
  /\ timer = FALSE
  /\ closed = FALSE
  /\ pc = [s \in Subs |-> "new"]
  /\ chan = [s \in Subs |-> None]
  /\ unlistens = [s \in Subs |-> 0]
  /\ life = [c \in Conns |-> "none"]
  /\ command = [c \in Conns |-> NoCommand]
  /\ reg = [c \in Conns |-> {}]
  /\ home = [s \in Subs |-> None]
  /\ orphans = {}

Application ==
  \/ \E s \in Subs : \/ \E ch \in Channels : Subscribe(s, ch)
                     \/ Refuse(s) \/ Unsubscribe(s)
  \/ Close

Next ==
  \/ Application
  \/ \E s \in Subs : Proceed(s)
  \/ Connected
  \/ TimerFires
  \/ \E c \in Conns : Answered(c) \/ Dies(c)

Spec == Init /\ [][Next]_vars

\* Continuations run, connects and queries come to an end, timers fire.
Fairness ==
  /\ \A s \in Subs : WF_vars(Proceed(s))
  /\ WF_vars(Connected) /\ WF_vars(TimerFires)
  /\ \A c \in Conns : WF_vars(Answered(c))

FairSpec == Spec /\ Fairness

-----------------------------------------------------------------------------
(* Properties *)

\* Types of the variables; connectPromise stands for a connect under way, and
\* subscribers wait for nothing else.
TypeOK ==
  /\ conn \in Conns \cup {None}
  /\ connecting \in Conns \cup {None}
  /\ entry \in [Channels -> Subs \cup {None}]
  /\ members \in [Subs -> SUBSET Subs]
  /\ timer \in BOOLEAN
  /\ closed \in BOOLEAN
  /\ pc \in [Subs -> Phases]
  /\ chan \in [Subs -> Channels \cup {None}]
  /\ unlistens \in [Subs -> 0 .. MaxUnlistens]
  /\ life \in [Conns -> Lives]
  /\ command \in [Conns -> Commands]
  /\ reg \in [Conns -> SUBSET Channels]
  /\ home \in [Subs -> Conns \cup {None}]
  /\ orphans \subseteq Subs
  /\ connecting # None => life[connecting] = "connecting"
  /\ Waiting # {} => connecting # None

\* "One shared listener connection with LISTEN for each channel"
\* (0004-client-layer.md:508).  At most one connection is in use or being
\* opened, however many subscribers find none; and a channel whose LISTEN
\* succeeded on the connection the manager still holds is registered there for
\* as long as it stays in the table, however the LISTENs and UNLISTENs of
\* successive subscribers interleave.
RegistrationsInStep ==
  /\ Cardinality({c \in Conns : life[c] \in {"connecting", "ready", "busy"}}) <= 1
  /\ \A ch \in Channels :
       entry[ch] # None /\ Usable(conn) /\ home[entry[ch]] = conn
         => ch \in reg[conn]

\* Subscriptions that are on and have not been given up.
Live == {s \in Subs : pc[s] = "on" /\ unlistens[s] = 0}

\* A handler stays reachable until its own unlisten(), whoever else subscribes
\* or unlistens, once or twice, in whatever order.  Two exceptions: close(), and
\* a Set that somebody else's unlisten() emptied and took away while the LISTEN
\* of the subscription that created it was still running, although listen.ts:47
\* promises that unlisten() "removes just this handler".
HandlersKept ==
  \A s \in Live : s \in Dispatched(chan[s]) \/ s \in orphans \/ closed

\* With no channel left and nobody about to add one, the connection is given
\* up after the grace period, or somebody uses it again.
Unused ==
  /\ NoChannels(entry)
  /\ \A s \in Subs : pc[s] \notin {"connecting", "connected"}
  /\ Usable(conn)

ReleasedWhenUnused == Unused ~> ~Unused
=============================================================================

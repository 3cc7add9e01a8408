--------------------------- MODULE StreamsProofs ---------------------------
(***************************************************************************)
(* The invariants of the streams, proved for every set of cursors, readers *)
(* and writers, every number of rows and every batch size.                 *)
(*                                                                         *)
(* At most one use at a time is served by the server.  What the server has *)
(* sent to it and it has not taken lies in the reader and in the socket;   *)
(* where the one ends and the other begins does not matter, so the         *)
(* argument is about their concatenation, Inflow: each message may follow  *)
(* the one before it, the first one is one that the use expects, and the   *)
(* last one (or, when there is none, the use itself) says what the server  *)
(* is doing and which frames it has still to take.                         *)
(***************************************************************************)
EXTENDS Streams, SeqFacts, TLAPS

-----------------------------------------------------------------------------
(* The inductive invariant *)

Inflow == rbuf \o toClient

\* What a server that goes away may say.
Gone == Msg("error", None)

\* The messages a server can send, and the frames a client can.
Words == {m \in Messages : /\ (m.kind = "data") = (m.row # 0)
                           /\ m.use = None => m = Gone}

Orders == {f \in Frames : /\ f.kind \in {"open", "fetch"} => f.use \in Cursors
                          /\ f.kind = "query" => f.use \in Outs \cup Ins}

TypeInv ==
  /\ TypeOK
  /\ rbuf \in Seq(Words) /\ toClient \in Seq(Words)
  /\ toServer \in Seq(Orders)
  /\ server.mode = "idle" => server = Idle
  /\ server.mode = "copyIn" => server.use \in Ins
  /\ server.mode = "copyOut" => server.use \in Outs
  /\ Broken \/ server.mode = "down" => toServer = <<>>

Going(u) == pc[u] \notin {"new", "over"}

Waiting == {"fetching", "syncing", "closing", "reading", "draining",
            "starting", "ending", "failing"}

\* The phases of each kind of use.
PhasesOf(u) ==
  {"new", "over"} \cup
  (IF u \in Cursors THEN {"fetching", "yielded", "last", "syncing", "closing"}
   ELSE IF u \in Outs THEN {"reading", "yielded", "draining"}
   ELSE {"starting", "open", "ending", "failing"})

\* Who has the connection, and in which state it is.
Control ==
  /\ \A u \in Uses : waiter = u <=> pc[u] \in Waiting
  /\ \A u, v \in Uses : Going(u) /\ Going(v) => u = v
  /\ \A u \in Uses : pc[u] \in PhasesOf(u)
  /\ \A u \in Uses : Going(u) /\ ~Broken =>
       state = IF pc[u] = "last" THEN "ready" ELSE "busy"
  /\ \A u \in Uses : Going(u) =>
       IF u \in early THEN where = "idle" /\ leak = "again"
                      ELSE where = "leased" /\ leak = "none"
  /\ \A u \in early : pc[u] \in {"ending", "failing", "over"}
  /\ where = "none" => Broken
  /\ batch # <<>> => \E u \in Uses : pc[u] \in {"fetching", "syncing"}

\* The rows that have reached the use.
Got(u) == Len(moved[u]) + Len(batch)

\* The rows and chunks of a use so far, and how it ended.
Account(u) ==
  /\ InOrder(moved[u])
  /\ \A i \in DOMAIN stored[u] : stored[u][i].use = u /\ stored[u][i].row = i
  /\ pc[u] \in {"fetching", "syncing"} =>
       \A i \in DOMAIN batch : batch[i] = Len(moved[u]) + i
  /\ pc[u] = "new" => u \notin failed
  /\ pc[u] \in {"new", "starting"} => moved[u] = <<>> /\ stored[u] = <<>>
  /\ pc[u] = "syncing" => IF u \in failed THEN batch = <<>> ELSE Got(u) = Rows
  /\ u \in failed \cap Cursors => pc[u] \in {"syncing", "over"}
  /\ pc[u] = "last" => Len(moved[u]) = Rows
  /\ u \in committed => pc[u] \in {"ending", "over"}
  /\ pc[u] # "over" => outcome[u] = "none"
  /\ outcome[u] = "done" =>
       IF u \in Ins THEN u \in committed /\ Len(stored[u]) = Len(moved[u])
                    ELSE Len(moved[u]) = Rows
  /\ outcome[u] \in {"failed", "error"} => u \notin committed

\* y may come right after x.
Follows(x, y) ==
  /\ x.use # None
  /\ \/ y.use = None
     \/ /\ x.kind \in {"data", "copyOut"}
        /\ \/ y.kind = "data" /\ y.row = x.row + 1
           \/ y.kind = "complete" /\ x.row = Rows
           \/ y.kind = "suspended" /\ y.use \in Cursors
           \/ y.kind = "error"
     \/ x.kind = "copyIn" /\ y.kind = "error"
     \/ x.kind \in {"complete", "error"} /\ x.use \notin Cursors /\ y.kind = "ready"

\* Messages to u, or of a server that goes away.
Linked(s, u) ==
  /\ \A i \in 1 .. Len(s) : s[i].use \in {u, None}
  /\ \A i \in 1 .. Len(s) - 1 : Follows(s[i], s[i + 1])

\* The COPY of a writer is on the server as it was written.
Stored(u) == u \in committed /\ Len(stored[u]) = Len(moved[u])

\* u may find y at the head of its reader.
Expects(u, y) ==
  \/ y = Gone
  \/ /\ pc[u] = "fetching"
     /\ \/ y.kind = "data" /\ y.row = Got(u) + 1
        \/ y.kind = "complete" /\ Got(u) = Rows
        \/ y.kind \in {"suspended", "error", "copyOut"}
  \/ pc[u] \in {"syncing", "closing"} /\ y.kind = "ready"
  \/ /\ pc[u] \in {"reading", "yielded"} /\ u \in Outs
     /\ \/ y.kind = "data" /\ y.row = Got(u) + 1
        \/ y.kind = "complete" /\ Got(u) = Rows
        \/ y.kind = "copyOut" /\ Got(u) = 0
        \/ y.kind = "error"
        \/ y.kind = "ready" /\ (u \in failed \/ Got(u) = Rows)
  \/ pc[u] \in {"draining", "starting", "failing"}
  \/ pc[u] = "open" /\ y.kind = "error"
  \/ /\ pc[u] = "ending"
     /\ \/ y.kind = "complete" /\ u \notin failed /\ Stored(u)
        \/ y.kind = "error" /\ u \notin committed
        \/ y.kind = "ready" /\ IF u \in failed THEN u \notin committed ELSE Stored(u)

\* Frames that a server outside a COPY drops.
Stale(f) == f.kind \in {"chunk", "done", "fail"}

Idling == \A i \in 1 .. Len(toServer) : Stale(toServer[i])

\* All that the server has to take, but for those.
Asks(kind, u) ==
  /\ toServer # <<>>
  /\ toServer[Len(toServer)] = Frame(kind, u)
  /\ \A i \in 1 .. Len(toServer) - 1 : Stale(toServer[i])

\* The last frame of a writer.
Final(u) == CASE pc[u] = "ending" -> <<Frame("done", u)>>
              [] pc[u] = "failing" -> <<Frame("fail", u)>>
              [] OTHER -> <<>>

\* The server takes the chunks of u: it has the first ones, and the others are
\* on their way.
Feeding(u) ==
  /\ server.mode = "copyIn" /\ server.use = u
  /\ u \notin committed /\ u \notin failed
  /\ Len(stored[u]) + Len(toServer) = Len(moved[u]) + Len(Final(u))
  /\ Len(stored[u]) <= Len(moved[u])
  /\ \A i \in 1 .. Len(toServer) :
       IF Len(stored[u]) + i <= Len(moved[u])
       THEN toServer[i] = [Frame("chunk", u) EXCEPT !.row = Len(stored[u]) + i]
       ELSE toServer[i] = Final(u)[1]

\* The server sends the rows of u, the next one after n.
Feeds(u, n) == server.mode = "copyOut" /\ server.use = u /\ server.pos = n /\ Idling

\* The server has sent x, and nothing after it.
Ends(u, x) ==
  \/ x.kind = "ready" /\ server.mode = "idle" /\ Idling
  \/ /\ u \in Cursors /\ pc[u] = "fetching" /\ Idling
     /\ \/ /\ x.kind = "suspended" /\ server.mode = "portal"
           /\ server.pos = Got(u) + Len(Inflow) - 1
        \/ x.kind = "complete" /\ server.mode = "portal"
        \/ x.kind \in {"error", "copyOut"} /\ server.mode = "skip"
  \/ u \in Outs /\ x.kind \in {"data", "copyOut"} /\ Feeds(u, x.row)
  \/ u \in Ins /\ x.kind = "copyIn" /\ pc[u] = "starting" /\ Feeding(u)

\* u has taken everything the server has sent.
Rest(u) ==
  \/ /\ pc[u] = "fetching" /\ server.pos = Got(u)
     /\ \/ server.mode = "idle" /\ Asks("open", u)
        \/ server.mode = "portal" /\ Asks("fetch", u)
  \/ /\ pc[u] = "yielded" /\ u \in Cursors /\ server.pos = Got(u)
     /\ server.mode = "portal" /\ Idling
  \/ pc[u] = "syncing" /\ server.mode \in {"portal", "skip"} /\ Asks("sync", u)
  \/ pc[u] = "closing" /\ server.mode = "portal" /\ Asks("close", u)
  \/ pc[u] = "last" /\ server.mode = "idle" /\ Idling
  \/ /\ pc[u] \in {"reading", "starting"} /\ Got(u) = 0 /\ u \notin failed
     /\ server.mode = "idle" /\ Asks("query", u)
  \/ pc[u] \in {"reading", "yielded"} /\ u \in Outs /\ Feeds(u, Got(u))
  \/ pc[u] = "draining" /\ Feeds(u, server.pos)
  \/ pc[u] \in {"open", "ending", "failing"} /\ Feeding(u)

\* u, the messages on their way to it, and the server are in step.
Flow(u) ==
  /\ Linked(Inflow, u)
  /\ Inflow # <<>> => Expects(u, Inflow[1])
  /\ server.mode # "down" =>
       /\ \A i \in 1 .. Len(Inflow) : Inflow[i].use # None
       /\ IF Inflow = <<>> THEN Rest(u) ELSE Ends(u, Inflow[Len(Inflow)])

\* Nobody uses the connection.
Calm ==
  /\ leak # "again"
  /\ leak \in {"break", "encode"} => state = "busy"
  /\ leak = "break" => server.mode \in {"copyOut", "idle", "down"} /\ Idling
  /\ leak # "break" =>
       \/ server.mode = "down" /\ Inflow \in {<<>>, <<Gone>>}
       \/ /\ server.mode = "idle" /\ Idling /\ Inflow = <<>>
          /\ leak = "none" => state = "ready"

Live ==
  ~Broken =>
    /\ \A u \in Uses : Going(u) => Flow(u)
    /\ (\A u \in Uses : ~Going(u)) => Calm

\* What a broken connection still holds was sent to the waiter.
Addressed ==
  Broken /\ waiter # None =>
    \A i \in 1 .. Len(rbuf) : rbuf[i].use \in {waiter, None}

IInv ==
  TypeInv /\ Control /\ (\A u \in Uses : Account(u)) /\ Live /\ Addressed

-----------------------------------------------------------------------------
(* Sequences of messages *)

\* The kinds and uses of the words.
LEMMA WordFacts ==
  ASSUME NEW m \in Words
  PROVE  /\ m \in Messages
         /\ m.kind \in {"data", "suspended", "complete", "error", "ready", "copyIn", "copyOut"}
         /\ m.use \in Uses \cup {None} /\ m.row \in 0 .. Rows
         /\ (m.kind = "data") = (m.row # 0)
         /\ (m.use = None) = (m = Gone)
BY DEF Words, Messages, Gone, Msg

LEMMA GoneFacts ==
  Gone \in Words /\ Gone.use = None /\ Gone.kind = "error" /\ Gone.row = 0
BY StreamsAssumption DEF Words, Messages, Gone, Msg

\* Taking the head.
LEMMA LinkedTail ==
  ASSUME NEW s \in Seq(Words), NEW u, s # <<>>, Linked(s, u)
  PROVE  /\ Linked(Tail(s), u)
         /\ Tail(s) \in Seq(Words) /\ Len(Tail(s)) = Len(s) - 1
         /\ Tail(s) # <<>> =>
              /\ Tail(s)[1] \in Words /\ Follows(s[1], Tail(s)[1])
              /\ Tail(s)[Len(Tail(s))] = s[Len(s)]
              /\ s[Len(s)] \in Words
         /\ Tail(s) = <<>> => Len(s) = 1
         /\ (\A i \in 1 .. Len(s) : s[i].use # None) =>
              \A i \in 1 .. Len(Tail(s)) : Tail(s)[i].use # None
<1> DEFINE t == Tail(s)
<1>1. /\ Len(s) \in Nat /\ Len(s) >= 1
      /\ t \in Seq(Words) /\ Len(t) = Len(s) - 1
      /\ \A i \in 1 .. Len(s) - 1 : t[i] = s[i + 1] /\ i + 1 \in 1 .. Len(s)
  BY Dequeued
<1>2. \A i \in 1 .. Len(s) : s[i] \in Words
  BY ElementOfSeq
<1> HIDE DEF t
<1>3. t = <<>> <=> Len(s) = 1
  BY <1>1, EmptySeq
<1>4. Linked(t, u)
  <2>1. \A i \in 1 .. Len(t) : t[i].use \in {u, None}
    BY <1>1 DEF Linked
  <2>2. ASSUME NEW i \in 1 .. Len(t) - 1 PROVE Follows(t[i], t[i + 1])
    <3>1. i \in 1 .. Len(s) - 1 /\ i + 1 \in 1 .. Len(s) - 1
      BY <1>1
    <3>2. t[i] = s[i + 1] /\ t[i + 1] = s[i + 1 + 1]
      BY <1>1, <3>1
    <3> QED
      BY <3>1, <3>2 DEF Linked
  <2> QED
    BY <2>1, <2>2 DEF Linked
<1>5. ASSUME t # <<>>
      PROVE  /\ t[1] \in Words /\ Follows(s[1], t[1])
             /\ t[Len(t)] = s[Len(s)] /\ s[Len(s)] \in Words
  <2>1. Len(s) - 1 >= 1
    BY <1>1, <1>3, <1>5
  <2>2. t[1] = s[1 + 1] /\ t[Len(s) - 1] = s[Len(s) - 1 + 1] /\ Len(s) - 1 + 1 = Len(s)
    BY <1>1, <2>1
  <2>3. Follows(s[1], s[1 + 1])
    BY <1>1, <2>1 DEF Linked
  <2> QED
    BY <1>1, <1>2, <2>1, <2>2, <2>3
<1> QED
  BY <1>1, <1>3, <1>4, <1>5 DEF t

\* The concatenation, by index.
LEMMA Joint ==
  ASSUME NEW s \in Seq(Words), NEW m \in Seq(Words)
  PROVE  /\ s \o m \in Seq(Words) /\ Len(s) \in Nat /\ Len(m) \in Nat
         /\ Len(s \o m) = Len(s) + Len(m)
         /\ \A i \in 1 .. Len(s) : (s \o m)[i] = s[i]
         /\ \A i \in 1 .. Len(m) : (s \o m)[Len(s) + i] = m[i]
         /\ s = <<>> => s \o m = m
         /\ m = <<>> => s \o m = s
<1>1. /\ s \o m \in Seq(Words) /\ Len(s) \in Nat /\ Len(m) \in Nat
      /\ Len(s \o m) = Len(s) + Len(m)
      /\ \A i \in 1 .. Len(s) + Len(m) :
           (s \o m)[i] = IF i <= Len(s) THEN s[i] ELSE m[i - Len(s)]
  BY ConcatProperties
<1>2. (s = <<>> => s \o m = m) /\ (m = <<>> => s \o m = s)
  BY ConcatEmptySeq
<1> DEFINE t == s \o m
<1>3. /\ t \in Seq(Words) /\ Len(t) = Len(s) + Len(m)
      /\ \A i \in 1 .. Len(s) + Len(m) :
           t[i] = IF i <= Len(s) THEN s[i] ELSE m[i - Len(s)]
  BY <1>1
<1> HIDE DEF t
<1>4. \A i \in 1 .. Len(s) : t[i] = s[i]
  BY <1>1, <1>3
<1>5. ASSUME NEW i \in 1 .. Len(m) PROVE t[Len(s) + i] = m[i]
  <2>1. Len(s) + i \in 1 .. Len(s) + Len(m) /\ ~(Len(s) + i <= Len(s)) /\ Len(s) + i - Len(s) = i
    BY <1>1
  <2> QED
    BY <1>3, <2>1
<1> QED
  BY <1>1, <1>2, <1>4, <1>5 DEF t

\* Messages joining others.
LEMMA LinkedJoin ==
  ASSUME NEW s \in Seq(Words), NEW m \in Seq(Words), NEW u,
         Linked(s, u), Linked(m, u), m # <<>>,
         s # <<>> => Follows(s[Len(s)], m[1])
  PROVE  /\ Linked(s \o m, u)
         /\ s \o m \in Seq(Words) /\ s \o m # <<>> /\ Len(s \o m) = Len(s) + Len(m)
         /\ (s \o m)[Len(s \o m)] = m[Len(m)]
         /\ (s \o m)[1] = IF s = <<>> THEN m[1] ELSE s[1]
         /\ (\A i \in 1 .. Len(s) : s[i].use # None) /\ (\A i \in 1 .. Len(m) : m[i].use # None)
              => \A i \in 1 .. Len(s \o m) : (s \o m)[i].use # None
<1> DEFINE t == s \o m
<1>1. /\ t \in Seq(Words) /\ Len(s) \in Nat /\ Len(m) \in Nat
      /\ Len(t) = Len(s) + Len(m)
      /\ \A i \in 1 .. Len(s) : t[i] = s[i]
      /\ \A i \in 1 .. Len(m) : t[Len(s) + i] = m[i]
      /\ s = <<>> => t = m
  BY Joint
<1> HIDE DEF t
<1>2. Len(m) >= 1 /\ (s # <<>> => Len(s) >= 1)
  BY <1>1, EmptySeq
<1>3. \A i \in 1 .. Len(t) : \/ i \in 1 .. Len(s)
                             \/ i - Len(s) \in 1 .. Len(m) /\ Len(s) + (i - Len(s)) = i
  BY <1>1
<1>4. \A i \in 1 .. Len(t) : t[i].use \in {u, None}
  BY <1>1, <1>3 DEF Linked
<1>5. ASSUME NEW i \in 1 .. Len(t) - 1 PROVE Follows(t[i], t[i + 1])
  <2>1. CASE i + 1 <= Len(s)
    <3>1. i \in 1 .. Len(s) - 1 /\ i \in 1 .. Len(s) /\ i + 1 \in 1 .. Len(s)
      BY <1>1, <2>1
    <3> QED
      BY <1>1, <3>1 DEF Linked
  <2>2. CASE i = Len(s)
    <3>1. s # <<>> /\ i \in 1 .. Len(s) /\ 1 \in 1 .. Len(m)
      BY <1>1, <1>2, <2>2, EmptySeq
    <3>2. t[i] = s[Len(s)] /\ t[i + 1] = m[1]
      BY <1>1, <2>2, <3>1
    <3> QED
      BY <3>1, <3>2
  <2>3. CASE i > Len(s)
    <3>1. /\ i - Len(s) \in 1 .. Len(m) - 1 /\ i - Len(s) \in 1 .. Len(m)
          /\ i - Len(s) + 1 \in 1 .. Len(m)
          /\ Len(s) + (i - Len(s)) = i /\ Len(s) + (i - Len(s) + 1) = i + 1
      BY <1>1, <2>3
    <3>2. t[i] = m[i - Len(s)]
      BY <1>1, <3>1, Zenon
    <3>3. t[Len(s) + (i - Len(s) + 1)] = m[i - Len(s) + 1]
      BY <1>1, <3>1, Zenon
    <3>4. t[i + 1] = m[i - Len(s) + 1]
      BY <3>1, <3>3, Zenon
    <3> QED
      BY <3>1, <3>2, <3>4 DEF Linked
  <2> QED
    BY <1>1, <2>1, <2>2, <2>3
<1>6. Linked(t, u)
  BY <1>4, <1>5 DEF Linked
<1>7. t[Len(t)] = m[Len(m)] /\ t # <<>>
  <2>1. Len(m) \in 1 .. Len(m)
    BY <1>1, <1>2
  <2> QED
    BY <1>1, <1>2, <2>1, EmptySeq
<1>8. t[1] = IF s = <<>> THEN m[1] ELSE s[1]
  BY <1>1, <1>2
<1>9. (\A i \in 1 .. Len(s) : s[i].use # None) /\ (\A i \in 1 .. Len(m) : m[i].use # None)
        => \A i \in 1 .. Len(t) : t[i].use # None
  BY <1>1, <1>3
<1> QED
  BY <1>1, <1>6, <1>7, <1>8, <1>9 DEF t

\* What is left of messages when the server goes away.
LEMMA LinkedCut ==
  ASSUME NEW s \in Seq(Words), NEW t \in Seq(Words), NEW n \in 0 .. Len(t),
         NEW parting \in {<<>>, <<Gone>>}, NEW u,
         Linked(s \o t, u), \A i \in 1 .. Len(s \o t) : (s \o t)[i].use # None
  PROVE  LET r == s \o (SubSeq(t, 1, n) \o parting)
         IN  /\ Linked(r, u)
             /\ r # <<>> => r[1] = Gone \/ (s \o t # <<>> /\ r[1] = (s \o t)[1])
             /\ SubSeq(t, 1, n) \o parting \in Seq(Words)
             /\ s \o t = <<>> => r = parting
<1> DEFINE p == SubSeq(t, 1, n)
           q == s \o p
           w == s \o t
           r == s \o (p \o parting)
<1>1. Len(s) \in Nat /\ Len(t) \in Nat /\ n \in Nat /\ n <= Len(t)
  OBVIOUS
<1>2. p \in Seq(Words) /\ Len(p) = n /\ \A i \in 1 .. n : p[i] = t[i]
  <2>1. \A i \in 1 .. n : t[i] \in Words
    BY <1>1, ElementOfSeq
  <2>2. /\ p \in Seq(Words)
        /\ Len(p) = IF 1 <= n THEN n - 1 + 1 ELSE 0
        /\ \A i \in 1 .. n - 1 + 1 : p[i] = t[1 + i - 1]
    BY <1>1, <2>1, SubSeqProperties
  <2> HIDE DEF p
  <2> QED
    BY <1>1, <2>2
<1> HIDE DEF p
<1>3. /\ w \in Seq(Words) /\ Len(w) = Len(s) + Len(t)
      /\ \A i \in 1 .. Len(s) : w[i] = s[i]
      /\ \A i \in 1 .. Len(t) : w[Len(s) + i] = t[i]
      /\ q \in Seq(Words) /\ Len(q) = Len(s) + n
      /\ \A i \in 1 .. Len(s) : q[i] = s[i]
      /\ \A i \in 1 .. n : q[Len(s) + i] = p[i]
  BY <1>2, Joint
<1>4. parting \in Seq(Words) /\ p \o parting \in Seq(Words)
  <2>1. <<>> \in Seq(Words) /\ <<Gone>> \in Seq(Words)
    BY GoneFacts
  <2>2. parting \in Seq(Words)
    BY <2>1
  <2> QED
    BY <1>2, <2>2, Joint
<1>5. r = q \o parting
  <2>1. Cat(Cat(s, p), parting) = Cat(s, Cat(p, parting))
    BY <1>2, <1>4, CatAssociative
  <2> QED
    BY <2>1 DEF Cat
<1>6. Linked(w, u) /\ \A i \in 1 .. Len(w) : w[i].use # None
  OBVIOUS
<1> HIDE DEF q, w, r
<1>7. ASSUME NEW i \in 1 .. Len(q) PROVE q[i] = w[i] /\ i \in 1 .. Len(w)
  <2>1. CASE i <= Len(s)
    BY <2>1, <1>1, <1>3
  <2>2. CASE i > Len(s)
    <3>1. i - Len(s) \in 1 .. n /\ i - Len(s) \in 1 .. Len(t) /\ Len(s) + (i - Len(s)) = i
      BY <2>2, <1>1, <1>3
    <3>2. q[i] = p[i - Len(s)]
      BY <1>3, <3>1, Zenon
    <3>3. w[i] = t[i - Len(s)]
      BY <1>3, <3>1, Zenon
    <3> QED
      BY <3>1, <3>2, <3>3, <1>1, <1>2, <1>3
  <2> QED
    BY <2>1, <2>2, <1>1, <1>3
<1>8. Linked(q, u)
  <2>1. \A i \in 1 .. Len(q) : q[i].use \in {u, None}
    BY <1>6, <1>7 DEF Linked
  <2>2. ASSUME NEW i \in 1 .. Len(q) - 1 PROVE Follows(q[i], q[i + 1])
    <3>1. /\ i \in 1 .. Len(q) /\ i + 1 \in 1 .. Len(q) /\ i \in 1 .. Len(w) - 1
      BY <1>1, <1>3
    <3> QED
      BY <3>1, <1>6, <1>7 DEF Linked
  <2> QED
    BY <2>1, <2>2 DEF Linked
<1>9. q # <<>> => w # <<>> /\ q[1] = w[1]
  <2> SUFFICES ASSUME q # <<>> PROVE w # <<>> /\ q[1] = w[1]
    OBVIOUS
  <2>1. 1 \in 1 .. Len(q)
    BY <1>1, <1>3, EmptySeq
  <2>2. q[1] = w[1] /\ 1 \in 1 .. Len(w)
    BY <2>1, <1>7
  <2> QED
    BY <2>2, <1>1, <1>3, EmptySeq
<1>10. CASE parting = <<>>
  <2>1. r = q
    BY <1>3, <1>4, <1>5, <1>10, Joint
  <2> QED
    BY <2>1, <1>4, <1>8, <1>9, <1>10 DEF w, r, p
<1>11. CASE parting = <<Gone>>
  <2>1. /\ parting # <<>> /\ Len(parting) = 1 /\ parting[1] = Gone
    BY <1>11
  <2>2. Linked(parting, u)
    BY <2>1, GoneFacts DEF Linked
  <2>3. ASSUME q # <<>> PROVE Follows(q[Len(q)], parting[1])
    <3>1. Len(q) \in 1 .. Len(q)
      BY <2>3, <1>1, <1>3, EmptySeq
    <3>2. q[Len(q)].use # None
      BY <3>1, <1>6, <1>7
    <3> QED
      BY <2>1, <3>2, GoneFacts DEF Follows
  <2>4. /\ Linked(q \o parting, u)
        /\ (q \o parting)[1] = IF q = <<>> THEN parting[1] ELSE q[1]
    BY <1>3, <1>4, <1>8, <2>1, <2>2, <2>3, LinkedJoin
  <2>5. q = <<>> => q \o parting = parting
    BY <1>3, <1>4, Joint
  <2>6. r # <<>> => r[1] = Gone \/ (w # <<>> /\ r[1] = w[1])
    BY <1>5, <1>9, <2>1, <2>4
  <2>7. w = <<>> => r = parting
    BY <1>5, <1>9, <2>5
  <2>8. Linked(r, u)
    BY <1>5, <2>4
  <2> QED
    BY <2>6, <2>7, <2>8, <1>4 DEF w, r, p
<1> QED
  BY <1>10, <1>11

-----------------------------------------------------------------------------
(* What the actions do to the inflow *)

LEMMA FlowOpen ==
  ASSUME TypeInv
  PROVE  /\ rbuf \in Seq(Words) /\ toClient \in Seq(Words) /\ Inflow \in Seq(Words)
         /\ rbuf # <<>> =>
              /\ Inflow # <<>> /\ Inflow[1] = Head(rbuf) /\ Head(rbuf) \in Words
         /\ Inflow = <<>> <=> (rbuf = <<>> /\ toClient = <<>>)
         /\ \A i \in 1 .. Len(rbuf) : rbuf[i] = Inflow[i] /\ i \in 1 .. Len(Inflow)
<1>1. rbuf \in Seq(Words) /\ toClient \in Seq(Words)
  BY DEF TypeInv
<1>2. /\ Inflow \in Seq(Words) /\ Len(rbuf) \in Nat /\ Len(toClient) \in Nat
      /\ Len(Inflow) = Len(rbuf) + Len(toClient)
      /\ \A i \in 1 .. Len(rbuf) : Inflow[i] = rbuf[i]
  BY <1>1, Joint DEF Inflow
<1>3. Inflow = <<>> <=> (rbuf = <<>> /\ toClient = <<>>)
  BY <1>1, ConcatEqualIffEmpty DEF Inflow
<1>4. rbuf # <<>> => Head(rbuf) = rbuf[1] /\ 1 \in 1 .. Len(rbuf) /\ rbuf[1] \in Words
  BY <1>1, Dequeued, ElementOfSeq
<1> QED
  BY <1>1, <1>2, <1>3, <1>4

LEMMA FlowTaken ==
  ASSUME TypeInv, rbuf # <<>>, rbuf' = Tail(rbuf), toClient' = toClient
  PROVE  Inflow' = Tail(Inflow) /\ rbuf' \in Seq(Words)
<1>1. rbuf \in Seq(Words) /\ toClient \in Seq(Words)
  BY DEF TypeInv
<1> QED
  BY <1>1, Taken DEF Inflow

LEMMA FlowArrived ==
  ASSUME TypeInv, NEW n \in 1 .. Len(toClient),
         rbuf' = rbuf \o SubSeq(toClient, 1, n),
         toClient' = SubSeq(toClient, n + 1, Len(toClient))
  PROVE  Inflow' = Inflow /\ rbuf' \in Seq(Words) /\ toClient' \in Seq(Words)
<1>1. rbuf \in Seq(Words) /\ toClient \in Seq(Words)
  BY DEF TypeInv
<1> QED
  BY <1>1, Arrived, ZenonT(60) DEF Inflow

LEMMA FlowAdded ==
  ASSUME TypeInv, NEW m \in Seq(Words), rbuf' = rbuf, toClient' = toClient \o m
  PROVE  Inflow' = Inflow \o m /\ toClient' \in Seq(Words)
<1>1. rbuf \in Seq(Words) /\ toClient \in Seq(Words)
  BY DEF TypeInv
<1>2. Cat(Cat(rbuf, toClient), m) = Cat(rbuf, Cat(toClient, m))
  BY <1>1, CatAssociative
<1> QED
  BY <1>1, <1>2, ConcatProperties DEF Inflow, Cat

-----------------------------------------------------------------------------
(* Type correctness *)

LEMMA Widened ==
  /\ \A s \in Seq(Words) : s \in Seq(Messages)
  /\ \A s \in Seq(Orders) : s \in Seq(Frames)
<1>1. ASSUME NEW A, NEW B, A \subseteq B, NEW s \in Seq(A) PROVE s \in Seq(B)
  <2>1. Len(s) \in Nat /\ \A i \in 1 .. Len(s) : s[i] \in B
    BY <1>1, ElementOfSeq
  <2>2. s = [i \in 1 .. Len(s) |-> s[i]]
    BY <1>1
  <2> QED
    BY <2>1, <2>2, IsASeq
<1>2. Words \subseteq Messages /\ Orders \subseteq Frames
  BY DEF Words, Orders
<1> QED
  BY <1>1, <1>2

LEMMA FrameFacts ==
  ASSUME NEW u \in Uses
  PROVE  /\ \A k \in {"sync", "close", "chunk", "done", "fail"} : Frame(k, u) \in Orders
         /\ u \in Cursors => Frame("open", u) \in Orders /\ Frame("fetch", u) \in Orders
         /\ u \in Outs \cup Ins => Frame("query", u) \in Orders
         /\ \A i \in 0 .. Rows : [Frame("chunk", u) EXCEPT !.row = i] \in Orders
BY StreamsAssumption DEF Orders, Frames, Frame

LEMMA Sent ==
  ASSUME TypeInv, NEW f \in Orders, Send(f)
  PROVE  /\ toServer' \in Seq(Orders)
         /\ server.mode = "down" => toServer' = <<>>
BY DEF TypeInv, Send

LEMMA MsgFacts ==
  ASSUME NEW u \in Uses
  PROVE  /\ \A k \in {"suspended", "complete", "error", "ready", "copyIn", "copyOut"} :
              /\ Msg(k, u) \in Words
              /\ Msg(k, u).kind = k /\ Msg(k, u).use = u /\ Msg(k, u).row = 0
         /\ \A i \in 1 .. Rows :
              /\ Row(u, i) \in Words
              /\ Row(u, i).kind = "data" /\ Row(u, i).use = u /\ Row(u, i).row = i
<1>1. u # None /\ Rows \in Nat
  BY StreamsAssumption
<1> QED
  BY <1>1 DEF Words, Messages, Msg, Row, Gone

\* The answer to an Execute, by index.
LEMMA FetchedFacts ==
  ASSUME NEW u \in Cursors, NEW from \in 0 .. Rows
  PROVE  LET r == Fetched(u, from)
             n == Len(r) - 1
         IN  /\ r \in Seq(Words) /\ n \in 0 .. Rows - from
             /\ \A i \in 1 .. n : r[i] = Row(u, from + i)
             /\ \/ r[n + 1] = Msg("suspended", u)
                \/ r[n + 1] = Msg("complete", u) /\ from + n = Rows
<1> DEFINE full == Rows - from >= BatchSize[u]
           n == IF full THEN BatchSize[u] ELSE Rows - from
           s == [j \in 1 .. n |-> Row(u, from + j)]
           m == Msg(IF full THEN "suspended" ELSE "complete", u)
<1>1. u \in Uses /\ Rows \in Nat /\ BatchSize[u] \in Nat /\ n \in 0 .. Rows - from
  BY StreamsAssumption DEF Uses
<1>2. \A j \in 1 .. n : Row(u, from + j) \in Words
  <2> SUFFICES ASSUME NEW j \in 1 .. n PROVE Row(u, from + j) \in Words
    OBVIOUS
  <2>1. from + j \in 1 .. Rows
    BY <1>1
  <2> QED
    BY <1>1, <2>1, MsgFacts
<1>3. m \in Words
  BY <1>1, MsgFacts
<1>4. Fetched(u, from) = s \o <<m>>
  BY DEF Fetched
<1>5. full \/ from + n = Rows
  BY <1>1
<1>6. m = Msg("suspended", u) \/ (m = Msg("complete", u) /\ from + n = Rows)
  BY <1>5
<1> HIDE DEF n, m, full
<1>7. s \in Seq(Words) /\ Len(s) = n /\ \A j \in 1 .. n : s[j] = Row(u, from + j)
  BY <1>1, <1>2, IsASeq
<1> HIDE DEF s
<1>8. <<m>> \in Seq(Words) /\ Len(<<m>>) = 1 /\ <<m>>[1] = m
  BY <1>3
<1> DEFINE r == s \o <<m>>
<1>9. /\ r \in Seq(Words) /\ Len(r) = n + 1
      /\ \A i \in 1 .. n : r[i] = s[i]
      /\ r[n + 1] = m
  BY <1>7, <1>8, Joint
<1> HIDE DEF r
<1>10. /\ Len(r) - 1 = n /\ \A i \in 1 .. n : r[i] = Row(u, from + i)
  BY <1>1, <1>7, <1>9
<1> QED
  BY <1>1, <1>4, <1>6, <1>9, <1>10 DEF r

\* The values of the server.
Servers == [mode : {"idle", "portal", "skip", "copyIn", "copyOut", "down"},
            use : Uses \cup {None}, pos : 0 .. Rows]

LEMMA ServerFacts ==
  ASSUME TypeInv
  PROVE  /\ server \in Servers /\ server.pos \in 0 .. Rows
         /\ [server EXCEPT !.mode = "skip"] \in Servers
         /\ [server EXCEPT !.mode = "skip"].mode = "skip"
         /\ \A i \in 0 .. Rows :
              /\ [server EXCEPT !.pos = i] \in Servers
              /\ [server EXCEPT !.pos = i].mode = server.mode
              /\ [server EXCEPT !.pos = i].use = server.use
              /\ [server EXCEPT !.pos = i].pos = i
         /\ \A m \in {"portal", "copyIn", "copyOut"}, u \in Uses, i \in 0 .. Rows :
              [mode |-> m, use |-> u, pos |-> i] \in Servers
BY DEF TypeInv, TypeOK, Servers

LEMMA IdleFacts ==
  /\ Idle \in [mode : {"idle", "portal", "skip", "copyIn", "copyOut", "down"},
               use : Uses \cup {None}, pos : 0 .. Rows]
  /\ Idle.mode = "idle" /\ Idle.use = None /\ Idle.pos = 0
BY StreamsAssumption DEF Idle

LEMMA TypeStep == TypeInv /\ Control /\ [Next]_vars => TypeInv'
<1> SUFFICES ASSUME TypeInv, Control, [Next]_vars PROVE TypeInv'
  OBVIOUS
<1>0. /\ rbuf \in Seq(Words) /\ toClient \in Seq(Words) /\ toServer \in Seq(Orders)
      /\ <<>> \in Seq(Words) /\ <<>> \in Seq(Orders) /\ <<>> \in Seq(1 .. Rows)
      /\ \A s \in Seq(Words) : s \in Seq(Messages)
      /\ \A s \in Seq(Orders) : s \in Seq(Frames)
  BY Widened DEF TypeInv
<1>w. rbuf # <<>> => Head(rbuf) \in Words /\ Tail(rbuf) \in Seq(Words)
  BY <1>0, Dequeued, ElementOfSeq
<1>t. toServer # <<>> => Head(toServer) \in Orders /\ Tail(toServer) \in Seq(Orders)
  BY <1>0, Dequeued, ElementOfSeq
<1>s. /\ [server EXCEPT !.mode = "skip"] \in Servers
      /\ [server EXCEPT !.mode = "skip"].mode = "skip"
      /\ \A i \in 0 .. Rows :
           /\ [server EXCEPT !.pos = i] \in Servers
           /\ [server EXCEPT !.pos = i].mode = server.mode
           /\ [server EXCEPT !.pos = i].use = server.use
      /\ \A m \in {"portal", "copyIn", "copyOut"}, u \in Uses, i \in 0 .. Rows :
           [mode |-> m, use |-> u, pos |-> i] \in Servers
  BY ServerFacts
<1> USE DEF TypeInv, TypeOK, Broken, connVars, useVars, serverVars
<1>1. CASE Connect
  BY <1>0, <1>1, IdleFacts DEF Connect
<1>2. ASSUME NEW u \in Uses, Start(u) PROVE TypeInv'
  <2>1. CASE Refuse(u) \/ CursorBadParam(u) \/ WriteFails(u)
    BY <1>0, <1>2, <2>1, ZenonT(60) DEF Refuse, CursorBadParam, WriteFails, Started, Finish, LetGo, Phases,
         Outcomes
  <2>2. CASE OpenCursor(u)
    <3>1. toServer' \in Seq(Orders) /\ (server.mode = "down" => toServer' = <<>>)
      BY <2>2, FrameFacts, Sent DEF OpenCursor
    <3> QED
      BY <1>0, <2>2, <3>1 DEF OpenCursor, Started, Await, Move, Phases
  <2>3. CASE StartCopy(u)
    <3>1. toServer' \in Seq(Orders) /\ (server.mode = "down" => toServer' = <<>>)
      BY <2>3, FrameFacts, Sent DEF StartCopy
    <3> QED
      BY <1>0, <2>3, <3>1 DEF StartCopy, Started, Await, Move, Phases
  <2> QED
    BY <1>2, <2>1, <2>2, <2>3 DEF Start
<1>3. ASSUME NEW u \in Uses, Continue(u) PROVE TypeInv'
  <2> USE DEF Deliver
  <2>1. CASE Skip(u)
    <3>1. /\ rbuf # <<>> /\ rbuf' = Tail(rbuf)
          /\ UNCHANGED <<state, waiter, where, early, leak, useVars, toServer, toClient,
                         serverVars>>
      BY <2>1 DEF Skip
    <3> QED
      BY <1>0, <1>w, <3>1
  <2>2. CASE NoteError(u)
    BY <1>0, <1>w, <2>2 DEF NoteError
  <2>3. CASE CursorRow(u)
    <3>1. Head(rbuf).row \in 1 .. Rows
      BY <1>w, <2>3, WordFacts DEF CursorRow
    <3>2. batch' \in Seq(1 .. Rows)
      BY <2>3, <3>1 DEF CursorRow
    <3> QED
      BY <1>0, <1>w, <2>3, <3>2 DEF CursorRow
  <2>4. CASE CursorYields(u)
    <3>1. moved[u] \o batch \in Seq(1 .. Rows)
      BY ConcatProperties
    <3> QED
      BY <1>0, <1>w, <2>4, <3>1 DEF CursorYields, Move, Phases
  <2>5. CASE CursorSyncs(u)
    <3>1. toServer' \in Seq(Orders) /\ (server.mode = "down" => toServer' = <<>>)
      BY <2>5, FrameFacts, Sent DEF CursorSyncs
    <3>2. batch' \in Seq(1 .. Rows) /\ failed' \subseteq Uses
      BY <1>0, <2>5 DEF CursorSyncs
    <3> QED
      BY <1>0, <1>w, <2>5, <3>1, <3>2, SMTT(30) DEF CursorSyncs, Move, Phases
  <2>6. CASE CursorSynced(u)
    <3>1. moved[u] \o batch \in Seq(1 .. Rows)
      BY ConcatProperties
    <3>2. CASE u \in failed \/ batch = <<>>
      BY <1>0, <1>w, <2>6, <3>2 DEF CursorSynced, Finish, LetGo, Phases, Outcomes
    <3>3. CASE ~(u \in failed \/ batch = <<>>)
      <4>1. moved' \in [Uses -> Seq(1 .. Rows)]
        BY <2>6, <3>1, <3>3 DEF CursorSynced
      <4>2. pc' \in [Uses -> Phases] /\ batch' = <<>> /\ state' = "ready" /\ waiter' = None
        BY <2>6, <3>3 DEF CursorSynced, Move, Phases
      <4> QED
        BY <1>0, <1>w, <2>6, <3>3, <4>1, <4>2 DEF CursorSynced
    <3> QED
      BY <3>2, <3>3
  <2>7. CASE CursorUnexpected(u)
    BY <1>0, <1>w, <2>7 DEF CursorUnexpected
  <2>8. CASE ReaderYields(u)
    <3>1. Head(rbuf).row \in 1 .. Rows
      BY <1>w, <2>8, WordFacts DEF ReaderYields
    <3>2. Append(moved[u], Head(rbuf).row) \in Seq(1 .. Rows)
      BY <3>1
    <3> QED
      BY <1>0, <1>w, <2>8, <3>2 DEF ReaderYields, Move, Phases
  <2>9. CASE WriterOpens(u)
    BY <1>0, <1>w, <2>9 DEF WriterOpens, Move, Phases
  <2>10. CASE Settle(u)
    <3>1. HowItEnded(u) \in Outcomes
      BY DEF HowItEnded, Outcomes
    <3> QED
      BY <1>0, <1>w, <2>10, <3>1 DEF Settle, Finish, LetGo, Phases
  <2>11. CASE Reject(u)
    BY <1>0, <2>11 DEF Reject, Finish, LetGo, Phases, Outcomes
  <2> QED
    BY <1>3, <2>1, <2>2, <2>3, <2>4, <2>5, <2>6, <2>7, <2>8, <2>9, <2>10, <2>11 DEF Continue
<1>4. ASSUME NEW u \in Uses, Consume(u) PROVE TypeInv'
  <2> USE DEF Consumer
  <2>1. CASE LastNext(u) \/ BreakReader(u) \/ Bereft(u)
    <3>1. PICK how \in Outcomes : Finish(u, how, state)
      BY <2>1 DEF LastNext, BreakReader, Bereft, Outcomes
    <3>2. /\ pc' \in [Uses -> Phases] /\ outcome' \in [Uses -> Outcomes]
          /\ where' \in {"idle", "leased", "none"}
      BY <3>1 DEF Finish, LetGo, Phases
    <3>3. /\ leak' \in {leak, "break"}
          /\ UNCHANGED <<state, waiter, rbuf, early, batch, moved, failed, toServer, toClient,
                         serverVars>>
      BY <2>1 DEF LastNext, BreakReader, Bereft
    <3> QED
      BY <1>0, <3>2, <3>3
  <2>2. CASE SettleAgain(u)
    <3>1. u \in Ins
      BY <2>2 DEF SettleAgain, Control, PhasesOf, Uses
    <3> QED
      BY <1>0, <2>2, <3>1 DEF SettleAgain, LetGo
  <2>3. CASE NextCall(u)
    <3>1. CASE u \in Cursors
      <4>1. toServer' \in Seq(Orders) /\ (server.mode = "down" => toServer' = <<>>)
        BY <2>3, <3>1, FrameFacts, Sent DEF NextCall
      <4> QED
        BY <1>0, <2>3, <3>1, <4>1 DEF NextCall, Await, Move, Phases
    <3>2. CASE u \notin Cursors
      BY <1>0, <2>3, <3>2 DEF NextCall, Await, Move, Phases
    <3> QED
      BY <3>1, <3>2
  <2>4. CASE Return(u)
    <3>1. Frame("close", u) \in Orders /\ Frame("fail", u) \in Orders
      BY FrameFacts
    <3>2. toServer' \in Seq(Orders) /\ (server.mode = "down" => toServer' = <<>>)
      BY <2>4, <3>1, Sent DEF Return
    <3> QED
      BY <1>0, <2>4, <3>2, ZenonT(60) DEF Return, Await, Move, Phases
  <2>5. CASE WriteChunk(u)
    <3> DEFINE i == Len(moved[u]) + 1
    <3>1. i \in 1 .. Rows /\ i \in 0 .. Rows
      BY <2>5, StreamsAssumption DEF WriteChunk
    <3>2. moved' = [moved EXCEPT ![u] = Append(@, i)] /\ Send([Frame("chunk", u) EXCEPT !.row = i])
      BY <2>5 DEF WriteChunk
    <3> HIDE DEF i
    <3>3. [Frame("chunk", u) EXCEPT !.row = i] \in Orders
      BY <3>1, FrameFacts
    <3>4. toServer' \in Seq(Orders) /\ (server.mode = "down" => toServer' = <<>>)
      BY <3>2, <3>3, Sent
    <3>5. Append(moved[u], i) \in Seq(1 .. Rows)
      BY <3>1
    <3>6. moved' \in [Uses -> Seq(1 .. Rows)]
      BY <3>2, <3>5
    <3> QED
      BY <1>0, <2>5, <3>4, <3>6 DEF WriteChunk
  <2>6. CASE EndOrFail(u)
    <3>1. Frame("done", u) \in Orders /\ Frame("fail", u) \in Orders
      BY FrameFacts
    <3>2. toServer' \in Seq(Orders) /\ (server.mode = "down" => toServer' = <<>>)
      BY <2>6, <3>1, Sent DEF EndOrFail
    <3>3. pc' \in [Uses -> Phases] /\ waiter' \in Uses \cup {None}
      BY <2>6 DEF EndOrFail, Await, Move, Phases
    <3> QED
      BY <1>0, <2>6, <3>2, <3>3 DEF EndOrFail
  <2> QED
    BY <1>4, <2>1, <2>2, <2>3, <2>4, <2>5, <2>6 DEF Consume
<1>5. CASE Receive
  <2>1. CASE waiter = None
    BY <1>0, <1>5, <2>1 DEF Receive, Fatal
  <2>2. CASE waiter # None
    <3>1. PICK n \in 1 .. Len(toClient) :
            /\ rbuf' = rbuf \o SubSeq(toClient, 1, n)
            /\ toClient' = SubSeq(toClient, n + 1, Len(toClient))
            /\ UNCHANGED <<state, toServer>>
      BY <1>5, <2>2 DEF Receive
    <3>2. rbuf' \in Seq(Words) /\ toClient' \in Seq(Words)
      BY <3>1, FlowArrived
    <3> QED
      BY <1>0, <1>5, <3>1, <3>2, SMTT(30) DEF Receive
  <2> QED
    BY <2>1, <2>2
<1>6. CASE Close
  BY <1>0, <1>6 DEF Close
<1>r. \A m \in Seq(Words) : Reply(m) => toClient' \in Seq(Words)
  BY <1>0, ConcatProperties DEF Reply
<1>7. CASE ServerFetches
  <2>1. /\ toServer # <<>> /\ Head(toServer).kind \in {"open", "fetch"}
        /\ toServer' = Tail(toServer) /\ server.mode \in {"idle", "portal"}
        /\ UNCHANGED <<connVars, useVars, stored, committed>>
    BY <1>7 DEF ServerFetches, Incoming
  <2> DEFINE u == Head(toServer).use
             rows == Fetched(u, server.pos)
             n == Len(rows) - 1
  <2>2. u \in Cursors /\ u \in Uses /\ Msg("error", u) \in Words /\ Msg("copyOut", u) \in Words
    BY <1>t, <2>1, MsgFacts DEF Orders, Frames, Uses
  <2>3. server.pos \in 0 .. Rows
    OBVIOUS
  <2>4. rows \in Seq(Words) /\ n \in 0 .. Rows - server.pos
    BY <2>2, <2>3, FetchedFacts
  <2>5. \/ /\ Reply(rows)
           /\ server' = [mode |-> "portal", use |-> u, pos |-> server.pos + Len(rows) - 1]
        \/ /\ \E k \in 0 .. n : Reply(SubSeq(rows, 1, k) \o <<Msg("error", u)>>)
           /\ server' = [server EXCEPT !.mode = "skip"]
        \/ /\ Reply(<<Msg("copyOut", u)>>)
           /\ server' = [server EXCEPT !.mode = "skip"]
    BY <1>7 DEF ServerFetches
  <2> HIDE DEF u, rows
  <2>6. toClient' \in Seq(Words)
    <3>1. CASE Reply(rows)
      BY <1>r, <2>4, <3>1
    <3>2. CASE \E k \in 0 .. n : Reply(SubSeq(rows, 1, k) \o <<Msg("error", u)>>)
      <4>1. PICK k \in 0 .. n : Reply(SubSeq(rows, 1, k) \o <<Msg("error", u)>>)
        BY <3>2
      <4>2. \A i \in 1 .. k : rows[i] \in Words
        BY <2>4, <4>1, ElementOfSeq
      <4>3. SubSeq(rows, 1, k) \in Seq(Words)
        BY <2>4, <4>1, <4>2, SubSeqProperties
      <4>4. <<Msg("error", u)>> \in Seq(Words)
        BY <2>2
      <4>5. SubSeq(rows, 1, k) \o <<Msg("error", u)>> \in Seq(Words)
        BY <4>3, <4>4, Joint
      <4> QED
        BY <1>r, <4>1, <4>5
    <3>3. CASE Reply(<<Msg("copyOut", u)>>)
      <4>1. <<Msg("copyOut", u)>> \in Seq(Words)
        BY <2>2
      <4> QED
        BY <1>r, <3>3, <4>1
    <3> QED
      BY <2>5, <3>1, <3>2, <3>3
  <2>7. /\ server' \in Servers
        /\ server'.mode \in {"portal", "skip"}
    <3>1. server.pos + Len(rows) - 1 \in 0 .. Rows
      BY <2>3, <2>4, StreamsAssumption
    <3> QED
      <4>1. CASE server' = [mode |-> "portal", use |-> u, pos |-> server.pos + Len(rows) - 1]
        <5>1. server' \in Servers
          BY <1>s, <2>2, <3>1, <4>1, Zenon
        <5> QED
          BY <4>1, <5>1
      <4>2. CASE server' = [server EXCEPT !.mode = "skip"]
        BY <1>s, <4>2, Zenon
      <4> QED
        BY <2>5, <4>1, <4>2, Zenon
  <2> QED
    BY <1>0, <1>t, <2>1, <2>6, <2>7 DEF Servers
<1>8. CASE ServerSyncs
  <2>1. toServer # <<>> /\ toServer' = Tail(toServer)
    BY <1>8 DEF ServerSyncs, Incoming
  <2>2. Head(toServer).use \in Uses
    BY <1>t, <2>1 DEF Orders, Frames
  <2>3. <<Msg("ready", Head(toServer).use)>> \in Seq(Words)
    BY <2>2, MsgFacts
  <2>4. toClient' \in Seq(Words) /\ server' = Idle
    BY <1>8, <1>r, <2>3 DEF ServerSyncs
  <2> QED
    BY <1>0, <1>t, <1>8, <2>1, <2>4, IdleFacts DEF ServerSyncs
<1>9. CASE ServerCopies
  <2> DEFINE u == Head(toServer).use
             mode == IF u \in Outs THEN "copyOut" ELSE "copyIn"
  <2>1. /\ toServer # <<>> /\ toServer' = Tail(toServer) /\ Head(toServer).kind = "query"
        /\ UNCHANGED <<connVars, useVars, stored, committed>>
    BY <1>9 DEF ServerCopies, Incoming
  <2>2. u \in Outs \cup Ins /\ u \in Uses
    BY <1>t, <2>1 DEF Orders, Frames
  <2>3. \/ Reply(<<Msg(mode, u)>>) /\ server' = [mode |-> mode, use |-> u, pos |-> 0]
        \/ \E kind \in {"error", "complete"} :
             Reply(<<Msg(kind, u), Msg("ready", u)>>) /\ server' = server
    BY <1>9 DEF ServerCopies
  <2> HIDE DEF u
  <2>4. /\ <<Msg(mode, u)>> \in Seq(Words)
        /\ \A kind \in {"error", "complete"} : <<Msg(kind, u), Msg("ready", u)>> \in Seq(Words)
    BY <2>2, MsgFacts
  <2>5. toClient' \in Seq(Words)
    BY <1>r, <2>3, <2>4
  <2>6. /\ server' \in [mode : {"idle", "portal", "skip", "copyIn", "copyOut", "down"},
                        use : Uses \cup {None}, pos : 0 .. Rows]
        /\ server' = server \/ server' = [mode |-> mode, use |-> u, pos |-> 0]
    BY <2>2, <2>3, StreamsAssumption
  <2> QED
    BY <1>0, <1>t, <2>1, <2>2, <2>5, <2>6, SMTT(30)
<1>10. CASE ServerStreams
  <2>1. /\ server.use \in Uses /\ server.mode = "copyOut" /\ Rows \in Nat
        /\ UNCHANGED <<connVars, useVars, toServer, stored, committed>>
    BY <1>10, StreamsAssumption DEF ServerStreams, Uses
  <2>2. CASE server.pos < Rows
    <3>1. server.pos + 1 \in 1 .. Rows
      BY <2>1, <2>2
    <3>2. <<Row(server.use, server.pos + 1)>> \in Seq(Words)
      BY <2>1, <3>1, MsgFacts
    <3>3. toClient' \in Seq(Words) /\ server' = [server EXCEPT !.pos = server.pos + 1]
      BY <1>r, <1>10, <2>2, <3>2 DEF ServerStreams
    <3>4. /\ server' \in Servers /\ server'.mode = "copyOut" /\ server'.use = server.use
      <4>1. server.pos + 1 \in 0 .. Rows
        BY <3>1
      <4> QED
        BY <1>s, <2>1, <3>3, <4>1, Zenon
    <3> QED
      BY <1>0, <2>1, <3>3, <3>4 DEF Servers
  <2>3. CASE ~(server.pos < Rows)
    <3>1. <<Msg("complete", server.use), Msg("ready", server.use)>> \in Seq(Words)
      BY <2>1, MsgFacts
    <3>2. toClient' \in Seq(Words) /\ server' = Idle
      BY <1>r, <1>10, <2>3, <3>1 DEF ServerStreams
    <3> QED
      BY <1>0, <2>1, <3>2, IdleFacts
  <2> QED
    BY <2>2, <2>3
<1>11. CASE ServerFails
  <2>1. /\ server.use \in Uses /\ server.mode # "down"
        /\ UNCHANGED <<connVars, useVars, toServer, stored, committed>>
    BY <1>11 DEF ServerFails, Uses
  <2>2. <<Msg("error", server.use), Msg("ready", server.use)>> \in Seq(Words)
    BY <2>1, MsgFacts
  <2>3. toClient' \in Seq(Words) /\ server' = Idle
    BY <1>r, <1>11, <2>2 DEF ServerFails
  <2> QED
    BY <1>0, <2>1, <2>3, IdleFacts
<1>12. CASE ServerTakes
  <2> DEFINE frame == Head(toServer)
             u == server.use
  <2>1. /\ toServer # <<>> /\ toServer' = Tail(toServer) /\ frame \in Orders
        /\ UNCHANGED <<connVars, useVars>>
    BY <1>12, <1>t DEF ServerTakes, Incoming
  <2>2. CASE server.mode = "idle"
    BY <1>0, <1>t, <1>12, <2>1, <2>2 DEF ServerTakes
  <2>3. CASE server.mode # "idle"
    <3>1. server.mode = "copyIn" /\ u \in Ins /\ u \in Uses
      BY <1>12, <2>3 DEF ServerTakes, Uses
    <3>2. CASE frame.kind = "chunk"
      <4>1. /\ stored' = [stored EXCEPT ![u] = Append(@, frame)]
            /\ UNCHANGED <<toClient, server, committed>>
        BY <1>12, <2>3, <3>2 DEF ServerTakes
      <4>2. Append(stored[u], frame) \in Seq(Frames)
        BY <2>1, <3>1 DEF Orders
      <4>3. stored' \in [Uses -> Seq(Frames)]
        BY <4>1, <4>2
      <4> QED
        BY <1>0, <1>t, <2>1, <4>1, <4>3
    <3>3. CASE frame.kind # "chunk"
      <4>1. /\ server' = Idle /\ stored' = stored
            /\ committed' \in {committed, committed \cup {u}}
            /\ Reply(<<Msg(IF frame.kind = "done" THEN "complete" ELSE "error", u),
                       Msg("ready", u)>>)
        BY <1>12, <2>3, <3>3 DEF ServerTakes
      <4>2. \A k \in {"complete", "error"} : <<Msg(k, u), Msg("ready", u)>> \in Seq(Words)
        BY <3>1, MsgFacts
      <4>3. toClient' \in Seq(Words)
        BY <1>r, <4>1, <4>2
      <4> QED
        BY <1>0, <1>t, <2>1, <3>1, <4>1, <4>3, IdleFacts
    <3> QED
      BY <3>2, <3>3
  <2> QED
    BY <2>2, <2>3
<1>13. CASE ServerStops
  <2>1. /\ server' = [Idle EXCEPT !.mode = "down"] /\ toServer' = <<>>
        /\ UNCHANGED <<connVars, useVars, stored, committed>>
    BY <1>13 DEF ServerStops
  <2>2. PICK n \in 0 .. Len(toClient), parting \in {<<>>, <<Gone>>} :
          toClient' = SubSeq(toClient, 1, n) \o parting
    BY <1>13 DEF ServerStops, Gone
  <2>3. SubSeq(toClient, 1, n) \in Seq(Words)
    <3>1. \A i \in 1 .. n : toClient[i] \in Words
      BY <1>0, ElementOfSeq
    <3> QED
      BY <1>0, <3>1, SubSeqProperties
  <2>4. parting \in Seq(Words)
    <3>1. <<Gone>> \in Seq(Words)
      BY GoneFacts
    <3> QED
      BY <1>0, <3>1
  <2>5. toClient' \in Seq(Words)
    BY <2>2, <2>3, <2>4, Joint
  <2>6. /\ server' \in [mode : {"idle", "portal", "skip", "copyIn", "copyOut", "down"},
                        use : Uses \cup {None}, pos : 0 .. Rows]
        /\ server'.mode = "down"
    BY <2>1, IdleFacts
  <2> QED
    BY <1>0, <2>1, <2>5, <2>6
<1>14. CASE UNCHANGED vars
  BY <1>0, <1>14 DEF vars
<1> QED
  BY <1>1, <1>2, <1>3, <1>4, <1>5, <1>6, <1>7, <1>8, <1>9, <1>10, <1>11, <1>12, <1>13, <1>14
     DEF Next, Socket, Server

-----------------------------------------------------------------------------
(* Who has the connection *)

\* An idle connection that is ready is nobody's.
LEMMA NobodyGoing ==
  ASSUME TypeInv, Control, where = "idle", state = "ready"
  PROVE  /\ \A v \in Uses : ~Going(v) /\ waiter # v
         /\ waiter = None /\ batch = <<>> /\ ~Broken
<1>1. \A v \in Uses : ~Going(v)
  <2> SUFFICES ASSUME NEW v \in Uses, Going(v) PROVE FALSE
    OBVIOUS
  <2>1. v \in early /\ ~Broken
    BY DEF Control, Broken
  <2>2. pc[v] \in {"ending", "failing"}
    BY <2>1 DEF Control, Going
  <2> QED
    BY <2>1, <2>2 DEF Control
<1>2. \A v \in Uses : pc[v] \notin Waiting /\ pc[v] \notin {"fetching", "syncing"}
  BY <1>1 DEF Going, Waiting
<1> QED
  BY <1>1, <1>2 DEF Control, TypeInv, TypeOK, Broken

\* The only use that is on its way.
LEMMA OnlyOne ==
  ASSUME TypeInv, Control, NEW u \in Uses, Going(u)
  PROVE  /\ \A v \in Uses : v # u => ~Going(v) /\ waiter # v
         /\ pc[u] \in Waiting => waiter = u
         /\ pc[u] \notin Waiting => waiter = None
         /\ pc[u] \notin {"fetching", "syncing"} => batch = <<>>
<1>1. \A v \in Uses : v # u => ~Going(v)
  BY DEF Control
<1>2. \A v \in Uses : v # u => pc[v] \notin Waiting /\ pc[v] \notin {"fetching", "syncing"}
  BY <1>1 DEF Going, Waiting
<1> QED
  BY <1>1, <1>2 DEF Control, TypeInv, TypeOK

\* A use is what its phase says.
LEMMA PhaseFacts ==
  ASSUME TypeInv, Control, NEW u \in Uses
  PROVE  /\ pc[u] \in {"fetching", "last", "syncing", "closing"} => u \in Cursors
         /\ pc[u] \in {"reading", "draining"} => u \in Outs
         /\ pc[u] \in {"starting", "open", "ending", "failing"} => u \in Ins
         /\ pc[u] = "yielded" => u \in Cursors \cup Outs
         /\ u \in Cursors => u \notin Outs /\ u \notin Ins
         /\ u \in Outs => u \notin Ins
         /\ u # None
<1>1. pc[u] \in PhasesOf(u)
  BY DEF Control
<1> QED
  BY <1>1, StreamsAssumption DEF PhasesOf, Uses

\* Nothing that matters here changes, or the connection breaks.
LEMMA ControlKept ==
  ASSUME TypeInv, Control, UNCHANGED <<waiter, where, early, leak, pc, batch>>,
         state' = state \/ state' \in {"errored", "closed"}
  PROVE  Control'
BY DEF Control, Going, Broken, PhasesOf

\* A use of the connection goes on to another phase.
LEMMA ControlMoves ==
  ASSUME TypeInv, Control, NEW u \in Uses, NEW p \in PhasesOf(u) \ {"new", "over"},
         Going(u), pc' = [pc EXCEPT ![u] = p],
         waiter' = IF p \in Waiting THEN u ELSE None,
         UNCHANGED <<where, early, leak>>,
         u \in early => p \in {"ending", "failing"},
         ~Broken, state' = IF p = "last" THEN "ready" ELSE "busy",
         batch' = <<>> \/ p \in {"fetching", "syncing"}
  PROVE  Control'
<1>1. \A v \in Uses : pc'[v] = IF v = u THEN p ELSE pc[v]
  BY DEF TypeInv, TypeOK
<1>2. \A v \in Uses : v # u => ~Going(v) /\ waiter # v
  BY OnlyOne
<1>3. ~Broken'
  BY DEF Broken
<1>4. \A v \in Uses : v # u => pc[v] \notin Waiting /\ v # waiter'
  BY <1>2, StreamsAssumption DEF Going, Waiting
<1>5. Going(u)' /\ \A v \in Uses : v # u => ~Going(v)'
  BY <1>1, <1>2 DEF Going
<1>6. \A v \in Uses : waiter' = v <=> pc'[v] \in Waiting
  BY <1>1, <1>4, StreamsAssumption
<1>7. \A v \in Uses : pc'[v] \in PhasesOf(v)
  BY <1>1 DEF Control
<1>8. \A v \in early : pc'[v] \in {"ending", "failing", "over"}
  BY <1>1 DEF Control, TypeInv, TypeOK, Uses
<1>9. batch' # <<>> => \E v \in Uses : pc'[v] \in {"fetching", "syncing"}
  BY <1>1
<1>10. where' # "none"
  BY <1>3 DEF Control
<1>11. state' = IF pc'[u] = "last" THEN "ready" ELSE "busy"
  BY <1>1
<1>12. IF u \in early' THEN where' = "idle" /\ leak' = "again"
                       ELSE where' = "leased" /\ leak' = "none"
  BY DEF Control
<1> QED
  BY <1>3, <1>5, <1>6, <1>7, <1>8, <1>9, <1>10, <1>11, <1>12 DEF Control, PhasesOf

\* The use that is on its way is over.
LEMMA ControlEnds ==
  ASSUME TypeInv, Control, NEW u \in Uses, Going(u),
         pc' = [pc EXCEPT ![u] = "over"], waiter' = None, batch' = <<>>,
         early' = early,
         where' = IF u \in early THEN where ELSE IF Usable(state') THEN "idle" ELSE "none",
         state' \in {"ready", "busy", "errored", "closed"}
  PROVE  Control' /\ \A v \in Uses : ~Going(v)'
<1>1. \A v \in Uses : pc'[v] = IF v = u THEN "over" ELSE pc[v]
  BY DEF TypeInv, TypeOK
<1>2. \A v \in Uses : v # u => ~Going(v) /\ waiter # v
  BY OnlyOne
<1>3. \A v \in Uses : ~Going(v)' /\ pc'[v] \notin Waiting /\ v # None
  BY <1>1, <1>2, StreamsAssumption DEF Going, Waiting
<1>4. where' = "none" => Broken'
  <2>1. u \in early => where = "idle"
    BY DEF Control
  <2> QED
    BY <2>1 DEF Usable, Broken
<1>5. \A v \in Uses : pc'[v] \in PhasesOf(v)
  BY <1>1 DEF Control, PhasesOf
<1>6. \A v \in early : pc'[v] \in {"ending", "failing", "over"}
  BY <1>1 DEF Control, TypeInv, TypeOK, Uses
<1>7. \A v \in Uses : waiter' = v <=> pc'[v] \in Waiting
  BY <1>3
<1> QED
  BY <1>3, <1>4, <1>5, <1>6, <1>7 DEF Control, PhasesOf

\* A use is over before it began.
LEMMA ControlRefused ==
  ASSUME TypeInv, Control, NEW u \in Uses, pc[u] = "new", where = "idle", Quiet,
         pc' = [pc EXCEPT ![u] = "over"],
         UNCHANGED <<waiter, batch, early>>,
         where' = IF Usable(state') THEN "idle" ELSE "none",
         \/ UNCHANGED <<state, leak>>
         \/ state' \in {"ready", "busy"} /\ \A v \in Uses : ~Going(v)
  PROVE  Control' /\ \A v \in Uses : Going(v)' <=> Going(v)
<1>1. \A v \in Uses : pc'[v] = IF v = u THEN "over" ELSE pc[v]
  BY DEF TypeInv, TypeOK
<1>2. \A v \in Uses : Going(v)' <=> Going(v)
  BY <1>1 DEF Going
<1>3. u \notin early
  BY DEF Control
<1>4. \A v \in Uses : waiter' = v <=> pc'[v] \in Waiting
  BY <1>1 DEF Control, Waiting
<1>5. \A v \in Uses : pc'[v] \in PhasesOf(v)
  BY <1>1 DEF Control, PhasesOf
<1>6. \A v \in early : pc'[v] \in {"ending", "failing", "over"}
  BY <1>1 DEF Control, TypeInv, TypeOK, Uses
<1>7. batch' # <<>> => \E v \in Uses : pc'[v] \in {"fetching", "syncing"}
  BY <1>1 DEF Control
<1>8. where' = "none" => Broken'
  BY DEF Usable, Broken, TypeInv, TypeOK
<1>9. ASSUME NEW v \in Uses, Going(v)'
      PROVE  /\ ~Broken' => state' = IF pc'[v] = "last" THEN "ready" ELSE "busy"
             /\ v \in early /\ where' = "idle" /\ leak' = "again"
  <2>1. Going(v) /\ v # u /\ pc'[v] = pc[v]
    BY <1>1, <1>2, <1>9 DEF Going
  <2>2. UNCHANGED <<state, leak>>
    BY <2>1
  <2>3. v \in early /\ leak = "again"
    BY <2>1 DEF Control
  <2>4. pc[v] \in {"ending", "failing"} /\ waiter = v /\ v # None
    BY <2>1, <2>3, StreamsAssumption DEF Control, Going, Waiting
  <2>5. ~Broken
    BY <2>4 DEF Quiet
  <2>6. Usable(state')
    BY <2>2, <2>5 DEF Broken, Usable, TypeInv, TypeOK
  <2> QED
    BY <2>1, <2>2, <2>3, <2>4, <2>6 DEF Control, Broken
<1>10. \A v, x \in Uses : Going(v)' /\ Going(x)' => v = x
  BY <1>2 DEF Control
<1> QED
  BY <1>2, <1>4, <1>5, <1>6, <1>7, <1>8, <1>9, <1>10 DEF Control, PhasesOf

LEMMA ControlStep ==
  TypeInv /\ Control /\ (\A u \in Uses : Account(u)) /\ Live /\ [Next]_vars => Control'
<1> SUFFICES ASSUME TypeInv, Control, \A u \in Uses : Account(u), Live, [Next]_vars
             PROVE  Control'
  OBVIOUS
<1> USE DEF connVars, useVars, serverVars
<1>1. CASE Connect
  <2>1. \A u \in Uses : ~Going(u)
    BY <1>1 DEF Connect, Control
  <2>2. \A u \in Uses : ~Going(u)' /\ pc'[u] \notin Waiting /\ u # None
    BY <1>1, <2>1, StreamsAssumption DEF Connect, Going, Waiting
  <2>3. batch = <<>>
    BY <2>1 DEF Control, Going
  <2> QED
    BY <1>1, <2>2, <2>3 DEF Connect, Control, PhasesOf
<1>2. ASSUME NEW u \in Uses, Start(u) PROVE Control'
  <2>0. Acquire(u) /\ pc[u] = "new" /\ where = "idle" /\ Quiet /\ u \notin early
    BY <1>2 DEF Start, Refuse, OpenCursor, CursorBadParam, StartCopy, WriteFails, Started,
       Acquire, Control
  <2>1. CASE Refuse(u)
    BY <2>0, <2>1, ControlRefused DEF Refuse, Finish, LetGo
  <2>2. CASE CursorBadParam(u) \/ WriteFails(u)
    <3>1. /\ state = "ready" /\ state' \in {"ready", "busy"}
          /\ pc' = [pc EXCEPT ![u] = "over"]
          /\ UNCHANGED <<waiter, batch, early>>
          /\ where' = IF Usable(state') THEN "idle" ELSE "none"
      BY <2>0, <2>2 DEF CursorBadParam, WriteFails, Started, Finish, LetGo
    <3>2. \A v \in Uses : ~Going(v)
      BY <2>0, <3>1, NobodyGoing
    <3> QED
      BY <2>0, <3>1, <3>2, ControlRefused
  <2>3. CASE OpenCursor(u) \/ StartCopy(u)
    <3> DEFINE p == IF u \in Cursors THEN "fetching"
                    ELSE IF u \in Outs THEN "reading" ELSE "starting"
    <3>1. /\ state = "ready" /\ state' = "busy" /\ where' = "leased"
          /\ pc' = [pc EXCEPT ![u] = p] /\ waiter' = u
          /\ UNCHANGED <<batch, early, leak>>
      BY <2>3, StreamsAssumption DEF OpenCursor, StartCopy, Started, Await, Move
    <3>2. (\A v \in Uses : ~Going(v) /\ waiter # v) /\ batch = <<>>
      BY <2>0, <3>1, NobodyGoing
    <3>3. \A v \in Uses : pc'[v] = IF v = u THEN p ELSE pc[v]
      BY <3>1 DEF TypeInv, TypeOK
    <3>4. p \in PhasesOf(u) /\ p \in Waiting /\ p \notin {"last", "new", "over"}
      BY DEF PhasesOf, Waiting
    <3> HIDE DEF p
    <3>5. \A v \in Uses : Going(v)' <=> v = u
      BY <3>2, <3>3, <3>4 DEF Going
    <3>6. \A v \in Uses : waiter' = v <=> pc'[v] \in Waiting
      BY <3>1, <3>2, <3>3, <3>4 DEF Going, Waiting
    <3>7. leak' = "none"
      BY <3>1, <3>2 DEF Live, Calm, Broken, TypeInv, TypeOK
    <3>8. \A v \in Uses : pc'[v] \in PhasesOf(v)
      BY <3>3, <3>4 DEF Control
    <3>9. \A v \in early' : pc'[v] \in {"ending", "failing", "over"}
      BY <2>0, <3>1, <3>3 DEF Control, TypeInv, TypeOK, Uses
    <3>10. u \notin early'
      BY <2>0, <3>1
    <3> QED
      BY <3>1, <3>2, <3>3, <3>4, <3>5, <3>6, <3>7, <3>8, <3>9, <3>10 DEF Control, PhasesOf
  <2> QED
    BY <1>2, <2>1, <2>2, <2>3 DEF Start
<1>3. ASSUME NEW u \in Uses, Continue(u) PROVE Control'
  <2> USE DEF Deliver
  <2>0. waiter = u /\ pc[u] \in Waiting /\ Going(u)
    BY <1>3 DEF Continue, Skip, NoteError, CursorRow, CursorYields, CursorSyncs, CursorSynced,
       CursorUnexpected, ReaderYields, WriterOpens, Settle, Reject, Control, Going, Waiting
  <2>1. CASE Skip(u)
    BY <2>1, ControlKept DEF Skip
  <2>2. CASE NoteError(u)
    BY <2>2, ControlKept DEF NoteError
  <2>3. CASE CursorRow(u)
    BY <2>3 DEF CursorRow, Control, Going, Broken, PhasesOf
  <2>7. CASE CursorUnexpected(u)
    BY <2>7, ControlKept DEF CursorUnexpected
  <2>10. CASE Settle(u)
    BY <2>0, <2>10, ControlEnds, OnlyOne DEF Settle, Finish, LetGo
  <2>11. CASE Reject(u)
    BY <2>0, <2>11, ControlEnds DEF Reject, Finish, LetGo, TypeInv, TypeOK
  <2>12. CASE CursorYields(u) \/ CursorSyncs(u) \/ ReaderYields(u) \/ WriterOpens(u)
    <3> DEFINE p == IF pc[u] = "fetching"
                    THEN IF Head(rbuf).kind = "suspended" THEN "yielded" ELSE "syncing"
                    ELSE IF pc[u] = "reading" THEN "yielded" ELSE "open"
    <3>1. /\ pc' = [pc EXCEPT ![u] = p]
          /\ waiter' = IF p = "syncing" THEN u ELSE None
          /\ UNCHANGED <<where, early, leak, state>>
          /\ pc[u] \in {"fetching", "reading", "starting"} /\ ~Broken
          /\ pc[u] \in {"fetching"} => (p \in {"syncing"} \/ batch' = <<>>)
          /\ pc[u] # "fetching" => batch' = batch
      BY <2>0, <2>12 DEF CursorYields, CursorSyncs, ReaderYields, WriterOpens, Move
    <3>2. p \in PhasesOf(u) \ {"new", "over"} /\ p # "last" /\ (p \in Waiting <=> p = "syncing")
      BY <3>1, PhaseFacts DEF PhasesOf, Waiting
    <3>3. u \notin early /\ state = "busy"
      BY <2>0, <3>1 DEF Control
    <3>4. pc[u] # "fetching" => batch = <<>>
      BY <2>0, <3>1, OnlyOne
    <3> HIDE DEF p
    <3> QED
      BY <2>0, <3>1, <3>2, <3>3, <3>4, ControlMoves
  <2>13. CASE CursorSynced(u)
    <3>1. CASE u \in failed \/ batch = <<>>
      <4>1. batch = <<>>
        BY <2>13, <3>1 DEF CursorSynced, Account
      <4> QED
        BY <2>0, <2>13, <3>1, <4>1, ControlEnds DEF CursorSynced, Finish, LetGo
    <3>2. CASE ~(u \in failed \/ batch = <<>>)
      <4>1. /\ pc' = [pc EXCEPT ![u] = "last"] /\ waiter' = None /\ state' = "ready"
            /\ batch' = <<>> /\ UNCHANGED <<where, early, leak>> /\ pc[u] = "syncing" /\ ~Broken
        BY <2>13, <3>2 DEF CursorSynced, Move
      <4>2. "last" \in PhasesOf(u) \ {"new", "over"} /\ "last" \notin Waiting /\ u \notin early
        BY <4>1, PhaseFacts DEF PhasesOf, Waiting, Control
      <4> QED
        BY <2>0, <4>1, <4>2, ControlMoves
    <3> QED
      BY <3>1, <3>2
  <2> QED
    BY <1>3, <2>1, <2>2, <2>3, <2>7, <2>10, <2>11, <2>12, <2>13 DEF Continue
<1>4. ASSUME NEW u \in Uses, Consume(u) PROVE Control'
  <2> USE DEF Consumer
  <2>0. Going(u) /\ Quiet
    BY <1>4 DEF Consume, NextCall, LastNext, Return, BreakReader, WriteChunk, EndOrFail,
       SettleAgain, Bereft, Going
  <2>1. CASE LastNext(u) \/ BreakReader(u) \/ Bereft(u)
    <3>1. /\ pc[u] \in {"last", "yielded", "open"}
          /\ pc' = [pc EXCEPT ![u] = "over"]
          /\ UNCHANGED <<state, waiter, early, batch>>
          /\ where' = IF u \in early THEN where ELSE IF Usable(state') THEN "idle" ELSE "none"
      BY <2>1 DEF LastNext, BreakReader, Bereft, Finish, LetGo
    <3>2. waiter = None /\ batch = <<>>
      BY <2>0, <3>1, OnlyOne DEF Waiting
    <3>3. state' \in {"ready", "busy", "errored", "closed"}
      BY <3>1 DEF TypeInv, TypeOK
    <3> QED
      BY <2>0, <3>1, <3>2, <3>3, ControlEnds
  <2>2. CASE NextCall(u) \/ Return(u) \/ EndOrFail(u)
    <3>1. PICK p \in {"fetching", "reading", "closing", "draining", "ending", "failing"} :
            /\ pc' = [pc EXCEPT ![u] = p] /\ waiter' = u
            /\ p \in {"fetching", "closing"} => u \in Cursors
            /\ p \in {"reading", "draining"} => u \notin Cursors /\ pc[u] = "yielded"
            /\ p \in {"ending", "failing"} => pc[u] = "open"
      BY <2>2 DEF NextCall, Return, EndOrFail, Await, Move
    <3>2. /\ pc[u] \in {"yielded", "open"} /\ ~Broken
          /\ UNCHANGED <<where, early, leak, batch, state>>
      BY <2>2 DEF NextCall, Return, EndOrFail
    <3>3. batch = <<>> /\ state = "busy" /\ u \notin early
      BY <2>0, <3>2, OnlyOne DEF Control
    <3>4. p \in PhasesOf(u) \ {"new", "over"} /\ p # "last" /\ p \in Waiting
      BY <3>1, <3>2, PhaseFacts DEF PhasesOf, Waiting
    <3> QED
      BY <2>0, <3>1, <3>2, <3>3, <3>4, ControlMoves
  <2>3. CASE WriteChunk(u)
    BY <2>3, ControlKept DEF WriteChunk
  <2>4. CASE SettleAgain(u)
    <3>1. /\ pc[u] \in {"ending", "failing"} /\ waiter = u /\ u # None
          /\ UNCHANGED <<state, waiter, pc, batch>>
          /\ early' = early \cup {u} /\ leak' = "again"
          /\ where' = IF Usable(state) THEN "idle" ELSE "none"
      BY <2>0, <2>4, StreamsAssumption DEF SettleAgain, LetGo, Control, Waiting
    <3>2. ~Broken /\ where' = "idle"
      BY <2>0, <3>1 DEF Quiet, Broken, Usable, TypeInv, TypeOK
    <3> QED
      BY <2>0, <3>1, <3>2 DEF Control, Going, Broken, PhasesOf
  <2> QED
    BY <1>4, <2>1, <2>2, <2>3, <2>4 DEF Consume
<1>5. CASE Receive
  BY <1>5, ControlKept DEF Receive, Fatal
<1>6. CASE Close
  BY <1>6, ControlKept DEF Close
<1>7. CASE Server
  BY <1>7, ControlKept DEF Server, ServerFetches, ServerSyncs, ServerCopies, ServerStreams,
     ServerFails, ServerTakes, ServerStops
<1>8. CASE UNCHANGED vars
  BY <1>8, ControlKept DEF vars
<1> QED
  BY <1>1, <1>2, <1>3, <1>4, <1>5, <1>6, <1>7, <1>8 DEF Next, Socket

-----------------------------------------------------------------------------
(* Rows and chunks *)

\* What a use is handed is what it expects.
LEMMA Delivered ==
  ASSUME TypeInv, Control, Live, NEW u \in Uses, NEW phases, NEW kinds,
         Deliver(u, phases, kinds)
  PROVE  /\ Going(u) /\ Flow(u) /\ ~Broken /\ waiter = u /\ pc[u] \in phases /\ pc[u] \in Waiting
         /\ rbuf # <<>> /\ rbuf' = Tail(rbuf) /\ Head(rbuf).kind \in kinds
         /\ Head(rbuf) \in Words /\ Inflow # <<>> /\ Inflow[1] = Head(rbuf)
         /\ Expects(u, Head(rbuf))
<1>1. waiter = u /\ ~Broken /\ pc[u] \in phases /\ rbuf # <<>> /\ rbuf' = Tail(rbuf)
      /\ Head(rbuf).kind \in kinds
  BY DEF Deliver
<1>2. pc[u] \in Waiting /\ Going(u)
  BY <1>1 DEF Control, Going, Waiting
<1>3. Flow(u)
  BY <1>1, <1>2 DEF Live
<1>4. Inflow # <<>> /\ Inflow[1] = Head(rbuf) /\ Head(rbuf) \in Words
  BY <1>1, FlowOpen
<1> QED
  BY <1>1, <1>2, <1>3, <1>4 DEF Flow

\* A server that takes a COPY is fed by the use it belongs to.
LEMMA Fed ==
  ASSUME TypeInv, Control, Live, server.mode = "copyIn", ~Broken
  PROVE  server.use \in Ins /\ server.use \in Uses /\ Going(server.use) /\ Feeding(server.use)
<1>1. PICK u \in Uses : Going(u) /\ Flow(u)
  <2>1. ~Calm
    BY DEF Calm
  <2> QED
    BY <2>1 DEF Live
<1>2. Feeding(u)
  <2>1. Rest(u) \/ Ends(u, Inflow[Len(Inflow)])
    BY <1>1 DEF Flow
  <2>2. Rest(u) => Feeding(u)
    BY DEF Rest, Feeds
  <2>3. Ends(u, Inflow[Len(Inflow)]) => Feeding(u)
    BY DEF Ends, Feeds
  <2> QED
    BY <2>1, <2>2, <2>3
<1>3. server.use = u /\ u \in Ins
  BY <1>2 DEF Feeding, TypeInv
<1> QED
  BY <1>1, <1>2, <1>3

\* What such a server takes next.
LEMMA FedNext ==
  ASSUME TypeInv, NEW u \in Uses, Feeding(u), toServer # <<>>
  PROVE  LET f == Head(toServer)
         IN  /\ f.kind = "chunk" => /\ f = [Frame("chunk", u) EXCEPT !.row = Len(stored[u]) + 1]
                                    /\ Len(stored[u]) + 1 <= Len(moved[u])
             /\ f.kind # "chunk" => /\ Len(stored[u]) = Len(moved[u]) /\ Tail(toServer) = <<>>
                                    /\ \/ pc[u] = "ending" /\ f.kind = "done"
                                       \/ pc[u] = "failing" /\ f.kind = "fail"
<1> DEFINE f == Head(toServer)
<1>1. /\ f = toServer[1] /\ 1 \in 1 .. Len(toServer) /\ Len(toServer) \in Nat
      /\ Tail(toServer) \in Seq(Orders) /\ Len(Tail(toServer)) = Len(toServer) - 1
  BY Dequeued DEF TypeInv
<1>2. Len(stored[u]) \in Nat /\ Len(moved[u]) \in Nat
  BY DEF TypeInv, TypeOK
<1>3. f = IF Len(stored[u]) + 1 <= Len(moved[u])
          THEN [Frame("chunk", u) EXCEPT !.row = Len(stored[u]) + 1] ELSE Final(u)[1]
  BY <1>1 DEF Feeding
<1>4. CASE Len(stored[u]) + 1 <= Len(moved[u])
  <2>1. f.kind = "chunk"
    BY <1>3, <1>4 DEF Frame
  <2> QED
    BY <1>3, <1>4, <2>1
<1>5. CASE ~(Len(stored[u]) + 1 <= Len(moved[u]))
  <2>1. /\ Len(stored[u]) = Len(moved[u]) /\ Len(toServer) = Len(Final(u))
        /\ f = Final(u)[1]
    BY <1>2, <1>3, <1>5 DEF Feeding
  <2>2. \/ pc[u] = "ending" /\ Final(u) = <<Frame("done", u)>>
        \/ pc[u] = "failing" /\ Final(u) = <<Frame("fail", u)>>
        \/ Final(u) = <<>>
    BY DEF Final
  <2>3. \/ pc[u] = "ending" /\ f.kind = "done" /\ Len(toServer) = 1
        \/ pc[u] = "failing" /\ f.kind = "fail" /\ Len(toServer) = 1
    BY <1>1, <2>1, <2>2 DEF Frame
  <2>4. Tail(toServer) = <<>>
    BY <1>1, <2>3, EmptySeq
  <2> QED
    BY <2>1, <2>3, <2>4
<1> QED
  BY <1>4, <1>5

\* Nothing of v changes.
LEMMA AccountKept ==
  ASSUME NEW v, Account(v), pc'[v] = pc[v], moved'[v] = moved[v], stored'[v] = stored[v],
         outcome'[v] = outcome[v], v \in failed' <=> v \in failed,
         v \in committed' <=> v \in committed,
         batch' = batch \/ pc[v] \notin {"fetching", "syncing"}
  PROVE  Account(v)'
BY DEF Account, InOrder, Got

\* Rows and chunks reach nobody else.
LEMMA AccountOthers ==
  ASSUME TypeInv, Control, NEW u \in Uses, Going(u) \/ batch = <<>>,
         \A v \in Uses : Account(v),
         \A v \in Uses : v # u => /\ pc'[v] = pc[v] /\ moved'[v] = moved[v]
                                  /\ stored'[v] = stored[v] /\ outcome'[v] = outcome[v]
                                  /\ v \in failed' <=> v \in failed
                                  /\ v \in committed' <=> v \in committed,
         batch' = batch \/ Going(u),
         Account(u)'
  PROVE  \A v \in Uses : Account(v)'
<1> SUFFICES ASSUME NEW v \in Uses, v # u PROVE Account(v)'
  OBVIOUS
<1>1. Going(u) => pc[v] \notin {"fetching", "syncing"}
  BY OnlyOne DEF Going
<1> QED
  BY <1>1, AccountKept

\* Rows that continue others in order.
LEMMA InOrderJoined ==
  ASSUME NEW s \in Seq(1 .. Rows), NEW t \in Seq(1 .. Rows), InOrder(s),
         \A i \in DOMAIN t : t[i] = Len(s) + i
  PROVE  /\ s \o t \in Seq(1 .. Rows) /\ InOrder(s \o t)
         /\ Len(s \o t) = Len(s) + Len(t)
<1> DEFINE r == s \o t
<1>1. /\ Len(s) \in Nat /\ Len(t) \in Nat
      /\ r \in Seq(1 .. Rows) /\ Len(r) = Len(s) + Len(t)
      /\ \A i \in 1 .. Len(s) + Len(t) : r[i] = IF i <= Len(s) THEN s[i] ELSE t[i - Len(s)]
  BY ConcatProperties
<1>2. DOMAIN r = 1 .. Len(s) + Len(t) /\ DOMAIN s = 1 .. Len(s) /\ DOMAIN t = 1 .. Len(t)
  BY <1>1, LenProperties
<1> HIDE DEF r
<1>3. ASSUME NEW i \in DOMAIN r PROVE r[i] = i
  <2>1. CASE i <= Len(s)
    BY <1>1, <1>2, <2>1 DEF InOrder
  <2>2. CASE ~(i <= Len(s))
    <3>1. i - Len(s) \in DOMAIN t
      BY <1>1, <1>2, <2>2
    <3> QED
      BY <1>1, <1>2, <2>2, <3>1
  <2> QED
    BY <2>1, <2>2
<1> QED
  BY <1>1, <1>3 DEF r, InOrder

LEMMA InOrderAppended ==
  ASSUME NEW s \in Seq(1 .. Rows), InOrder(s), NEW i \in 1 .. Rows, i = Len(s) + 1
  PROVE  InOrder(Append(s, i)) /\ Len(Append(s, i)) = Len(s) + 1
<1>1. /\ Len(s) \in Nat /\ DOMAIN s = 1 .. Len(s)
      /\ DOMAIN Append(s, i) = 1 .. Len(s) + 1
      /\ \A j \in 1 .. Len(s) : Append(s, i)[j] = s[j]
      /\ Append(s, i)[Len(s) + 1] = i /\ Len(Append(s, i)) = Len(s) + 1
  BY AppendProperties, LenProperties
<1> QED
  BY <1>1 DEF InOrder

\* One more row of a batch.
LEMMA BatchAppended ==
  ASSUME NEW s \in Seq(1 .. Rows), NEW k \in Nat, \A i \in DOMAIN s : s[i] = k + i,
         NEW r \in 1 .. Rows, r = k + Len(s) + 1
  PROVE  \A i \in DOMAIN Append(s, r) : Append(s, r)[i] = k + i
<1>1. /\ Len(s) \in Nat /\ DOMAIN s = 1 .. Len(s)
      /\ DOMAIN Append(s, r) = 1 .. Len(s) + 1
      /\ \A j \in 1 .. Len(s) : Append(s, r)[j] = s[j]
      /\ Append(s, r)[Len(s) + 1] = r
  BY AppendProperties, LenProperties
<1> QED
  BY <1>1

LEMMA AccountStep ==
  TypeInv /\ Control /\ (\A u \in Uses : Account(u)) /\ Live /\ [Next]_vars =>
    \A u \in Uses : Account(u)'
<1> SUFFICES ASSUME TypeInv, Control, \A u \in Uses : Account(u), Live, [Next]_vars
             PROVE  \A u \in Uses : Account(u)'
  OBVIOUS
<1> USE DEF connVars, useVars, serverVars
<1>0. UNCHANGED <<pc, batch, moved, failed, outcome, stored, committed>> =>
        \A u \in Uses : Account(u)'
  BY AccountKept
<1>1. CASE Connect
  BY <1>0, <1>1 DEF Connect
<1>2. ASSUME NEW u \in Uses, Start(u) PROVE \A v \in Uses : Account(v)'
  <2>0. /\ pc[u] = "new" /\ Account(u) /\ UNCHANGED <<moved, failed, batch, stored, committed>>
        /\ where = "idle"
    BY <1>2 DEF Start, Refuse, OpenCursor, CursorBadParam, StartCopy, WriteFails, Started,
       Acquire
  <2>1. CASE Refuse(u) \/ CursorBadParam(u) \/ WriteFails(u)
    <3>1. PICK how \in {"refused", "error", "lost"} :
            /\ pc' = [pc EXCEPT ![u] = "over"]
            /\ outcome' = [outcome EXCEPT ![u] = how]
      BY <2>1 DEF Refuse, CursorBadParam, WriteFails, Finish
    <3>2. /\ \A v \in Uses : pc'[v] = IF v = u THEN "over" ELSE pc[v]
          /\ \A v \in Uses : outcome'[v] = IF v = u THEN how ELSE outcome[v]
      BY <3>1 DEF TypeInv, TypeOK
    <3>3. Account(u)'
      BY <2>0, <3>2 DEF Account, InOrder
    <3>4. ASSUME NEW v \in Uses, v # u PROVE Account(v)'
      BY <2>0, <3>2, <3>4, AccountKept
    <3> QED
      BY <3>3, <3>4
  <2>2. CASE OpenCursor(u) \/ StartCopy(u)
    <3>1. PICK p \in {"fetching", "reading", "starting"} :
            pc' = [pc EXCEPT ![u] = p] /\ outcome' = outcome /\ state = "ready"
      BY <2>2 DEF OpenCursor, StartCopy, Started, Await, Move
    <3>2. \A v \in Uses : pc'[v] = IF v = u THEN p ELSE pc[v]
      BY <3>1 DEF TypeInv, TypeOK
    <3>3. batch = <<>>
      BY <2>0, <3>1, NobodyGoing
    <3>4. Account(u)'
      BY <2>0, <3>1, <3>2, <3>3 DEF Account, InOrder
    <3> QED
      BY <2>0, <3>1, <3>2, <3>3, <3>4, AccountOthers
  <2> QED
    BY <1>2, <2>1, <2>2 DEF Start
<1>3. ASSUME NEW u \in Uses, Continue(u) PROVE \A v \in Uses : Account(v)'
  <2>0. /\ Account(u) /\ Going(u) /\ waiter = u
        /\ pc \in [Uses -> Phases] /\ moved \in [Uses -> Seq(1 .. Rows)]
        /\ outcome \in [Uses -> Outcomes] /\ moved[u] \in Seq(1 .. Rows)
        /\ batch \in Seq(1 .. Rows) /\ Len(moved[u]) \in Nat /\ Len(batch) \in Nat
        /\ DOMAIN batch = 1 .. Len(batch)
    <3>1. waiter = u
      BY <1>3 DEF Continue, Skip, NoteError, CursorRow, CursorYields, CursorSyncs,
         CursorSynced, CursorUnexpected, ReaderYields, WriterOpens, Settle, Reject, Deliver
    <3>2. Going(u)
      BY <3>1 DEF Control, Going, Waiting
    <3> QED
      BY <3>1, <3>2, LenProperties DEF TypeInv, TypeOK
  <2>o. ASSUME /\ \A v \in Uses : v # u => /\ pc'[v] = pc[v] /\ moved'[v] = moved[v]
                                           /\ outcome'[v] = outcome[v]
                                           /\ v \in failed' <=> v \in failed,
               UNCHANGED <<stored, committed>>, Account(u)'
        PROVE  \A v \in Uses : Account(v)'
    BY <2>0, <2>o, AccountOthers
  <2>1. CASE Skip(u) \/ CursorUnexpected(u)
    BY <1>0, <2>1 DEF Skip, CursorUnexpected
  <2>2. CASE NoteError(u)
    <3>1. /\ failed' = failed \cup {u} /\ pc[u] \in {"reading", "starting", "ending"}
          /\ UNCHANGED <<pc, batch, moved, outcome, stored, committed>>
      BY <2>2 DEF NoteError, Deliver
    <3>2. u \notin Cursors
      BY <3>1, PhaseFacts
    <3>3. Account(u)'
      BY <2>0, <3>1, <3>2 DEF Account, InOrder, Going
    <3> QED
      BY <2>o, <3>1, <3>3
  <2>3. CASE CursorRow(u)
    <3>1. /\ Head(rbuf).kind = "data" /\ pc[u] = "fetching" /\ Head(rbuf) \in Words
          /\ Expects(u, Head(rbuf))
          /\ batch' = Append(batch, Head(rbuf).row)
          /\ UNCHANGED <<pc, failed, moved, outcome, stored, committed>>
      BY <2>3, Delivered DEF CursorRow
    <3>2. Head(rbuf).row = Len(moved[u]) + Len(batch) + 1
      BY <3>1, GoneFacts DEF Expects, Got
    <3>3. \A i \in DOMAIN batch' : batch'[i] = Len(moved[u]) + i
      <4>1. \A i \in DOMAIN batch : batch[i] = Len(moved[u]) + i
        BY <2>0, <3>1 DEF Account
      <4>2. Head(rbuf).row \in 1 .. Rows
        BY <3>1, WordFacts
      <4>3. batch \in Seq(1 .. Rows) /\ Len(moved[u]) \in Nat
        BY <2>0
      <4>4. \A i \in DOMAIN Append(batch, Head(rbuf).row) :
              Append(batch, Head(rbuf).row)[i] = Len(moved[u]) + i
        BY <3>2, <4>1, <4>2, <4>3, BatchAppended
      <4> QED
        BY <3>1, <4>4, Zenon
    <3>4. Account(u)'
      BY <2>0, <3>1, <3>3 DEF Account, InOrder
    <3> QED
      BY <2>o, <3>1, <3>4
  <2>4. CASE CursorYields(u)
    <3>1. /\ pc[u] = "fetching" /\ pc' = [pc EXCEPT ![u] = "yielded"] /\ batch' = <<>>
          /\ moved' = [moved EXCEPT ![u] = moved[u] \o batch]
          /\ UNCHANGED <<failed, outcome, stored, committed>>
      BY <2>4 DEF CursorYields, Move, Deliver
    <3>2. InOrder(moved[u] \o batch)
      BY <2>0, <3>1, InOrderJoined DEF Account
    <3>3. /\ pc'[u] = "yielded" /\ moved'[u] = moved[u] \o batch
          /\ \A v \in Uses : v # u => pc'[v] = pc[v] /\ moved'[v] = moved[v]
      BY <2>0, <3>1
    <3>4. u \notin failed /\ outcome[u] = "none" /\ u \notin committed
      BY <2>0, <3>1, PhaseFacts DEF Account
    <3>5. Account(u)'
      BY <2>0, <3>1, <3>2, <3>3, <3>4 DEF Account
    <3> QED
      BY <2>o, <3>1, <3>3, <3>5
  <2>5. CASE CursorSyncs(u)
    <3>1. /\ pc[u] = "fetching" /\ pc' = [pc EXCEPT ![u] = "syncing"]
          /\ Expects(u, Head(rbuf)) /\ Head(rbuf).kind \in {"complete", "error"}
          /\ IF Head(rbuf).kind = "error" THEN failed' = failed \cup {u} /\ batch' = <<>>
                                          ELSE failed' = failed /\ batch' = batch
          /\ UNCHANGED <<moved, outcome, stored, committed>>
      BY <2>5, Delivered DEF CursorSyncs, Move
    <3>2. pc'[u] = "syncing" /\ \A v \in Uses : v # u => pc'[v] = pc[v]
      BY <2>0, <3>1
    <3>3. u \notin failed /\ outcome[u] = "none" /\ u \notin committed
      BY <2>0, <3>1, PhaseFacts DEF Account
    <3>4. Head(rbuf).kind = "complete" => Got(u) = Rows
      BY <3>1, GoneFacts DEF Expects
    <3>5. Account(u)'
      <4>1. CASE Head(rbuf).kind = "error"
        BY <2>0, <3>1, <3>2, <3>3, <4>1 DEF Account, InOrder
      <4>2. CASE Head(rbuf).kind = "complete"
        <5>1. Got(u)' = Rows /\ UNCHANGED <<failed, batch>>
          BY <3>1, <3>4, <4>2 DEF Got
        <5> QED
          BY <2>0, <3>1, <3>2, <3>3, <5>1 DEF Account, InOrder
      <4> QED
        BY <3>1, <4>1, <4>2
    <3> QED
      BY <2>o, <3>1, <3>2, <3>5
  <2>6. CASE CursorSynced(u)
    <3>1. pc[u] = "syncing" /\ UNCHANGED <<failed, stored, committed>>
      BY <2>6 DEF CursorSynced, Deliver
    <3>2. u \in Cursors /\ u \notin Ins /\ u \notin committed
      BY <3>1, PhaseFacts DEF TypeInv, TypeOK
    <3>3. u \notin failed => Got(u) = Rows
      BY <2>0, <3>1 DEF Account
    <3>4. CASE u \in failed \/ batch = <<>>
      <4>1. /\ pc' = [pc EXCEPT ![u] = "over"] /\ UNCHANGED <<moved, batch>>
            /\ outcome' = [outcome EXCEPT ![u] = IF u \in failed THEN "error" ELSE "done"]
        BY <2>6, <3>4 DEF CursorSynced, Finish
      <4>2. /\ pc'[u] = "over" /\ outcome'[u] = IF u \in failed THEN "error" ELSE "done"
            /\ \A v \in Uses : v # u => pc'[v] = pc[v] /\ outcome'[v] = outcome[v]
        BY <2>0, <4>1
      <4>3. u \notin failed => Len(moved[u]) = Rows
        BY <2>0, <3>3, <3>4 DEF Got
      <4>4. Account(u)'
        BY <2>0, <3>1, <3>2, <4>1, <4>2, <4>3 DEF Account, InOrder
      <4> QED
        BY <2>o, <3>1, <4>1, <4>2, <4>4
    <3>5. CASE ~(u \in failed \/ batch = <<>>)
      <4>1. /\ pc' = [pc EXCEPT ![u] = "last"] /\ batch' = <<>>
            /\ moved' = [moved EXCEPT ![u] = moved[u] \o batch] /\ outcome' = outcome
        BY <2>6, <3>5 DEF CursorSynced, Move
      <4>2. /\ pc'[u] = "last" /\ moved'[u] = moved[u] \o batch
            /\ \A v \in Uses : v # u => pc'[v] = pc[v] /\ moved'[v] = moved[v]
        BY <2>0, <4>1
      <4>3. InOrder(moved[u] \o batch) /\ Len(moved[u] \o batch) = Len(moved[u]) + Len(batch)
        BY <2>0, <3>1, InOrderJoined DEF Account
      <4>4. Len(moved'[u]) = Rows
        BY <3>3, <3>5, <4>2, <4>3 DEF Got
      <4>5. Account(u)'
        BY <2>0, <3>1, <3>2, <3>5, <4>1, <4>2, <4>3, <4>4 DEF Account
      <4> QED
        BY <2>o, <3>1, <4>1, <4>2, <4>5
    <3> QED
      BY <3>4, <3>5
  <2>7. CASE ReaderYields(u)
    <3>1. /\ pc[u] = "reading" /\ pc' = [pc EXCEPT ![u] = "yielded"] /\ batch' = batch
          /\ Head(rbuf).kind = "data" /\ Expects(u, Head(rbuf)) /\ Head(rbuf) \in Words
          /\ moved' = [moved EXCEPT ![u] = Append(moved[u], Head(rbuf).row)]
          /\ UNCHANGED <<failed, outcome, stored, committed>>
      BY <2>7, Delivered DEF ReaderYields, Move
    <3>2. batch = <<>> /\ Len(batch) = 0 /\ u \notin Cursors /\ u \notin committed
      BY <2>0, <3>1, OnlyOne, PhaseFacts DEF Account
    <3>3. Head(rbuf).row = Len(moved[u]) + 1 /\ Head(rbuf).row \in 1 .. Rows
      BY <2>0, <3>1, <3>2, GoneFacts, WordFacts DEF Expects, Got
    <3>4. InOrder(Append(moved[u], Head(rbuf).row))
      BY <2>0, <3>3, InOrderAppended DEF Account
    <3>5. /\ pc'[u] = "yielded" /\ moved'[u] = Append(moved[u], Head(rbuf).row)
          /\ \A v \in Uses : v # u => pc'[v] = pc[v] /\ moved'[v] = moved[v]
      BY <2>0, <3>1
    <3>6. Account(u)'
      BY <2>0, <3>1, <3>2, <3>4, <3>5 DEF Account
    <3> QED
      BY <2>o, <3>1, <3>5, <3>6
  <2>8. CASE WriterOpens(u)
    <3>1. /\ pc[u] = "starting" /\ pc' = [pc EXCEPT ![u] = "open"]
          /\ UNCHANGED <<failed, outcome, stored, committed, batch, moved>>
      BY <2>8 DEF WriterOpens, Move, Deliver
    <3>2. pc'[u] = "open" /\ \A v \in Uses : v # u => pc'[v] = pc[v]
      BY <2>0, <3>1
    <3>3. u \notin Cursors
      BY <3>1, PhaseFacts
    <3>4. Account(u)'
      BY <2>0, <3>1, <3>2, <3>3 DEF Account, InOrder
    <3> QED
      BY <2>o, <3>1, <3>2, <3>4
  <2>9. CASE Settle(u)
    <3>1. /\ pc[u] \in {"closing", "draining", "reading", "starting", "ending", "failing"}
          /\ pc' = [pc EXCEPT ![u] = "over"]
          /\ outcome' = [outcome EXCEPT ![u] = HowItEnded(u)]
          /\ Head(rbuf).kind = "ready" /\ Expects(u, Head(rbuf))
          /\ UNCHANGED <<failed, stored, committed, batch, moved>>
      BY <2>9, Delivered DEF Settle, Finish
    <3>2. /\ pc'[u] = "over" /\ outcome'[u] = HowItEnded(u)
          /\ \A v \in Uses : v # u => pc'[v] = pc[v] /\ outcome'[v] = outcome[v]
      BY <2>0, <3>1
    <3>3. batch = <<>> /\ Len(batch) = 0
      BY <2>0, <3>1, OnlyOne
    <3>4. u \in committed => u \in Ins /\ pc[u] = "ending"
      BY <2>0, <3>1 DEF Account, TypeInv, TypeOK
    <3>5. HowItEnded(u) \in {"failed", "error"} => u \notin committed
      BY <3>1, <3>4, GoneFacts DEF HowItEnded, Expects
    <3>6. HowItEnded(u) = "done" =>
            IF u \in Ins THEN Stored(u) ELSE Len(moved[u]) = Rows
      <4>1. HowItEnded(u) = "done" => pc[u] \in {"reading", "ending"} /\ u \notin failed
        BY <3>1 DEF HowItEnded
      <4> QED
        BY <2>0, <3>1, <3>3, <4>1, PhaseFacts, GoneFacts DEF Expects, Got
    <3>7. Account(u)'
      BY <2>0, <3>1, <3>2, <3>5, <3>6 DEF Account, InOrder, Stored
    <3> QED
      BY <2>o, <3>1, <3>2, <3>7
  <2>10. CASE Reject(u)
    <3>1. /\ pc' = [pc EXCEPT ![u] = "over"] /\ outcome' = [outcome EXCEPT ![u] = "lost"]
          /\ batch' = <<>> /\ UNCHANGED <<failed, stored, committed, moved>>
      BY <2>10 DEF Reject, Finish
    <3>2. /\ pc'[u] = "over" /\ outcome'[u] = "lost"
          /\ \A v \in Uses : v # u => pc'[v] = pc[v] /\ outcome'[v] = outcome[v]
      BY <2>0, <3>1
    <3>3. Account(u)'
      BY <2>0, <3>1, <3>2 DEF Account, InOrder
    <3> QED
      BY <2>o, <3>1, <3>2, <3>3
  <2> QED
    BY <1>3, <2>1, <2>2, <2>3, <2>4, <2>5, <2>6, <2>7, <2>8, <2>9, <2>10 DEF Continue
<1>4. ASSUME NEW u \in Uses, Consume(u) PROVE \A v \in Uses : Account(v)'
  <2>0. /\ Account(u) /\ Going(u) /\ pc[u] \in {"last", "yielded", "open", "ending", "failing"}
        /\ pc \in [Uses -> Phases] /\ moved \in [Uses -> Seq(1 .. Rows)]
        /\ outcome \in [Uses -> Outcomes] /\ moved[u] \in Seq(1 .. Rows)
        /\ UNCHANGED <<batch, failed, stored, committed>>
    BY <1>4 DEF Consume, NextCall, LastNext, Return, BreakReader, WriteChunk, EndOrFail,
       SettleAgain, Bereft, Consumer, Going, TypeInv, TypeOK
  <2>b. batch = <<>>
    BY <2>0, OnlyOne
  <2>o. ASSUME \A v \in Uses : v # u => /\ pc'[v] = pc[v] /\ moved'[v] = moved[v]
                                        /\ outcome'[v] = outcome[v],
               Account(u)'
        PROVE  \A v \in Uses : Account(v)'
    BY <2>0, <2>o, AccountOthers
  <2>1. CASE LastNext(u) \/ BreakReader(u) \/ Bereft(u)
    <3>1. PICK how \in {"done", "left", "lost"} :
            /\ pc' = [pc EXCEPT ![u] = "over"] /\ outcome' = [outcome EXCEPT ![u] = how]
            /\ moved' = moved /\ (how = "done" => pc[u] = "last")
      BY <2>1 DEF LastNext, BreakReader, Bereft, Finish, Consumer
    <3>2. /\ pc'[u] = "over" /\ outcome'[u] = how
          /\ \A v \in Uses : v # u => pc'[v] = pc[v] /\ outcome'[v] = outcome[v]
      BY <2>0, <3>1
    <3>3. how = "done" => u \notin Ins /\ Len(moved[u]) = Rows
      BY <2>0, <3>1, PhaseFacts DEF Account
    <3>4. Account(u)'
      BY <2>0, <3>1, <3>2, <3>3 DEF Account, InOrder
    <3> QED
      BY <2>o, <3>1, <3>2, <3>4
  <2>2. CASE NextCall(u) \/ Return(u) \/ EndOrFail(u)
    <3>1. PICK p \in {"fetching", "reading", "closing", "draining", "ending", "failing"} :
            /\ pc' = [pc EXCEPT ![u] = p] /\ UNCHANGED <<moved, outcome>>
            /\ pc[u] \in {"yielded", "open"}
            /\ p = "failing" => pc[u] = "open"
      BY <2>2 DEF NextCall, Return, EndOrFail, Await, Move, Consumer
    <3>2. pc'[u] = p /\ \A v \in Uses : v # u => pc'[v] = pc[v]
      BY <2>0, <3>1
    <3>3. u \notin committed /\ outcome[u] = "none" /\ (u \in Cursors => u \notin failed)
      BY <2>0, <3>1 DEF Account
    <3>4. DOMAIN batch' = {}
      BY <2>0, <2>b
    <3>5. Account(u)'
      BY <2>0, <2>b, <3>1, <3>2, <3>3, <3>4 DEF Account, InOrder
    <3> QED
      BY <2>o, <3>1, <3>2, <3>5
  <2>3. CASE WriteChunk(u)
    <3> DEFINE i == Len(moved[u]) + 1
    <3>1. /\ pc[u] = "open" /\ moved' = [moved EXCEPT ![u] = Append(moved[u], i)]
          /\ UNCHANGED <<pc, outcome>> /\ i \in 1 .. Rows
      BY <2>0, <2>3, StreamsAssumption DEF WriteChunk, Consumer
    <3>2. InOrder(Append(moved[u], i))
      BY <2>0, <3>1, InOrderAppended DEF Account
    <3> HIDE DEF i
    <3>3. moved'[u] = Append(moved[u], i) /\ \A v \in Uses : v # u => moved'[v] = moved[v]
      BY <2>0, <3>1
    <3>4. Account(u)'
      BY <2>0, <3>1, <3>2, <3>3 DEF Account
    <3> QED
      BY <2>o, <3>1, <3>3, <3>4
  <2>4. CASE SettleAgain(u)
    BY <1>0, <2>0, <2>4 DEF SettleAgain
  <2> QED
    BY <1>4, <2>1, <2>2, <2>3, <2>4 DEF Consume
<1>5. CASE Receive \/ Close
  BY <1>0, <1>5 DEF Receive, Close
<1>6. CASE \/ ServerFetches \/ ServerSyncs \/ ServerCopies \/ ServerStreams
           \/ ServerFails \/ ServerStops
  BY <1>0, <1>6 DEF ServerFetches, ServerSyncs, ServerCopies, ServerStreams, ServerFails,
     ServerStops
<1>7. CASE ServerTakes
  <2>1. toServer # <<>> /\ server.mode \in {"idle", "copyIn"}
        /\ UNCHANGED <<pc, batch, moved, failed, outcome>>
        /\ toServer' = Tail(toServer)
    BY <1>7 DEF ServerTakes, Incoming
  <2>2. CASE server.mode = "idle"
    BY <1>0, <1>7, <2>1, <2>2 DEF ServerTakes
  <2>3. CASE server.mode = "copyIn"
    <3>1. ~Broken
      BY <2>1 DEF TypeInv
    <3>2. PICK u \in Uses : /\ u = server.use /\ u \in Ins /\ Going(u) /\ Feeding(u)
                           /\ Account(u)
      BY <2>3, <3>1, Fed
    <3> DEFINE f == Head(toServer)
    <3>3. /\ stored \in [Uses -> Seq(Frames)] /\ stored[u] \in Seq(Frames)
          /\ Head(toServer) \in Frames
      BY <2>1, <3>2, Dequeued, ElementOfSeq DEF TypeInv, TypeOK
    <3>4. CASE f.kind = "chunk"
      <4>1. stored' = [stored EXCEPT ![u] = Append(stored[u], f)] /\ committed' = committed
        BY <1>7, <2>3, <3>2, <3>4 DEF ServerTakes
      <4>2. f.use = u /\ f.row = Len(stored[u]) + 1 /\ Len(stored[u]) + 1 <= Len(moved[u])
        BY <2>1, <3>2, <3>4, FedNext DEF Frame
      <4> HIDE DEF f
      <4>3. /\ stored'[u] = Append(stored[u], f)
            /\ \A v \in Uses : v # u => stored'[v] = stored[v]
        BY <3>2, <3>3, <4>1
      <4>4. \A i \in DOMAIN stored'[u] : stored'[u][i].use = u /\ stored'[u][i].row = i
        <5>1. /\ DOMAIN stored'[u] = 1 .. Len(stored[u]) + 1 /\ Len(stored[u]) \in Nat
              /\ DOMAIN stored[u] = 1 .. Len(stored[u])
              /\ \A i \in 1 .. Len(stored[u]) : stored'[u][i] = stored[u][i]
              /\ stored'[u][Len(stored[u]) + 1] = f
          BY <3>3, <4>3, AppendProperties, LenProperties DEF f
        <5> QED
          BY <3>2, <4>2, <5>1, SMTT(30) DEF Account
      <4>5. pc[u] # "starting"
        <5>1. Len(stored[u]) \in Nat
          BY <3>3
        <5>2. moved[u] # <<>>
          BY <4>2, <5>1
        <5> QED
          BY <3>2, <5>2 DEF Account
      <4>6. u \notin committed /\ outcome[u] = "none" /\ pc[u] \notin {"new", "over"}
        BY <3>2 DEF Feeding, Account, Going
      <4>7. Account(u)'
        BY <2>1, <3>2, <4>1, <4>4, <4>5, <4>6 DEF Account, InOrder, Got
      <4> QED
        BY <2>1, <3>2, <4>1, <4>3, <4>7, AccountOthers
    <3>5. CASE f.kind # "chunk"
      <4>1. /\ stored' = stored
            /\ committed' = IF f.kind = "done" THEN committed \cup {u} ELSE committed
        BY <1>7, <2>3, <3>2, <3>5 DEF ServerTakes
      <4>2. f.kind = "done" => pc[u] = "ending"
        BY <2>1, <3>2, <3>5, FedNext
      <4> HIDE DEF f
      <4>3. outcome[u] = "none"
        BY <3>2 DEF Account, Going
      <4>4. Account(u)'
        BY <2>1, <3>2, <4>1, <4>2, <4>3 DEF Account, InOrder, Got
      <4>5. \A v \in Uses : v # u => (v \in committed' <=> v \in committed)
        BY <4>1
      <4> QED
        BY <2>1, <3>2, <4>1, <4>4, <4>5, AccountOthers
    <3> QED
      BY <3>4, <3>5
  <2> QED
    BY <2>1, <2>2, <2>3
<1>8. CASE UNCHANGED vars
  BY <1>0, <1>8 DEF vars
<1> QED
  BY <1>1, <1>2, <1>3, <1>4, <1>5, <1>6, <1>7, <1>8 DEF Next, Socket, Server

-----------------------------------------------------------------------------
(* The use, the messages and the server stay in step *)

\* Of linked messages, only the last is the parting word of a server, and only
\* the first accepts the chunks of a writer.
LEMMA Chain ==
  ASSUME NEW s \in Seq(Words), NEW u, Linked(s, u), s # <<>>
  PROVE  /\ s[1] = Gone => s = <<Gone>>
         /\ Len(s) > 1 => s[Len(s)].kind # "copyIn"
<1>1. Len(s) \in Nat /\ Len(s) >= 1 /\ s = [i \in 1 .. Len(s) |-> s[i]]
  BY EmptySeq
<1>2. ASSUME s[1] = Gone PROVE s = <<Gone>>
  <2>1. Len(s) = 1
    <3> SUFFICES ASSUME Len(s) # 1 PROVE FALSE
      OBVIOUS
    <3>1. 1 \in 1 .. Len(s) - 1
      BY <1>1
    <3>2. Follows(s[1], s[1 + 1])
      BY <3>1 DEF Linked
    <3> QED
      BY <1>2, <3>2, GoneFacts DEF Follows
  <2> QED
    BY <1>1, <1>2, <2>1
<1>3. ASSUME Len(s) > 1 PROVE s[Len(s)].kind # "copyIn"
  <2>1. Len(s) - 1 \in 1 .. Len(s) - 1 /\ Len(s) - 1 + 1 = Len(s) /\ Len(s) \in 1 .. Len(s)
    BY <1>1, <1>3
  <2>2. Follows(s[Len(s) - 1], s[Len(s) - 1 + 1])
    BY <2>1 DEF Linked
  <2>3. Follows(s[Len(s) - 1], s[Len(s)]) /\ s[Len(s)] \in Words
    BY <2>1, <2>2, ElementOfSeq
  <2> QED
    BY <2>3, GoneFacts, WordFacts DEF Follows
<1> QED
  BY <1>2, <1>3

\* u is handed x: z is the last message on the way to it, and t all but x.
Handed(u, kinds, x, z, t) ==
  /\ x = Head(rbuf) /\ x.kind \in kinds /\ x.use \in {u, None} /\ Expects(u, x)
  /\ t = Inflow' /\ Linked(t, u) /\ Len(t) \in Nat /\ Len(Inflow) = Len(t) + 1
  /\ t = <<>> => z = x
  /\ t # <<>> => /\ t[1] \in Words /\ t[1].use \in {u, None} /\ Follows(x, t[1])
                 /\ t[Len(t)] = z /\ z.kind # "copyIn"
                 /\ t[1] = Gone => t = <<Gone>>
  /\ server.mode # "down" =>
       /\ x.use = u /\ Ends(u, z)
       /\ \A i \in 1 .. Len(t) : t[i].use # None
       /\ t # <<>> => t[1].use = u

LEMMA Consumed ==
  ASSUME TypeInv, Control, Live, NEW u \in Uses, NEW phases, NEW kinds,
         Deliver(u, phases, kinds), toClient' = toClient
  PROVE  \E x \in Words, z \in Words, t \in Seq(Words) : Handed(u, kinds, x, z, t)
<1> DEFINE x == Head(rbuf)
           s == Inflow
           z == Inflow[Len(Inflow)]
           t == Tail(Inflow)
<1>1. /\ Flow(u) /\ rbuf # <<>> /\ rbuf' = Tail(rbuf) /\ x.kind \in kinds /\ x \in Words
      /\ s # <<>> /\ s[1] = x /\ Expects(u, x) /\ s \in Seq(Words)
  BY Delivered, FlowOpen
<1>2. Inflow' = t
  BY <1>1, FlowTaken
<1>3. Linked(s, u)
  BY <1>1 DEF Flow
<1>4. server.mode # "down" => Ends(u, z) /\ \A i \in 1 .. Len(s) : s[i].use # None
  BY <1>1 DEF Flow
<1> HIDE DEF x
<1>5. /\ Len(s) \in Nat /\ Len(s) >= 1 /\ z \in Words /\ 1 \in 1 .. Len(s)
  <2>1. Len(s) \in Nat /\ Len(s) >= 1 /\ Len(s) \in 1 .. Len(s)
    BY <1>1, EmptySeq
  <2> QED
    BY <1>1, <2>1, ElementOfSeq
<1>6. x.use \in {u, None} /\ (server.mode # "down" => x.use = u)
  BY <1>1, <1>3, <1>4, <1>5 DEF Linked
<1>7. /\ Linked(t, u) /\ t \in Seq(Words) /\ Len(t) = Len(s) - 1
      /\ t # <<>> => t[1] \in Words /\ Follows(s[1], t[1]) /\ t[Len(t)] = s[Len(s)]
      /\ t = <<>> => Len(s) = 1
      /\ (\A i \in 1 .. Len(s) : s[i].use # None) => \A i \in 1 .. Len(t) : t[i].use # None
  BY <1>1, <1>3, LinkedTail
<1>8. Len(s) > 1 => z.kind # "copyIn"
  BY <1>1, <1>3, Chain
<1> HIDE DEF s, z, t
<1>9. ASSUME t # <<>>
      PROVE  /\ t[1].use \in {u, None} /\ Len(s) > 1 /\ (t[1] = Gone => t = <<Gone>>)
             /\ server.mode # "down" => t[1].use = u
  <2>1. Len(t) >= 1 /\ 1 \in 1 .. Len(t)
    BY <1>5, <1>7, <1>9, EmptySeq
  <2>2. t[1].use \in {u, None} /\ (server.mode # "down" => t[1].use = u)
    BY <1>4, <1>7, <2>1 DEF Linked
  <2>3. t[1] = Gone => t = <<Gone>>
    BY <1>7, <1>9, Chain
  <2> QED
    BY <1>5, <1>7, <2>1, <2>2, <2>3
<1>10. t = <<>> => z = x
  BY <1>1, <1>7 DEF s, z
<1>11. t # <<>> => t[Len(t)] = z
  BY <1>7 DEF s, z
<1>12. /\ x = Head(rbuf) /\ t = Inflow' /\ Len(Inflow) = Len(t) + 1 /\ Len(t) \in Nat
  BY <1>2, <1>5, <1>7 DEF x, s
<1>13. t # <<>> => Follows(x, t[1]) /\ z.kind # "copyIn"
  BY <1>1, <1>7, <1>8, <1>9
<1>14. server.mode # "down" => \A i \in 1 .. Len(t) : t[i].use # None
  BY <1>4, <1>7, Zenon
<1>15. Handed(u, kinds, x, z, t)
  <2>1. t # <<>> => /\ t[1] \in Words /\ t[1].use \in {u, None} /\ Follows(x, t[1])
                    /\ t[Len(t)] = z /\ z.kind # "copyIn"
                    /\ t[1] = Gone => t = <<Gone>>
    BY <1>7, <1>9, <1>11, <1>13, Zenon
  <2>2. server.mode # "down" =>
            /\ x.use = u /\ Ends(u, z)
            /\ \A i \in 1 .. Len(t) : t[i].use # None
            /\ t # <<>> => t[1].use = u
    BY <1>4, <1>6, <1>9, <1>14, Zenon
  <2> QED
    BY <1>1, <1>6, <1>7, <1>10, <1>12, <2>1, <2>2, Zenon DEF Handed
<1>16. x \in Words /\ z \in Words /\ t \in Seq(Words)
  BY <1>1, <1>5, <1>7
<1> QED
  BY <1>15, <1>16, Zenon

\* The state of u after a step, from what is then on its way.
LEMMA FlowNow ==
  ASSUME NEW u, NEW t, t = Inflow', Linked(t, u),
         t # <<>> => Expects(u, t[1])',
         server'.mode # "down" =>
           /\ \A i \in 1 .. Len(t) : t[i].use # None
           /\ IF t = <<>> THEN Rest(u)' ELSE Ends(u, t[Len(t)])'
  PROVE  Flow(u)'
BY DEF Flow

\* It is enough to look at one use, or at none.
LEMMA LiveOf ==
  ASSUME Control', NEW u \in Uses, Going(u)', Flow(u)'
  PROVE  Live'
BY DEF Live, Control

LEMMA LiveNone ==
  ASSUME \A v \in Uses : ~Going(v)', Calm'
  PROVE  Live'
BY DEF Live

LEMMA LiveBroken ==
  ASSUME state' \in {"errored", "closed"}
  PROVE  Live'
BY DEF Live, Broken

\* Taking a message keeps u in step, ...
LEMMA FlowSkips ==
  ASSUME TypeInv, Control, Live, NEW u \in Uses, Account(u), Skip(u) \/ NoteError(u)
  PROVE  Flow(u)'
<1> USE DEF useVars, serverVars
<1> DEFINE phases == IF Skip(u)
                     THEN {"syncing", "closing", "draining", "reading", "starting", "ending",
                           "failing"}
                     ELSE {"reading", "starting", "ending"}
           kinds == IF Skip(u) THEN {"data", "suspended", "complete", "error", "copyOut"}
                               ELSE {"error"}
<1>1. /\ Deliver(u, phases, kinds)
      /\ UNCHANGED <<toClient, toServer, server, pc, batch, moved, stored, committed>>
      /\ failed' = IF Skip(u) THEN failed ELSE failed \cup {u}
      /\ Skip(u) =>
           \/ pc[u] \in {"syncing", "closing"} /\ Head(rbuf).kind # "copyOut"
           \/ pc[u] = "draining"
           \/ pc[u] = "reading" /\ Head(rbuf).kind \in {"copyOut", "complete"}
           \/ pc[u] \in {"starting", "ending"} /\ Head(rbuf).kind = "complete"
           \/ pc[u] = "failing" /\ Head(rbuf).kind \in {"complete", "error"}
  BY DEF Skip, NoteError, Deliver
<1>2. PICK x \in Words, z \in Words, t \in Seq(Words) : Handed(u, kinds, x, z, t)
  BY <1>1, Consumed
<1>3. /\ x = Head(rbuf) /\ x.kind \in kinds /\ x.use \in {u, None} /\ Expects(u, x)
      /\ t = Inflow' /\ Linked(t, u)
      /\ t = <<>> => z = x
      /\ t # <<>> => /\ t[1] \in Words /\ t[1].use \in {u, None} /\ Follows(x, t[1])
                     /\ t[Len(t)] = z /\ z.kind # "copyIn"
      /\ server.mode # "down" =>
           /\ x.use = u /\ Ends(u, z)
           /\ \A i \in 1 .. Len(t) : t[i].use # None
  BY <1>2 DEF Handed
<1>4. pc[u] \in phases /\ (pc[u] \in Waiting)
  BY <1>1 DEF Deliver, Waiting
<1>5. /\ pc[u] \in {"syncing", "closing"} => u \in Cursors
      /\ pc[u] \in {"draining", "reading"} => u \in Outs
      /\ pc[u] \in {"starting", "ending", "failing"} => u \in Ins
      /\ u \in Cursors => u \notin Outs /\ u \notin Ins
      /\ u \in Outs => u \notin Ins
      /\ u # None
  BY PhaseFacts
<1>6. pc[u] \notin {"fetching", "syncing"} => batch = <<>>
  BY <1>1, Delivered, OnlyOne
<1>7. /\ x.row \in 0 .. Rows /\ (x.kind = "data" <=> x.row # 0)
      /\ (x.use = None <=> x = Gone)
      /\ Gone.use = None /\ Gone.kind = "error"
  BY WordFacts, GoneFacts
<1> HIDE DEF phases, kinds
<1>8. ASSUME NEW y \in Words, Follows(x, y), y.use \in {u, None} PROVE Expects(u, y)'
  <2>1. Follows(x, y) /\ y.use \in {u, None} /\ (y.use = None <=> y = Gone)
    BY <1>8, WordFacts
  <2>2. \/ pc[u] \in {"syncing", "closing"} /\ x.kind \in {"data", "suspended", "complete", "error"}
        \/ pc[u] \in {"draining", "starting", "failing"}
        \/ pc[u] = "reading" /\ x.kind \in {"copyOut", "complete"} /\ failed' = failed
        \/ pc[u] = "ending" /\ x.kind = "complete" /\ failed' = failed
        \/ pc[u] \in {"reading", "ending"} /\ x.kind = "error" /\ u \in failed'
    BY <1>1, <1>3, <1>4 DEF phases, kinds
  <2>3. Expects(u, x) /\ pc'[u] = pc[u] /\ (u \in committed' <=> u \in committed)
    BY <1>1, <1>3
  <2>4. CASE /\ pc[u] \in {"syncing", "closing"}
             /\ x.kind \in {"data", "suspended", "complete", "error"}
    BY <1>7, <2>1, <2>3, <2>4 DEF Expects, Follows
  <2>5. CASE pc[u] \in {"draining", "starting", "failing"}
    BY <2>3, <2>5 DEF Expects
  <2>6. CASE pc[u] = "reading" /\ x.kind \in {"copyOut", "complete"} /\ failed' = failed
    <3>1. Got(u)' = Got(u) /\ Got(u) \in Nat
      BY <1>1 DEF Got, TypeInv, TypeOK
    <3>2. x.kind = "copyOut" => Got(u) = 0 /\ x.row = 0
      BY <1>7, <2>3, <2>6 DEF Expects
    <3>3. x.kind = "complete" => Got(u) = Rows
      BY <1>7, <2>3, <2>6 DEF Expects
    <3>4. \/ y.use = None
          \/ x.kind = "copyOut" /\ y.kind = "data" /\ y.row = x.row + 1
          \/ x.kind = "copyOut" /\ y.kind = "complete" /\ x.row = Rows
          \/ x.kind = "copyOut" /\ y.kind = "error"
          \/ x.kind = "complete" /\ y.kind = "ready"
      BY <1>3, <1>5, <2>1, <2>6 DEF Follows
    <3> QED
      BY <1>5, <2>1, <2>3, <2>6, <3>1, <3>2, <3>3, <3>4 DEF Expects
  <2>7. CASE pc[u] = "ending" /\ x.kind = "complete" /\ failed' = failed
    BY <1>1, <1>7, <2>1, <2>3, <2>7 DEF Expects, Follows, Stored
  <2>8. CASE pc[u] \in {"reading", "ending"} /\ x.kind = "error" /\ u \in failed'
    BY <1>4, <1>5, <1>7, <2>1, <2>3, <2>8 DEF Expects, Follows
  <2> QED
    BY <2>2, <2>4, <2>5, <2>6, <2>7, <2>8
<1>9. t # <<>> => Expects(u, t[1])'
  BY <1>3, <1>8
<1>10. ASSUME server.mode # "down"
       PROVE  IF t = <<>> THEN Rest(u)' ELSE Ends(u, t[Len(t)])'
  <2>1. CASE t = <<>>
    <3>1. Ends(u, x) /\ x.use = u
      BY <1>3, <1>10, <2>1
    <3> QED
      BY <1>1, <1>3, <1>4, <1>5, <1>6, <1>7, <2>1, <3>1
         DEF Ends, Rest, Feeds, Got, Idling, Expects, phases, kinds
  <2>2. CASE t # <<>>
    <3>1. Ends(u, z) /\ z.kind # "copyIn" /\ t[Len(t)] = z
      BY <1>3, <1>10, <2>2
    <3>2. Ends(u, z)'
      BY <1>1, <1>4, <1>5, <3>1 DEF Ends, Feeds, Idling, phases
    <3> QED
      BY <2>2, <3>1, <3>2
  <2> QED
    BY <2>1, <2>2
<1> QED
  BY <1>1, <1>3, <1>9, <1>10, FlowNow

\* A frame behind stale ones.
LEMMA AsksSent ==
  ASSUME TypeInv, NEW k, NEW u \in Uses, Frame(k, u) \in Orders,
         Idling, server.mode # "down", Send(Frame(k, u))
  PROVE  Asks(k, u)' /\ (k \in {"chunk", "done", "fail"} => Idling')
<1>1. /\ toServer' = Append(toServer, Frame(k, u)) /\ toServer \in Seq(Orders)
  BY DEF Send, TypeInv
<1>2. /\ Len(toServer) \in Nat /\ Len(toServer') = Len(toServer) + 1 /\ toServer' \in Seq(Orders)
      /\ \A i \in 1 .. Len(toServer) : toServer'[i] = toServer[i]
      /\ toServer'[Len(toServer) + 1] = Frame(k, u)
  BY <1>1, AppendProperties
<1>3. toServer' # <<>>
  BY <1>2, EmptySeq
<1>4. \A i \in 1 .. Len(toServer) : Stale(toServer[i])'
  BY <1>2 DEF Idling, Stale
<1>5. Frame(k, u).kind = k
  BY DEF Frame
<1>6. ASSUME k \in {"chunk", "done", "fail"} PROVE Idling'
  BY <1>2, <1>4, <1>5, <1>6 DEF Idling, Stale
<1>7. Asks(k, u)'
  BY <1>2, <1>3, <1>4 DEF Asks
<1> QED
  BY <1>6, <1>7

LEMMA FlowRow ==
  ASSUME TypeInv, Control, Live, NEW u \in Uses, CursorRow(u)
  PROVE  Flow(u)'
<1> USE DEF serverVars
<1>1. /\ Deliver(u, {"fetching"}, {"data"}) /\ pc[u] = "fetching"
      /\ batch' = Append(batch, Head(rbuf).row)
      /\ UNCHANGED <<toClient, toServer, server, pc, moved, failed, stored, committed>>
  BY DEF CursorRow, Deliver
<1>2. PICK x \in Words, z \in Words, t \in Seq(Words) : Handed(u, {"data"}, x, z, t)
  BY <1>1, Consumed
<1>3. /\ x = Head(rbuf) /\ x.kind = "data" /\ Expects(u, x)
      /\ t = Inflow' /\ Linked(t, u) /\ Len(t) \in Nat /\ Len(Inflow) = Len(t) + 1
      /\ t = <<>> => z = x
      /\ t # <<>> => /\ t[1] \in Words /\ t[1].use \in {u, None} /\ Follows(x, t[1])
                     /\ t[Len(t)] = z
      /\ server.mode # "down" => Ends(u, z) /\ \A i \in 1 .. Len(t) : t[i].use # None
  BY <1>2 DEF Handed
<1>4. u \in Cursors /\ u \notin Outs /\ u \notin Ins
  BY <1>1, PhaseFacts
<1>5. Got(u)' = Got(u) + 1 /\ Got(u) \in Nat
  <2>1. x.row \in 1 .. Rows
    BY <1>3, WordFacts
  <2>2. batch \in Seq(1 .. Rows) /\ Len(batch) \in Nat /\ Len(moved[u]) \in Nat
    BY DEF TypeInv, TypeOK
  <2>3. Len(batch') = Len(batch) + 1
    BY <1>1, <1>3, <2>1, <2>2, AppendProperties
  <2>4. Len(moved'[u]) = Len(moved[u])
    BY <1>1
  <2>5. Len(moved[u]) \in Nat /\ Len(batch) \in Nat
    BY <2>2
  <2>6. Len(moved[u]) + Len(batch') = Len(moved[u]) + Len(batch) + 1
    <3>1. \A k, n \in Nat : k + (n + 1) = k + n + 1
      OBVIOUS
    <3>2. Len(moved[u]) + (Len(batch) + 1) = Len(moved[u]) + Len(batch) + 1
      BY <2>5, <3>1, Zenon
    <3> QED
      BY <2>3, <3>2, Zenon
  <2>7. Len(moved[u]) + Len(batch) \in Nat
    BY <2>2
  <2> QED
    BY <2>4, <2>6, <2>7, Zenon DEF Got
<1>6. x.row = Got(u) + 1
  BY <1>1, <1>3, GoneFacts DEF Expects
<1>7. ASSUME NEW y \in Words, Follows(x, y) PROVE Expects(u, y)'
  <2>1. y.use = None <=> y = Gone
    BY WordFacts
  <2> QED
    BY <1>1, <1>3, <1>5, <1>6, <1>7, <2>1 DEF Expects, Follows
<1>8. t # <<>> => Expects(u, t[1])'
  BY <1>3, <1>7
<1>9. ASSUME server.mode # "down"
      PROVE  IF t = <<>> THEN Rest(u)' ELSE Ends(u, t[Len(t)])'
  <2>1. Ends(u, z) /\ Len(Inflow') = Len(Inflow) - 1 /\ Len(Inflow) \in Nat
    BY <1>3, <1>9
  <2>2. z.kind # "data"
    BY <1>4, <2>1 DEF Ends
  <2>3. t # <<>> /\ t[Len(t)] = z
    BY <1>3, <2>2
  <2>4. /\ Idling' <=> Idling
        /\ server' = server /\ pc' = pc
        /\ Got(u)' + Len(Inflow') - 1 = Got(u) + Len(Inflow) - 1
    BY <1>1, <1>5, <2>1 DEF Idling
  <2>5. Ends(u, z)'
    BY <1>1, <1>4, <2>1, <2>4 DEF Ends
  <2> QED
    BY <2>3, <2>5
<1> QED
  BY <1>1, <1>3, <1>8, <1>9, FlowNow

\* ... and so does handing it on, or asking the server to synchronise.
LEMMA FlowYields ==
  ASSUME TypeInv, Control, Live, NEW u \in Uses, CursorYields(u)
  PROVE  Flow(u)'
<1> USE DEF serverVars
<1>1. /\ Deliver(u, {"fetching"}, {"suspended"}) /\ pc[u] = "fetching"
      /\ pc' = [pc EXCEPT ![u] = "yielded"]
      /\ moved' = [moved EXCEPT ![u] = moved[u] \o batch] /\ batch' = <<>>
      /\ UNCHANGED <<toClient, toServer, server>>
  BY DEF CursorYields, Deliver, Move
<1>2. PICK x \in Words, z \in Words, t \in Seq(Words) : Handed(u, {"suspended"}, x, z, t)
  BY <1>1, Consumed
<1>3. /\ x.kind = "suspended"
      /\ t = Inflow' /\ Linked(t, u) /\ Len(t) \in Nat /\ Len(Inflow) = Len(t) + 1
      /\ t = <<>> => z = x
      /\ t # <<>> => /\ t[1] \in Words /\ t[1].use \in {u, None} /\ Follows(x, t[1])
                     /\ t[Len(t)] = z
      /\ server.mode # "down" => Ends(u, z) /\ \A i \in 1 .. Len(t) : t[i].use # None
      /\ server.mode # "down" => (t # <<>> => t[1].use = u)
  BY <1>2 DEF Handed
<1>4. u \in Cursors /\ u \notin Outs /\ u \notin Ins /\ u # None
  BY <1>1, PhaseFacts
<1>5. t # <<>> => t[1].use = None /\ t[1] = Gone
  BY <1>3, WordFacts DEF Follows
<1>6. pc'[u] = "yielded" /\ Got(u)' = Got(u)
  <2>1. /\ pc \in [Uses -> Phases] /\ moved \in [Uses -> Seq(1 .. Rows)]
        /\ moved[u] \in Seq(1 .. Rows) /\ batch \in Seq(1 .. Rows)
    BY DEF TypeInv, TypeOK
  <2>2. Len(moved[u] \o batch) = Len(moved[u]) + Len(batch) /\ Len(batch') = 0
    BY <1>1, <2>1, ConcatProperties
  <2>3. moved'[u] = moved[u] \o batch /\ pc'[u] = "yielded"
    BY <1>1, <2>1
  <2>4. Len(moved[u]) \in Nat /\ Len(batch) \in Nat
    BY <2>1
  <2> HIDE DEF TypeInv
  <2> QED
    BY <2>2, <2>3, <2>4 DEF Got
<1>7. ASSUME server.mode # "down" PROVE t = <<>> /\ Rest(u)'
  <2>1. t = <<>> /\ Ends(u, x) /\ Len(Inflow) = 1
    BY <1>3, <1>4, <1>5, <1>7
  <2>2. server.mode = "portal" /\ server.pos = Got(u) /\ Idling
    <3>1. Got(u) \in Nat
      BY DEF Got, TypeInv, TypeOK
    <3>2. server.mode = "portal" /\ server.pos = Got(u) + Len(Inflow) - 1 /\ Idling
      BY <1>3, <1>4, <2>1 DEF Ends
    <3> QED
      BY <2>1, <3>1, <3>2
  <2> QED
    BY <1>1, <1>4, <1>6, <2>1, <2>2 DEF Rest, Idling
<1>8. t # <<>> => Expects(u, t[1])'
  BY <1>5 DEF Expects
<1> QED
  BY <1>1, <1>3, <1>7, <1>8, FlowNow

LEMMA FlowSyncs ==
  ASSUME TypeInv, Control, Live, NEW u \in Uses, CursorSyncs(u)
  PROVE  Flow(u)'
<1> USE DEF serverVars
<1>1. /\ Deliver(u, {"fetching"}, {"complete", "error"}) /\ pc[u] = "fetching"
      /\ pc' = [pc EXCEPT ![u] = "syncing"]
      /\ Send(Frame("sync", u))
      /\ UNCHANGED <<toClient, server>>
  BY DEF CursorSyncs, Deliver, Move
<1>2. PICK x \in Words, z \in Words, t \in Seq(Words) :
        Handed(u, {"complete", "error"}, x, z, t)
  BY <1>1, Consumed
<1>3. /\ x.kind \in {"complete", "error"} /\ x.use \in {u, None}
      /\ t = Inflow' /\ Linked(t, u)
      /\ t = <<>> => z = x
      /\ t # <<>> => t[1] \in Words /\ Follows(x, t[1])
      /\ server.mode # "down" => Ends(u, z) /\ \A i \in 1 .. Len(t) : t[i].use # None
      /\ server.mode # "down" => x.use = u /\ (t # <<>> => t[1].use = u)
  BY <1>2 DEF Handed
<1>4. u \in Cursors /\ u \notin Outs /\ u \notin Ins /\ u # None
  BY <1>1, PhaseFacts
<1>5. t # <<>> => t[1].use = None /\ t[1] = Gone
  BY <1>3, <1>4, WordFacts DEF Follows
<1>6. pc'[u] = "syncing"
  BY <1>1 DEF TypeInv, TypeOK
<1>7. ASSUME server.mode # "down" PROVE t = <<>> /\ Rest(u)'
  <2>1. t = <<>> /\ Ends(u, x)
    BY <1>3, <1>4, <1>5, <1>7
  <2>2. server.mode \in {"portal", "skip"} /\ Idling
    BY <1>3, <1>4, <2>1 DEF Ends
  <2>3. Asks("sync", u)'
    BY <1>1, <1>7, <2>2, AsksSent, FrameFacts
  <2> QED
    BY <1>1, <1>6, <2>1, <2>2, <2>3 DEF Rest
<1>8. t # <<>> => Expects(u, t[1])'
  BY <1>5 DEF Expects
<1> QED
  BY <1>1, <1>3, <1>7, <1>8, FlowNow

LEMMA FlowReads ==
  ASSUME TypeInv, Control, Live, NEW u \in Uses, Account(u), ReaderYields(u)
  PROVE  Flow(u)'
<1> USE DEF serverVars
<1>1. /\ Deliver(u, {"reading"}, {"data"}) /\ pc[u] = "reading"
      /\ pc' = [pc EXCEPT ![u] = "yielded"]
      /\ moved' = [moved EXCEPT ![u] = Append(moved[u], Head(rbuf).row)]
      /\ UNCHANGED <<toClient, toServer, server, batch, failed, stored, committed>>
  BY DEF ReaderYields, Deliver, Move
<1>2. PICK x \in Words, z \in Words, t \in Seq(Words) : Handed(u, {"data"}, x, z, t)
  BY <1>1, Consumed
<1>3. /\ x = Head(rbuf) /\ x.kind = "data" /\ Expects(u, x)
      /\ t = Inflow' /\ Linked(t, u)
      /\ t = <<>> => z = x
      /\ t # <<>> => /\ t[1] \in Words /\ t[1].use \in {u, None} /\ Follows(x, t[1])
                     /\ t[Len(t)] = z
      /\ server.mode # "down" => Ends(u, z) /\ \A i \in 1 .. Len(t) : t[i].use # None
  BY <1>2 DEF Handed
<1>4. u \in Outs /\ u \notin Cursors /\ u \notin Ins /\ u # None
  BY <1>1, PhaseFacts
<1>5. pc'[u] = "yielded" /\ Got(u)' = Got(u) + 1 /\ Got(u) \in Nat
  <2>1. x.row \in 1 .. Rows
    BY <1>3, WordFacts
  <2>2. /\ pc \in [Uses -> Phases] /\ moved \in [Uses -> Seq(1 .. Rows)]
        /\ moved[u] \in Seq(1 .. Rows) /\ batch \in Seq(1 .. Rows) /\ Len(batch) \in Nat
        /\ Len(moved[u]) \in Nat
    BY DEF TypeInv, TypeOK
  <2>3. Len(Append(moved[u], x.row)) = Len(moved[u]) + 1
    BY <2>1, <2>2, AppendProperties
  <2>4. moved'[u] = Append(moved[u], x.row) /\ pc'[u] = "yielded" /\ batch' = batch
    BY <1>1, <1>3, <2>2
  <2> HIDE DEF TypeInv
  <2> QED
    BY <2>2, <2>3, <2>4 DEF Got
<1>6. x.row = Got(u) + 1
  BY <1>1, <1>3, GoneFacts DEF Expects
<1>7. ASSUME NEW y \in Words, Follows(x, y), y.use \in {u, None} PROVE Expects(u, y)'
  <2>1. y.use = None <=> y = Gone
    BY WordFacts
  <2> QED
    BY <1>3, <1>4, <1>5, <1>6, <1>7, <2>1 DEF Expects, Follows
<1>8. t # <<>> => Expects(u, t[1])'
  BY <1>3, <1>7
<1>9. ASSUME server.mode # "down"
      PROVE  IF t = <<>> THEN Rest(u)' ELSE Ends(u, t[Len(t)])'
  <2>1. Ends(u, z)
    BY <1>3, <1>9
  <2>2. Idling' <=> Idling
    BY <1>1 DEF Idling
  <2>3. Ends(u, z)'
    BY <1>1, <1>4, <2>1, <2>2 DEF Ends, Feeds
  <2>4. t = <<>> => Rest(u)'
    BY <1>1, <1>3, <1>4, <1>5, <1>6, <2>1, <2>2 DEF Ends, Rest, Feeds
  <2> QED
    BY <1>3, <2>3, <2>4
<1> QED
  BY <1>1, <1>3, <1>8, <1>9, FlowNow

LEMMA FlowOpens ==
  ASSUME TypeInv, Control, Live, NEW u \in Uses, WriterOpens(u)
  PROVE  Flow(u)'
<1> USE DEF serverVars
<1>1. /\ Deliver(u, {"starting"}, {"copyIn"}) /\ pc[u] = "starting"
      /\ pc' = [pc EXCEPT ![u] = "open"]
      /\ UNCHANGED <<toClient, toServer, server, batch, moved, failed, stored, committed>>
  BY DEF WriterOpens, Deliver, Move
<1>2. PICK x \in Words, z \in Words, t \in Seq(Words) : Handed(u, {"copyIn"}, x, z, t)
  BY <1>1, Consumed
<1>3. /\ x.kind = "copyIn"
      /\ t = Inflow' /\ Linked(t, u)
      /\ t = <<>> => z = x
      /\ t # <<>> => /\ t[1] \in Words /\ Follows(x, t[1])
                     /\ t[Len(t)] = z /\ z.kind # "copyIn"
      /\ server.mode # "down" => Ends(u, z) /\ \A i \in 1 .. Len(t) : t[i].use # None
  BY <1>2 DEF Handed
<1>4. u \in Ins /\ u \notin Cursors /\ u \notin Outs
  BY <1>1, PhaseFacts
<1>5. pc'[u] = "open"
  BY <1>1 DEF TypeInv, TypeOK
<1>6. t # <<>> => Expects(u, t[1])'
  <2>1. ASSUME NEW y \in Words, Follows(x, y) PROVE Expects(u, y)'
    BY <1>3, <1>5, <2>1, WordFacts DEF Expects, Follows
  <2> QED
    BY <1>3, <2>1
<1>7. ASSUME server.mode # "down"
      PROVE  IF t = <<>> THEN Rest(u)' ELSE Ends(u, t[Len(t)])'
  <2>1. Ends(u, z)
    BY <1>3, <1>7
  <2>2. CASE t = <<>>
    <3>1. Feeding(u)
      BY <1>3, <1>4, <2>1, <2>2 DEF Ends
    <3>2. Final(u)' = Final(u)
      BY <1>1, <1>5 DEF Final
    <3>3. Feeding(u)'
      BY <1>1, <3>1, <3>2 DEF Feeding
    <3> QED
      BY <1>5, <2>2, <3>3 DEF Rest
  <2>3. CASE t # <<>>
    BY <1>1, <1>3, <1>4, <2>1, <2>3 DEF Ends, Idling
  <2> QED
    BY <2>2, <2>3
<1> QED
  BY <1>1, <1>3, <1>6, <1>7, FlowNow

\* At ReadyForQuery the use is over and leaves a calm connection, or is a cursor
\* with its last batch to show.
LEMMA ReadyEnds ==
  ASSUME TypeInv, Control, Live, NEW u \in Uses, NEW phases,
         Deliver(u, phases, {"ready"}), UNCHANGED <<toClient, toServer, server>>
  PROVE  /\ server.mode # "down" => Inflow' = <<>> /\ server.mode = "idle" /\ Idling'
         /\ Inflow' \in {<<>>, <<Gone>>}
         /\ u \in early => leak = "again"
         /\ u \notin early => leak = "none"
<1>1. PICK x \in Words, z \in Words, t \in Seq(Words) : Handed(u, {"ready"}, x, z, t)
  BY Consumed
<1>2. /\ x.kind = "ready"
      /\ t = Inflow' /\ Linked(t, u)
      /\ t = <<>> => z = x
      /\ t # <<>> => /\ t[1] \in Words /\ t[1].use \in {u, None} /\ Follows(x, t[1])
                     /\ t[1] = Gone => t = <<Gone>>
      /\ server.mode # "down" => Ends(u, z) /\ (t # <<>> => t[1].use = u)
  BY <1>1 DEF Handed
<1>3. u # None
  BY PhaseFacts
<1>4. t # <<>> => t[1].use = None /\ t[1] = Gone
  BY <1>2, WordFacts DEF Follows
<1>5. server.mode # "down" => t = <<>> /\ Ends(u, x)
  BY <1>2, <1>3, <1>4
<1>6. server.mode # "down" => server.mode = "idle" /\ Idling
  BY <1>2, <1>5 DEF Ends
<1>7. Going(u)
  BY Delivered
<1>8. /\ u \in early => leak = "again"
      /\ u \notin early => leak = "none"
  BY <1>7 DEF Control
<1>9. Idling' <=> Idling
  BY DEF Idling
<1> QED
  BY <1>2, <1>4, <1>5, <1>6, <1>8, <1>9

LEMMA LiveEnds ==
  ASSUME TypeInv, Control, Control', Live, NEW u \in Uses, Account(u),
         Settle(u) \/ CursorSynced(u)
  PROVE  Live'
<1> USE DEF serverVars
<1>1. PICK phases : Deliver(u, phases, {"ready"})
  BY DEF Settle, CursorSynced
<1>2. /\ UNCHANGED <<toClient, toServer, server, early>> /\ state' = "ready"
      /\ Settle(u) => leak' = IF u \in early THEN "none" ELSE leak
      /\ CursorSynced(u) => leak' = leak /\ pc[u] = "syncing"
  BY DEF Settle, CursorSynced, Deliver
<1>3. /\ server.mode # "down" => Inflow' = <<>> /\ server.mode = "idle" /\ Idling'
      /\ Inflow' \in {<<>>, <<Gone>>}
      /\ u \in early => leak = "again"
      /\ u \notin early => leak = "none"
  BY <1>1, <1>2, ReadyEnds
<1>4. Going(u) /\ waiter = u
  BY <1>1, Delivered
<1>5. ASSUME pc' = [pc EXCEPT ![u] = "over"] PROVE \A v \in Uses : ~Going(v)'
  BY <1>4, <1>5, OnlyOne DEF Going, TypeInv, TypeOK
<1>6. ASSUME leak' = "none" PROVE Calm'
  BY <1>2, <1>3, <1>6 DEF Calm
<1>7. CASE Settle(u)
  <2>1. pc' = [pc EXCEPT ![u] = "over"] /\ leak' = "none"
    BY <1>2, <1>3, <1>7 DEF Settle, Finish
  <2> QED
    BY <1>5, <1>6, <2>1, LiveNone
<1>8. CASE CursorSynced(u)
  <2>1. u \notin early /\ leak' = "none"
    BY <1>2, <1>3, <1>8 DEF Control
  <2>2. CASE u \in failed \/ batch = <<>>
    <3>1. pc' = [pc EXCEPT ![u] = "over"]
      BY <1>8, <2>2 DEF CursorSynced, Finish
    <3> QED
      BY <1>5, <1>6, <2>1, <3>1, LiveNone
  <2>3. CASE ~(u \in failed \/ batch = <<>>)
    <3>1. pc'[u] = "last"
      BY <1>8, <2>3 DEF CursorSynced, Move, TypeInv, TypeOK
    <3>2. PICK t \in {<<>>, <<Gone>>} : t = Inflow'
      BY <1>3
    <3>3. Linked(t, u) /\ (t # <<>> => t[1] = Gone)
      <4>1. CASE t = <<>>
        BY <4>1 DEF Linked
      <4>2. CASE t = <<Gone>>
        <5>1. Len(t) = 1 /\ t[1] = Gone
          BY <4>2
        <5> QED
          BY <5>1, GoneFacts DEF Linked
      <4> QED
        BY <3>2, <4>1, <4>2
    <3>4. t # <<>> => Expects(u, t[1])'
      BY <3>3 DEF Expects
    <3>5. server'.mode # "down" => t = <<>> /\ Rest(u)'
      BY <1>2, <1>3, <3>1, <3>2 DEF Rest
    <3>6. Flow(u)'
      BY <3>2, <3>3, <3>4, <3>5, FlowNow
    <3>7. Going(u)'
      BY <3>1 DEF Going
    <3> QED
      BY <3>6, <3>7, LiveOf
  <2> QED
    BY <2>2, <2>3
<1> QED
  BY <1>7, <1>8

\* Nothing that u, its messages or the server depend on changes.
LEMMA FlowKept ==
  ASSUME NEW v, Flow(v), Inflow' = Inflow, UNCHANGED <<toServer, server, batch>>,
         pc'[v] = pc[v], moved'[v] = moved[v], stored'[v] = stored[v],
         v \in failed' <=> v \in failed, v \in committed' <=> v \in committed
  PROVE  Flow(v)'
<1>1. /\ Got(v)' = Got(v) /\ (Idling' <=> Idling) /\ (Stored(v)' <=> Stored(v))
      /\ \A k : Asks(k, v)' <=> Asks(k, v)
  BY DEF Got, Idling, Stored, Asks
<1>2. Feeding(v)' <=> Feeding(v)
  <2>1. Final(v)' = Final(v)
    BY DEF Final
  <2> QED
    BY <2>1 DEF Feeding
<1>3. \A n : Feeds(v, n)' <=> Feeds(v, n)
  BY <1>1 DEF Feeds
<1>4. Rest(v)' <=> Rest(v)
  BY <1>1, <1>2, <1>3 DEF Rest
<1>5. \A x : Ends(v, x)' <=> Ends(v, x)
  BY <1>1, <1>2, <1>3 DEF Ends
<1>6. \A y : Expects(v, y)' <=> Expects(v, y)
  BY <1>1 DEF Expects
<1> QED
  BY <1>4, <1>5, <1>6 DEF Flow

\* The consumer's side: what is known when it calls.
LEMMA Called ==
  ASSUME TypeInv, Control, Live, NEW u \in Uses, Going(u), ~Broken
  PROVE  \E s \in Seq(Words) :
           /\ s = Inflow /\ Linked(s, u) /\ Len(s) \in Nat
           /\ s # <<>> => /\ s[1] \in Words /\ s[1].use \in {u, None} /\ Expects(u, s[1])
                          /\ s[1] = Gone => s = <<Gone>>
           /\ server.mode # "down" =>
                /\ \A i \in 1 .. Len(s) : s[i].use # None
                /\ s # <<>> => s[1] # Gone /\ Ends(u, s[Len(s)])
                /\ s = <<>> => Rest(u)
<1>1. Flow(u) /\ Inflow \in Seq(Words)
  BY FlowOpen DEF Live
<1>2. PICK s \in Seq(Words) : s = Inflow
  BY <1>1
<1>3. /\ Linked(s, u) /\ (s # <<>> => Expects(u, s[1]))
      /\ server.mode # "down" =>
           /\ \A i \in 1 .. Len(s) : s[i].use # None
           /\ IF s = <<>> THEN Rest(u) ELSE Ends(u, s[Len(s)])
  BY <1>1, <1>2 DEF Flow
<1>4. s # <<>> => 1 \in 1 .. Len(s) /\ s[1] \in Words /\ (s[1] = Gone => s = <<Gone>>)
  <2>1. s # <<>> => 1 \in 1 .. Len(s) /\ s[1] \in Words
    BY EmptySeq, ElementOfSeq
  <2> QED
    BY <1>3, <2>1, Chain
<1>5. s # <<>> => s[1].use \in {u, None}
  BY <1>3, <1>4 DEF Linked
<1>6. server.mode # "down" /\ s # <<>> => s[1] # Gone
  BY <1>3, <1>4, GoneFacts
<1>7. Len(s) \in Nat
  OBVIOUS
<1> QED
  BY <1>2, <1>3, <1>4, <1>5, <1>6, <1>7

\* next() and the early end of a cursor or a reader.
LEMMA FlowCalled ==
  ASSUME TypeInv, Control, Live, NEW u \in Uses, NextCall(u) \/ Return(u)
  PROVE  Flow(u)' /\ Going(u)'
<1> USE DEF serverVars
<1>1. PICK p \in {"fetching", "closing", "reading", "draining"}, k \in {"fetch", "close", "fail"} :
        /\ pc[u] = "yielded" /\ pc' = [pc EXCEPT ![u] = p] /\ ~Broken
        /\ UNCHANGED <<rbuf, toClient, server, batch, moved, failed, stored, committed>>
        /\ IF p = "reading" THEN toServer' = toServer ELSE Send(Frame(k, u))
        /\ p = "fetching" => k = "fetch" /\ u \in Cursors
        /\ p = "closing" => k = "close" /\ u \in Cursors
        /\ p = "draining" => k = "fail" /\ u \notin Cursors
        /\ p = "reading" => u \notin Cursors
  <2>1. CASE NextCall(u)
    BY <2>1 DEF NextCall, Await, Move, Consumer
  <2>2. CASE Return(u)
    BY <2>2 DEF Return, Await, Move, Consumer
  <2> QED
    BY <2>1, <2>2
<1>2. /\ p \in {"fetching", "closing", "reading", "draining"}
      /\ p = "fetching" => k = "fetch" /\ u \in Cursors
      /\ p = "closing" => k = "close" /\ u \in Cursors
      /\ p = "draining" => k = "fail" /\ u \notin Cursors
      /\ p = "reading" => u \notin Cursors
  BY <1>1
<1>3. /\ pc'[u] = p /\ Going(u) /\ Going(u)' /\ Inflow' = Inflow
      /\ Got(u)' = Got(u) /\ Got(u) \in Nat
  BY <1>1, <1>2 DEF TypeInv, TypeOK, Going, Inflow, Got
<1>4. /\ u \in Cursors \cup Outs /\ (u \in Cursors => u \notin Outs /\ u \notin Ins)
      /\ (u \in Outs => u \notin Ins)
  BY <1>1, PhaseFacts
<1>5. PICK s \in Seq(Words) :
           /\ s = Inflow /\ Linked(s, u) /\ Len(s) \in Nat
           /\ s # <<>> => /\ s[1] \in Words /\ s[1].use \in {u, None} /\ Expects(u, s[1])
                          /\ s[1] = Gone => s = <<Gone>>
           /\ server.mode # "down" =>
                /\ \A i \in 1 .. Len(s) : s[i].use # None
                /\ s # <<>> => s[1] # Gone /\ Ends(u, s[Len(s)])
                /\ s = <<>> => Rest(u)
  BY <1>1, <1>3, Called
<1>6. s # <<>> => Expects(u, s[1])'
  <2>1. ASSUME NEW y, Expects(u, y) PROVE Expects(u, y)'
    BY <1>1, <1>2, <1>3, <1>4, <2>1 DEF Expects
  <2> QED
    BY <1>5, <2>1
<1>7. ASSUME server.mode # "down"
      PROVE  IF s = <<>> THEN Rest(u)' ELSE Ends(u, s[Len(s)])'
  <2>1. CASE u \in Cursors
    <3>1. s = <<>>
      BY <1>1, <1>5, <1>7, <2>1, <1>4 DEF Expects
    <3>2. server.pos = Got(u) /\ server.mode = "portal" /\ Idling
      BY <1>1, <1>4, <1>5, <1>7, <2>1, <3>1 DEF Rest
    <3>3. Frame(k, u) \in Orders /\ p \in {"fetching", "closing"}
      BY <1>2, <1>4, <2>1, FrameFacts
    <3>4. Send(Frame(k, u))
      BY <1>1, <3>3
    <3>5. Asks(k, u)'
      BY <1>7, <3>2, <3>3, <3>4, AsksSent, Zenon
    <3>6. server'.pos = Got(u)' /\ server'.mode = "portal" /\ pc'[u] = p
      BY <1>1, <1>3, <3>2
    <3>7. CASE p = "fetching"
      <4>1. Asks("fetch", u)'
        BY <1>2, <3>5, <3>7
      <4> QED
        BY <3>1, <3>6, <3>7, <4>1 DEF Rest
    <3>8. CASE p = "closing"
      <4>1. Asks("close", u)'
        BY <1>2, <3>5, <3>8
      <4> QED
        BY <3>1, <3>6, <3>8, <4>1 DEF Rest
    <3> QED
      BY <3>3, <3>7, <3>8
  <2>2. CASE u \notin Cursors
    <3>1. u \in Outs /\ u \notin Ins /\ p \in {"reading", "draining"}
      BY <1>2, <1>4, <2>2
    <3>2. Idling => Idling'
      <4>1. CASE p = "reading"
        BY <1>1, <4>1 DEF Idling
      <4>2. CASE p = "draining"
        BY <1>1, <1>2, <1>7, <4>2, AsksSent, FrameFacts
      <4> QED
        BY <3>1, <4>1, <4>2
    <3>3. CASE s = <<>>
      <4>1. Feeds(u, Got(u))
        BY <1>1, <1>5, <1>7, <2>2, <3>3 DEF Rest
      <4>2. Feeds(u, Got(u))' /\ Feeds(u, server.pos)'
        BY <1>1, <1>3, <3>2, <4>1 DEF Feeds
      <4> QED
        BY <1>3, <3>1, <3>3, <4>2 DEF Rest
    <3>4. CASE s # <<>>
      <4>1. Ends(u, s[Len(s)])
        BY <1>5, <1>7, <3>4
      <4>2. Ends(u, s[Len(s)])'
        BY <1>1, <2>2, <3>1, <3>2, <4>1 DEF Ends, Feeds
      <4> QED
        BY <3>4, <4>2
    <3> QED
      BY <3>3, <3>4
  <2> QED
    BY <2>1, <2>2
<1> QED
  BY <1>1, <1>3, <1>5, <1>6, <1>7, FlowNow

\* One more frame of a COPY that the server takes.
LEMMA FeedingMore ==
  ASSUME TypeInv, NEW u \in Uses, Feeding(u), pc[u] = "open", NEW f \in Orders, Send(f),
         UNCHANGED <<server, stored, committed, failed>>,
         \/ /\ pc'[u] = "open" /\ Len(moved'[u]) = Len(moved[u]) + 1
            /\ f = [Frame("chunk", u) EXCEPT !.row = Len(moved[u]) + 1]
         \/ moved'[u] = moved[u] /\ Final(u)' = <<f>>
  PROVE  Feeding(u)'
<1>1. PICK a \in Nat, b \in Nat, c \in Nat :
        a = Len(stored[u]) /\ b = Len(moved[u]) /\ c = Len(toServer)
  <2>1. Len(stored[u]) \in Nat /\ Len(moved[u]) \in Nat /\ Len(toServer) \in Nat
    BY DEF TypeInv, TypeOK
  <2> QED
    BY <2>1, Zenon
<1>2. /\ Len(toServer') = c + 1
      /\ \A i \in 1 .. c : toServer'[i] = toServer[i]
      /\ toServer'[c + 1] = f
  <2>1. toServer' = Append(toServer, f) /\ toServer \in Seq(Orders)
    BY DEF Send, TypeInv, Feeding
  <2> QED
    BY <1>1, <2>1, AppendProperties
<1>3. Len(Final(u)) = 0
  BY DEF Final
<1>4. /\ server.mode = "copyIn" /\ server.use = u /\ u \notin committed /\ u \notin failed
      /\ a + c = b
      /\ \A i \in 1 .. c : a + i <= b =>
           toServer[i] = [Frame("chunk", u) EXCEPT !.row = a + i]
  BY <1>1, <1>3 DEF Feeding
<1>5. \A i \in 1 .. c : toServer'[i] = [Frame("chunk", u) EXCEPT !.row = a + i]
  <2> SUFFICES ASSUME NEW i \in 1 .. c
               PROVE  toServer'[i] = [Frame("chunk", u) EXCEPT !.row = a + i]
    OBVIOUS
  <2>1. a + i <= b
    BY <1>4
  <2> QED
    BY <1>2, <1>4, <2>1
<1>6. PICK d \in Nat, e \in Nat :
        /\ d = Len(moved'[u]) /\ e = Len(Final(u)') /\ a + (c + 1) = d + e /\ a <= d
        /\ \A i \in 1 .. c : a + i <= d
        /\ IF a + (c + 1) <= d THEN f = [Frame("chunk", u) EXCEPT !.row = a + (c + 1)]
                               ELSE f = Final(u)'[1]
  <2>1. CASE /\ pc'[u] = "open" /\ Len(moved'[u]) = Len(moved[u]) + 1
             /\ f = [Frame("chunk", u) EXCEPT !.row = Len(moved[u]) + 1]
    <3>1. Len(moved'[u]) = b + 1 /\ f = [Frame("chunk", u) EXCEPT !.row = b + 1]
      BY <1>1, <2>1
    <3>2. Len(Final(u)') = 0
      BY <2>1 DEF Final
    <3>3. b + 1 = a + (c + 1) /\ a <= b + 1 /\ \A i \in 1 .. c : a + i <= b + 1
      BY <1>4
    <3> QED
      BY <3>1, <3>2, <3>3
  <2>2. CASE moved'[u] = moved[u] /\ Final(u)' = <<f>>
    <3>1. Len(moved'[u]) = b /\ Len(Final(u)') = 1 /\ Final(u)'[1] = f
      BY <1>1, <2>2
    <3>2. a + (c + 1) = b + 1 /\ a <= b /\ ~(a + (c + 1) <= b) /\ \A i \in 1 .. c : a + i <= b
      BY <1>4
    <3> QED
      BY <3>1, <3>2
  <2> QED
    BY <2>1, <2>2
<1>7. \A i \in 1 .. c + 1 :
        IF a + i <= d THEN toServer'[i] = [Frame("chunk", u) EXCEPT !.row = a + i]
                      ELSE toServer'[i] = Final(u)'[1]
  <2> SUFFICES ASSUME NEW i \in 1 .. c + 1
               PROVE  IF a + i <= d
                      THEN toServer'[i] = [Frame("chunk", u) EXCEPT !.row = a + i]
                      ELSE toServer'[i] = Final(u)'[1]
    OBVIOUS
  <2>1. i \in 1 .. c \/ i = c + 1
    OBVIOUS
  <2>2. CASE i \in 1 .. c
    BY <1>5, <1>6, <2>2
  <2>3. CASE i = c + 1
    BY <1>2, <1>6, <2>3
  <2> QED
    BY <2>1, <2>2, <2>3
<1>8. stored'[u] = stored[u]
  OBVIOUS
<1> QED
  BY <1>1, <1>2, <1>4, <1>6, <1>7, <1>8 DEF Feeding

\* The calls of a writer.
LEMMA FlowWrites ==
  ASSUME TypeInv, Control, Live, NEW u \in Uses, Account(u), WriteChunk(u) \/ EndOrFail(u)
  PROVE  Flow(u)' /\ Going(u)'
<1> USE DEF serverVars, connVars
<1>1. /\ pc[u] = "open" /\ ~Broken
      /\ UNCHANGED <<rbuf, toClient, server, batch, failed, stored, committed>>
  BY DEF WriteChunk, EndOrFail, Consumer
<1>2. Going(u) /\ u \in Ins /\ u \notin Cursors /\ u \notin Outs /\ u \notin committed
  BY <1>1, PhaseFacts DEF Going, Account
<1>3. PICK p \in {"open", "ending", "failing"}, k \in {"chunk", "done", "fail"}, i \in 0 .. Rows :
        /\ pc'[u] = p /\ Send([Frame(k, u) EXCEPT !.row = i])
        /\ p = "open" => k = "chunk" /\ i = Len(moved[u]) + 1 /\ Len(moved'[u]) = i
        /\ p = "ending" => k = "done" /\ i = 0 /\ moved' = moved
        /\ p = "failing" => k = "fail" /\ i = 0 /\ moved' = moved
  <2>1. CASE WriteChunk(u)
    <3>1. Len(moved[u]) + 1 \in 1 .. Rows /\ moved \in [Uses -> Seq(1 .. Rows)]
      BY <2>1, StreamsAssumption DEF WriteChunk, TypeInv, TypeOK
    <3>2. PICK i \in 1 .. Rows : i = Len(moved[u]) + 1
      BY <3>1
    <3>3. /\ moved' = [moved EXCEPT ![u] = Append(moved[u], i)] /\ pc' = pc
          /\ Send([Frame("chunk", u) EXCEPT !.row = i])
      BY <2>1, <3>2 DEF WriteChunk
    <3>4. Len(moved'[u]) = Len(moved[u]) + 1
      BY <3>1, <3>3, AppendProperties
    <3>5. /\ pc'[u] = "open" /\ Send([Frame("chunk", u) EXCEPT !.row = i])
          /\ i = Len(moved[u]) + 1 /\ Len(moved'[u]) = i /\ i \in 0 .. Rows
      BY <1>1, <3>2, <3>3, <3>4
    <3> QED
      BY <3>5
  <2>2. CASE EndOrFail(u)
    <3>1. \/ pc'[u] = "ending" /\ Send(Frame("done", u))
          \/ pc'[u] = "failing" /\ Send(Frame("fail", u))
      BY <2>2 DEF EndOrFail, Await, Move, TypeInv, TypeOK
    <3>2. /\ [Frame("done", u) EXCEPT !.row = 0] = Frame("done", u)
          /\ [Frame("fail", u) EXCEPT !.row = 0] = Frame("fail", u)
      BY DEF Frame
    <3>3. moved' = moved /\ 0 \in 0 .. Rows
      BY <2>2, StreamsAssumption DEF EndOrFail
    <3> QED
      BY <3>1, <3>2, <3>3
  <2> QED
    BY <2>1, <2>2
<1> DEFINE f == [Frame(k, u) EXCEPT !.row = i]
<1>4. f \in Orders /\ Stale(f)
  BY <1>3, StreamsAssumption DEF Orders, Frames, Frame, Stale
<1>5. Going(u)' /\ Inflow' = Inflow
  BY <1>1, <1>3 DEF Going, Inflow
<1>6. PICK s \in Seq(Words) :
           /\ s = Inflow /\ Linked(s, u) /\ Len(s) \in Nat
           /\ s # <<>> => /\ s[1] \in Words /\ s[1].use \in {u, None} /\ Expects(u, s[1])
                          /\ s[1] = Gone => s = <<Gone>>
           /\ server.mode # "down" =>
                /\ \A j \in 1 .. Len(s) : s[j].use # None
                /\ s # <<>> => s[1] # Gone /\ Ends(u, s[Len(s)])
                /\ s = <<>> => Rest(u)
  BY <1>1, <1>2, Called
<1>7. s # <<>> => Expects(u, s[1])'
  <2>1. ASSUME NEW y, Expects(u, y) PROVE Expects(u, y)'
    BY <1>1, <1>2, <1>3, <2>1 DEF Expects
  <2> QED
    BY <1>6, <2>1
<1>8. ASSUME server.mode # "down", s = <<>> PROVE Rest(u)'
  <2>1. Feeding(u)
    BY <1>1, <1>2, <1>6, <1>8 DEF Rest
  <2>2. Send(f)
    BY <1>3
  <2>3. \/ /\ pc'[u] = "open" /\ Len(moved'[u]) = Len(moved[u]) + 1
           /\ f = [Frame("chunk", u) EXCEPT !.row = Len(moved[u]) + 1]
        \/ moved'[u] = moved[u] /\ Final(u)' = <<f>>
    <3>1. CASE p = "open"
      BY <1>3, <3>1
    <3>2. CASE p # "open"
      <4>1. moved' = moved /\ f = Frame(k, u) /\ Final(u)' = <<Frame(k, u)>>
        BY <1>3, <3>2 DEF Final, Frame
      <4> QED
        BY <4>1
    <3> QED
      BY <3>1, <3>2
  <2> HIDE DEF f
  <2>4. Feeding(u)'
    BY <1>1, <1>4, <2>1, <2>2, <2>3, FeedingMore
  <2> QED
    BY <1>3, <2>4 DEF Rest
<1>9. ASSUME server.mode # "down", s # <<>> PROVE Ends(u, s[Len(s)])'
  <2>1. s[Len(s)].kind = "ready" /\ server.mode = "idle" /\ Idling
    BY <1>1, <1>2, <1>6, <1>9 DEF Ends
  <2>2. Idling'
    <3>1. toServer' = Append(toServer, f) /\ toServer \in Seq(Orders)
      BY <1>3, <1>9 DEF Send, TypeInv
    <3> HIDE DEF f
    <3>2. /\ Len(toServer) \in Nat /\ Len(toServer') = Len(toServer) + 1
          /\ \A j \in 1 .. Len(toServer) : toServer'[j] = toServer[j]
          /\ toServer'[Len(toServer) + 1] = f
      BY <1>4, <3>1, AppendProperties
    <3> QED
      BY <1>4, <2>1, <3>2 DEF Idling, Stale
  <2> QED
    BY <1>1, <2>1, <2>2 DEF Ends
<1> QED
  BY <1>1, <1>5, <1>6, <1>7, <1>8, <1>9, FlowNow

\* A cursor that has shown its last batch, and a reader whose consumer breaks
\* off, let go of the connection.
LEMMA LiveLets ==
  ASSUME TypeInv, Control, Control', Live, NEW u \in Uses, LastNext(u) \/ BreakReader(u)
  PROVE  Live'
<1> USE DEF serverVars
<1>1. /\ pc[u] \in {"last", "yielded"} /\ pc' = [pc EXCEPT ![u] = "over"]
      /\ UNCHANGED <<state, rbuf, toServer, toClient, server>>
      /\ LastNext(u) => leak' = leak /\ pc[u] = "last"
      /\ BreakReader(u) => leak' = "break" /\ pc[u] = "yielded" /\ u \in Outs
  BY DEF LastNext, BreakReader, Consumer, Finish
<1>2. Going(u)
  BY <1>1 DEF Going
<1>3. \A v \in Uses : ~Going(v)'
  BY <1>1, <1>2, OnlyOne DEF Going, TypeInv, TypeOK
<1>4. CASE Broken
  BY <1>1, <1>4, LiveBroken DEF Broken, TypeInv, TypeOK
<1>5. CASE ~Broken
  <2>1. PICK s \in Seq(Words) :
           /\ s = Inflow /\ Linked(s, u) /\ Len(s) \in Nat
           /\ s # <<>> => /\ s[1] \in Words /\ s[1].use \in {u, None} /\ Expects(u, s[1])
                          /\ s[1] = Gone => s = <<Gone>>
           /\ server.mode # "down" =>
                /\ \A i \in 1 .. Len(s) : s[i].use # None
                /\ s # <<>> => s[1] # Gone /\ Ends(u, s[Len(s)])
                /\ s = <<>> => Rest(u)
    BY <1>2, <1>5, Called
  <2>2. Inflow' = s /\ (Idling' <=> Idling)
    BY <1>1, <2>1 DEF Inflow, Idling
  <2>3. server.mode = "down" => Idling
    <3>1. server.mode = "down" => toServer = <<>>
      BY DEF TypeInv
    <3>2. toServer = <<>> => Len(toServer) = 0
      OBVIOUS
    <3> QED
      BY <3>1, <3>2 DEF Idling
  <2>4. CASE LastNext(u)
    <3>1. pc[u] = "last" /\ u \in Cursors /\ u \notin Outs /\ u \notin Ins
      BY <1>1, <2>4, PhaseFacts
    <3>2. state = "ready" /\ u \notin early /\ leak' = "none"
      BY <1>1, <1>2, <1>5, <2>4, <3>1 DEF Control
    <3>3. s # <<>> => s[1] = Gone
      BY <2>1, <3>1 DEF Expects
    <3>4. Calm'
      <4>1. CASE server.mode = "down"
        BY <1>1, <2>1, <2>2, <3>2, <3>3, <4>1 DEF Calm
      <4>2. CASE server.mode # "down"
        <5>1. s = <<>> /\ Rest(u)
          BY <2>1, <3>3, <4>2
        <5>2. server.mode = "idle" /\ Idling
          BY <3>1, <5>1 DEF Rest
        <5> QED
          BY <1>1, <2>2, <3>2, <5>1, <5>2 DEF Calm
      <4> QED
        BY <4>1, <4>2
    <3> QED
      BY <1>3, <3>4, LiveNone
  <2>5. CASE BreakReader(u)
    <3>1. /\ pc[u] = "yielded" /\ u \in Outs /\ u \notin Cursors /\ u \notin Ins
          /\ leak' = "break"
      BY <1>1, <2>5, PhaseFacts
    <3>2. state = "busy"
      BY <1>2, <1>5, <3>1 DEF Control
    <3>3. server.mode \in {"copyOut", "idle", "down"} /\ Idling
      BY <2>1, <2>3, <3>1 DEF Rest, Ends, Feeds
    <3>4. Calm'
      BY <1>1, <2>2, <3>1, <3>2, <3>3 DEF Calm
    <3> QED
      BY <1>3, <3>4, LiveNone
  <2> QED
    BY <2>4, <2>5
<1> QED
  BY <1>4, <1>5

\* Nobody on the way is concerned.
LEMMA LiveKept ==
  ASSUME Live, Inflow' = Inflow, UNCHANGED <<state, toServer, server, batch>>,
         \A v \in Uses : Going(v)' <=> Going(v),
         \A v \in Uses : Going(v) => /\ pc'[v] = pc[v] /\ moved'[v] = moved[v]
                                     /\ stored'[v] = stored[v]
                                     /\ v \in failed' <=> v \in failed
                                     /\ v \in committed' <=> v \in committed,
         leak' = leak \/ \E v \in Uses : Going(v)
  PROVE  Live'
<1>1. ASSUME ~Broken, \E v \in Uses : Going(v)
      PROVE  \A v \in Uses : Going(v)' => Flow(v)'
  <2> SUFFICES ASSUME NEW v \in Uses, Going(v) PROVE Flow(v)'
    OBVIOUS
  <2>1. Flow(v)
    BY <1>1 DEF Live
  <2> QED
    BY <2>1, FlowKept
<1>2. ASSUME ~Broken, \A v \in Uses : ~Going(v) PROVE Calm'
  <2>1. Calm
    BY <1>2 DEF Live
  <2>2. leak' = leak
    BY <1>2
  <2> QED
    BY <2>1, <2>2 DEF Calm, Idling
<1>3. Broken' <=> Broken
  BY DEF Broken
<1> QED
  BY <1>1, <1>2, <1>3 DEF Live

\* A ready connection that nobody uses.
LEMMA ReadyCalm ==
  ASSUME TypeInv, Control, Live, where = "idle", state = "ready"
  PROVE  /\ \A v \in Uses : ~Going(v)
         /\ leak = "none" /\ batch = <<>>
         /\ \/ server.mode = "down" /\ Inflow \in {<<>>, <<Gone>>}
            \/ server.mode = "idle" /\ server = Idle /\ Idling /\ Inflow = <<>>
<1>1. (\A v \in Uses : ~Going(v)) /\ batch = <<>> /\ ~Broken
  BY NobodyGoing
<1>2. Calm
  BY <1>1 DEF Live
<1>3. leak \in {"none", "break", "encode", "again"}
  BY DEF TypeInv, TypeOK
<1> QED
  BY <1>1, <1>2, <1>3 DEF Calm, TypeInv

\* A call that is refused, or that fails before a message is on its way.
LEMMA LiveRefused ==
  ASSUME TypeInv, Control, Live, NEW u \in Uses,
         Refuse(u) \/ CursorBadParam(u) \/ WriteFails(u)
  PROVE  Live'
<1> USE DEF serverVars
<1>1. /\ pc[u] = "new" /\ pc' = [pc EXCEPT ![u] = "over"] /\ where = "idle"
      /\ UNCHANGED <<rbuf, toServer, toClient, server, batch, moved, failed, stored, committed>>
  BY DEF Refuse, CursorBadParam, WriteFails, Started, Acquire, Finish
<1>2. /\ \A v \in Uses : pc'[v] = IF v = u THEN "over" ELSE pc[v]
      /\ \A v \in Uses : Going(v)' <=> Going(v)
      /\ \A v \in Uses : Going(v) => v # u
      /\ Inflow' = Inflow
  BY <1>1 DEF TypeInv, TypeOK, Going, Inflow
<1>3. CASE Refuse(u)
  <2>1. UNCHANGED <<state, leak>>
    BY <1>3 DEF Refuse
  <2> QED
    BY <1>1, <1>2, <2>1, LiveKept
<1>4. CASE CursorBadParam(u) \/ WriteFails(u)
  <2>1. /\ state = "ready"
        /\ \/ leak' = "encode" /\ state' = "busy"
           \/ leak' = leak /\ server.mode = "down"
    BY <1>4 DEF CursorBadParam, WriteFails, Started
  <2>2. /\ \A v \in Uses : ~Going(v)
        /\ leak = "none"
        /\ \/ server.mode = "down" /\ Inflow \in {<<>>, <<Gone>>}
           \/ server.mode = "idle" /\ server = Idle /\ Idling /\ Inflow = <<>>
    BY <1>1, <2>1, ReadyCalm
  <2>3. Calm'
    BY <1>1, <1>2, <2>1, <2>2 DEF Calm, Idling
  <2> QED
    BY <1>2, <2>2, <2>3, LiveNone
<1> QED
  BY <1>3, <1>4

\* A stream starts on a calm connection.
LEMMA FlowStarts ==
  ASSUME TypeInv, Control, Live, NEW u \in Uses, Account(u),
         OpenCursor(u) \/ StartCopy(u)
  PROVE  Flow(u)' /\ Going(u)'
<1> USE DEF serverVars
<1>1. PICK p \in {"fetching", "reading", "starting"}, k \in {"open", "query"} :
        /\ pc[u] = "new" /\ pc' = [pc EXCEPT ![u] = p] /\ where = "idle" /\ state = "ready"
        /\ Send(Frame(k, u)) /\ Frame(k, u) \in Orders
        /\ p = "fetching" <=> k = "open"
        /\ UNCHANGED <<rbuf, toClient, server, batch, moved, failed>>
  <2>1. CASE OpenCursor(u)
    BY <2>1, FrameFacts DEF OpenCursor, Started, Acquire, Await, Move
  <2>2. CASE StartCopy(u)
    BY <2>2, FrameFacts DEF StartCopy, Started, Acquire, Await, Move
  <2> QED
    BY <2>1, <2>2
<1>2. /\ leak = "none" /\ batch = <<>>
      /\ \/ server.mode = "down" /\ Inflow \in {<<>>, <<Gone>>}
         \/ server.mode = "idle" /\ server = Idle /\ Idling /\ Inflow = <<>>
  BY <1>1, ReadyCalm
<1>3. pc'[u] = p /\ Going(u)' /\ Inflow' = Inflow
  BY <1>1 DEF TypeInv, TypeOK, Going, Inflow
<1>4. Got(u)' = 0 /\ u \notin failed'
  <2>1. moved[u] = <<>> /\ u \notin failed
    BY <1>1 DEF Account
  <2> QED
    BY <1>1, <1>2, <2>1 DEF Got
<1>5. PICK s \in {<<>>, <<Gone>>} : s = Inflow'
  BY <1>2, <1>3
<1>6. Linked(s, u) /\ (s # <<>> => s[1] = Gone)
  <2>1. CASE s = <<>>
    BY <2>1 DEF Linked
  <2>2. CASE s = <<Gone>>
    <3>1. Len(s) = 1 /\ s[1] = Gone
      BY <2>2
    <3> QED
      BY <3>1, GoneFacts DEF Linked
  <2> QED
    BY <1>5, <2>1, <2>2
<1>7. s # <<>> => Expects(u, s[1])'
  BY <1>6 DEF Expects
<1>8. ASSUME server.mode # "down" PROVE s = <<>> /\ Rest(u)'
  <2>1. s = <<>> /\ server = Idle /\ Idling
    BY <1>2, <1>3, <1>5, <1>8
  <2>2. Asks(k, u)'
    BY <1>1, <1>8, <2>1, AsksSent, Zenon
  <2>3. server'.mode = "idle" /\ server'.pos = 0
    BY <1>1, <2>1, IdleFacts
  <2>4. CASE p = "fetching"
    <3>1. Asks("open", u)'
      BY <1>1, <2>2, <2>4
    <3>2. Rest(u)'
      BY <1>3, <1>4, <2>3, <2>4, <3>1 DEF Rest
    <3> QED
      BY <2>1, <3>2
  <2>5. CASE p # "fetching"
    <3>1. Asks("query", u)' /\ p \in {"reading", "starting"}
      BY <1>1, <2>2, <2>5
    <3>2. Rest(u)'
      BY <1>3, <1>4, <2>3, <3>1 DEF Rest
    <3> QED
      BY <2>1, <3>2
  <2> QED
    BY <2>4, <2>5
<1> QED
  BY <1>1, <1>3, <1>5, <1>6, <1>7, <1>8, FlowNow

\* A new connection is calm.
LEMMA LiveConnects ==
  ASSUME TypeInv, Control, Connect
  PROVE  Live'
<1> USE DEF useVars
<1>1. \A v \in Uses : ~Going(v)'
  BY DEF Connect, Control, Going
<1>2. Inflow' = <<>> /\ Len(toServer') = 0
  BY DEF Connect, Inflow
<1>3. Calm'
  BY <1>2, IdleFacts DEF Connect, Calm, Idling
<1> QED
  BY <1>1, <1>3, LiveNone

\* What the server sends goes behind the rest.
LEMMA FlowReplies ==
  ASSUME TypeInv, NEW u \in Uses, NEW s \in Seq(Words), s = Inflow, Linked(s, u),
         \A i \in 1 .. Len(s) : s[i].use # None,
         NEW m \in Seq(Words), m # <<>>, Linked(m, u), \A i \in 1 .. Len(m) : m[i].use # None,
         rbuf' = rbuf, Reply(m),
         IF s = <<>> THEN Expects(u, m[1])'
                     ELSE Follows(s[Len(s)], m[1]) /\ Expects(u, s[1])',
         Inflow' = s \o m => Ends(u, m[Len(m)])'
  PROVE  Flow(u)'
<1>1. Inflow' = s \o m
  BY FlowAdded DEF Reply
<1>2. /\ Linked(s \o m, u)
      /\ s \o m \in Seq(Words) /\ s \o m # <<>>
      /\ (s \o m)[Len(s \o m)] = m[Len(m)]
      /\ (s \o m)[1] = IF s = <<>> THEN m[1] ELSE s[1]
      /\ \A i \in 1 .. Len(s \o m) : (s \o m)[i].use # None
  BY LinkedJoin
<1>3. PICK t \in Seq(Words) : t = s \o m
  BY <1>2
<1>4. /\ t = Inflow' /\ Linked(t, u) /\ t # <<>> /\ t[Len(t)] = m[Len(m)]
      /\ t[1] = IF s = <<>> THEN m[1] ELSE s[1]
      /\ \A i \in 1 .. Len(t) : t[i].use # None
  BY <1>1, <1>2, <1>3, Zenon
<1>5. Expects(u, t[1])'
  <2>1. CASE s = <<>>
    BY <1>4, <2>1
  <2>2. CASE s # <<>>
    BY <1>4, <2>2
  <2> QED
    BY <2>1, <2>2
<1>6. Ends(u, t[Len(t)])'
  BY <1>1, <1>4
<1> QED
  BY <1>4, <1>5, <1>6, FlowNow

\* A COPY's frames are stale once it is over.
LEMMA FeedingIdles ==
  ASSUME TypeInv, NEW u \in Uses, Feeding(u)
  PROVE  Idling
<1>1. /\ Len(Final(u)) = 0 \/ Len(Final(u)) = 1
      /\ Len(Final(u)) = 1 => Stale(Final(u)[1])
  BY DEF Final, Frame, Stale
<1>2. PICK a \in Nat, b \in Nat, c \in Nat :
        a = Len(stored[u]) /\ b = Len(moved[u]) /\ c = Len(toServer)
  <2>1. Len(stored[u]) \in Nat /\ Len(moved[u]) \in Nat /\ Len(toServer) \in Nat
    BY DEF TypeInv, TypeOK
  <2> QED
    BY <2>1, Zenon
<1>3. /\ a + c = b + Len(Final(u))
      /\ \A i \in 1 .. c : IF a + i <= b
                           THEN toServer[i] = [Frame("chunk", u) EXCEPT !.row = a + i]
                           ELSE toServer[i] = Final(u)[1]
  BY <1>2 DEF Feeding
<1>4. ASSUME NEW i \in 1 .. c PROVE Stale(toServer[i])
  <2>1. CASE a + i <= b
    BY <1>3, <2>1 DEF Stale, Frame
  <2>2. CASE ~(a + i <= b)
    <3>1. Len(Final(u)) = 1
      BY <1>1, <1>3, <2>2
    <3> QED
      BY <1>1, <1>3, <2>2, <3>1
  <2> QED
    BY <2>1, <2>2
<1> QED
  BY <1>2, <1>4 DEF Idling

\* The use that a frame which is not stale comes from.
LEMMA Asked ==
  ASSUME TypeInv, Control, Live, toServer # <<>>, ~Stale(Head(toServer))
  PROVE  \E u \in Uses, k \in {"open", "fetch", "sync", "close", "query"} :
           /\ Going(u) /\ ~Broken /\ server.mode # "down" /\ Inflow = <<>>
           /\ Head(toServer) = Frame(k, u) /\ Tail(toServer) = <<>>
           /\ \/ pc[u] = "fetching" /\ server.pos = Got(u) /\ k \in {"open", "fetch"}
              \/ pc[u] = "syncing" /\ k = "sync"
              \/ pc[u] = "closing" /\ k = "close"
              \/ /\ pc[u] \in {"reading", "starting"} /\ Got(u) = 0 /\ u \notin failed
                 /\ k = "query"
<1>1. /\ ~Broken /\ server.mode # "down" /\ toServer \in Seq(Orders)
      /\ Head(toServer) = toServer[1] /\ 1 \in 1 .. Len(toServer) /\ Len(toServer) \in Nat
      /\ Len(Tail(toServer)) = Len(toServer) - 1 /\ Tail(toServer) \in Seq(Orders)
  BY Dequeued DEF TypeInv
<1>2. ~Idling
  BY <1>1 DEF Idling
<1>3. ~Calm
  BY <1>1, <1>2 DEF Calm
<1>4. PICK u \in Uses : Going(u)
  BY <1>1, <1>3 DEF Live
<1>5. PICK s \in Seq(Words) :
           /\ s = Inflow
           /\ s # <<>> => Ends(u, s[Len(s)])
           /\ s = <<>> => Rest(u)
  BY <1>1, <1>4, Called
<1>6. ~Feeding(u)
  BY <1>2, FeedingIdles
<1>7. s = <<>> /\ Rest(u)
  BY <1>2, <1>5, <1>6 DEF Ends, Feeds
<1>8. ASSUME NEW k, Asks(k, u) PROVE Head(toServer) = Frame(k, u) /\ Tail(toServer) = <<>>
  <2>1. Len(toServer) = 1
    <3> SUFFICES ASSUME Len(toServer) # 1 PROVE FALSE
      OBVIOUS
    <3>1. 1 \in 1 .. Len(toServer) - 1
      BY <1>1
    <3> QED
      BY <1>1, <1>8, <3>1 DEF Asks
  <2>2. Tail(toServer) = <<>>
    <3>1. Tail(toServer) \in Seq(Orders) /\ Len(Tail(toServer)) = 0
      BY <1>1, <2>1
    <3>2. \A q \in Seq(Orders) : Len(q) = 0 => q = <<>>
      BY EmptySeq
    <3> QED
      BY <3>1, <3>2, Zenon
  <2>3. toServer[Len(toServer)] = Frame(k, u)
    BY <1>8 DEF Asks
  <2>4. Head(toServer) = Frame(k, u)
    BY <1>1, <2>1, <2>3, Zenon
  <2> QED
    BY <2>2, <2>4
<1>9. PICK k \in {"open", "fetch", "sync", "close", "query"} :
        /\ Asks(k, u)
        /\ \/ pc[u] = "fetching" /\ server.pos = Got(u) /\ k \in {"open", "fetch"}
           \/ pc[u] = "syncing" /\ k = "sync"
           \/ pc[u] = "closing" /\ k = "close"
           \/ /\ pc[u] \in {"reading", "starting"} /\ Got(u) = 0 /\ u \notin failed
              /\ k = "query"
  BY <1>2, <1>6, <1>7 DEF Rest, Feeds
<1> QED
  BY <1>1, <1>4, <1>5, <1>7, <1>8, <1>9

\* Rows, and how their sending ended.
LEMMA RowsLinked ==
  ASSUME NEW u \in Cursors, NEW from \in 0 .. Rows, NEW k \in 0 .. Rows - from,
         NEW m \in Seq(Words), Len(m) = k + 1, \A i \in 1 .. k : m[i] = Row(u, from + i),
         \/ m[k + 1] = Msg("suspended", u)
         \/ m[k + 1] = Msg("complete", u) /\ from + k = Rows
         \/ m[k + 1] = Msg("error", u)
         \/ m[k + 1] = Msg("copyOut", u) /\ k = 0
  PROVE  /\ Linked(m, u) /\ m # <<>> /\ \A i \in 1 .. Len(m) : m[i].use # None
         /\ m[Len(m)] = m[k + 1]
         /\ (m[1].kind = "data" /\ m[1].row = from + 1) \/ (k = 0 /\ m[1] = m[k + 1])
<1>1. u \in Uses /\ u # None /\ Rows \in Nat /\ from \in Nat /\ k \in Nat
  BY StreamsAssumption DEF Uses
<1>2. /\ m[k + 1].use = u /\ m[k + 1].row = 0
      /\ \/ m[k + 1].kind \in {"suspended", "error"}
         \/ m[k + 1].kind = "complete" /\ from + k = Rows
         \/ m[k + 1].kind = "copyOut" /\ k = 0
  BY <1>1, MsgFacts
<1>3. ASSUME NEW i \in 1 .. k
      PROVE  m[i].kind = "data" /\ m[i].use = u /\ m[i].row = from + i
  <2>1. m[i] = Row(u, from + i)
    OBVIOUS
  <2>2. \A e : Row(u, e).kind = "data" /\ Row(u, e).use = u /\ Row(u, e).row = e
    BY DEF Row
  <2> QED
    BY <2>1, <2>2, Zenon
<1>4. \A i \in 1 .. Len(m) : i \in 1 .. k \/ i = k + 1
  BY <1>1
<1>5. \A i \in 1 .. Len(m) : m[i].use = u
  BY <1>2, <1>3, <1>4
<1>6. ASSUME NEW i \in 1 .. Len(m) - 1 PROVE Follows(m[i], m[i + 1])
  <2>1. i \in 1 .. k /\ m[i].kind = "data" /\ m[i].use = u /\ m[i].row = from + i
    BY <1>1, <1>3
  <2>2. CASE i + 1 \in 1 .. k
    <3>1. m[i + 1].kind = "data" /\ m[i + 1].row = from + (i + 1)
      BY <1>3, <2>2
    <3>2. from + (i + 1) = from + i + 1
      BY <1>1, <2>1
    <3> QED
      BY <1>1, <2>1, <3>1, <3>2 DEF Follows
  <2>3. CASE i + 1 = k + 1
    <3>1. i = k /\ k # 0
      BY <1>1, <2>1, <2>3
    <3>2. m[i + 1] = m[k + 1]
      BY <2>3
    <3> QED
      BY <1>1, <1>2, <2>1, <3>1, <3>2 DEF Follows
  <2> QED
    BY <1>1, <2>1, <2>2, <2>3
<1>7. Linked(m, u)
  BY <1>5, <1>6 DEF Linked
<1>8. m # <<>> /\ m[Len(m)] = m[k + 1]
  BY <1>1, EmptySeq
<1>9. (m[1].kind = "data" /\ m[1].row = from + 1) \/ (k = 0 /\ m[1] = m[k + 1])
  <2>1. CASE k = 0
    BY <2>1
  <2>2. CASE k # 0
    <3>1. 1 \in 1 .. k
      BY <1>1, <2>2
    <3>2. m[1].kind = "data" /\ m[1].row = from + 1
      BY <1>3, <3>1
    <3> QED
      BY <3>2
  <2> QED
    BY <2>1, <2>2
<1> QED
  BY <1>1, <1>5, <1>7, <1>8, <1>9

LEMMA FlowFetched ==
  ASSUME TypeInv, Control, Live, ServerFetches
  PROVE  \E u \in Uses : Flow(u)' /\ Going(u)'
<1> USE DEF connVars, useVars
<1>1. /\ toServer # <<>> /\ Head(toServer).kind \in {"open", "fetch"}
      /\ toServer' = Tail(toServer)
      /\ UNCHANGED <<rbuf, pc, batch, moved, failed, stored, committed>>
  BY DEF ServerFetches, Incoming
<1>2. PICK u \in Uses, a \in {"open", "fetch", "sync", "close", "query"} :
        /\ Going(u) /\ server.mode # "down" /\ Inflow = <<>>
        /\ Head(toServer) = Frame(a, u) /\ Tail(toServer) = <<>>
        /\ \/ pc[u] = "fetching" /\ server.pos = Got(u)
           \/ a \notin {"open", "fetch"}
  <2>1. ~Stale(Head(toServer))
    BY <1>1 DEF Stale
  <2> QED
    BY <1>1, <2>1, Asked
<1>3. Head(toServer).use = u /\ pc[u] = "fetching" /\ server.pos = Got(u)
  BY <1>1, <1>2 DEF Frame
<1>4. u \in Cursors /\ u \notin Outs /\ u \notin Ins /\ u # None
  BY <1>3, PhaseFacts
<1>5. PICK from \in 0 .. Rows : from = server.pos
  BY DEF TypeInv, TypeOK
<1>6. PICK r : r = Fetched(u, from)
  OBVIOUS
<1>7. PICK n \in 0 .. Rows - from : n = Len(r) - 1
  BY <1>4, <1>6, FetchedFacts
<1>8. /\ r \in Seq(Words) /\ Len(r) = n + 1
      /\ \A i \in 1 .. n : r[i] = Row(u, from + i)
      /\ \/ r[n + 1] = Msg("suspended", u)
         \/ r[n + 1] = Msg("complete", u) /\ from + n = Rows
  <2>1. /\ r \in Seq(Words)
        /\ \A i \in 1 .. Len(r) - 1 : r[i] = Row(u, from + i)
        /\ \/ r[Len(r) - 1 + 1] = Msg("suspended", u)
           \/ r[Len(r) - 1 + 1] = Msg("complete", u) /\ from + (Len(r) - 1) = Rows
    BY <1>4, <1>6, FetchedFacts
  <2>2. Len(r) = n + 1
    BY <1>7, <2>1
  <2> QED
    BY <1>7, <2>1, <2>2
<1> DEFINE Replies(m, k) ==
      /\ Reply(m) /\ Len(m) = k + 1 /\ \A i \in 1 .. k : m[i] = Row(u, from + i)
      /\ \/ /\ server'.mode = "portal" /\ server'.pos = from + k
            /\ m[k + 1] = Msg("suspended", u) \/ (m[k + 1] = Msg("complete", u) /\ from + k = Rows)
         \/ /\ server'.mode = "skip"
            /\ m[k + 1] = Msg("error", u) \/ (m[k + 1] = Msg("copyOut", u) /\ k = 0)
<1>9. \E m \in Seq(Words), k \in 0 .. Rows - from : Replies(m, k)
  <2>1. \/ /\ Reply(r)
           /\ server' = [mode |-> "portal", use |-> u, pos |-> from + Len(r) - 1]
        \/ \E k \in 0 .. Len(r) - 1 :
             /\ Reply(SubSeq(r, 1, k) \o <<Msg("error", u)>>)
             /\ server' = [server EXCEPT !.mode = "skip"]
        \/ /\ Reply(<<Msg("copyOut", u)>>)
           /\ server' = [server EXCEPT !.mode = "skip"]
    BY <1>3, <1>5, <1>6 DEF ServerFetches
  <2>2. [server EXCEPT !.mode = "skip"].mode = "skip"
    BY ServerFacts
  <2>3. Msg("error", u) \in Words /\ Msg("copyOut", u) \in Words
    BY MsgFacts
  <2>4. CASE /\ Reply(r)
             /\ server' = [mode |-> "portal", use |-> u, pos |-> from + Len(r) - 1]
    <3>1. from + Len(r) - 1 = from + n
      BY <1>7, <1>8
    <3>2. server'.mode = "portal" /\ server'.pos = from + n
      BY <2>4, <3>1
    <3>3. Replies(r, n)
      BY <1>8, <2>4, <3>2
    <3> HIDE DEF Replies
    <3> QED
      BY <1>8, <3>3
  <2>5. CASE \E k \in 0 .. Len(r) - 1 :
               /\ Reply(SubSeq(r, 1, k) \o <<Msg("error", u)>>)
               /\ server' = [server EXCEPT !.mode = "skip"]
    <3>1. PICK k \in 0 .. n :
               /\ Reply(SubSeq(r, 1, k) \o <<Msg("error", u)>>)
               /\ server' = [server EXCEPT !.mode = "skip"]
      BY <1>7, <2>5
    <3> DEFINE q == SubSeq(r, 1, k)
               e == <<Msg("error", u)>>
    <3>2. q \in Seq(Words) /\ Len(q) = k /\ \A i \in 1 .. k : q[i] = r[i]
      <4>1. \A i \in 1 .. k : r[i] \in Words
        BY <1>8, ElementOfSeq
      <4>2. /\ q \in Seq(Words)
            /\ Len(q) = IF 1 <= k THEN k - 1 + 1 ELSE 0
            /\ \A i \in 1 .. k - 1 + 1 : q[i] = r[1 + i - 1]
        BY <1>8, <4>1, SubSeqProperties
      <4> HIDE DEF q
      <4> QED
        BY <4>2
    <3>3. e \in Seq(Words) /\ Len(e) = 1 /\ e[1] = Msg("error", u)
      BY <2>3
    <3> HIDE DEF q, e
    <3>4. /\ q \o e \in Seq(Words) /\ Len(q \o e) = Len(q) + Len(e)
          /\ \A i \in 1 .. Len(q) : (q \o e)[i] = q[i]
          /\ \A i \in 1 .. Len(e) : (q \o e)[Len(q) + i] = e[i]
      <4>1. q \in Seq(Words) /\ e \in Seq(Words)
        BY <3>2, <3>3
      <4> QED
        BY <4>1, Joint, Zenon
    <3>5. PICK m \in Seq(Words) : m = q \o e
      BY <3>4, Zenon
    <3>6. /\ Reply(m) /\ server'.mode = "skip"
      BY <2>2, <3>1, <3>5 DEF q, e
    <3>7. /\ Len(m) = k + 1 /\ \A i \in 1 .. k : m[i] = Row(u, from + i)
          /\ m[k + 1] = Msg("error", u)
      <4>1. /\ Len(m) = Len(q) + Len(e) /\ \A i \in 1 .. Len(q) : m[i] = q[i]
            /\ \A i \in 1 .. Len(e) : m[Len(q) + i] = e[i]
        BY <3>4, <3>5, Zenon
      <4>2. /\ Len(m) = k + 1 /\ \A i \in 1 .. k : m[i] = q[i]
            /\ m[k + 1] = e[1]
        BY <3>2, <3>3, <4>1
      <4> QED
        BY <1>8, <3>2, <3>3, <4>2
    <3>8. k \in 0 .. Rows - from
      BY <1>5, StreamsAssumption
    <3>9. Replies(m, k)
      BY <3>6, <3>7
    <3> HIDE DEF Replies
    <3> QED
      BY <3>8, <3>9
  <2>6. CASE /\ Reply(<<Msg("copyOut", u)>>)
             /\ server' = [server EXCEPT !.mode = "skip"]
    <3>1. PICK m \in Seq(Words) : m = <<Msg("copyOut", u)>>
      <4>1. <<Msg("copyOut", u)>> \in Seq(Words)
        BY <2>3
      <4> QED
        BY <4>1, Zenon
    <3>2. Len(m) = 0 + 1 /\ m[0 + 1] = Msg("copyOut", u) /\ Reply(m) /\ server'.mode = "skip"
      BY <2>2, <2>6, <3>1
    <3>3. 0 \in 0 .. Rows - from /\ \A i \in 1 .. 0 : m[i] = Row(u, from + i)
      BY StreamsAssumption
    <3>4. Replies(m, 0)
      BY <3>2, <3>3
    <3> HIDE DEF Replies
    <3> QED
      BY <3>3, <3>4
  <2> HIDE DEF Replies
  <2> QED
    BY <2>1, <2>4, <2>5, <2>6
<1>p. PICK m \in Seq(Words), k \in 0 .. Rows - from : Replies(m, k)
  BY <1>9
<1>10. /\ Linked(m, u) /\ m # <<>> /\ \A i \in 1 .. Len(m) : m[i].use # None
       /\ m[Len(m)] = m[k + 1]
       /\ (m[1].kind = "data" /\ m[1].row = from + 1) \/ (k = 0 /\ m[1] = m[k + 1])
  <2>1. \/ m[k + 1] = Msg("suspended", u)
        \/ m[k + 1] = Msg("complete", u) /\ from + k = Rows
        \/ m[k + 1] = Msg("error", u)
        \/ m[k + 1] = Msg("copyOut", u) /\ k = 0
    BY <1>p
  <2>2. Len(m) = k + 1 /\ \A i \in 1 .. k : m[i] = Row(u, from + i)
    BY <1>p
  <2> QED
    BY <1>4, <2>1, <2>2, RowsLinked
<1>11. Got(u)' = from /\ Got(u) = from /\ pc'[u] = "fetching" /\ Going(u)'
  BY <1>1, <1>2, <1>3, <1>5 DEF Got, Going
<1>12. Expects(u, m[1])'
  <2>1. ASSUME NEW y, \/ y.kind = "data" /\ y.row = from + 1
                      \/ y.kind = "complete" /\ from = Rows
                      \/ y.kind \in {"suspended", "error", "copyOut"}
        PROVE  Expects(u, y)'
    BY <1>11, <2>1 DEF Expects
  <2>2. k = 0 => \/ m[k + 1].kind = "complete" /\ from = Rows
                 \/ m[k + 1].kind \in {"suspended", "error", "copyOut"}
    BY <1>p, MsgFacts
  <2> QED
    BY <1>10, <2>1, <2>2
<1>13. ASSUME Inflow' = <<>> \o m PROVE Ends(u, m[Len(m)])'
  <2>1. <<>> \o m = m
    BY ConcatEmptySeq
  <2>2. Len(Inflow') = k + 1
    BY <1>p, <1>13, <2>1
  <2>3. Idling'
    BY <1>1, <1>2 DEF Idling
  <2>4. from + k = from + (k + 1) - 1
    OBVIOUS
  <2>5. \/ m[k + 1].kind = "suspended" /\ server'.mode = "portal"
           /\ server'.pos = Got(u)' + Len(Inflow') - 1
        \/ m[k + 1].kind = "complete" /\ server'.mode = "portal"
        \/ m[k + 1].kind \in {"error", "copyOut"} /\ server'.mode = "skip"
    BY <1>p, <1>11, <2>2, <2>4, MsgFacts
  <2>6. ASSUME NEW z, z = m[k + 1] PROVE Ends(u, z)'
    BY <1>4, <1>11, <2>3, <2>5, <2>6 DEF Ends
  <2> QED
    BY <1>10, <2>6
<1>14. PICK s \in Seq(Words) : s = <<>>
  BY EmptySeq
<1>15. Linked(s, u) /\ \A i \in 1 .. Len(s) : s[i].use # None
  BY <1>14 DEF Linked
<1>16. Flow(u)'
  <2>1. s = Inflow /\ rbuf' = rbuf /\ (Inflow' = s \o m => Ends(u, m[Len(m)])')
    BY <1>1, <1>2, <1>13, <1>14
  <2> QED
    BY <1>p, <1>10, <1>12, <1>14, <1>15, <2>1, FlowReplies
<1> QED
  BY <1>11, <1>16

\* Answers of one or two messages.
LEMMA Answers ==
  ASSUME NEW u \in Uses, NEW a \in Words, a.use = u
  PROVE  /\ <<a>> \in Seq(Words) /\ <<a>> # <<>> /\ Linked(<<a>>, u)
         /\ <<a>>[1] = a /\ <<a>>[Len(<<a>>)] = a
         /\ \A i \in 1 .. Len(<<a>>) : <<a>>[i].use # None
<1>1. u # None
  BY StreamsAssumption
<1>2. /\ <<a>> \in Seq(Words) /\ Len(<<a>>) = 1 /\ <<a>>[1] = a /\ <<a>> # <<>>
  OBVIOUS
<1>3. Linked(<<a>>, u)
  BY <1>2 DEF Linked
<1> QED
  BY <1>1, <1>2, <1>3

\* ... in two messages.
LEMMA AnswersTwo ==
  ASSUME NEW u \in Uses, NEW a \in Words, a.use = u,
         NEW b \in Words, b.use = u, Follows(a, b)
  PROVE  \E m \in Seq(Words) :
           /\ m = <<a, b>> /\ m # <<>> /\ Linked(m, u) /\ m[1] = a /\ m[Len(m)] = b
           /\ \A i \in 1 .. Len(m) : m[i].use # None
<1>1. u # None
  BY StreamsAssumption
<1>2. /\ <<a, b>> \in Seq(Words) /\ Len(<<a, b>>) = 2 /\ <<a, b>>[1] = a /\ <<a, b>>[2] = b
      /\ <<a, b>> # <<>>
  OBVIOUS
<1>3. PICK m \in Seq(Words) : m = <<a, b>>
  BY <1>2
<1>4. /\ Len(m) = 2 /\ m[1] = a /\ m[1 + 1] = b /\ m[2] = b /\ m # <<>>
  BY <1>2, <1>3
<1>5. \A i \in 1 .. Len(m) : m[i].use = u
  BY <1>4
<1>6. \A i \in 1 .. Len(m) - 1 : Follows(m[i], m[i + 1])
  <2> SUFFICES ASSUME NEW i \in 1 .. Len(m) - 1 PROVE Follows(m[i], m[i + 1])
    OBVIOUS
  <2>1. i = 1
    BY <1>4
  <2> QED
    BY <1>4, <2>1
<1>7. Linked(m, u)
  BY <1>5, <1>6 DEF Linked
<1>8. m[Len(m)] = b /\ \A i \in 1 .. Len(m) : m[i].use # None
  BY <1>1, <1>4, <1>5
<1> QED
  BY <1>3, <1>4, <1>7, <1>8

\* A server that has nothing to take.
LEMMA NothingAsked ==
  ASSUME toServer' = <<>>
  PROVE  Idling'
<1>1. Len(toServer') = 0
  OBVIOUS
<1> QED
  BY <1>1 DEF Idling

LEMMA FlowSynced ==
  ASSUME TypeInv, Control, Live, ServerSyncs
  PROVE  \E u \in Uses : Flow(u)' /\ Going(u)'
<1> USE DEF connVars, useVars
<1>1. /\ toServer # <<>> /\ Head(toServer).kind \in {"sync", "close"}
      /\ toServer' = Tail(toServer) /\ server' = Idle
      /\ Reply(<<Msg("ready", Head(toServer).use)>>)
      /\ UNCHANGED <<rbuf, pc, batch, moved, failed, stored, committed>>
  BY DEF ServerSyncs, Incoming
<1>2. PICK u \in Uses, a \in {"open", "fetch", "sync", "close", "query"} :
        /\ Going(u) /\ Inflow = <<>>
        /\ Head(toServer) = Frame(a, u) /\ Tail(toServer) = <<>>
        /\ \/ pc[u] \in {"syncing", "closing"}
           \/ a \notin {"sync", "close"}
  <2>1. ~Stale(Head(toServer))
    BY <1>1 DEF Stale
  <2> QED
    BY <1>1, <2>1, Asked
<1>3. Head(toServer).use = u /\ pc[u] \in {"syncing", "closing"}
  BY <1>1, <1>2 DEF Frame
<1>4. PICK x \in Words : x = Msg("ready", u) /\ x.kind = "ready" /\ x.use = u
  BY MsgFacts
<1>5. PICK m \in Seq(Words) :
        /\ m = <<x>> /\ m # <<>> /\ Linked(m, u) /\ m[1] = x /\ m[Len(m)] = x
        /\ \A i \in 1 .. Len(m) : m[i].use # None
  BY <1>4, Answers
<1>6. PICK s \in Seq(Words) : s = <<>>
  BY EmptySeq
<1>7. Linked(s, u) /\ \A i \in 1 .. Len(s) : s[i].use # None
  BY <1>6 DEF Linked
<1>8. Expects(u, m[1])'
  BY <1>1, <1>3, <1>4, <1>5 DEF Expects
<1>9. Ends(u, m[Len(m)])'
  <2>1. toServer' = <<>> /\ server'.mode = "idle"
    BY <1>1, <1>2, IdleFacts
  <2>2. Idling'
    BY <2>1, NothingAsked
  <2> QED
    BY <1>4, <1>5, <2>1, <2>2 DEF Ends
<1>10. s = Inflow /\ rbuf' = rbuf /\ Reply(m) /\ Going(u)'
  BY <1>1, <1>2, <1>3, <1>4, <1>5, <1>6 DEF Going
<1>11. Flow(u)'
  BY <1>5, <1>6, <1>7, <1>8, <1>9, <1>10, FlowReplies
<1> QED
  BY <1>10, <1>11

LEMMA FlowCopies ==
  ASSUME TypeInv, Control, Live, \A v \in Uses : Account(v), ServerCopies
  PROVE  \E u \in Uses : Flow(u)' /\ Going(u)'
<1> USE DEF connVars, useVars
<1>1. /\ toServer # <<>> /\ Head(toServer).kind = "query"
      /\ toServer' = Tail(toServer) /\ server.mode = "idle"
      /\ UNCHANGED <<rbuf, pc, batch, moved, failed, stored, committed>>
  BY DEF ServerCopies, Incoming
<1>2. PICK u \in Uses, a \in {"open", "fetch", "sync", "close", "query"} :
        /\ Going(u) /\ Inflow = <<>>
        /\ Head(toServer) = Frame(a, u) /\ Tail(toServer) = <<>>
        /\ \/ pc[u] \in {"reading", "starting"} /\ Got(u) = 0 /\ u \notin failed
           \/ a # "query"
  <2>1. ~Stale(Head(toServer))
    BY <1>1 DEF Stale
  <2> QED
    BY <1>1, <2>1, Asked
<1>3. Head(toServer).use = u /\ pc[u] \in {"reading", "starting"} /\ Got(u) = 0 /\ u \notin failed
  BY <1>1, <1>2 DEF Frame
<1>4. /\ u # None /\ u \notin Cursors /\ (pc[u] = "reading" <=> u \in Outs)
      /\ (pc[u] = "starting" <=> u \in Ins)
  BY <1>3, PhaseFacts
<1>5. Got(u)' = 0 /\ pc'[u] = pc[u] /\ Going(u)' /\ Inflow = <<>> /\ rbuf' = rbuf
  BY <1>1, <1>2, <1>3 DEF Got, Going
<1>6. Idling' /\ toServer' = <<>>
  <2>1. toServer' = <<>>
    BY <1>1, <1>2
  <2> QED
    BY <2>1, NothingAsked
<1>7. PICK s \in Seq(Words) : s = <<>>
  BY EmptySeq
<1>8. Linked(s, u) /\ \A i \in 1 .. Len(s) : s[i].use # None
  BY <1>7 DEF Linked
<1>9. PICK m \in Seq(Words) :
        /\ Reply(m) /\ m # <<>> /\ Linked(m, u) /\ \A i \in 1 .. Len(m) : m[i].use # None
        /\ \/ pc[u] = "starting"
           \/ m[1].kind \in {"copyOut", "error"}
        /\ \/ /\ m[Len(m)].kind = IF u \in Outs THEN "copyOut" ELSE "copyIn"
              /\ m[Len(m)].row = 0
              /\ server' = [mode |-> m[Len(m)].kind, use |-> u, pos |-> 0]
           \/ m[Len(m)].kind = "ready" /\ server' = server
  <2> DEFINE mode == IF u \in Outs THEN "copyOut" ELSE "copyIn"
  <2>1. CASE /\ Reply(<<Msg(mode, u)>>)
             /\ server' = [mode |-> mode, use |-> u, pos |-> 0]
    <3>1. PICK x \in Words : /\ x = Msg(mode, u)
                             /\ x.kind = mode /\ x.use = u /\ x.row = 0
      BY MsgFacts
    <3>2. PICK m \in Seq(Words) :
            /\ m = <<x>> /\ m # <<>> /\ Linked(m, u) /\ m[1] = x /\ m[Len(m)] = x
            /\ \A i \in 1 .. Len(m) : m[i].use # None
      <4>1. /\ <<x>> \in Seq(Words) /\ <<x>> # <<>> /\ Linked(<<x>>, u)
            /\ <<x>>[1] = x /\ <<x>>[Len(<<x>>)] = x
            /\ \A i \in 1 .. Len(<<x>>) : <<x>>[i].use # None
        BY <3>1, Answers, Zenon
      <4> QED
        BY <4>1, Zenon
    <3>3. Reply(m) /\ (pc[u] = "starting" \/ m[1].kind \in {"copyOut", "error"})
      BY <1>3, <1>4, <2>1, <3>1, <3>2
    <3> QED
      BY <2>1, <3>1, <3>2, <3>3
  <2>2. CASE \E kind \in {"error"} \cup (IF u \in Ins THEN {"complete"} ELSE {}) :
               Reply(<<Msg(kind, u), Msg("ready", u)>>) /\ UNCHANGED server
    <3>1. PICK kind \in {"error", "complete"} :
            /\ Reply(<<Msg(kind, u), Msg("ready", u)>>) /\ server' = server
            /\ u \in Ins \/ kind = "error"
      BY <2>2
    <3>2. PICK x \in Words : x = Msg(kind, u) /\ x.kind = kind /\ x.use = u
      BY MsgFacts
    <3>3. PICK y \in Words : y = Msg("ready", u) /\ y.kind = "ready" /\ y.use = u
      BY MsgFacts
    <3>4. Follows(x, y)
      BY <1>4, <3>1, <3>2, <3>3 DEF Follows
    <3>5. PICK m \in Seq(Words) :
            /\ m = <<x, y>> /\ m # <<>> /\ Linked(m, u) /\ m[1] = x /\ m[Len(m)] = y
            /\ \A i \in 1 .. Len(m) : m[i].use # None
      <4>1. x.use = u /\ y.use = u /\ Follows(x, y) /\ x \in Words /\ y \in Words
        BY <3>2, <3>3, <3>4
      <4> QED
        BY <4>1, AnswersTwo
    <3>6. Reply(m) /\ (pc[u] = "starting" \/ m[1].kind \in {"copyOut", "error"})
      BY <1>3, <1>4, <3>1, <3>2, <3>3, <3>5
    <3> QED
      BY <3>1, <3>3, <3>5, <3>6
  <2>3. \/ Reply(<<Msg(mode, u)>>) /\ server' = [mode |-> mode, use |-> u, pos |-> 0]
        \/ \E kind \in {"error"} \cup (IF u \in Ins THEN {"complete"} ELSE {}) :
             Reply(<<Msg(kind, u), Msg("ready", u)>>) /\ UNCHANGED server
    BY <1>3 DEF ServerCopies
  <2> QED
    BY <2>1, <2>2, <2>3
<1>10. Expects(u, m[1])'
  BY <1>3, <1>4, <1>5, <1>9 DEF Expects
<1>11. Ends(u, m[Len(m)])'
  <2>1. PICK z : z = m[Len(m)]
    OBVIOUS
  <2>2. CASE z.kind = "ready" /\ server' = server
    BY <1>1, <1>6, <2>1, <2>2 DEF Ends
  <2>3. CASE /\ z.kind = IF u \in Outs THEN "copyOut" ELSE "copyIn"
             /\ z.row = 0 /\ server' = [mode |-> z.kind, use |-> u, pos |-> 0]
    <3>1. CASE u \in Outs
      BY <1>6, <2>1, <2>3, <3>1 DEF Ends, Feeds
    <3>2. CASE u \notin Outs
      <4>1. u \in Ins /\ pc[u] = "starting" /\ z.kind = "copyIn"
        BY <1>3, <1>4, <2>3, <3>2
      <4>2. moved[u] = <<>> /\ stored[u] = <<>> /\ u \notin committed
        BY <4>1 DEF Account
      <4>3. Final(u)' = <<>>
        BY <1>5, <4>1 DEF Final
      <4>4. /\ Len(stored'[u]) = 0 /\ Len(moved'[u]) = 0 /\ Len(toServer') = 0
            /\ Len(Final(u)') = 0
        BY <1>1, <1>6, <4>2, <4>3
      <4>5. server'.mode = "copyIn" /\ server'.use = u /\ u \notin committed' /\ u \notin failed'
        BY <1>1, <1>3, <2>3, <4>1, <4>2
      <4>6. \A i \in 1 .. Len(toServer') : FALSE
        BY <4>4
      <4>7. Feeding(u)'
        BY <4>4, <4>5, <4>6 DEF Feeding
      <4> QED
        BY <1>5, <2>1, <4>1, <4>7 DEF Ends
    <3> QED
      BY <3>1, <3>2
  <2> QED
    BY <1>9, <2>1, <2>2, <2>3
<1>12. Flow(u)'
  <2>1. s = Inflow
    BY <1>5, <1>7
  <2> QED
    BY <1>5, <1>7, <1>8, <1>9, <1>10, <1>11, <2>1, FlowReplies
<1> QED
  BY <1>5, <1>12

\* A server that sends the rows of a COPY.
LEMMA Streamed ==
  ASSUME TypeInv, Control, Live, ~Broken, server.mode = "copyOut", NEW u \in Uses, Going(u)
  PROVE  /\ server.use = u /\ u \in Outs /\ Idling
         /\ \E s \in Seq(Words) :
              /\ s = Inflow /\ Linked(s, u) /\ \A i \in 1 .. Len(s) : s[i].use # None
              /\ s # <<>> => /\ Expects(u, s[1])
                             /\ s[Len(s)].kind \in {"data", "copyOut"}
                             /\ s[Len(s)].row = server.pos
              /\ s = <<>> => \/ pc[u] \in {"reading", "yielded"} /\ server.pos = Got(u)
                             \/ pc[u] = "draining"
<1>1. PICK s \in Seq(Words) :
           /\ s = Inflow /\ Linked(s, u)
           /\ s # <<>> => Expects(u, s[1])
           /\ \A i \in 1 .. Len(s) : s[i].use # None
           /\ s # <<>> => Ends(u, s[Len(s)])
           /\ s = <<>> => Rest(u)
  BY Called
<1>2. ~Feeding(u)
  BY DEF Feeding
<1>3. CASE s = <<>>
  <2>1. \/ pc[u] \in {"reading", "yielded"} /\ u \in Outs /\ Feeds(u, Got(u))
        \/ pc[u] = "draining" /\ Feeds(u, server.pos)
    BY <1>1, <1>2, <1>3 DEF Rest
  <2>2. u \in Outs
    BY <2>1, PhaseFacts
  <2> QED
    BY <1>1, <1>3, <2>1, <2>2 DEF Feeds
<1>4. CASE s # <<>>
  <2>1. PICK z : z = s[Len(s)]
    OBVIOUS
  <2>2. Ends(u, z)
    BY <1>1, <1>4, <2>1
  <2>3. u \in Outs /\ z.kind \in {"data", "copyOut"} /\ Feeds(u, z.row)
    BY <1>2, <2>2 DEF Ends
  <2> QED
    BY <1>1, <1>4, <2>1, <2>3 DEF Feeds
<1> QED
  BY <1>3, <1>4

\* Nothing that u goes by changes.
LEMMA ExpectsKept ==
  ASSUME NEW u, UNCHANGED <<pc, batch, moved, failed, stored, committed>>, NEW y, Expects(u, y)
  PROVE  Expects(u, y)'
BY DEF Expects, Got, Stored

LEMMA FlowStreams ==
  ASSUME TypeInv, Control, Live, ~Broken, server.mode = "copyOut", NEW u \in Uses, Going(u),
         ServerStreams \/ ServerFails
  PROVE  Flow(u)' /\ Going(u)'
<1> USE DEF connVars, useVars
<1>1. /\ server.use = u /\ u \in Outs /\ u # None /\ Idling
      /\ u \notin Cursors /\ u \notin Ins
  BY Streamed, PhaseFacts, StreamsAssumption
<1>2. PICK s \in Seq(Words) :
        /\ s = Inflow /\ Linked(s, u) /\ \A i \in 1 .. Len(s) : s[i].use # None
        /\ s # <<>> => /\ Expects(u, s[1])
                       /\ s[Len(s)].kind \in {"data", "copyOut"}
                       /\ s[Len(s)].row = server.pos
        /\ s = <<>> => \/ pc[u] \in {"reading", "yielded"} /\ server.pos = Got(u)
                       \/ pc[u] = "draining"
  BY Streamed
<1>3. /\ UNCHANGED <<rbuf, pc, batch, moved, failed, stored, committed, toServer>>
      /\ Got(u)' = Got(u) /\ Idling' /\ Going(u)'
  BY <1>1 DEF ServerStreams, ServerFails, Got, Idling, Going
<1>4. s # <<>> => s[Len(s)] \in Words /\ s[Len(s)].use = u
  <2>1. s # <<>> => Len(s) \in 1 .. Len(s)
    BY EmptySeq
  <2> QED
    BY <1>2, <2>1, ElementOfSeq DEF Linked
<1>5. PICK p \in 0 .. Rows : server.pos = p
  BY ServerFacts
<1>6. Rows \in Nat
  BY StreamsAssumption
<1>7. PICK m \in Seq(Words) :
        /\ m # <<>> /\ Linked(m, u) /\ \A i \in 1 .. Len(m) : m[i].use # None
        /\ Reply(m) /\ m[1].use = u
        /\ \/ m[1].kind = "data" /\ m[1].row = p + 1
           \/ m[1].kind = "complete" /\ p = Rows
           \/ m[1].kind = "error"
        /\ \/ m[Len(m)].kind = "ready" /\ server'.mode = "idle"
           \/ /\ m[Len(m)].kind = "data" /\ server'.pos = m[Len(m)].row
              /\ server'.mode = "copyOut" /\ server'.use = u
  <2>1. CASE ServerStreams /\ p < Rows
    <3>1. PICK x \in Words : x = Row(u, p + 1) /\ x.use = u /\ x.kind = "data" /\ x.row = p + 1
      <4>1. p + 1 \in 1 .. Rows
        BY <1>6, <2>1
      <4> QED
        BY <4>1, MsgFacts
    <3>2. /\ Reply(<<x>>) /\ server' = [server EXCEPT !.pos = @ + 1]
      BY <1>1, <1>5, <2>1, <3>1 DEF ServerStreams
    <3>3. server' = [server EXCEPT !.pos = p + 1]
      BY <1>5, <3>2
    <3>4. server'.mode = "copyOut" /\ server'.use = u /\ server'.pos = p + 1
      <4>1. p + 1 \in 0 .. Rows
        BY <1>6, <2>1
      <4>2. \A i \in 0 .. Rows :
              /\ [server EXCEPT !.pos = i].mode = server.mode
              /\ [server EXCEPT !.pos = i].use = server.use
              /\ [server EXCEPT !.pos = i].pos = i
        BY ServerFacts
      <4> QED
        BY <1>1, <3>3, <4>1, <4>2, Zenon
    <3>5. /\ <<x>> \in Seq(Words) /\ <<x>> # <<>> /\ Linked(<<x>>, u)
          /\ <<x>>[1] = x /\ <<x>>[Len(<<x>>)] = x
          /\ \A i \in 1 .. Len(<<x>>) : <<x>>[i].use # None
      BY <3>1, Answers, Zenon
    <3>6. PICK m \in Seq(Words) :
            /\ m = <<x>> /\ m # <<>> /\ Linked(m, u) /\ m[1] = x /\ m[Len(m)] = x
            /\ \A i \in 1 .. Len(m) : m[i].use # None
      BY <3>5, Zenon
    <3> QED
      BY <3>1, <3>2, <3>4, <3>6
  <2>2. CASE ServerFails \/ p = Rows
    <3>1. PICK k \in {"complete", "error"} :
            /\ Reply(<<Msg(k, u), Msg("ready", u)>>) /\ server' = Idle
            /\ k = "error" \/ p = Rows
      BY <1>1, <1>5, <2>2, <1>6 DEF ServerStreams, ServerFails
    <3>2. PICK x \in Words : x = Msg(k, u) /\ x.kind = k /\ x.use = u
      BY MsgFacts
    <3>3. PICK y \in Words : y = Msg("ready", u) /\ y.kind = "ready" /\ y.use = u
      BY MsgFacts
    <3>4. Follows(x, y)
      BY <1>1, <3>1, <3>2, <3>3 DEF Follows
    <3>5. PICK m \in Seq(Words) :
            /\ m = <<x, y>> /\ m # <<>> /\ Linked(m, u) /\ m[1] = x /\ m[Len(m)] = y
            /\ \A i \in 1 .. Len(m) : m[i].use # None
      <4>1. x.use = u /\ y.use = u /\ Follows(x, y) /\ x \in Words /\ y \in Words
        BY <3>2, <3>3, <3>4
      <4> QED
        BY <4>1, AnswersTwo
    <3> QED
      BY <3>1, <3>2, <3>3, <3>5, IdleFacts
  <2> QED
    BY <1>6, <2>1, <2>2
<1>8. IF s = <<>> THEN Expects(u, m[1])'
                  ELSE Follows(s[Len(s)], m[1]) /\ Expects(u, s[1])'
  <2>1. CASE s = <<>>
    <3>1. \/ pc'[u] \in {"reading", "yielded"} /\ p = Got(u)'
          \/ pc'[u] = "draining"
      BY <1>2, <1>3, <1>5, <2>1
    <3> QED
      BY <1>1, <1>7, <2>1, <3>1 DEF Expects
  <2>2. CASE s # <<>>
    <3>1. Expects(u, s[1])'
      BY <1>2, <1>3, <2>2, ExpectsKept
    <3>2. Follows(s[Len(s)], m[1])
      BY <1>1, <1>2, <1>4, <1>5, <1>7, <2>2 DEF Follows
    <3> QED
      BY <2>2, <3>1, <3>2
  <2> QED
    BY <2>1, <2>2
<1>9. Ends(u, m[Len(m)])'
  BY <1>1, <1>3, <1>7 DEF Ends, Feeds
<1>10. Flow(u)'
  BY <1>2, <1>3, <1>7, <1>8, <1>9, FlowReplies
<1> QED
  BY <1>3, <1>10

\* The states of a writer whose COPY the server takes.
LEMMA Copying ==
  ASSUME TypeInv, Control, Live, ~Broken, server.mode = "copyIn"
  PROVE  \E u \in Ins, s \in Seq(Words) :
           /\ u \in Uses /\ server.use = u /\ Going(u) /\ Feeding(u) /\ Idling
           /\ s = Inflow /\ Linked(s, u) /\ \A i \in 1 .. Len(s) : s[i].use # None
           /\ s # <<>> => /\ Expects(u, s[1]) /\ pc[u] = "starting"
                          /\ s[Len(s)] \in Words /\ s[Len(s)].use = u
                          /\ s[Len(s)].kind = "copyIn"
           /\ s = <<>> => pc[u] \in {"open", "ending", "failing"}
<1>1. PICK u \in Ins : u \in Uses /\ server.use = u /\ Going(u) /\ Feeding(u)
  BY Fed
<1>2. Idling
  BY <1>1, FeedingIdles
<1>3. PICK s \in Seq(Words) :
           /\ s = Inflow /\ Linked(s, u)
           /\ s # <<>> => Expects(u, s[1])
           /\ \A i \in 1 .. Len(s) : s[i].use # None
           /\ s # <<>> => Ends(u, s[Len(s)])
           /\ s = <<>> => Rest(u)
  BY <1>1, Called
<1>4. s # <<>> => s[Len(s)] \in Words /\ s[Len(s)].use = u
  <2>1. s # <<>> => Len(s) \in 1 .. Len(s)
    BY EmptySeq
  <2> QED
    BY <1>3, <2>1, ElementOfSeq DEF Linked
<1>5. s = <<>> => pc[u] \in {"open", "ending", "failing"}
  BY <1>3 DEF Rest, Feeds
<1>6. s # <<>> => s[Len(s)].kind = "copyIn" /\ pc[u] = "starting"
  BY <1>3 DEF Ends, Feeds
<1> QED
  BY <1>1, <1>2, <1>3, <1>4, <1>5, <1>6

\* A server that gives up a COPY FROM STDIN.
LEMMA FlowFails ==
  ASSUME TypeInv, Control, Live, ~Broken, server.mode = "copyIn", ServerFails
  PROVE  \E u \in Uses : Flow(u)' /\ Going(u)'
<1> USE DEF connVars, useVars
<1>1. PICK u \in Ins, s \in Seq(Words) :
        /\ u \in Uses /\ server.use = u /\ Going(u) /\ Feeding(u) /\ Idling
        /\ s = Inflow /\ Linked(s, u) /\ \A i \in 1 .. Len(s) : s[i].use # None
        /\ s # <<>> => /\ Expects(u, s[1]) /\ pc[u] = "starting"
                       /\ s[Len(s)] \in Words /\ s[Len(s)].use = u
                       /\ s[Len(s)].kind = "copyIn"
        /\ s = <<>> => pc[u] \in {"open", "ending", "failing"}
  BY Copying
<1>2. /\ UNCHANGED <<rbuf, pc, batch, moved, failed, stored, committed, toServer>>
      /\ Idling' /\ Going(u)' /\ server' = Idle
      /\ Reply(<<Msg("error", u), Msg("ready", u)>>)
      /\ u \notin committed' /\ u \notin Cursors /\ u # None
  <2>1. u \notin Cursors /\ u # None
    BY <1>1, StreamsAssumption
  <2>2. u \notin committed'
    BY <1>1 DEF ServerFails, Feeding
  <2> QED
    BY <1>1, <2>1, <2>2 DEF ServerFails, Idling, Going
<1>3. PICK x \in Words : x = Msg("error", u) /\ x.kind = "error" /\ x.use = u
  BY <1>1, MsgFacts
<1>4. PICK y \in Words : y = Msg("ready", u) /\ y.kind = "ready" /\ y.use = u
  BY <1>1, MsgFacts
<1>5. PICK m \in Seq(Words) :
        /\ m = <<x, y>> /\ m # <<>> /\ Linked(m, u) /\ m[1] = x /\ m[Len(m)] = y
        /\ \A i \in 1 .. Len(m) : m[i].use # None
  <2>1. /\ x.use = u /\ y.use = u /\ Follows(x, y) /\ x \in Words /\ y \in Words
        /\ u \in Uses
    BY <1>1, <1>2, <1>3, <1>4 DEF Follows
  <2> QED
    BY <2>1, AnswersTwo
<1>6. Reply(m)
  BY <1>2, <1>3, <1>4, <1>5
<1>7. IF s = <<>> THEN Expects(u, m[1])'
                  ELSE Follows(s[Len(s)], m[1]) /\ Expects(u, s[1])'
  <2>1. CASE s = <<>>
    <3>1. pc'[u] \in {"open", "ending", "failing"}
      BY <1>1, <1>2, <2>1
    <3>2. Expects(u, x)'
      BY <1>2, <1>3, <3>1 DEF Expects
    <3> QED
      BY <1>5, <2>1, <3>2
  <2>2. CASE s # <<>>
    <3>1. Expects(u, s[1])'
      BY <1>1, <1>2, <2>2, ExpectsKept
    <3>2. Follows(s[Len(s)], x)
      BY <1>1, <1>2, <1>3, <2>2 DEF Follows
    <3> QED
      BY <1>5, <2>2, <3>1, <3>2
  <2> QED
    BY <2>1, <2>2
<1>8. Ends(u, m[Len(m)])'
  BY <1>2, <1>4, <1>5, IdleFacts DEF Ends
<1>9. Flow(u)'
  BY <1>1, <1>2, <1>5, <1>6, <1>7, <1>8, FlowReplies
<1> QED
  BY <1>1, <1>2, <1>9

\* One frame less of a COPY that the server takes.
LEMMA FeedingLess ==
  ASSUME TypeInv, NEW u \in Uses, Feeding(u), toServer # <<>>, toServer' = Tail(toServer),
         UNCHANGED <<server, pc, moved, failed, committed>>,
         Len(stored[u]) + 1 <= Len(moved[u]), Len(stored'[u]) = Len(stored[u]) + 1
  PROVE  Feeding(u)'
<1>1. PICK a \in Nat, b \in Nat, c \in Nat :
        a = Len(stored[u]) /\ b = Len(moved[u]) /\ c = Len(toServer)
  <2>1. Len(stored[u]) \in Nat /\ Len(moved[u]) \in Nat /\ Len(toServer) \in Nat
    BY DEF TypeInv, TypeOK
  <2> QED
    BY <2>1, Zenon
<1>2. PICK q : q = toServer'
  OBVIOUS
<1>3. Len(q) = c - 1 /\ \A i \in 1 .. c - 1 : q[i] = toServer[i + 1] /\ i + 1 \in 1 .. c
  BY <1>1, <1>2, Dequeued DEF TypeInv
<1>4. PICK e : e = Final(u)
  OBVIOUS
<1>5. /\ server.mode = "copyIn" /\ server.use = u /\ u \notin committed /\ u \notin failed
      /\ a + c = b + Len(e) /\ a + 1 <= b
      /\ \A i \in 1 .. c :
           IF a + i <= b THEN toServer[i] = [Frame("chunk", u) EXCEPT !.row = a + i]
                         ELSE toServer[i] = e[1]
  BY <1>1, <1>4 DEF Feeding
<1>6. ASSUME NEW i \in 1 .. c - 1
      PROVE  IF (a + 1) + i <= b THEN q[i] = [Frame("chunk", u) EXCEPT !.row = (a + 1) + i]
                                 ELSE q[i] = e[1]
  <2>1. i + 1 \in 1 .. c /\ q[i] = toServer[i + 1] /\ a + (i + 1) = (a + 1) + i
    BY <1>3
  <2>2. IF a + (i + 1) <= b
        THEN toServer[i + 1] = [Frame("chunk", u) EXCEPT !.row = a + (i + 1)]
        ELSE toServer[i + 1] = e[1]
    BY <1>5, <2>1, Zenon
  <2> QED
    BY <2>1, <2>2, Zenon
<1>7. (a + 1) + (c - 1) = b + Len(e)
  <2>1. (a + 1) + (c - 1) = a + c
    BY <1>1
  <2> QED
    BY <1>5, <2>1, Zenon
<1>8. Len(stored'[u]) = a + 1 /\ Len(moved'[u]) = b /\ Final(u)' = e
  BY <1>1, <1>4 DEF Final
<1> QED
  BY <1>2, <1>3, <1>5, <1>6, <1>7, <1>8 DEF Feeding

\* A server that takes a frame of a COPY.
LEMMA FlowTakes ==
  ASSUME TypeInv, Control, Live, ~Broken, server.mode = "copyIn", ServerTakes
  PROVE  \E u \in Uses : Flow(u)' /\ Going(u)'
<1> USE DEF connVars, useVars, serverVars
<1>1. PICK u \in Ins, s \in Seq(Words) :
        /\ u \in Uses /\ server.use = u /\ Going(u) /\ Feeding(u) /\ Idling
        /\ s = Inflow /\ Linked(s, u) /\ \A i \in 1 .. Len(s) : s[i].use # None
        /\ s # <<>> => /\ Expects(u, s[1]) /\ pc[u] = "starting"
                       /\ s[Len(s)] \in Words /\ s[Len(s)].use = u
                       /\ s[Len(s)].kind = "copyIn"
        /\ s = <<>> => pc[u] \in {"open", "ending", "failing"}
  BY Copying
<1>2. /\ UNCHANGED <<rbuf, pc, batch, moved, failed>>
      /\ toServer # <<>> /\ toServer' = Tail(toServer) /\ Going(u)'
      /\ u \notin Cursors /\ u \notin Outs /\ u # None
      /\ u \notin committed /\ u \notin failed
  <2>1. u \notin Cursors /\ u \notin Outs /\ u # None
    BY <1>1, StreamsAssumption
  <2> QED
    BY <1>1, <2>1 DEF ServerTakes, Incoming, Going, Feeding
<1>3. PICK f \in Orders : f = Head(toServer)
  BY <1>2, Dequeued, ElementOfSeq DEF TypeInv
<1>4. CASE f.kind = "chunk"
  <2>1. /\ stored' = [stored EXCEPT ![u] = Append(@, f)]
        /\ UNCHANGED <<toClient, server, committed>>
    BY <1>1, <1>3, <1>4 DEF ServerTakes
  <2>2. Len(stored[u]) + 1 <= Len(moved[u])
    BY <1>1, <1>2, <1>3, <1>4, FedNext
  <2>3. Len(stored'[u]) = Len(stored[u]) + 1
    <3>1. f \in Frames /\ stored[u] \in Seq(Frames) /\ stored'[u] = Append(stored[u], f)
      BY <1>1, <2>1 DEF TypeInv, TypeOK, Orders
    <3> QED
      BY <3>1, AppendProperties
  <2>4. Feeding(u)'
    BY <1>1, <1>2, <2>1, <2>2, <2>3, FeedingLess
  <2>5. Inflow' = s
    BY <1>1, <1>2, <2>1 DEF Inflow
  <2>6. s # <<>> => Expects(u, s[1])'
    <3>1. ASSUME NEW y, Expects(u, y), pc[u] = "starting" PROVE Expects(u, y)'
      BY <1>2, <3>1 DEF Expects
    <3> QED
      BY <1>1, <3>1
  <2>7. s = <<>> => Rest(u)'
    BY <1>1, <1>2, <2>4 DEF Rest
  <2>8. s # <<>> => Ends(u, s[Len(s)])'
    BY <1>1, <1>2, <2>4 DEF Ends
  <2>9. Flow(u)'
    BY <1>1, <2>5, <2>6, <2>7, <2>8, FlowNow
  <2> QED
    BY <1>1, <1>2, <2>9
<1>5. CASE f.kind # "chunk"
  <2>1. /\ Len(stored[u]) = Len(moved[u]) /\ Tail(toServer) = <<>>
        /\ \/ pc[u] = "ending" /\ f.kind = "done"
           \/ pc[u] = "failing" /\ f.kind = "fail"
    BY <1>1, <1>2, <1>3, <1>5, FedNext
  <2>2. PICK k \in {"complete", "error"} :
          /\ k = IF f.kind = "done" THEN "complete" ELSE "error"
          /\ Reply(<<Msg(k, u), Msg("ready", u)>>) /\ server' = Idle /\ stored' = stored
          /\ f.kind = "done" => u \in committed'
    BY <1>1, <1>3, <1>5 DEF ServerTakes
  <2>3. s = <<>> /\ Idling'
    BY <1>1, <1>2, <2>1, NothingAsked
  <2>4. PICK x \in Words : x = Msg(k, u) /\ x.kind = k /\ x.use = u
    BY <1>1, MsgFacts
  <2>5. PICK y \in Words : y = Msg("ready", u) /\ y.kind = "ready" /\ y.use = u
    BY <1>1, MsgFacts
  <2>6. PICK m \in Seq(Words) :
          /\ m = <<x, y>> /\ m # <<>> /\ Linked(m, u) /\ m[1] = x /\ m[Len(m)] = y
          /\ \A i \in 1 .. Len(m) : m[i].use # None
    <3>1. /\ x.use = u /\ y.use = u /\ Follows(x, y) /\ x \in Words /\ y \in Words
          /\ u \in Uses
      BY <1>1, <1>2, <2>2, <2>4, <2>5 DEF Follows
    <3> QED
      BY <3>1, AnswersTwo
  <2>7. Reply(m)
    BY <2>2, <2>4, <2>5, <2>6
  <2>8. Expects(u, x)'
    <3>1. CASE pc[u] = "ending" /\ f.kind = "done"
      <4>1. Stored(u)'
        BY <1>2, <2>1, <2>2, <3>1 DEF Stored
      <4> QED
        BY <1>2, <2>2, <2>4, <3>1, <4>1 DEF Expects
    <3>2. CASE pc[u] = "failing"
      BY <1>2, <3>2 DEF Expects
    <3> QED
      BY <2>1, <3>1, <3>2
  <2>9. Ends(u, m[Len(m)])'
    BY <2>2, <2>3, <2>5, <2>6, IdleFacts DEF Ends
  <2>10. IF s = <<>> THEN Expects(u, m[1])'
                     ELSE Follows(s[Len(s)], m[1]) /\ Expects(u, s[1])'
    BY <2>3, <2>6, <2>8
  <2>11. Flow(u)'
    BY <1>1, <1>2, <2>6, <2>7, <2>9, <2>10, FlowReplies
  <2> QED
    BY <1>1, <1>2, <2>11
<1> QED
  BY <1>4, <1>5

\* A server outside a COPY drops a frame of one.
LEMMA Dropped ==
  ASSUME TypeInv, toServer # <<>>, Stale(Head(toServer)), toServer' = Tail(toServer)
  PROVE  /\ Idling => Idling'
         /\ \A u \in Uses, k \in {"open", "query"} : Asks(k, u) => Asks(k, u)'
<1>1. PICK q : q = toServer'
  OBVIOUS
<1>2. /\ Len(toServer) \in Nat /\ Head(toServer) = toServer[1]
      /\ q \in Seq(Orders) /\ Len(q) = Len(toServer) - 1
      /\ \A i \in 1 .. Len(toServer) - 1 :
           q[i] = toServer[i + 1] /\ i + 1 \in 1 .. Len(toServer)
  BY <1>1, Dequeued DEF TypeInv
<1>3. ASSUME Idling PROVE Idling'
  <2>1. \A i \in 1 .. Len(q) : Stale(q[i])
    BY <1>2, <1>3 DEF Idling
  <2> QED
    BY <1>1, <2>1 DEF Idling
<1>4. ASSUME NEW u \in Uses, NEW k \in {"open", "query"}, Asks(k, u) PROVE Asks(k, u)'
  <2>1. /\ toServer[Len(toServer)] = Frame(k, u)
        /\ \A i \in 1 .. Len(toServer) - 1 : Stale(toServer[i])
    BY <1>4 DEF Asks
  <2>2. PICK c \in Nat : c = Len(toServer)
    BY <1>2
  <2>3. c # 1
    <3>1. ~Stale(Frame(k, u))
      BY DEF Stale, Frame
    <3> QED
      BY <1>2, <2>1, <2>2, <3>1
  <2>4. c > 1
    <3>1. c # 0
      BY <1>2, <2>2, EmptySeq DEF TypeInv
    <3> QED
      BY <2>3, <3>1
  <2>5. Len(q) = c - 1 /\ c - 1 \in 1 .. c - 1 /\ (c - 1) + 1 = c
    BY <1>2, <2>2, <2>4
  <2>6. q[c - 1] = toServer[c]
    <3>1. q[c - 1] = toServer[(c - 1) + 1]
      BY <1>2, <2>2, <2>5, Zenon
    <3> QED
      BY <2>5, <3>1, Zenon
  <2>7. \A i \in 1 .. Len(q) - 1 : Stale(q[i])
    <3> SUFFICES ASSUME NEW i \in 1 .. Len(q) - 1 PROVE Stale(q[i])
      OBVIOUS
    <3>1. i \in 1 .. c - 1 /\ i + 1 \in 1 .. c - 1
      BY <2>5
    <3> QED
      BY <1>2, <2>1, <2>2, <3>1
  <2>8. q # <<>>
    BY <2>4, <2>5
  <2>9. q[Len(q)] = Frame(k, u)
    BY <2>1, <2>2, <2>5, <2>6, Zenon
  <2> QED
    BY <1>1, <2>7, <2>8, <2>9 DEF Asks
<1> QED
  BY <1>3, <1>4

LEMMA LiveDrops ==
  ASSUME TypeInv, Control, Live, ~Broken, server.mode = "idle", ServerTakes
  PROVE  Live'
<1> USE DEF connVars, useVars, serverVars
<1>1. /\ UNCHANGED <<connVars, pc, batch, moved, failed, toClient, server, stored, committed>>
      /\ toServer # <<>> /\ Stale(Head(toServer)) /\ toServer' = Tail(toServer)
  BY DEF ServerTakes, Incoming, Stale
<1>2. /\ Idling => Idling'
      /\ \A u \in Uses, k \in {"open", "query"} : Asks(k, u) => Asks(k, u)'
  BY <1>1, Dropped
<1>3. Inflow' = Inflow /\ (\A v \in Uses : Going(v)' <=> Going(v)) /\ state' = state
  BY <1>1 DEF Inflow, Going
<1>4. ASSUME Calm PROVE Calm'
  BY <1>1, <1>2, <1>3, <1>4 DEF Calm
<1>5. ASSUME NEW u \in Uses, Going(u) PROVE Flow(u)'
  <2>1. PICK s \in Seq(Words) :
             /\ s = Inflow /\ Linked(s, u)
             /\ s # <<>> => Expects(u, s[1])
             /\ \A i \in 1 .. Len(s) : s[i].use # None
             /\ s # <<>> => Ends(u, s[Len(s)])
             /\ s = <<>> => Rest(u)
    BY <1>5, Called
  <2>2. s # <<>> => Expects(u, s[1])'
    BY <1>1, <2>1, ExpectsKept
  <2>3. Got(u)' = Got(u) /\ ~Feeding(u)
    BY <1>1 DEF Got, Feeding
  <2>4. s = <<>> => Rest(u)'
    <3>1. Asks("open", u) => Asks("open", u)'
      BY <1>2
    <3>2. Asks("query", u) => Asks("query", u)'
      BY <1>2
    <3> QED
      BY <1>1, <1>2, <2>1, <2>3, <3>1, <3>2 DEF Rest, Feeds
  <2>5. s # <<>> => Ends(u, s[Len(s)])'
    BY <1>1, <1>2, <2>1, <2>3 DEF Ends, Feeds
  <2> QED
    BY <1>3, <2>1, <2>2, <2>4, <2>5, FlowNow
<1> QED
  BY <1>3, <1>4, <1>5 DEF Live

\* A server that goes away.
LEMMA LiveStops ==
  ASSUME TypeInv, Control, Live, ~Broken, ServerStops
  PROVE  Live'
<1> USE DEF connVars, useVars
<1>1. /\ UNCHANGED <<connVars, pc, batch, moved, failed, stored, committed>>
      /\ server.mode # "down" /\ server'.mode = "down" /\ toServer' = <<>>
  BY DEF ServerStops, Idle
<1>2. PICK n \in 0 .. Len(toClient), parting \in {<<>>, <<Gone>>} :
        toClient' = SubSeq(toClient, 1, n) \o parting
  BY DEF ServerStops, Gone
<1>3. rbuf \in Seq(Words) /\ toClient \in Seq(Words) /\ Inflow = rbuf \o toClient
  BY DEF TypeInv, Inflow
<1>4. Inflow' = rbuf \o (SubSeq(toClient, 1, n) \o parting)
  BY <1>1, <1>2 DEF Inflow
<1>5. PICK r : r = Inflow'
  OBVIOUS
<1>6. ASSUME NEW u, Linked(Inflow, u), \A i \in 1 .. Len(Inflow) : Inflow[i].use # None
      PROVE  /\ Linked(r, u)
             /\ r # <<>> => r[1] = Gone \/ (Inflow # <<>> /\ r[1] = Inflow[1])
             /\ Inflow = <<>> => r = parting
  <2>1. Linked(rbuf \o toClient, u) /\ \A i \in 1 .. Len(rbuf \o toClient) :
          (rbuf \o toClient)[i].use # None
    BY <1>3, <1>6
  <2>2. LET q == rbuf \o (SubSeq(toClient, 1, n) \o parting)
        IN  /\ Linked(q, u)
            /\ q # <<>> => q[1] = Gone \/ (rbuf \o toClient # <<>> /\ q[1] = (rbuf \o toClient)[1])
            /\ rbuf \o toClient = <<>> => q = parting
    BY <1>3, <2>1, LinkedCut
  <2> QED
    BY <1>3, <1>4, <1>5, <2>2
<1>7. (\A v \in Uses : Going(v)' <=> Going(v)) /\ Idling'
  BY <1>1, NothingAsked DEF Going
<1>8. ASSUME Calm PROVE Calm'
  <2>1. Inflow = <<>> => Inflow' \in {<<>>, <<Gone>>}
    <3>1. ASSUME Inflow = <<>> PROVE Inflow' \in {<<>>, <<Gone>>}
      <4>1. Linked(Inflow, None) /\ \A i \in 1 .. Len(Inflow) : Inflow[i].use # None
        BY <3>1 DEF Linked
      <4>2. r = parting
        BY <1>6, <3>1, <4>1
      <4> QED
        BY <1>2, <1>5, <4>2
    <3> QED
      BY <3>1
  <2> QED
    BY <1>1, <1>7, <1>8, <2>1 DEF Calm
<1>9. ASSUME NEW u \in Uses, Going(u) PROVE Flow(u)'
  <2>1. PICK s \in Seq(Words) :
             /\ s = Inflow /\ Linked(s, u)
             /\ s # <<>> => Expects(u, s[1])
             /\ \A i \in 1 .. Len(s) : s[i].use # None
    BY <1>1, <1>9, Called
  <2>2. /\ Linked(r, u)
        /\ r # <<>> => r[1] = Gone \/ (s # <<>> /\ r[1] = s[1])
    BY <1>6, <2>1
  <2>3. r # <<>> => Expects(u, r[1])'
    <3>1. s # <<>> => Expects(u, s[1])'
      BY <1>1, <2>1, ExpectsKept
    <3>2. Expects(u, Gone)'
      BY DEF Expects, Gone
    <3> QED
      BY <2>2, <3>1, <3>2
  <2> QED
    BY <1>1, <1>5, <2>2, <2>3, FlowNow
<1> QED
  BY <1>1, <1>7, <1>8, <1>9 DEF Live

\* What the socket brings.
LEMMA LiveReceives ==
  ASSUME TypeInv, Live, ~Broken, Receive
  PROVE  Live'
<1> USE DEF useVars, serverVars
<1>1. CASE waiter = None
  BY <1>1, LiveBroken DEF Receive, Fatal
<1>2. CASE waiter # None
  <2>1. PICK n \in 1 .. Len(toClient) :
          /\ rbuf' = rbuf \o SubSeq(toClient, 1, n)
          /\ toClient' = SubSeq(toClient, n + 1, Len(toClient))
          /\ UNCHANGED <<state, toServer, server, leak, pc, batch, moved, failed, stored,
                         committed>>
    BY <1>2 DEF Receive
  <2>2. Inflow' = Inflow
    BY <2>1, FlowArrived
  <2>3. \A v \in Uses : Going(v)' <=> Going(v)
    BY <2>1 DEF Going
  <2> QED
    BY <2>1, <2>2, <2>3, LiveKept
<1> QED
  BY <1>1, <1>2

\* A second end(), fail() or dispose of a writer.
LEMMA LiveAgain ==
  ASSUME TypeInv, Live, NEW u \in Uses, SettleAgain(u)
  PROVE  Live'
<1> USE DEF useVars, serverVars
<1>1. /\ pc[u] \in {"ending", "failing"}
      /\ UNCHANGED <<state, rbuf, toClient, toServer, server, pc, batch, moved, failed, stored,
                     committed>>
  BY DEF SettleAgain, Consumer
<1>2. Inflow' = Inflow /\ (\A v \in Uses : Going(v)' <=> Going(v)) /\ Going(u)
  BY <1>1 DEF Inflow, Going
<1> QED
  BY <1>1, <1>2, LiveKept

-----------------------------------------------------------------------------
\* Every step.
LEMMA LiveStep ==
  TypeInv /\ Control /\ Control' /\ (\A u \in Uses : Account(u)) /\ Live /\ [Next]_vars
    => Live'
<1> SUFFICES ASSUME TypeInv, Control, Control', \A u \in Uses : Account(u), Live, [Next]_vars
             PROVE  Live'
  OBVIOUS
<1>1. CASE UNCHANGED vars
  <2>1. /\ Inflow' = Inflow
        /\ UNCHANGED <<state, toServer, server, batch, leak, pc, moved, stored, failed, committed>>
        /\ \A v \in Uses : Going(v)' <=> Going(v)
    BY <1>1 DEF vars, connVars, useVars, serverVars, Inflow, Going
  <2> QED
    BY <2>1, LiveKept
<1>2. CASE Connect
  BY <1>2, LiveConnects
<1>3. ASSUME NEW u \in Uses, Start(u) PROVE Live'
  <2>1. CASE Refuse(u) \/ CursorBadParam(u) \/ WriteFails(u)
    BY <2>1, LiveRefused
  <2>2. CASE OpenCursor(u) \/ StartCopy(u)
    BY <2>2, FlowStarts, LiveOf
  <2> QED
    BY <1>3, <2>1, <2>2 DEF Start
<1>4. ASSUME NEW u \in Uses, Continue(u) PROVE Live'
  <2>1. CASE Skip(u) \/ NoteError(u) \/ CursorRow(u) \/ CursorYields(u) \/ CursorSyncs(u)
             \/ ReaderYields(u) \/ WriterOpens(u)
    <3>1. Flow(u)'
      BY <2>1, FlowSkips, FlowRow, FlowYields, FlowSyncs, FlowReads, FlowOpens
    <3>2. Going(u)'
      <4>1. CASE Skip(u) \/ NoteError(u) \/ CursorRow(u)
        <5>1. \E phases, kinds : Deliver(u, phases, kinds) /\ pc' = pc
          BY <4>1 DEF Skip, NoteError, CursorRow, useVars
        <5>2. Going(u) /\ pc' = pc
          BY <5>1, Delivered
        <5> QED
          BY <5>2 DEF Going
      <4>2. CASE CursorYields(u) \/ CursorSyncs(u) \/ ReaderYields(u) \/ WriterOpens(u)
        <5>1. PICK p \in {"yielded", "syncing", "open"} : pc' = [pc EXCEPT ![u] = p]
          BY <4>2 DEF CursorYields, CursorSyncs, ReaderYields, WriterOpens, Move
        <5> QED
          BY <5>1 DEF Going, TypeInv, TypeOK
      <4> QED
        BY <2>1, <4>1, <4>2
    <3> QED
      BY <3>1, <3>2, LiveOf
  <2>2. CASE CursorSynced(u) \/ Settle(u)
    BY <2>2, LiveEnds
  <2>3. CASE CursorUnexpected(u)
    BY <2>3, LiveBroken DEF CursorUnexpected
  <2>4. CASE Reject(u)
    BY <2>4, LiveBroken DEF Reject, Broken
  <2> QED
    BY <1>4, <2>1, <2>2, <2>3, <2>4 DEF Continue
<1>5. ASSUME NEW u \in Uses, Consume(u) PROVE Live'
  <2>1. CASE NextCall(u) \/ Return(u)
    BY <2>1, FlowCalled, LiveOf
  <2>2. CASE WriteChunk(u) \/ EndOrFail(u)
    BY <2>2, FlowWrites, LiveOf
  <2>3. CASE LastNext(u) \/ BreakReader(u)
    BY <2>3, LiveLets
  <2>4. CASE SettleAgain(u)
    BY <2>4, LiveAgain
  <2>5. CASE Bereft(u)
    BY <2>5, LiveBroken DEF Bereft, Broken
  <2> QED
    BY <1>5, <2>1, <2>2, <2>3, <2>4, <2>5 DEF Consume
<1>6. CASE Socket
  <2>1. CASE Receive
    <3>1. ~Broken
      BY <2>1 DEF Receive
    <3> QED
      BY <2>1, <3>1, LiveReceives
  <2>2. CASE Close
    BY <2>2, LiveBroken DEF Close
  <2> QED
    BY <1>6, <2>1, <2>2 DEF Socket
<1>7. CASE Server
  <2>1. CASE Broken
    <3>1. state' = state
      BY <1>7 DEF Server, ServerFetches, ServerSyncs, ServerCopies, ServerStreams, ServerFails,
                  ServerTakes, ServerStops, connVars
    <3> QED
      BY <2>1, <3>1, LiveBroken DEF Broken
  <2>2. CASE ~Broken
    <3>1. CASE ServerFetches \/ ServerSyncs \/ ServerCopies
      BY <3>1, FlowFetched, FlowSynced, FlowCopies, LiveOf
    <3>2. CASE server.mode = "copyOut" /\ (ServerStreams \/ ServerFails)
      <4>1. CASE \E u \in Uses : Going(u)
        BY <2>2, <3>2, <4>1, FlowStreams, LiveOf
      <4>2. CASE \A u \in Uses : ~Going(u)
        <5>1. Calm
          BY <2>2, <4>2 DEF Live
        <5>2. leak = "break" /\ state = "busy" /\ Idling
          BY <3>2, <5>1 DEF Calm
        <5>3. UNCHANGED <<leak, state, toServer, pc>>
          BY <3>2 DEF ServerStreams, ServerFails, connVars, useVars
        <5>4. server'.mode \in {"copyOut", "idle"}
          <6>1. server.pos \in 0 .. Rows /\ Rows \in Nat
            BY ServerFacts, StreamsAssumption
          <6>2. CASE server' = Idle
            BY <6>2, IdleFacts
          <6>3. CASE server.pos < Rows /\ server' = [server EXCEPT !.pos = @ + 1]
            <7>1. PICK i \in 0 .. Rows : i = server.pos + 1 /\ server' = [server EXCEPT !.pos = i]
              BY <6>1, <6>3
            <7>2. \A j \in 0 .. Rows : [server EXCEPT !.pos = j].mode = server.mode
              BY ServerFacts
            <7>3. server'.mode = server.mode
              BY <7>1, <7>2, Zenon
            <7> QED
              BY <3>2, <7>3
          <6> QED
            BY <3>2, <6>2, <6>3 DEF ServerStreams, ServerFails
        <5>5. Calm' /\ \A u \in Uses : ~Going(u)'
          BY <4>2, <5>2, <5>3, <5>4 DEF Calm, Idling, Going
        <5> QED
          BY <5>5, LiveNone
      <4> QED
        BY <4>1, <4>2
    <3>3. CASE server.mode = "copyIn" /\ (ServerFails \/ ServerTakes)
      BY <2>2, <3>3, FlowFails, FlowTakes, LiveOf
    <3>4. CASE server.mode = "idle" /\ ServerTakes
      BY <2>2, <3>4, LiveDrops
    <3>5. CASE ServerStops
      BY <2>2, <3>5, LiveStops
    <3>6. /\ ServerStreams => server.mode = "copyOut"
          /\ ServerFails => server.mode \in {"copyIn", "copyOut"}
          /\ ServerTakes => server.mode \in {"copyIn", "idle"}
      BY DEF ServerStreams, ServerFails, ServerTakes
    <3> QED
      BY <1>7, <3>1, <3>2, <3>3, <3>4, <3>5, <3>6 DEF Server
  <2> QED
    BY <2>1, <2>2
<1> QED
  BY <1>1, <1>2, <1>3, <1>4, <1>5, <1>6, <1>7 DEF Next

\* A failed connection holds what its last waiter was sent, and no more comes.
LEMMA AddressedStep ==
  TypeInv /\ Control /\ Live /\ Addressed /\ [Next]_vars => Addressed'
<1> SUFFICES ASSUME TypeInv, Control, Live, Addressed, [Next]_vars
             PROVE  Addressed'
  OBVIOUS
<1> USE DEF Broken
<1>1. ASSUME Broken => UNCHANGED <<waiter, rbuf>>, Broken' => Broken PROVE Addressed'
  BY <1>1 DEF Addressed
<1>2. ASSUME waiter' = None \/ rbuf' = <<>> PROVE Addressed'
  BY <1>2 DEF Addressed
<1>3. CASE UNCHANGED vars
  BY <1>1, <1>3 DEF vars, connVars
<1>4. CASE Connect
  BY <1>2, <1>4 DEF Connect
<1>5. ASSUME NEW u \in Uses, Start(u) PROVE Addressed'
  BY <1>1, <1>5 DEF Start, Refuse, OpenCursor, CursorBadParam, StartCopy, WriteFails, Started
<1>6. ASSUME NEW u \in Uses, CursorUnexpected(u) PROVE Addressed'
  <2>1. /\ Flow(u) /\ rbuf # <<>> /\ rbuf' = Tail(rbuf) /\ waiter = u /\ waiter' = u
    BY <1>6, Delivered DEF CursorUnexpected
  <2>2. PICK q : q = rbuf'
    OBVIOUS
  <2>3. Len(q) = Len(rbuf) - 1 /\ \A i \in 1 .. Len(rbuf) - 1 :
          q[i] = rbuf[i + 1] /\ i + 1 \in 1 .. Len(rbuf)
    BY <2>1, <2>2, Dequeued DEF TypeInv
  <2>4. \A i \in 1 .. Len(rbuf) : rbuf[i].use \in {u, None}
    BY <2>1, FlowOpen DEF Flow, Linked
  <2>5. \A i \in 1 .. Len(q) : q[i].use \in {u, None}
    BY <2>3, <2>4
  <2> QED
    BY <2>1, <2>2, <2>5 DEF Addressed
<1>7. ASSUME NEW u \in Uses, Continue(u), ~CursorUnexpected(u) PROVE Addressed'
  <2>1. CASE Reject(u)
    BY <1>2, <2>1 DEF Reject
  <2>2. CASE ~Reject(u)
    BY <1>1, <1>7, <2>2 DEF Continue, Skip, NoteError, CursorRow, CursorYields, CursorSyncs,
         CursorSynced, ReaderYields, WriterOpens, Settle, Deliver
  <2> QED
    BY <2>1, <2>2
<1>8. ASSUME NEW u \in Uses, Consume(u) PROVE Addressed'
  BY <1>1, <1>8 DEF Consume, NextCall, LastNext, Return, BreakReader, WriteChunk, EndOrFail,
       SettleAgain, Bereft, connVars
<1>9. CASE Socket
  <2>1. CASE Receive
    BY <1>1, <1>2, <2>1 DEF Receive, Fatal
  <2>2. CASE Close
    BY <1>2, <2>2 DEF Close, Quiet
  <2> QED
    BY <1>9, <2>1, <2>2 DEF Socket
<1>10. CASE Server
  BY <1>1, <1>10 DEF Server, ServerFetches, ServerSyncs, ServerCopies, ServerStreams,
       ServerFails, ServerTakes, ServerStops, connVars
<1> QED
  BY <1>3, <1>4, <1>5, <1>6, <1>7, <1>8, <1>9, <1>10 DEF Next

-----------------------------------------------------------------------------
(* The theorems *)

LEMMA IInvInit == Init => IInv
<1> SUFFICES ASSUME Init PROVE IInv
  OBVIOUS
<1> USE DEF Init
<1>1. PICK e \in Seq(Words) : e = <<>>
  BY EmptySeq
<1>2. Inflow = e
  <2>1. Inflow = rbuf /\ rbuf = <<>>
    BY <1>1, ConcatEmptySeq DEF Inflow
  <2> QED
    BY <1>1, <2>1
<1>3. TypeInv
  <2>1. rbuf \in Seq(Words) /\ toClient \in Seq(Words) /\ toServer \in Seq(Orders)
    BY <1>1, EmptySeq
  <2>2. rbuf \in Seq(Messages) /\ toClient \in Seq(Messages) /\ toServer \in Seq(Frames)
    BY <2>1, Widened
  <2>3. /\ batch \in Seq(1 .. Rows)
        /\ moved \in [Uses -> Seq(1 .. Rows)] /\ stored \in [Uses -> Seq(Frames)]
    OBVIOUS
  <2>4. /\ pc \in [Uses -> Phases] /\ outcome \in [Uses -> Outcomes]
        /\ failed \subseteq Uses /\ committed \subseteq Ins /\ early \subseteq Ins
    BY DEF Phases, Outcomes
  <2>5. TypeOK
    BY <2>2, <2>3, <2>4, IdleFacts DEF TypeOK
  <2> QED
    BY <2>1, <2>5, IdleFacts DEF TypeInv
<1>4. \A u \in Uses : ~Going(u) /\ pc[u] = "new"
  BY DEF Going
<1>5. Control
  BY <1>4, StreamsAssumption DEF Control, Going, Waiting, PhasesOf
<1>6. ASSUME NEW u \in Uses PROVE Account(u)
  BY DEF Account, InOrder
<1>7. Idling
  BY DEF Idling
<1>8. Calm
  BY <1>1, <1>2, <1>7, IdleFacts DEF Calm
<1>9. Live /\ Addressed
  BY <1>4, <1>8 DEF Live, Addressed
<1> QED
  BY <1>3, <1>5, <1>6, <1>9 DEF IInv

LEMMA IInvStep == IInv /\ [Next]_vars => IInv'
<1> SUFFICES ASSUME IInv, [Next]_vars PROVE IInv'
  OBVIOUS
<1>1. TypeInv /\ Control /\ (\A u \in Uses : Account(u)) /\ Live /\ Addressed
  BY DEF IInv
<1>2. TypeInv'
  BY <1>1, TypeStep
<1>3. Control'
  BY <1>1, ControlStep
<1>4. \A u \in Uses : Account(u)'
  BY <1>1, AccountStep
<1>5. Live'
  BY <1>1, <1>3, LiveStep
<1>6. Addressed'
  BY <1>1, AddressedStep
<1> QED
  BY <1>2, <1>3, <1>4, <1>5, <1>6 DEF IInv

\* The invariant on which the theorems below rest holds always.
THEOREM Invariance == Spec => []IInv
<1>1. Init => IInv
  BY IInvInit
<1>2. IInv /\ [Next]_vars => IInv'
  BY IInvStep
<1> QED
  BY <1>1, <1>2, PTL DEF Spec

\* Every variable has its type: a writer alone lets go early, a COPY FROM STDIN
\* alone is committed, and no row has a number that the query has not.
THEOREM TypeCorrect == Spec => []TypeOK
<1>1. IInv => TypeOK
  BY DEF IInv, TypeInv
<1> QED
  BY <1>1, Invariance, PTL

\* However many streams of whatever kind have used the connection, and at
\* whatever point each of them ended, failed or was given up, the connection
\* that lies in the pool is in step with its server, or it was let go in one
\* of the ways that leak names (client.ts, copy.ts and the finally blocks of
\* cursor() and copyOut() in connection.ts).
THEOREM ReturnCorrect == Spec => []ReturnedClean
<1>1. ASSUME IInv PROVE ReturnedClean
  <2> SUFFICES ASSUME where = "idle", ~Broken, server.mode # "down", leak = "none"
               PROVE  Clean
    BY DEF ReturnedClean
  <2>1. TypeInv /\ Control /\ Live
    BY <1>1 DEF IInv
  <2>2. \A u \in Uses : ~Going(u)
    <3> SUFFICES ASSUME NEW u \in Uses, Going(u) PROVE FALSE
      OBVIOUS
    <3>1. IF u \in early THEN leak = "again" ELSE where = "leased"
      BY <2>1 DEF Control
    <3> QED
      BY <3>1
  <2>3. Calm
    BY <2>1, <2>2 DEF Live
  <2>4. state = "ready" /\ server.mode = "idle" /\ Idling /\ Inflow = <<>>
    BY <2>3 DEF Calm
  <2>5. rbuf = <<>> /\ toClient = <<>>
    BY <2>1, <2>4, FlowOpen
  <2>6. waiter = None
    BY <2>1, <2>2 DEF Control, Going, Waiting, TypeInv, TypeOK
  <2>7. \A i \in DOMAIN toServer : toServer[i].kind \in {"chunk", "done", "fail"}
    BY <2>1, <2>4 DEF Idling, Stale, TypeInv
  <2> QED
    BY <2>4, <2>5, <2>6, <2>7 DEF Clean
<1> QED
  BY <1>1, Invariance, PTL

\* A consumer gets its rows in order, each once, and all of them when its
\* stream ends well; a COPY that end() reports is on the server chunk by chunk
\* as it was written, and one that was given up or refused is not; and nobody
\* is handed a message that answers somebody else.
THEOREM ExactCorrect == Spec => []StreamExact
<1>1. ASSUME IInv PROVE StreamExact
  <2>1. TypeInv /\ Control /\ Live /\ Addressed /\ \A u \in Uses : Account(u)
    BY <1>1 DEF IInv
  <2>2. ASSUME waiter # None, rbuf # <<>> PROVE Head(rbuf).use \in {waiter, None}
    <3>1. PICK u \in Uses : waiter = u
      BY <2>1, <2>2 DEF TypeInv, TypeOK
    <3>2. Head(rbuf) = rbuf[1] /\ 1 \in 1 .. Len(rbuf)
      BY <2>1, <2>2, Dequeued DEF TypeInv
    <3>3. CASE Broken
      BY <2>1, <2>2, <3>2, <3>3 DEF Addressed
    <3>4. CASE ~Broken
      <4>1. Going(u)
        BY <2>1, <3>1 DEF Control, Waiting, Going
      <4>2. Linked(Inflow, u)
        BY <2>1, <3>4, <4>1 DEF Live, Flow
      <4> QED
        BY <2>1, <3>1, <3>2, <4>2, FlowOpen DEF Linked
    <3> QED
      BY <3>3, <3>4
  <2>3. ASSUME NEW u \in Uses
        PROVE  /\ InOrder(moved[u])
               /\ \A i \in DOMAIN stored[u] : stored[u][i].use = u
               /\ outcome[u] = "done" =>
                    IF u \in Ins THEN u \in committed /\ RowsOf(stored[u]) = moved[u]
                                 ELSE Len(moved[u]) = Rows
               /\ outcome[u] \in {"failed", "error"} => u \notin committed
    <3>1. Account(u)
      BY <2>1
    <3>2. ASSUME Len(stored[u]) = Len(moved[u]) PROVE RowsOf(stored[u]) = moved[u]
      <4>1. PICK f \in Seq(Frames), m \in Seq(1 .. Rows) : f = stored[u] /\ m = moved[u]
        BY <2>1 DEF TypeInv, TypeOK
      <4>2. PICK n \in Nat : n = Len(m) /\ n = Len(f)
        BY <3>2, <4>1
      <4>3. DOMAIN f = 1 .. n /\ DOMAIN m = 1 .. n /\ m = [i \in 1 .. n |-> m[i]]
        <5>1. /\ DOMAIN f = 1 .. Len(f) /\ DOMAIN m = 1 .. Len(m)
              /\ m = [i \in 1 .. Len(m) |-> m[i]]
          OBVIOUS
        <5> QED
          BY <4>2, <5>1, Zenon
      <4>4. \A i \in 1 .. n : m[i] = i /\ f[i].row = i
        BY <3>1, <4>1, <4>3 DEF Account, InOrder
      <4>5. RowsOf(f) = [i \in 1 .. n |-> f[i].row]
        BY <4>3 DEF RowsOf
      <4>6. RowsOf(f) = m
        BY <4>3, <4>4, <4>5
      <4> QED
        BY <4>1, <4>6
    <3> QED
      BY <3>1, <3>2 DEF Account
  <2> QED
    BY <2>2, <2>3 DEF StreamExact
<1> QED
  BY <1>1, Invariance, PTL
=============================================================================

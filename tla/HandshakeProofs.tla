-------------------------- MODULE HandshakeProofs --------------------------
(***************************************************************************)
(* The handshake's invariants, proved for every set of client modes,       *)
(* authentication methods, passwords and salts.                            *)
(*                                                                         *)
(* What the server has sent and connect() has not taken yet lies in the    *)
(* reader and in the socket; where the one ends and the other begins does  *)
(* not matter, so the argument is about their concatenation, Inflow.       *)
(***************************************************************************)
EXTENDS Handshake, SeqFacts, TLAPS

-----------------------------------------------------------------------------
(* The inductive invariant *)

Inflow == rbuf \o toClient

\* The messages of the server.
Letters == [kind : {"byte", "ok", "key", "ready", "negotiate", "error", "continue",
                    "final", "clear", "unknown", "md5", "sasl"},
            arg : {<<>>, <<"S">>, <<"N">>, <<"E">>, <<"ok">>, <<"bad">>}
                    \cup {<<h>> : h \in Salts}
                    \cup {<<"signature", p>> : p \in Passwords}]

\* TypeOK, but for the messages in flight.
TypeInv ==
  /\ mode \in Modes /\ pc \in Phases
  /\ method \in Methods /\ secret \in Passwords /\ hash \in Salts
  /\ state \in {"connecting", "negotiating-tls", "authenticating", "ready",
                "errored", "closed"}
  /\ rbuf \in Seq(Letters) /\ toClient \in Seq(Letters)
  /\ salt \in {<<>>, <<hash>>}
  /\ signature \in {<<>>, <<"signature", given>>}
  /\ key \in BOOLEAN /\ cTls \in BOOLEAN /\ sTls \in BOOLEAN
  /\ reason \in {"none", "tls", "protocol", "server", "auth", "closed",
                 "transport", "hook"}
  /\ server \in {"start", "tls", "password", "saslFirst", "saslFinal", "ready",
                 "gone"}
  /\ given \in Passwords \cup {"none"}
  /\ refused \in {"none", "startup", "password", "proof"}
  /\ (reason # "none") = (pc = "failed")

\* The last message of a server that goes away.
Parting == <<Msg("error")>>

\* The server is in this phase with these frames to take, and these messages are
\* all that connect() has still to take; or it has gone away since, and an error
\* may follow them.
At(messages, frames, phase) ==
  \/ server = phase /\ toServer = frames /\ Inflow = messages
  \/ /\ server = "gone" /\ toServer = <<>>
     /\ \/ Inflow = messages
        \/ /\ phase \notin {"start", "tls", "gone"}
           /\ Inflow = messages \o Parting

\* The server has asked for the password.
Asked ==
  /\ signature = <<>>
  /\ \/ method \in {"clear", "unknown"} /\ At(<<Msg(method)>>, <<>>, "password")
     \/ /\ method \in {"clear", "unknown"}
        /\ At(<<Msg("negotiate"), Msg(method)>>, <<>>, "password")
     \/ method = "md5" /\ At(<<MsgOf("md5", <<hash>>)>>, <<>>, "password")
     \/ method = "scram" /\ At(<<Msg("sasl")>>, <<>>, "saslFirst")

\* The frame that answers it.
Response == IF method = "md5" THEN <<"md5", given, hash>> ELSE <<given>>

\* The server has let the client in, and part of the welcome is taken.
Admitted ==
  /\ method = "scram" => signature = <<"signature", secret>>
  /\ \/ At(Welcome, <<>>, "ready")
     \/ At(<<Msg("key"), Msg("ready")>>, <<>>, "ready")
     \/ key /\ At(<<Msg("ready")>>, <<>>, "ready")

\* It has turned the client away.
Denied == server = "gone" /\ toServer = <<>> /\ Inflow = Parting

Starting ==
  \/ signature = <<>> /\ At(<<>>, <<Msg("startup")>>, "start")
  \/ Asked
  \/ /\ signature = <<>> /\ method \in {"clear", "md5"}
     /\ At(<<>>, <<MsgOf("password", Response)>>, "password")
  \/ Admitted
  \/ signature = <<>> /\ Denied

\* Where both sides are.
Sync ==
  \/ pc = "failed" /\ toServer = <<>> /\ rbuf = <<>> /\ toClient = <<>>
  \/ /\ pc = "start" /\ signature = <<>>
     /\ server = "start" /\ toServer = <<>> /\ Inflow = <<>>
  \/ /\ pc = "negotiating" /\ signature = <<>>
     /\ \/ At(<<>>, <<Msg("ssl")>>, "start")
        \/ At(<<Byte("S")>>, <<>>, "tls")
        \/ At(<<Byte("N")>>, <<>>, "start")
        \/ At(<<Byte("E")>>, <<>>, "gone")
  \/ pc = "upgrading" /\ signature = <<>> /\ At(<<>>, <<>>, "tls")
  \/ pc = "starting" /\ Starting
  \/ /\ pc = "clear" /\ signature = <<>> /\ method = "clear"
     /\ At(<<>>, <<>>, "password")
  \/ /\ pc = "md5" /\ signature = <<>> /\ method = "md5" /\ salt = <<hash>>
     /\ At(<<>>, <<>>, "password")
  \/ /\ pc = "sasl" /\ signature = <<>> /\ method = "scram"
     /\ At(<<>>, <<>>, "saslFirst")
  \/ /\ pc = "saslContinue" /\ signature = <<>> /\ method = "scram"
     /\ \/ At(<<>>, <<Msg("saslFirst")>>, "saslFirst")
        \/ \E arg \in {"ok", "bad"} :
             At(<<MsgOf("continue", <<arg>>)>>, <<>>, "saslFinal")
  \/ /\ pc = "deriving" /\ signature = <<>> /\ method = "scram"
     /\ At(<<>>, <<>>, "saslFinal")
  \/ /\ pc = "saslFinal" /\ method = "scram"
     /\ \/ At(<<>>, <<MsgOf("saslFinal", <<"proof", given>>)>>, "saslFinal")
        \/ \E arg \in {<<"signature", secret>>, <<"bad">>} :
             At(<<MsgOf("final", arg)>> \o Welcome, <<>>, "ready")
        \/ Denied
  \/ /\ pc \in {"hook", "connected"} /\ key
     /\ method = "scram" => signature = <<"signature", secret>>
     /\ At(<<>>, <<>>, "ready")

\* The connection's state in each phase.
StateKnown ==
  /\ pc = "start" => state = "connecting"
  /\ pc = "upgrading" => state = "negotiating-tls"
  /\ pc = "negotiating" => state \in {"negotiating-tls", "closed"}
  /\ pc \in {"starting", "saslContinue", "saslFinal"} =>
       state \in {"authenticating", "closed"}
  /\ pc \in {"clear", "md5", "sasl", "deriving"} =>
       state \in {"authenticating", "errored", "closed"}
  /\ pc \in {"hook", "connected"} => state \in {"ready", "errored", "closed"}
  /\ state = "closed" => server = "gone"

\* Both ends agree on TLS, as the mode wants it.
TlsAgreed ==
  /\ cTls = sTls
  /\ mode = "disable" => ~cTls /\ pc \notin {"negotiating", "upgrading"}
  /\ mode = "require" /\ state \in {"authenticating", "ready"} => cTls

\* A refusal lies in front of a client that waits for it on a live connection,
\* or was reported.
RefusalKnown ==
  /\ refused # "none" =>
       /\ pc \in {"starting", "saslFinal", "failed"}
       /\ (pc = "starting" => refused \in {"startup", "password"})
       /\ (pc = "saslFinal" => refused = "proof")
       /\ (pc # "failed" => Denied /\ ~Broken)
  /\ pc = "failed" /\ refused \in {"startup", "password"} => reason = "server"
  /\ refused \in {"password", "proof"} => given # secret

\* The password that a frame or an exchange is about has been given.
GivenKnown ==
  /\ pc \in {"saslContinue", "deriving", "saslFinal"} => given \in Passwords
  /\ toServer # <<>> /\ Head(toServer).kind = "password" => given \in Passwords

IInv == TypeInv /\ Sync /\ StateKnown /\ TlsAgreed /\ RefusalKnown /\ GivenKnown

-----------------------------------------------------------------------------
(* Sequences of messages *)

LEMMA Tuples ==
  ASSUME NEW a, NEW b, NEW c
  PROVE  /\ <<a>> # <<>> /\ Head(<<a>>) = a /\ Tail(<<a>>) = <<>> /\ Len(<<a>>) = 1
         /\ <<a, b>> # <<>> /\ Head(<<a, b>>) = a /\ Tail(<<a, b>>) = <<b>>
         /\ Len(<<a, b>>) = 2
         /\ <<a, b, c>> # <<>> /\ Head(<<a, b, c>>) = a /\ Tail(<<a, b, c>>) = <<b, c>>
         /\ Len(<<a, b, c>>) = 3
OBVIOUS

LEMMA Doubled ==
  ASSUME NEW a, NEW b, NEW c
  PROVE  <<a, b>> \o <<c>> = <<a, b, c>>
<1> DEFINE t == <<a, b>> \o <<c>>
<1>1. \A S : <<a, b>> \in Seq(S) /\ <<c>> \in Seq(S) =>
        /\ t \in Seq(S) /\ Len(t) = Len(<<a, b>>) + Len(<<c>>)
        /\ \A i \in 1 .. Len(<<a, b>>) + Len(<<c>>) :
             t[i] = IF i <= Len(<<a, b>>) THEN <<a, b>>[i] ELSE <<c>>[i - Len(<<a, b>>)]
  BY ConcatProperties
<1>2. <<a, b>> \in Seq({a, b, c}) /\ <<c>> \in Seq({a, b, c}) /\ <<a, b, c>> \in Seq({a, b, c})
  OBVIOUS
<1> HIDE DEF t
<1>3. t \in Seq({a, b, c}) /\ Len(t) = 3 /\ t[1] = a /\ t[2] = b /\ t[3] = c
  BY <1>1, <1>2
<1>4. \A i \in 1 .. Len(t) : t[i] = <<a, b, c>>[i]
  BY <1>3
<1>5. t = <<a, b, c>>
  BY <1>2, <1>3, <1>4, SeqEqual
<1> QED
  BY <1>5 DEF t

\* What is taken from messages that have the error behind them.
Takings(m) ==
  /\ m # <<>> /\ m \o Parting # <<>>
  /\ Head(m \o Parting) = Head(m)
  /\ Tail(m \o Parting) = Tail(m) \o Parting
  /\ Len(m \o Parting) = Len(m) + 1

LEMMA TakingsHold ==
  ASSUME NEW m \in Seq(Letters), m # <<>>
  PROVE  Takings(m)
<1>1. Parting \in Seq(Letters) /\ Len(Parting) = 1
  BY DEF Parting, Msg, Letters
<1>2. Len(m \o Parting) = Len(m) + Len(Parting)
  BY <1>1, ConcatProperties
<1> QED
  BY <1>1, <1>2, Taken DEF Takings

LEMMA Nothing ==
  /\ <<>> \o Parting = Parting /\ Parting # <<>>
  /\ Head(Parting) = Msg("error") /\ Tail(Parting) = <<>> /\ Len(Parting) = 1
<1>1. Parting \in Seq(Letters)
  BY DEF Parting, Msg, Letters
<1>2. <<>> \o Parting = Parting
  BY <1>1, ConcatEmptySeq
<1> QED
  BY <1>2, Tuples DEF Parting

\* Every message connect() may find is one of these.
LEMMA Words ==
  ASSUME TypeInv
  PROVE  /\ \A k \in {"ok", "key", "ready", "clear", "unknown", "negotiate", "sasl", "error"} :
              Msg(k) \in Letters
         /\ \A b \in {"S", "N", "E"} : Byte(b) \in Letters
         /\ MsgOf("md5", <<hash>>) \in Letters
         /\ \A b \in {"ok", "bad"} : MsgOf("continue", <<b>>) \in Letters
         /\ \A a \in {<<"signature", secret>>, <<"bad">>} : MsgOf("final", a) \in Letters
BY DEF TypeInv, Letters, Msg, Byte, MsgOf

LEMMA WelcomeFacts ==
  /\ Welcome \in Seq(Letters) /\ Len(Welcome) = 3
  /\ Welcome # <<>> /\ Head(Welcome) = Msg("ok")
  /\ Tail(Welcome) = <<Msg("key"), Msg("ready")>>
  /\ Tail(<<Msg("key"), Msg("ready")>>) = <<Msg("ready")>>
<1>1. Msg("ok") \in Letters /\ Msg("key") \in Letters /\ Msg("ready") \in Letters
  BY DEF Msg, Letters
<1> QED
  BY <1>1, Tuples DEF Welcome

-----------------------------------------------------------------------------
(* What the actions do to the inflow *)

LEMMA FlowOpen ==
  ASSUME TypeInv
  PROVE  /\ Inflow \in Seq(Letters)
         /\ rbuf # <<>> => Inflow # <<>> /\ Head(Inflow) = Head(rbuf)
         /\ Inflow = <<>> => rbuf = <<>> /\ toClient = <<>>
         /\ rbuf = <<>> /\ toClient = <<>> => Inflow = <<>>
<1>1. rbuf \in Seq(Letters) /\ toClient \in Seq(Letters)
  BY DEF TypeInv
<1>2. Inflow = <<>> <=> (rbuf = <<>> /\ toClient = <<>>)
  BY <1>1, ConcatEqualIffEmpty DEF Inflow
<1> QED
  BY <1>1, <1>2, Taken, ConcatProperties DEF Inflow

LEMMA FlowTaken ==
  ASSUME TypeInv, rbuf # <<>>, rbuf' = Tail(rbuf), toClient' = toClient
  PROVE  Inflow' = Tail(Inflow) /\ rbuf' \in Seq(Letters)
<1>1. rbuf \in Seq(Letters) /\ toClient \in Seq(Letters)
  BY DEF TypeInv
<1> QED
  BY <1>1, Taken DEF Inflow

LEMMA FlowArrived ==
  ASSUME TypeInv, NEW n \in 1 .. Len(toClient),
         rbuf' = rbuf \o SubSeq(toClient, 1, n),
         toClient' = SubSeq(toClient, n + 1, Len(toClient))
  PROVE  Inflow' = Inflow /\ rbuf' \in Seq(Letters) /\ toClient' \in Seq(Letters)
<1>1. rbuf \in Seq(Letters) /\ toClient \in Seq(Letters)
  BY DEF TypeInv
<1> QED
  BY <1>1, Arrived DEF Inflow

LEMMA FlowAdded ==
  ASSUME TypeInv, NEW m \in Seq(Letters), rbuf' = rbuf, toClient' = toClient \o m
  PROVE  /\ Inflow' = Inflow \o m /\ toClient' \in Seq(Letters)
         /\ Inflow = <<>> => Inflow' = m
<1>1. rbuf \in Seq(Letters) /\ toClient \in Seq(Letters)
  BY DEF TypeInv
<1>2. Inflow' = Inflow \o m
  BY <1>1, ConcatAssociative DEF Inflow
<1>3. Inflow = <<>> => Inflow' = m
  BY <1>2, ConcatEmptySeq
<1> QED
  BY <1>1, <1>2, <1>3, ConcatProperties

\* The replies of the server are messages.
LEMMA Replies ==
  ASSUME TypeInv
  PROVE  /\ <<>> \in Seq(Letters) /\ Parting \in Seq(Letters)
         /\ \A b \in {"S", "N", "E"} : <<Byte(b)>> \in Seq(Letters)
         /\ method \in {"clear", "unknown"} =>
              /\ <<Msg(method)>> \in Seq(Letters)
              /\ <<Msg("negotiate"), Msg(method)>> \in Seq(Letters)
         /\ <<MsgOf("md5", <<hash>>)>> \in Seq(Letters) /\ <<Msg("sasl")>> \in Seq(Letters)
         /\ \A b \in {"ok", "bad"} : <<MsgOf("continue", <<b>>)>> \in Seq(Letters)
         /\ \A a \in {<<"signature", secret>>, <<"bad">>} :
              /\ <<MsgOf("final", a)>> \in Seq(Letters)
              /\ <<MsgOf("final", a)>> \o Welcome \in Seq(Letters)
         /\ Welcome \in Seq(Letters)
         /\ <<Msg("key"), Msg("ready")>> \in Seq(Letters) /\ <<Msg("ready")>> \in Seq(Letters)
<1>1. \A a \in {<<"signature", secret>>, <<"bad">>} : <<MsgOf("final", a)>> \in Seq(Letters)
  BY Words
<1>2. \A a \in {<<"signature", secret>>, <<"bad">>} :
        <<MsgOf("final", a)>> \o Welcome \in Seq(Letters)
  BY <1>1, WelcomeFacts, ConcatProperties
<1> QED
  BY <1>1, <1>2, Words, WelcomeFacts DEF Parting

\* A message taken from those an At names.
LEMMA AtTaken ==
  ASSUME NEW m \in Seq(Letters), m # <<>>, NEW frames, NEW phase, At(m, frames, phase)
  PROVE  /\ Inflow # <<>> /\ Head(Inflow) = Head(m)
         /\ Inflow' = Tail(Inflow) /\ server' = server /\ toServer' = toServer =>
              At(Tail(m), frames, phase)'
BY TakingsHold DEF At, Takings

\* Where an At names none there can only be the error.
LEMMA AtNothing ==
  ASSUME NEW frames, NEW phase, At(<<>>, frames, phase), Inflow # <<>>
  PROVE  Denied /\ phase \notin {"start", "tls", "gone"}
BY Nothing DEF At, Denied

\* What startup() may find at the head of its reader.
LEMMA StartingHead ==
  ASSUME TypeInv, Starting, Inflow # <<>>
  PROVE  \/ Denied /\ Head(Inflow) = Msg("error")
         \/ /\ method \in {"clear", "unknown"} /\ signature = <<>>
            /\ At(<<Msg(method)>>, <<>>, "password") /\ Head(Inflow) = Msg(method)
         \/ /\ method \in {"clear", "unknown"} /\ signature = <<>>
            /\ At(<<Msg("negotiate"), Msg(method)>>, <<>>, "password")
            /\ Head(Inflow) = Msg("negotiate")
         \/ /\ method = "md5" /\ signature = <<>>
            /\ At(<<MsgOf("md5", <<hash>>)>>, <<>>, "password")
            /\ Head(Inflow) = MsgOf("md5", <<hash>>)
         \/ /\ method = "scram" /\ signature = <<>>
            /\ At(<<Msg("sasl")>>, <<>>, "saslFirst") /\ Head(Inflow) = Msg("sasl")
         \/ /\ method = "scram" => signature = <<"signature", secret>>
            /\ At(Welcome, <<>>, "ready") /\ Head(Inflow) = Msg("ok")
         \/ /\ method = "scram" => signature = <<"signature", secret>>
            /\ At(<<Msg("key"), Msg("ready")>>, <<>>, "ready")
            /\ Head(Inflow) = Msg("key")
         \/ /\ method = "scram" => signature = <<"signature", secret>>
            /\ key /\ At(<<Msg("ready")>>, <<>>, "ready") /\ Head(Inflow) = Msg("ready")
<1>1. Denied => Head(Inflow) = Msg("error")
  BY Nothing DEF Denied
<1>2. CASE \/ At(<<>>, <<Msg("startup")>>, "start")
           \/ At(<<>>, <<MsgOf("password", Response)>>, "password")
           \/ Denied
  BY <1>1, <1>2, AtNothing
<1>3. CASE Asked
  <2>1. CASE method \in {"clear", "unknown"} /\ At(<<Msg(method)>>, <<>>, "password")
    <3>1. <<Msg(method)>> \in Seq(Letters) /\ <<Msg(method)>> # <<>>
      BY <2>1, Replies
    <3>2. Head(Inflow) = Head(<<Msg(method)>>)
      BY <2>1, <3>1, AtTaken
    <3> QED
      BY <1>3, <2>1, <3>2 DEF Asked
  <2>2. CASE /\ method \in {"clear", "unknown"}
             /\ At(<<Msg("negotiate"), Msg(method)>>, <<>>, "password")
    <3>1. /\ <<Msg("negotiate"), Msg(method)>> \in Seq(Letters)
          /\ <<Msg("negotiate"), Msg(method)>> # <<>>
      BY <2>2, Replies
    <3>2. Head(Inflow) = Head(<<Msg("negotiate"), Msg(method)>>)
      BY <2>2, <3>1, AtTaken
    <3> QED
      BY <1>3, <2>2, <3>2 DEF Asked
  <2>3. CASE method = "md5" /\ At(<<MsgOf("md5", <<hash>>)>>, <<>>, "password")
    <3>1. /\ <<MsgOf("md5", <<hash>>)>> \in Seq(Letters)
          /\ <<MsgOf("md5", <<hash>>)>> # <<>>
      BY Replies
    <3>2. Head(Inflow) = Head(<<MsgOf("md5", <<hash>>)>>)
      BY <2>3, <3>1, AtTaken
    <3> QED
      BY <1>3, <2>3, <3>2 DEF Asked
  <2>4. CASE method = "scram" /\ At(<<Msg("sasl")>>, <<>>, "saslFirst")
    <3>1. <<Msg("sasl")>> \in Seq(Letters) /\ <<Msg("sasl")>> # <<>>
      BY Replies
    <3>2. Head(Inflow) = Head(<<Msg("sasl")>>)
      BY <2>4, <3>1, AtTaken
    <3> QED
      BY <1>3, <2>4, <3>2 DEF Asked
  <2> QED
    BY <1>3, <2>1, <2>2, <2>3, <2>4 DEF Asked
<1>4. CASE Admitted
  <2>1. CASE At(Welcome, <<>>, "ready")
    <3>1. Head(Inflow) = Msg("ok")
      BY <2>1, AtTaken, WelcomeFacts
    <3> QED
      BY <1>4, <2>1, <3>1 DEF Admitted
  <2>2. CASE At(<<Msg("key"), Msg("ready")>>, <<>>, "ready")
    <3>1. /\ <<Msg("key"), Msg("ready")>> \in Seq(Letters)
          /\ <<Msg("key"), Msg("ready")>> # <<>>
      BY Replies
    <3>2. Head(Inflow) = Head(<<Msg("key"), Msg("ready")>>)
      BY <2>2, <3>1, AtTaken
    <3> QED
      BY <1>4, <2>2, <3>2 DEF Admitted
  <2>3. CASE key /\ At(<<Msg("ready")>>, <<>>, "ready")
    <3>1. <<Msg("ready")>> \in Seq(Letters) /\ <<Msg("ready")>> # <<>>
      BY Replies
    <3>2. Head(Inflow) = Head(<<Msg("ready")>>)
      BY <2>3, <3>1, AtTaken
    <3> QED
      BY <1>4, <2>3, <3>2 DEF Admitted
  <2> QED
    BY <1>4, <2>1, <2>2, <2>3 DEF Admitted
<1> QED
  BY <1>2, <1>3, <1>4 DEF Starting

-----------------------------------------------------------------------------
(* The steps keep the types *)

LEMMA TypeStep == TypeInv /\ Sync /\ [Next]_vars => TypeInv'
<1> SUFFICES ASSUME TypeInv, Sync, [Next]_vars PROVE TypeInv'
  OBVIOUS
<1> USE DEF TypeInv, Phases, Goto, Fail, clientVars, serverConsts, ghosts
<1>0. <<>> \in Seq(Letters)
  BY EmptySeq
<1>19. \A m \in Seq(Letters) : toClient \o m \in Seq(Letters)
  BY ConcatProperties
<1>1. CASE Unreachable \/ Begin \/ UpgradeFails \/ Rejected \/ SaslRefused \/ RejectWaiter
           \/ PasswordRejects \/ HookEnds
  BY <1>0, <1>1 DEF Unreachable, Begin, UpgradeFails, Rejected, SaslRefused, RejectWaiter,
       PasswordRejects, HookEnds
<1>2. CASE Negotiate
  <2>1. rbuf' \in Seq(Letters) /\ toClient' \in Seq(Letters)
    BY <1>0, <1>2, FlowTaken DEF Negotiate
  <2> QED
    BY <1>2, <2>1 DEF Negotiate, Startup
<1>3. CASE Upgrade
  BY <1>0, <1>3 DEF Upgrade, Startup
<1>4. CASE Absorb
  BY <1>4, FlowTaken DEF Absorb, Deliver
<1>5. CASE AskPassword
  <2>1. rbuf # <<>> /\ rbuf' = Tail(rbuf) /\ pc = "starting"
    BY <1>5 DEF AskPassword, Deliver
  <2>2. Starting /\ Inflow # <<>> /\ Head(Inflow) = Head(rbuf)
    BY <2>1, FlowOpen DEF Sync
  <2>3. Head(rbuf).kind = "md5" => Head(rbuf).arg = <<hash>>
    BY <2>2, StartingHead DEF Msg, MsgOf
  <2>4. rbuf' \in Seq(Letters)
    BY <1>5, <2>1, FlowTaken DEF AskPassword
  <2>5. pc' \in {"clear", "md5", "sasl"} /\ salt' \in {salt, <<hash>>}
    BY <1>5, <2>3 DEF AskPassword, Deliver
  <2> QED
    BY <1>5, <2>1, <2>4, <2>5 DEF AskPassword
<1>6. CASE Ready
  BY <1>6, FlowTaken DEF Ready, Deliver
<1>7. CASE SaslContinue \/ SaslFinal
  BY <1>7, FlowTaken DEF SaslContinue, SaslFinal, Deliver
<1>8. CASE Derived
  <2>1. rbuf' \in Seq(Letters) /\ toClient' \in Seq(Letters)
    BY <1>0, <1>8 DEF Derived, Answer
  <2> QED
    BY <1>8, <2>1 DEF Derived, Answer
<1>9. CASE PasswordResolves
  <2>1. pc \in {"clear", "md5", "sasl"} /\ signature = <<>>
    BY <1>9 DEF PasswordResolves, Sync
  <2>2. rbuf' \in Seq(Letters) /\ toClient' \in Seq(Letters)
    BY <1>0, <1>9 DEF PasswordResolves, Answer
  <2> QED
    BY <1>9, <2>1, <2>2 DEF PasswordResolves, Answer
<1>10. CASE Receive
  <2>1. rbuf' \in Seq(Letters) /\ toClient' \in Seq(Letters)
    BY <1>0, <1>10, FlowArrived DEF Receive
  <2> QED
    BY <1>10, <2>1 DEF Receive
<1>11. CASE Close
  BY <1>11 DEF Close
<1>12. CASE ServerSsl
  <2>1. toClient' \in Seq(Letters)
    BY <1>12, <1>19, Replies DEF ServerSsl, Reply, Admit, Refuse, Parting
  <2> QED
    BY <1>12, <2>1 DEF ServerSsl, Reply, Admit, Refuse
<1>13. CASE ServerStartup
  <2>1. toClient' \in Seq(Letters)
    BY <1>13, <1>19, Replies DEF ServerStartup, Reply, Admit, Refuse, Parting
  <2> QED
    BY <1>13, <2>1 DEF ServerStartup, Reply, Admit, Refuse
<1>14. CASE ServerPassword
  <2>1. toClient' \in Seq(Letters)
    BY <1>14, <1>19, Replies DEF ServerPassword, Reply, Admit, Refuse, Parting
  <2> QED
    BY <1>14, <2>1 DEF ServerPassword, Reply, Admit, Refuse
<1>15. CASE ServerSaslFirst
  BY <1>15, FlowAdded, Words DEF ServerSaslFirst, Reply
<1>16. CASE ServerSaslFinal
  <2>1. PICK m \in Seq(Letters) : toClient' = toClient \o m
    <3>1. CASE Head(toServer).arg = <<"proof", secret>>
      <4>1. PICK arg \in {<<"signature", secret>>, <<"bad">>} :
              toClient' = toClient \o (<<MsgOf("final", arg)>> \o Welcome)
        BY <1>16, <3>1 DEF ServerSaslFinal, Reply
      <4> QED
        BY <4>1, Replies
    <3>2. CASE Head(toServer).arg # <<"proof", secret>>
      BY <1>16, <3>2, Replies DEF ServerSaslFinal, Refuse, Reply, Parting
    <3> QED
      BY <3>1, <3>2
  <2>2. toClient' \in Seq(Letters)
    BY <1>19, <2>1
  <2> QED
    BY <1>16, <2>2 DEF ServerSaslFinal, Reply, Admit, Refuse
<1>17. CASE ServerStops
  BY <1>17, FlowAdded, Words DEF ServerStops, Reply
<1>18. CASE UNCHANGED vars
  BY <1>18 DEF vars
<1> QED
  BY <1>1, <1>2, <1>3, <1>4, <1>5, <1>6, <1>7, <1>8, <1>9, <1>10, <1>11, <1>12, <1>13,
     <1>14, <1>15, <1>16, <1>17, <1>18 DEF Next, Connect, User, Socket, Server

-----------------------------------------------------------------------------
(* The steps keep both sides in step *)

\* A frame under way is the one the server waits for, and all that is under way.
LEMMA Requests ==
  ASSUME TypeInv, Sync, toServer # <<>>
  PROVE  /\ Inflow = <<>> /\ server # "gone"
         /\ toServer = <<Head(toServer)>> /\ Tail(toServer) = <<>>
         /\ \/ /\ pc = "negotiating" /\ signature = <<>>
               /\ server = "start" /\ Head(toServer) = Msg("ssl")
            \/ /\ pc = "starting" /\ signature = <<>>
               /\ server = "start" /\ Head(toServer) = Msg("startup")
            \/ /\ pc = "starting" /\ signature = <<>> /\ method \in {"clear", "md5"}
               /\ server = "password" /\ Head(toServer) = MsgOf("password", Response)
            \/ /\ pc = "saslContinue" /\ signature = <<>> /\ method = "scram"
               /\ server = "saslFirst" /\ Head(toServer) = Msg("saslFirst")
            \/ /\ pc = "saslFinal" /\ method = "scram" /\ server = "saslFinal"
               /\ Head(toServer) = MsgOf("saslFinal", <<"proof", given>>)
<1>1. \E frame : toServer = <<frame>>
  BY DEF Sync, At, Starting, Asked, Admitted, Denied
<1>2. toServer = <<Head(toServer)>> /\ Tail(toServer) = <<>>
  BY <1>1, Tuples
<1>3. \A frame : toServer = <<frame>> => Head(toServer) = frame
  BY Tuples
<1> QED
  BY <1>2, <1>3 DEF Sync, At, Starting, Asked, Admitted, Denied

LEMMA SyncStep == TypeInv /\ Sync /\ [Next]_vars => Sync'
<1> SUFFICES ASSUME TypeInv, Sync, [Next]_vars PROVE Sync'
  OBVIOUS
<1> USE DEF Goto, Fail, clientVars, serverConsts, ghosts
<1>0. /\ \A frame : Append(<<>>, frame) = <<frame>>
      /\ rbuf' = rbuf /\ toClient' = toClient => Inflow' = Inflow
      /\ <<>> \o <<>> = <<>>
  BY DEF Inflow
<1>1. CASE \/ Unreachable \/ UpgradeFails \/ Rejected \/ SaslRefused \/ RejectWaiter
           \/ PasswordRejects
  BY <1>1 DEF Unreachable, UpgradeFails, Rejected, SaslRefused, RejectWaiter,
       PasswordRejects, Sync
<1>2. CASE Begin
  BY <1>0, <1>2 DEF Begin, Send, Sync, At, Starting
<1>3. CASE Negotiate
  <2> DEFINE b == Head(Inflow).arg[1]
  <2>1. pc = "negotiating" /\ rbuf # <<>> /\ Inflow # <<>> /\ Head(rbuf) = Head(Inflow)
    BY <1>3, FlowOpen DEF Negotiate
  <2>2. /\ signature = <<>> /\ toServer = <<>>
        /\ \/ Inflow = <<Byte("S")>> /\ server \in {"tls", "gone"}
           \/ Inflow = <<Byte("N")>> /\ server \in {"start", "gone"}
           \/ Inflow = <<Byte("E")>> /\ server = "gone"
    BY <2>1 DEF Sync, At
  <2>3. \A x \in {"S", "N", "E"} : Inflow = <<Byte(x)>> => b = x /\ Tail(Inflow) = <<>>
    BY Tuples DEF Byte
  <2>4. CASE pc' = "failed"
    BY <1>3, <2>4 DEF Negotiate, Startup, Sync
  <2>5. CASE b = "S" /\ pc' # "failed"
    <3>1. pc' = "upgrading" /\ Inflow' = Tail(Inflow) /\ UNCHANGED <<server, toServer, signature>>
      BY <1>3, <2>1, <2>5, FlowTaken DEF Negotiate, Startup
    <3> QED
      BY <2>2, <2>3, <2>5, <3>1 DEF Sync, At
  <2>6. CASE b = "N" /\ pc' # "failed"
    <3>1. /\ pc' = "starting" /\ Inflow' = Tail(Inflow) /\ UNCHANGED <<server, signature>>
          /\ Send(Msg("startup"))
      BY <1>3, <2>1, <2>6, FlowTaken DEF Negotiate, Startup
    <3> QED
      BY <1>0, <2>2, <2>3, <2>6, <3>1 DEF Sync, At, Starting, Send
  <2> QED
    BY <1>3, <2>1, <2>4, <2>5, <2>6 DEF Negotiate
<1>4. CASE Upgrade
  BY <1>0, <1>4 DEF Upgrade, Startup, Send, Sync, At, Starting
<1>5. CASE Receive
  <2>1. CASE pc \in Waiting
    <3>1. Inflow' = Inflow
      BY <1>5, <2>1, FlowArrived DEF Receive
    <3>2. UNCHANGED <<pc, toServer, server, signature, method, salt, hash, given, secret, key>>
      BY <1>5, <2>1 DEF Receive
    <3> QED
      BY <2>1, <3>1, <3>2 DEF Waiting, Sync, At, Starting, Asked, Admitted, Denied, Response
  <2>2. CASE pc \notin Waiting
    <3>1. pc \in Thinking /\ toServer' = <<>> /\ rbuf' = <<>> /\ toClient' = <<>>
      BY <1>5, <2>2 DEF Receive, Listening
    <3>2. UNCHANGED <<pc, server, signature, method, salt, hash, given, secret, key>>
      BY <1>5, <2>2 DEF Receive
    <3>3. Inflow' = <<>>
      BY <1>0, <3>1 DEF Inflow
    <3> QED
      BY <3>1, <3>2, <3>3 DEF Thinking, Sync, At
  <2> QED
    BY <2>1, <2>2
<1>6. CASE Close \/ UNCHANGED vars
  <2>1. UNCHANGED <<pc, rbuf, toClient, toServer, server, signature, method, salt, hash, given,
                    secret, key>>
    BY <1>6 DEF Close, vars
  <2>2. Inflow' = Inflow
    BY <1>0, <2>1
  <2>3. Response' = Response /\ Denied' = Denied
    BY <2>1, <2>2 DEF Response, Denied
  <2>4. Asked => Asked'
    BY <2>1, <2>2 DEF Asked, At
  <2>5. Admitted => Admitted'
    BY <2>1, <2>2 DEF Admitted, At
  <2>6. Starting => Starting'
    BY <2>1, <2>2, <2>3, <2>4, <2>5 DEF Starting, At
  <2> QED
    BY <2>1, <2>2, <2>3, <2>6 DEF Sync, At
<1>7. CASE HookEnds
  BY <1>0, <1>7 DEF HookEnds, Sync, At
<1>8. CASE Absorb
  <2>1. /\ pc = "starting" /\ rbuf # <<>> /\ Head(rbuf).kind \in {"ok", "key", "negotiate"}
        /\ rbuf' = Tail(rbuf) /\ key' = (key \/ Head(rbuf).kind = "key")
        /\ UNCHANGED <<pc, toClient, toServer, server, signature, method, hash, secret>>
    BY <1>8 DEF Absorb, Deliver
  <2>2. Starting /\ Inflow # <<>> /\ Head(Inflow) = Head(rbuf) /\ Inflow' = Tail(Inflow)
    BY <2>1, FlowOpen, FlowTaken DEF Sync
  <2>3. CASE /\ method \in {"clear", "unknown"} /\ signature = <<>>
             /\ At(<<Msg("negotiate"), Msg(method)>>, <<>>, "password")
    <3>1. /\ <<Msg("negotiate"), Msg(method)>> \in Seq(Letters)
          /\ <<Msg("negotiate"), Msg(method)>> # <<>>
          /\ Tail(<<Msg("negotiate"), Msg(method)>>) = <<Msg(method)>>
      BY <2>3, Replies
    <3>2. At(Tail(<<Msg("negotiate"), Msg(method)>>), <<>>, "password")'
      BY <2>1, <2>2, <2>3, <3>1, AtTaken DEF Msg
    <3> QED
      BY <2>1, <2>3, <3>1, <3>2 DEF Sync, Starting, Asked, At, Msg
  <2>4. CASE /\ method = "scram" => signature = <<"signature", secret>>
             /\ At(Welcome, <<>>, "ready")
    <3>1. At(Tail(Welcome), <<>>, "ready")'
      BY <2>1, <2>2, <2>4, AtTaken, WelcomeFacts DEF Welcome, Msg
    <3> QED
      BY <2>1, <2>4, <3>1, WelcomeFacts DEF Sync, Starting, Admitted
  <2>5. CASE /\ method = "scram" => signature = <<"signature", secret>>
             /\ At(<<Msg("key"), Msg("ready")>>, <<>>, "ready")
             /\ Head(Inflow) = Msg("key")
    <3>1. /\ <<Msg("key"), Msg("ready")>> \in Seq(Letters)
          /\ <<Msg("key"), Msg("ready")>> # <<>>
      BY Replies
    <3>2. At(Tail(<<Msg("key"), Msg("ready")>>), <<>>, "ready")'
      BY <2>1, <2>2, <2>5, <3>1, AtTaken
    <3>3. key' = TRUE
      <4>1. Head(rbuf).kind = "key"
        BY <2>2, <2>5 DEF Msg
      <4> QED
        BY <2>1, <4>1, Zenon
    <3> QED
      BY <2>1, <2>5, <3>2, <3>3, WelcomeFacts DEF Sync, Starting, Admitted
  <2> QED
    BY <2>1, <2>2, <2>3, <2>4, <2>5, StartingHead DEF Msg, MsgOf
<1>9. CASE AskPassword
  <2>1. /\ pc = "starting" /\ rbuf # <<>> /\ Head(rbuf).kind \in {"clear", "md5", "sasl"}
        /\ rbuf' = Tail(rbuf) /\ pc' = Head(rbuf).kind
        /\ salt' = IF Head(rbuf).kind = "md5" THEN Head(rbuf).arg ELSE salt
        /\ UNCHANGED <<toClient, toServer, server, signature, method, hash>>
    BY <1>9 DEF AskPassword, Deliver
  <2>2. Starting /\ Inflow # <<>> /\ Head(Inflow) = Head(rbuf) /\ Inflow' = Tail(Inflow)
    BY <2>1, FlowOpen, FlowTaken DEF Sync
  <2>3. CASE /\ method \in {"clear", "unknown"} /\ signature = <<>>
             /\ At(<<Msg(method)>>, <<>>, "password") /\ Head(Inflow) = Msg(method)
    <3>1. <<Msg(method)>> \in Seq(Letters) /\ <<Msg(method)>> # <<>> /\ Tail(<<Msg(method)>>) = <<>>
      BY <2>3, Replies
    <3>2. At(Tail(<<Msg(method)>>), <<>>, "password")'
      BY <2>1, <2>2, <2>3, <3>1, AtTaken DEF Msg
    <3>3. pc' = "clear" /\ method = "clear"
      BY <2>1, <2>2, <2>3 DEF Msg
    <3> QED
      BY <2>1, <2>3, <3>1, <3>2, <3>3 DEF Sync, At
  <2>4. CASE /\ method = "md5" /\ signature = <<>>
             /\ At(<<MsgOf("md5", <<hash>>)>>, <<>>, "password")
             /\ Head(Inflow) = MsgOf("md5", <<hash>>)
    <3>1. /\ <<MsgOf("md5", <<hash>>)>> \in Seq(Letters) /\ <<MsgOf("md5", <<hash>>)>> # <<>>
          /\ Tail(<<MsgOf("md5", <<hash>>)>>) = <<>>
      BY Replies
    <3>2. At(Tail(<<MsgOf("md5", <<hash>>)>>), <<>>, "password")'
      BY <2>1, <2>2, <2>4, <3>1, AtTaken DEF MsgOf
    <3>3. pc' = "md5" /\ salt' = <<hash>>
      BY <2>1, <2>2, <2>4 DEF MsgOf
    <3> QED
      BY <2>1, <2>4, <3>1, <3>2, <3>3 DEF Sync, At
  <2>5. CASE /\ method = "scram" /\ signature = <<>>
             /\ At(<<Msg("sasl")>>, <<>>, "saslFirst") /\ Head(Inflow) = Msg("sasl")
    <3>1. /\ <<Msg("sasl")>> \in Seq(Letters) /\ <<Msg("sasl")>> # <<>>
          /\ Tail(<<Msg("sasl")>>) = <<>>
      BY Replies
    <3>2. At(Tail(<<Msg("sasl")>>), <<>>, "saslFirst")'
      BY <2>1, <2>2, <2>5, <3>1, AtTaken
    <3>3. pc' = "sasl"
      BY <2>1, <2>2, <2>5 DEF Msg
    <3> QED
      BY <2>1, <2>5, <3>1, <3>2, <3>3 DEF Sync, At
  <2> QED
    BY <2>1, <2>2, <2>3, <2>4, <2>5, StartingHead DEF Msg, MsgOf
<1>10. CASE Ready
  <2>1. /\ pc = "starting" /\ rbuf # <<>> /\ Head(rbuf).kind = "ready"
        /\ rbuf' = Tail(rbuf) /\ pc' \in {"hook", "connected"}
        /\ UNCHANGED <<toClient, toServer, server, signature, method, secret, key>>
    BY <1>10 DEF Ready, Deliver
  <2>2. Starting /\ Inflow # <<>> /\ Head(Inflow) = Head(rbuf) /\ Inflow' = Tail(Inflow)
    BY <2>1, FlowOpen, FlowTaken DEF Sync
  <2>3. /\ method = "scram" => signature = <<"signature", secret>>
        /\ key /\ At(<<Msg("ready")>>, <<>>, "ready")
    BY <2>1, <2>2, StartingHead DEF Msg, MsgOf, TypeInv
  <2>4. /\ <<Msg("ready")>> \in Seq(Letters) /\ <<Msg("ready")>> # <<>>
        /\ Tail(<<Msg("ready")>>) = <<>>
    BY Replies
  <2>5. At(Tail(<<Msg("ready")>>), <<>>, "ready")'
    BY <2>1, <2>2, <2>3, <2>4, AtTaken
  <2> QED
    BY <2>1, <2>3, <2>4, <2>5 DEF Sync
<1>11. CASE SaslContinue
  <2>1. /\ pc = "saslContinue" /\ rbuf # <<>> /\ Head(rbuf).kind = "continue"
        /\ rbuf' = Tail(rbuf) /\ pc' = "deriving"
        /\ UNCHANGED <<toClient, toServer, server, signature, method>>
    BY <1>11 DEF SaslContinue, Deliver
  <2>2. Inflow # <<>> /\ Head(Inflow) = Head(rbuf) /\ Inflow' = Tail(Inflow)
    BY <2>1, FlowOpen, FlowTaken
  <2>3. ~ At(<<>>, <<Msg("saslFirst")>>, "saslFirst")
    BY <2>1, <2>2, AtNothing, Nothing DEF Denied, Msg
  <2>4. PICK arg \in {"ok", "bad"} : At(<<MsgOf("continue", <<arg>>)>>, <<>>, "saslFinal")
    BY <2>1, <2>3 DEF Sync
  <2>5. signature = <<>> /\ method = "scram"
    BY <2>1 DEF Sync
  <2>6. /\ <<MsgOf("continue", <<arg>>)>> \in Seq(Letters) /\ <<MsgOf("continue", <<arg>>)>> # <<>>
        /\ Tail(<<MsgOf("continue", <<arg>>)>>) = <<>>
    BY Replies
  <2>7. At(Tail(<<MsgOf("continue", <<arg>>)>>), <<>>, "saslFinal")'
    BY <2>1, <2>2, <2>4, <2>6, AtTaken DEF MsgOf
  <2> QED
    BY <2>1, <2>5, <2>6, <2>7 DEF Sync, At
<1>12. CASE Derived
  <2>1. CASE Broken
    BY <1>12, <2>1 DEF Derived, Answer, Sync
  <2>2. CASE ~Broken
    <3>1. /\ pc = "deriving" /\ pc' = "saslFinal"
          /\ Send(MsgOf("saslFinal", <<"proof", given>>))
          /\ UNCHANGED <<rbuf, toClient, server, method, given>>
      BY <1>12, <2>2 DEF Derived, Answer
    <3>2. method = "scram" /\ At(<<>>, <<>>, "saslFinal")
      BY <3>1 DEF Sync
    <3>3. At(<<>>, <<MsgOf("saslFinal", <<"proof", given>>)>>, "saslFinal")'
      BY <1>0, <3>1, <3>2 DEF At, Send, MsgOf
    <3> QED
      BY <3>1, <3>2, <3>3 DEF Sync
  <2> QED
    BY <2>1, <2>2
<1>13. CASE SaslFinal
  <2>1. /\ pc = "saslFinal" /\ rbuf # <<>> /\ Head(rbuf).kind = "final"
        /\ Head(rbuf).arg = signature
        /\ rbuf' = Tail(rbuf) /\ pc' = "starting"
        /\ UNCHANGED <<toClient, toServer, server, signature, method, secret>>
    BY <1>13 DEF SaslFinal, Deliver
  <2>2. Inflow # <<>> /\ Head(Inflow) = Head(rbuf) /\ Inflow' = Tail(Inflow)
    BY <2>1, FlowOpen, FlowTaken
  <2>3. ~ At(<<>>, <<MsgOf("saslFinal", <<"proof", given>>)>>, "saslFinal") /\ ~ Denied
    BY <2>1, <2>2, AtNothing, Nothing DEF Denied, Msg
  <2>4. PICK arg \in {<<"signature", secret>>, <<"bad">>} :
          At(<<MsgOf("final", arg)>> \o Welcome, <<>>, "ready")
    BY <2>1, <2>3 DEF Sync
  <2> DEFINE m == <<MsgOf("final", arg)>> \o Welcome
  <2>5. /\ m \in Seq(Letters) /\ m # <<>> /\ Head(m) = MsgOf("final", arg) /\ Tail(m) = Welcome
    <3>1. /\ <<MsgOf("final", arg)>> \in Seq(Letters) /\ <<MsgOf("final", arg)>> # <<>>
          /\ Head(<<MsgOf("final", arg)>>) = MsgOf("final", arg)
          /\ Tail(<<MsgOf("final", arg)>>) = <<>>
      BY Replies
    <3>2. m \in Seq(Letters) /\ m # <<>> /\ Head(m) = MsgOf("final", arg)
      BY <3>1, WelcomeFacts, Taken
    <3>3. Tail(m) = <<>> \o Welcome
      BY <3>1, WelcomeFacts, Taken
    <3> QED
      BY <3>2, <3>3, WelcomeFacts, ConcatEmptySeq
  <2>6. Head(Inflow) = MsgOf("final", arg) /\ At(Welcome, <<>>, "ready")'
    <3>1. At(m, <<>>, "ready")
      BY <2>4
    <3> HIDE DEF m
    <3>2. Head(Inflow) = Head(m) /\ At(Tail(m), <<>>, "ready")'
      BY <2>1, <2>2, <2>5, <3>1, AtTaken
    <3> QED
      BY <2>5, <3>2 DEF At
  <2>7. signature = <<"signature", secret>>
    <3>1. signature = arg /\ signature \in {<<>>, <<"signature", given>>}
      BY <2>1, <2>2, <2>6 DEF MsgOf, TypeInv
    <3>2. Len(<<"bad">>) = 1 /\ Len(<<"signature", given>>) = 2 /\ Len(<<>>) = 0
      OBVIOUS
    <3> QED
      BY <3>1, <3>2
  <2> QED
    BY <2>1, <2>6, <2>7 DEF Sync, Starting, Admitted
<1>14. CASE PasswordResolves
  <2>1. CASE Broken
    BY <1>14, <2>1 DEF PasswordResolves, Answer, Sync
  <2>2. CASE ~Broken
    <3>1. /\ given' \in Passwords
          /\ UNCHANGED <<rbuf, toClient, server, method, hash, signature>>
          /\ \/ /\ pc = "clear" /\ pc' = "starting"
                /\ Send(MsgOf("password", <<given'>>))
             \/ /\ pc = "md5" /\ pc' = "starting"
                /\ Send(MsgOf("password", <<"md5", given'>> \o salt))
             \/ pc = "sasl" /\ pc' = "saslContinue" /\ Send(Msg("saslFirst"))
      BY <1>14, <2>2 DEF PasswordResolves, Answer, Token
    <3>2. CASE pc = "clear"
      <4>1. signature = <<>> /\ method = "clear" /\ At(<<>>, <<>>, "password")
        BY <3>2 DEF Sync
      <4>2. At(<<>>, <<MsgOf("password", Response)>>, "password")'
        BY <1>0, <3>1, <3>2, <4>1 DEF At, Send, Response, MsgOf
      <4> QED
        BY <3>1, <3>2, <4>1, <4>2 DEF Sync, Starting
    <3>3. CASE pc = "md5"
      <4>1. /\ signature = <<>> /\ method = "md5" /\ At(<<>>, <<>>, "password")
            /\ salt = <<hash>>
        BY <3>3 DEF Sync
      <4>2. <<"md5", given'>> \o <<hash>> = <<"md5", given', hash>>
        BY Doubled
      <4>3. At(<<>>, <<MsgOf("password", Response)>>, "password")'
        BY <1>0, <3>1, <3>3, <4>1, <4>2 DEF At, Send, Response, MsgOf
      <4> QED
        BY <3>1, <3>3, <4>1, <4>3 DEF Sync, Starting
    <3>4. CASE pc = "sasl"
      BY <1>0, <3>1, <3>4 DEF Sync, At, Send, Msg
    <3> QED
      BY <3>1, <3>2, <3>3, <3>4
  <2> QED
    BY <2>1, <2>2
<1>15. CASE ServerSsl
  <2>1. /\ pc = "negotiating" /\ signature = <<>> /\ Inflow = <<>> /\ Tail(toServer) = <<>>
    BY <1>15, Requests DEF ServerSsl, Takes, Msg, MsgOf
  <2>2. /\ toServer' = <<>> /\ UNCHANGED <<pc, rbuf, signature>>
        /\ \/ toClient' = toClient \o <<Byte("S")>> /\ server' = "tls"
           \/ toClient' = toClient \o <<Byte("N")>> /\ server' = "start"
           \/ toClient' = toClient \o <<Byte("E")>> /\ server' = "gone"
    BY <1>15, <2>1 DEF ServerSsl, Takes, Reply
  <2>3. \A m \in Seq(Letters) : toClient' = toClient \o m => Inflow' = m
    BY <2>1, <2>2, FlowAdded
  <2>4. \A x \in {"S", "N", "E"} : <<Byte(x)>> \in Seq(Letters)
    BY Replies
  <2> QED
    BY <2>1, <2>2, <2>3, <2>4 DEF Sync, At
<1>16. CASE ServerStartup
  <2>1. /\ pc = "starting" /\ signature = <<>> /\ Inflow = <<>> /\ Tail(toServer) = <<>>
    BY <1>16, Requests DEF ServerStartup, Takes, Msg, MsgOf
  <2>2. /\ toServer' = <<>> /\ UNCHANGED <<pc, rbuf, signature, method, hash>>
        /\ \/ toClient' = toClient \o Parting /\ server' = "gone"
           \/ method = "trust" /\ toClient' = toClient \o Welcome /\ server' = "ready"
           \/ /\ method \in {"clear", "unknown"} /\ server' = "password"
              /\ toClient' = toClient \o <<Msg("negotiate"), Msg(method)>>
           \/ /\ method = "md5" /\ server' = "password"
              /\ toClient' = toClient \o <<MsgOf("md5", <<hash>>)>>
           \/ /\ method = "scram" /\ server' = "saslFirst"
              /\ toClient' = toClient \o <<Msg("sasl")>>
    BY <1>16, <2>1 DEF ServerStartup, Takes, Reply, Admit, Refuse, Parting
  <2>3. \A m \in Seq(Letters) : toClient' = toClient \o m => Inflow' = m
    BY <2>1, <2>2, FlowAdded
  <2>4. CASE toClient' = toClient \o Parting /\ server' = "gone"
    BY <2>1, <2>2, <2>3, <2>4, Replies DEF Sync, Starting, Denied
  <2>5. CASE method = "trust" /\ toClient' = toClient \o Welcome /\ server' = "ready"
    BY <2>1, <2>2, <2>3, <2>5, Replies DEF Sync, Starting, Admitted, At
  <2>6. CASE /\ method \in {"clear", "unknown"} /\ server' = "password"
             /\ toClient' = toClient \o <<Msg("negotiate"), Msg(method)>>
    BY <2>1, <2>2, <2>3, <2>6, Replies DEF Sync, Starting, Asked, At, Msg
  <2>7. CASE /\ method = "md5" /\ server' = "password"
             /\ toClient' = toClient \o <<MsgOf("md5", <<hash>>)>>
    BY <2>1, <2>2, <2>3, <2>7, Replies DEF Sync, Starting, Asked, At, MsgOf
  <2>8. CASE /\ method = "scram" /\ server' = "saslFirst"
             /\ toClient' = toClient \o <<Msg("sasl")>>
    BY <2>1, <2>2, <2>3, <2>8, Replies DEF Sync, Starting, Asked, At
  <2> QED
    BY <2>2, <2>4, <2>5, <2>6, <2>7, <2>8
<1>17. CASE ServerPassword
  <2>1. /\ pc = "starting" /\ signature = <<>> /\ Inflow = <<>> /\ Tail(toServer) = <<>>
        /\ method # "scram"
    BY <1>17, Requests DEF ServerPassword, Takes, Msg, MsgOf
  <2>2. /\ toServer' = <<>> /\ UNCHANGED <<pc, rbuf, signature, method>>
        /\ \/ toClient' = toClient \o Parting /\ server' = "gone"
           \/ toClient' = toClient \o Welcome /\ server' = "ready"
    BY <1>17, <2>1 DEF ServerPassword, Takes, Reply, Admit, Refuse, Parting
  <2>3. \A m \in Seq(Letters) : toClient' = toClient \o m => Inflow' = m
    BY <2>1, <2>2, FlowAdded
  <2> QED
    BY <2>1, <2>2, <2>3, Replies DEF Sync, Starting, Admitted, Denied, At
<1>18. CASE ServerSaslFirst
  <2>1. /\ pc = "saslContinue" /\ signature = <<>> /\ method = "scram"
        /\ Inflow = <<>> /\ Tail(toServer) = <<>>
    BY <1>18, Requests DEF ServerSaslFirst, Takes, Msg, MsgOf
  <2>2. PICK arg \in {"ok", "bad"} : toClient' = toClient \o <<MsgOf("continue", <<arg>>)>>
    BY <1>18 DEF ServerSaslFirst, Reply
  <2>3. toServer' = <<>> /\ server' = "saslFinal" /\ UNCHANGED <<pc, rbuf, signature, method>>
    BY <1>18, <2>1 DEF ServerSaslFirst, Takes, Reply
  <2>4. Inflow' = <<MsgOf("continue", <<arg>>)>>
    BY <2>1, <2>2, <2>3, FlowAdded, Replies
  <2> QED
    BY <2>1, <2>2, <2>3, <2>4 DEF Sync, At
<1>19. CASE ServerSaslFinal
  <2>1. /\ pc = "saslFinal" /\ method = "scram" /\ Inflow = <<>> /\ Tail(toServer) = <<>>
    BY <1>19, Requests DEF ServerSaslFinal, Takes, Msg, MsgOf
  <2>2. toServer' = <<>> /\ UNCHANGED <<pc, rbuf, method, secret>>
    BY <1>19, <2>1 DEF ServerSaslFinal, Takes
  <2>3. \A m \in Seq(Letters) : toClient' = toClient \o m => Inflow' = m
    BY <2>1, <2>2, FlowAdded
  <2>4. CASE Head(toServer).arg = <<"proof", secret>>
    <3>1. PICK arg \in {<<"signature", secret>>, <<"bad">>} :
            toClient' = toClient \o (<<MsgOf("final", arg)>> \o Welcome) /\ server' = "ready"
      BY <1>19, <2>4 DEF ServerSaslFinal, Reply
    <3>2. Inflow' = <<MsgOf("final", arg)>> \o Welcome
      BY <2>3, <3>1, Replies
    <3> QED
      BY <2>1, <2>2, <3>1, <3>2 DEF Sync, At
  <2>5. CASE Head(toServer).arg # <<"proof", secret>>
    <3>1. toClient' = toClient \o Parting /\ server' = "gone"
      BY <1>19, <2>5 DEF ServerSaslFinal, Refuse, Reply, Parting
    <3> QED
      BY <2>1, <2>2, <2>3, <3>1, Replies DEF Sync, Denied
  <2> QED
    BY <2>4, <2>5
<1>20. CASE ServerStops
  <2>1. /\ server # "gone" /\ server' = "gone" /\ toServer' = <<>>
        /\ pc \notin {"start", "connected", "failed"}
        /\ UNCHANGED <<pc, rbuf, signature, method, salt, hash, given, secret, key>>
        /\ \/ server \notin {"start", "tls"} /\ toClient' = toClient \o Parting
           \/ toClient' = toClient \o <<>>
    BY <1>20 DEF ServerStops, Reply, Parting, Over
  <2>2. \A m \in Seq(Letters) : toClient' = toClient \o m => Inflow' = Inflow \o m
    BY <2>1, FlowAdded
  <2>3. Inflow' = Inflow \/ (server \notin {"start", "tls"} /\ Inflow' = Inflow \o Parting)
    BY <2>1, <2>2, Replies, FlowOpen, ConcatEmptySeq
  <2>4. \A m, frames, phase : At(m, frames, phase) =>
          \/ server' = phase /\ toServer' = frames /\ Inflow' = m
          \/ /\ server' = "gone" /\ toServer' = <<>>
             /\ \/ Inflow' = m
                \/ phase \notin {"start", "tls", "gone"} /\ Inflow' = m \o Parting
    BY <2>1, <2>3 DEF At
  <2>5. Response' = Response /\ ~ Denied
    BY <2>1 DEF Response, Denied
  <2>6. Asked => Asked'
    BY <2>1, <2>4 DEF Asked, At
  <2>7. Admitted => Admitted'
    BY <2>1, <2>4 DEF Admitted, At
  <2>8. Starting => Starting'
    BY <2>1, <2>4, <2>5, <2>6, <2>7 DEF Starting, At
  <2> QED
    BY <2>1, <2>4, <2>5, <2>8 DEF Sync, At
<1> QED
  BY <1>1, <1>2, <1>3, <1>4, <1>5, <1>6, <1>7, <1>8, <1>9, <1>10, <1>11, <1>12, <1>13, <1>14,
     <1>15, <1>16, <1>17, <1>18, <1>19, <1>20 DEF Next, Connect, User, Socket, Server

-----------------------------------------------------------------------------
(* The steps keep the rest *)

LEMMA StateStep == TypeInv /\ Sync /\ StateKnown /\ [Next]_vars => StateKnown'
<1> SUFFICES ASSUME TypeInv, Sync, StateKnown, [Next]_vars PROVE StateKnown'
  OBVIOUS
<1> USE DEF StateKnown, Goto, Fail, clientVars, serverConsts, ghosts, Broken
<1>1. CASE \/ Unreachable \/ UpgradeFails \/ Rejected \/ SaslRefused \/ RejectWaiter
           \/ PasswordRejects \/ HookEnds
  BY <1>1 DEF Unreachable, UpgradeFails, Rejected, SaslRefused, RejectWaiter,
       PasswordRejects, HookEnds
<1>2. CASE Begin \/ Negotiate \/ Upgrade
  BY <1>2 DEF Begin, Negotiate, Upgrade, Startup
<1>3. CASE Absorb \/ AskPassword \/ Ready \/ SaslContinue \/ SaslFinal
  BY <1>3 DEF Absorb, AskPassword, Ready, SaslContinue, SaslFinal, Deliver
<1>4. CASE Derived \/ PasswordResolves
  BY <1>4 DEF Derived, PasswordResolves, Answer
<1>5. CASE Receive \/ Close
  BY <1>5 DEF Receive, Close, Listening, Waiting, Thinking
<1>6. CASE ServerSsl \/ ServerStartup \/ ServerPassword \/ ServerSaslFirst \/ ServerSaslFinal
  BY <1>6 DEF ServerSsl, ServerStartup, ServerPassword, ServerSaslFirst, ServerSaslFinal,
       Takes, Reply, Admit, Refuse
<1>7. CASE ServerStops \/ UNCHANGED vars
  BY <1>7 DEF ServerStops, Reply, vars
<1> QED
  BY <1>1, <1>2, <1>3, <1>4, <1>5, <1>6, <1>7 DEF Next, Connect, User, Socket, Server

LEMMA TlsStep == TypeInv /\ StateKnown /\ TlsAgreed /\ [Next]_vars => TlsAgreed'
<1> SUFFICES ASSUME TypeInv, StateKnown, TlsAgreed, [Next]_vars PROVE TlsAgreed'
  OBVIOUS
<1> USE DEF TlsAgreed, Goto, Fail, clientVars, serverConsts, ghosts, Broken
<1>1. CASE \/ Unreachable \/ UpgradeFails \/ Rejected \/ SaslRefused \/ RejectWaiter
           \/ PasswordRejects \/ HookEnds
  BY <1>1 DEF Unreachable, UpgradeFails, Rejected, SaslRefused, RejectWaiter,
       PasswordRejects, HookEnds
<1>2. CASE Begin \/ Negotiate \/ Upgrade
  BY <1>2 DEF Begin, Negotiate, Upgrade, Startup, TypeInv
<1>3. CASE Absorb \/ AskPassword \/ Ready \/ SaslContinue \/ SaslFinal
  BY <1>3 DEF Absorb, AskPassword, Ready, SaslContinue, SaslFinal, Deliver, StateKnown
<1>4. CASE Derived \/ PasswordResolves
  <2>1. UNCHANGED <<mode, state, cTls, sTls>> /\ pc' \notin {"negotiating", "upgrading"}
    BY <1>4 DEF Derived, PasswordResolves, Answer
  <2> QED
    BY <2>1
<1>5. CASE Receive \/ Close
  BY <1>5 DEF Receive, Close
<1>6. CASE ServerSsl \/ ServerStartup \/ ServerPassword \/ ServerSaslFirst \/ ServerSaslFinal
  BY <1>6 DEF ServerSsl, ServerStartup, ServerPassword, ServerSaslFirst, ServerSaslFinal
<1>7. CASE ServerStops \/ UNCHANGED vars
  BY <1>7 DEF ServerStops, vars
<1> QED
  BY <1>1, <1>2, <1>3, <1>4, <1>5, <1>6, <1>7 DEF Next, Connect, User, Socket, Server

LEMMA RefusalStep ==
  TypeInv /\ Sync /\ StateKnown /\ RefusalKnown /\ [Next]_vars => RefusalKnown'
<1> SUFFICES ASSUME TypeInv, Sync, StateKnown, RefusalKnown, [Next]_vars
             PROVE  RefusalKnown'
  OBVIOUS
<1> USE DEF Goto, Fail, clientVars, serverConsts, ghosts
<1>0. rbuf' = rbuf /\ toClient' = toClient => Inflow' = Inflow
  BY DEF Inflow
<1>1. refused # "none" /\ pc # "failed" =>
        /\ server = "gone" /\ ~Broken /\ toServer = <<>>
        /\ Inflow # <<>> /\ Head(Inflow) = Msg("error")
        /\ rbuf # <<>> => Head(rbuf) = Msg("error")
  BY Nothing, FlowOpen DEF RefusalKnown, Denied
<1>2. CASE \/ Unreachable \/ UpgradeFails \/ SaslRefused \/ RejectWaiter
           \/ PasswordRejects \/ HookEnds
  <2>1. /\ refused \in {"startup", "password"} => pc \in {"starting", "failed"}
        /\ refused # "none" => pc # "hook" /\ ~Broken
        /\ pc # "failed"
    BY <1>1, <1>2 DEF Unreachable, UpgradeFails, SaslRefused, RejectWaiter, PasswordRejects,
         HookEnds, RefusalKnown, Waiting
  <2>2. UNCHANGED <<given, secret, refused, state>> /\ pc' \in {"connected", "failed"}
    BY <1>2 DEF Unreachable, UpgradeFails, SaslRefused, RejectWaiter, PasswordRejects,
         HookEnds
  <2>3. refused = "none" \/ (pc = "saslFinal" /\ refused = "proof" /\ pc' = "failed")
    BY <1>2, <2>1, <2>2 DEF Unreachable, UpgradeFails, SaslRefused, RejectWaiter,
         PasswordRejects, HookEnds, RefusalKnown
  <2> QED
    BY <2>2, <2>3 DEF RefusalKnown
<1>3. CASE Rejected
  BY <1>1, <1>3 DEF Rejected, OutOfOrder, RefusalKnown, Msg
<1>4. CASE Begin \/ Negotiate \/ Upgrade
  BY <1>4 DEF Begin, Negotiate, Upgrade, Startup, RefusalKnown
<1>5. CASE Absorb \/ AskPassword \/ Ready \/ SaslContinue \/ SaslFinal
  BY <1>1, <1>5 DEF Absorb, AskPassword, Ready, SaslContinue, SaslFinal, Deliver,
       RefusalKnown, Msg
<1>6. CASE Derived \/ PasswordResolves
  BY <1>6 DEF Derived, PasswordResolves, Answer, RefusalKnown
<1>7. CASE Receive
  <2>1. UNCHANGED <<pc, server, given, secret, refused, reason>>
    BY <1>7 DEF Receive
  <2>2. CASE refused = "none" \/ pc = "failed"
    BY <2>1, <2>2 DEF RefusalKnown
  <2>3. CASE refused # "none" /\ pc # "failed"
    <3>1. pc \in Waiting /\ Denied /\ ~Broken
      BY <2>3 DEF RefusalKnown, Waiting
    <3>2. Inflow' = Inflow /\ UNCHANGED <<state, toServer>>
      BY <1>7, <3>1, FlowArrived DEF Receive
    <3> QED
      BY <2>1, <2>3, <3>1, <3>2 DEF RefusalKnown, Denied, Broken
  <2> QED
    BY <2>2, <2>3
<1>8. CASE Close
  <2>1. refused = "none"
    <3>1. toClient = <<>> /\ (pc \in Waiting => rbuf = <<>>) /\ pc # "failed"
      BY <1>8 DEF Close, Listening, Quiet, Waiting, Thinking
    <3>2. pc \in Waiting => Inflow = <<>>
      BY <3>1, FlowOpen
    <3> QED
      BY <1>1, <3>1, <3>2 DEF RefusalKnown, Waiting
  <2> QED
    BY <1>8, <2>1 DEF Close, RefusalKnown
<1>9. CASE ServerSsl \/ ServerSaslFirst
  BY <1>1, <1>9 DEF ServerSsl, ServerSaslFirst, Takes, RefusalKnown
<1>10. CASE ServerStartup
  <2>1. /\ pc = "starting" /\ ~Broken /\ Inflow = <<>> /\ Tail(toServer) = <<>>
    BY <1>10, Requests DEF ServerStartup, Takes, Msg, MsgOf, StateKnown, Broken
  <2>2. CASE refused' = refused
    BY <1>1, <1>10, <2>1, <2>2 DEF ServerStartup, RefusalKnown
  <2>3. CASE refused' # refused
    <3>1. /\ refused' = "startup" /\ server' = "gone" /\ toServer' = <<>>
          /\ toClient' = toClient \o Parting /\ UNCHANGED <<pc, rbuf, state>>
      BY <1>10, <2>1, <2>3 DEF ServerStartup, Takes, Admit, Refuse, Reply, Parting
    <3>2. Inflow' = Parting
      BY <2>1, <3>1, FlowAdded, Replies
    <3> QED
      BY <2>1, <3>1, <3>2 DEF RefusalKnown, Denied, Broken
  <2> QED
    BY <2>2, <2>3
<1>11. CASE ServerPassword
  <2>1. /\ pc = "starting" /\ ~Broken /\ Inflow = <<>> /\ Tail(toServer) = <<>>
        /\ method \in {"clear", "md5"} /\ Head(toServer).arg = Response
    BY <1>11, Requests DEF ServerPassword, Takes, Msg, MsgOf, StateKnown, Broken
  <2>2. CASE refused' = refused
    BY <1>1, <1>11, <2>1, <2>2 DEF ServerPassword, RefusalKnown
  <2>3. CASE refused' # refused
    <3>1. /\ refused' = "password" /\ server' = "gone" /\ toServer' = <<>>
          /\ Head(toServer).arg # Expected
          /\ toClient' = toClient \o Parting
          /\ UNCHANGED <<pc, rbuf, state, given, secret>>
      BY <1>11, <2>1, <2>3 DEF ServerPassword, Takes, Admit, Refuse, Reply, Parting
    <3>2. Inflow' = Parting
      BY <2>1, <3>1, FlowAdded, Replies
    <3>3. given # secret
      BY <2>1, <3>1 DEF Expected, Response
    <3> QED
      BY <2>1, <3>1, <3>2, <3>3 DEF RefusalKnown, Denied, Broken
  <2> QED
    BY <2>2, <2>3
<1>12. CASE ServerSaslFinal
  <2>1. /\ pc = "saslFinal" /\ ~Broken /\ Inflow = <<>> /\ Tail(toServer) = <<>>
        /\ Head(toServer).arg = <<"proof", given>>
    BY <1>12, Requests DEF ServerSaslFinal, Takes, Msg, MsgOf, StateKnown, Broken
  <2>2. CASE refused' = refused
    BY <1>1, <1>12, <2>1, <2>2 DEF ServerSaslFinal, RefusalKnown
  <2>3. CASE refused' # refused
    <3>1. /\ refused' = "proof" /\ server' = "gone" /\ toServer' = <<>>
          /\ given # secret /\ toClient' = toClient \o Parting
          /\ UNCHANGED <<pc, rbuf, state, given, secret>>
      BY <1>12, <2>1, <2>3 DEF ServerSaslFinal, Takes, Refuse, Reply, Parting
    <3>2. Inflow' = Parting
      BY <2>1, <3>1, FlowAdded, Replies
    <3> QED
      BY <2>1, <3>1, <3>2 DEF RefusalKnown, Denied, Broken
  <2> QED
    BY <2>2, <2>3
<1>13. CASE ServerStops
  BY <1>1, <1>13 DEF ServerStops, RefusalKnown, Over
<1>14. CASE UNCHANGED vars
  BY <1>0, <1>14 DEF vars, RefusalKnown, Denied, Broken
<1> QED
  BY <1>2, <1>3, <1>4, <1>5, <1>6, <1>7, <1>8, <1>9, <1>10, <1>11, <1>12, <1>13, <1>14
     DEF Next, Connect, User, Socket, Server

LEMMA GivenStep == TypeInv /\ Sync /\ GivenKnown /\ [Next]_vars => GivenKnown'
<1> SUFFICES ASSUME TypeInv, Sync, GivenKnown, [Next]_vars PROVE GivenKnown'
  OBVIOUS
<1> USE DEF GivenKnown, Goto, Fail, clientVars, serverConsts, ghosts
<1>1. CASE \/ Unreachable \/ UpgradeFails \/ Rejected \/ SaslRefused \/ RejectWaiter
           \/ PasswordRejects \/ HookEnds
  BY <1>1 DEF Unreachable, UpgradeFails, Rejected, SaslRefused, RejectWaiter,
       PasswordRejects, HookEnds
<1>2. CASE Begin \/ Negotiate \/ Upgrade
  <2>1. /\ UNCHANGED given /\ pc' \notin {"saslContinue", "deriving", "saslFinal"}
        /\ \/ toServer' \in {<<>>, toServer}
           \/ Send(Msg("ssl")) \/ Send(Msg("startup"))
    BY <1>2 DEF Begin, Negotiate, Upgrade, Startup
  <2>2. toServer = <<>>
    BY <1>2, Requests, FlowOpen DEF Begin, Negotiate, Upgrade
  <2>3. \A frame : Append(<<>>, frame) = <<frame>> /\ Head(<<frame>>) = frame
    BY Tuples
  <2> QED
    BY <2>1, <2>2, <2>3 DEF Send, Msg
<1>3. CASE Absorb \/ AskPassword \/ Ready \/ SaslContinue \/ SaslFinal
  BY <1>3 DEF Absorb, AskPassword, Ready, SaslContinue, SaslFinal, Deliver
<1>4. CASE Derived
  BY <1>4 DEF Derived
<1>5. CASE PasswordResolves
  BY <1>5 DEF PasswordResolves
<1>6. CASE Receive \/ Close
  BY <1>6 DEF Receive, Close
<1>7. CASE ServerSsl \/ ServerStartup \/ ServerPassword \/ ServerSaslFirst \/ ServerSaslFinal
  <2>1. toServer # <<>> /\ toServer' = Tail(toServer) /\ UNCHANGED <<pc, given>>
    BY <1>7 DEF ServerSsl, ServerStartup, ServerPassword, ServerSaslFirst, ServerSaslFinal,
         Takes
  <2> QED
    BY <2>1, Requests
<1>8. CASE ServerStops \/ UNCHANGED vars
  BY <1>8 DEF ServerStops, vars
<1> QED
  BY <1>1, <1>2, <1>3, <1>4, <1>5, <1>6, <1>7, <1>8 DEF Next, Connect, User, Socket, Server

-----------------------------------------------------------------------------
(* The theorems *)

LEMMA IInvInit == Init => IInv
<1> SUFFICES ASSUME Init PROVE IInv
  OBVIOUS
<1>1. <<>> \o <<>> = <<>> /\ <<>> \in Seq(Letters)
  BY EmptySeq, ConcatEmptySeq
<1> QED
  BY <1>1 DEF Init, IInv, TypeInv, Phases, Sync, StateKnown, TlsAgreed, RefusalKnown,
       GivenKnown, Inflow

LEMMA IInvStep == IInv /\ [Next]_vars => IInv'
BY TypeStep, SyncStep, StateStep, TlsStep, RefusalStep, GivenStep DEF IInv

LEMMA Invariance == Spec => []IInv
BY IInvInit, IInvStep, PTL DEF Spec

\* At most the end of a SCRAM exchange, the welcome and an error are in flight.
LEMMA InflowBound ==
  ASSUME TypeInv, Sync
  PROVE  Len(rbuf) + Len(toClient) <= 5
<1>1. \A m \in Seq(Letters) : \A frames, phase :
        Len(m) <= 4 /\ At(m, frames, phase) => Len(Inflow) <= 5
  <2> SUFFICES ASSUME NEW m \in Seq(Letters), NEW frames, NEW phase,
                      Len(m) <= 4, At(m, frames, phase)
               PROVE  Len(Inflow) <= 5
    OBVIOUS
  <2>1. m # <<>> => Len(m \o Parting) = Len(m) + 1
    BY TakingsHold DEF Takings
  <2>2. Len(m) \in Nat
    OBVIOUS
  <2> QED
    BY <2>1, <2>2, Nothing DEF At
<1>2. Len(Inflow) = Len(rbuf) + Len(toClient)
  BY ConcatProperties DEF TypeInv, Inflow
<1>3. Denied \/ Inflow = <<>> => Len(Inflow) <= 5
  BY Nothing DEF Denied
<1>4. \A frames, phase : At(<<>>, frames, phase) => Len(Inflow) <= 5
  <2>1. <<>> \in Seq(Letters) /\ Len(<<>>) <= 4
    BY Replies
  <2> QED
    BY <1>1, <2>1, Zenon
<1>5. \A a, frames, phase : <<a>> \in Seq(Letters) /\ At(<<a>>, frames, phase) => Len(Inflow) <= 5
  <2>1. \A a : Len(<<a>>) <= 4
    OBVIOUS
  <2> QED
    BY <1>1, <2>1, Zenon
<1>6. \A a, b, frames, phase :
        <<a, b>> \in Seq(Letters) /\ At(<<a, b>>, frames, phase) => Len(Inflow) <= 5
  <2>1. \A a, b : Len(<<a, b>>) <= 4
    OBVIOUS
  <2> QED
    BY <1>1, <2>1, Zenon
<1>7. \A frames, phase : At(Welcome, frames, phase) => Len(Inflow) <= 5
  <2>1. Welcome \in Seq(Letters) /\ Len(Welcome) <= 4
    BY WelcomeFacts
  <2> QED
    BY <1>1, <2>1, Zenon
<1>8. \A arg \in {<<"signature", secret>>, <<"bad">>} : \A frames, phase :
        At(<<MsgOf("final", arg)>> \o Welcome, frames, phase) => Len(Inflow) <= 5
  <2> SUFFICES ASSUME NEW arg \in {<<"signature", secret>>, <<"bad">>}, NEW frames, NEW phase,
                      At(<<MsgOf("final", arg)>> \o Welcome, frames, phase)
               PROVE  Len(Inflow) <= 5
    OBVIOUS
  <2> DEFINE f == <<MsgOf("final", arg)>>
  <2>1. f \in Seq(Letters) /\ f \o Welcome \in Seq(Letters) /\ Len(f) = 1
    BY Replies
  <2>2. At(f \o Welcome, frames, phase)
    OBVIOUS
  <2> HIDE DEF f
  <2>3. Len(f \o Welcome) = Len(f) + Len(Welcome)
    BY <2>1, WelcomeFacts, ConcatProperties
  <2>4. Len(f \o Welcome) <= 4
    BY <2>1, <2>3, WelcomeFacts
  <2> QED
    BY <1>1, <2>1, <2>2, <2>4, Zenon
<1>9. Starting => Len(Inflow) <= 5
  <2>1. Asked => Len(Inflow) <= 5
    BY <1>5, <1>6, Replies DEF Asked
  <2>2. Admitted => Len(Inflow) <= 5
    BY <1>5, <1>6, <1>7, Replies DEF Admitted
  <2> QED
    BY <1>3, <1>4, <2>1, <2>2 DEF Starting
<1>10. rbuf = <<>> /\ toClient = <<>> => Len(Inflow) <= 5
  BY <1>3, FlowOpen
<1> QED
  BY <1>2, <1>3, <1>4, <1>5, <1>8, <1>9, <1>10, Replies DEF Sync

\* Every variable keeps its type, at most one frame and five messages are under
\* way, and a digest is made from the salt of the server's own request
\* (handleAuthRequest() slices it out of the reader before it awaits).
THEOREM TypeCorrect == Spec => []TypeOK
<1>1. IInv => TypeOK
  <2> SUFFICES ASSUME IInv PROVE TypeOK
    OBVIOUS
  <2>1. Len(rbuf) + Len(toClient) <= 5
    BY InflowBound DEF IInv
  <2>2. CASE toServer = <<>>
    <3>1. Len(toServer) <= 1 /\ \A i \in 1 .. Len(toServer) : toServer[i] \in Frames
      BY <2>2
    <3> QED
      BY <2>1, <3>1 DEF IInv, TypeInv, TypeOK
  <2>3. CASE toServer # <<>>
    <3>1. /\ toServer = <<Head(toServer)>>
          /\ \/ Head(toServer) \in {Msg("ssl"), Msg("startup"), Msg("saslFirst")}
             \/ Head(toServer) = MsgOf("password", Response)
             \/ pc = "saslFinal" /\ Head(toServer) = MsgOf("saslFinal", <<"proof", given>>)
      BY <2>3, Requests DEF IInv
    <3>2. /\ Head(toServer) = MsgOf("password", Response) => given \in Passwords
          /\ pc = "saslFinal" => given \in Passwords
      BY <2>3 DEF IInv, GivenKnown, MsgOf
    <3>3. Head(toServer) \in Frames
      BY <3>1, <3>2 DEF IInv, TypeInv, Frames, Msg, MsgOf, Response
    <3>4. Len(toServer) <= 1 /\ \A i \in 1 .. Len(toServer) : toServer[i] \in Frames
      BY <3>1, <3>3
    <3> QED
      BY <2>1, <3>4 DEF IInv, TypeInv, TypeOK
  <2> QED
    BY <2>2, <2>3
<1> QED
  BY <1>1, Invariance, PTL

\* connect() and the server stay in step through TLS, startup and every
\* authentication exchange, wherever the connection breaks.
THEOREM StepCorrect == Spec => []InStep
<1>1. IInv => InStep
  <2> SUFFICES ASSUME IInv PROVE InStep
    OBVIOUS
  <2>1. \A i \in 1 .. Len(toServer) : Wanted(toServer[i])
    <3>1. CASE toServer = <<>>
      BY <3>1
    <3>2. CASE toServer # <<>>
      <4>1. toServer = <<Head(toServer)>> /\ Wanted(Head(toServer))
        BY <3>2, Requests DEF IInv, Wanted, Msg, MsgOf
      <4>2. Len(toServer) = 1 /\ toServer[1] = Head(toServer)
        BY <4>1
      <4> QED
        BY <4>1, <4>2
    <3> QED
      BY <3>1, <3>2
  <2>2. rbuf # <<>> => (Head(rbuf).kind = "byte") = (pc = "negotiating")
    <3> SUFFICES ASSUME rbuf # <<>> PROVE (Head(rbuf).kind = "byte") = (pc = "negotiating")
      OBVIOUS
    <3>1. Inflow # <<>> /\ Head(rbuf) = Head(Inflow)
      BY FlowOpen DEF IInv
    <3>2. \A frames, phase : At(<<>>, frames, phase) \/ Denied => Head(rbuf).kind # "byte"
      BY <3>1, AtNothing, Nothing DEF Denied, Msg
    <3>3. CASE pc = "negotiating"
      <4>1. ~ At(<<>>, <<Msg("ssl")>>, "start")
        BY <3>1, AtNothing
      <4>2. \E b \in {"S", "N", "E"} : Inflow = <<Byte(b)>>
        BY <3>3, <4>1 DEF IInv, Sync, At
      <4> QED
        BY <3>1, <3>3, <4>2, Tuples DEF Byte
    <3>4. CASE pc = "starting"
      <4>1. Starting
        BY <3>4 DEF IInv, Sync
      <4> QED
        BY <3>1, <3>4, <4>1, StartingHead DEF IInv, Msg, MsgOf
    <3>5. CASE pc = "saslContinue"
      <4>1. CASE At(<<>>, <<Msg("saslFirst")>>, "saslFirst")
        BY <3>2, <3>5, <4>1
      <4>2. CASE \E arg \in {"ok", "bad"} :
                   At(<<MsgOf("continue", <<arg>>)>>, <<>>, "saslFinal")
        <5>1. PICK arg \in {"ok", "bad"} :
                At(<<MsgOf("continue", <<arg>>)>>, <<>>, "saslFinal")
          BY <4>2
        <5>2. /\ <<MsgOf("continue", <<arg>>)>> \in Seq(Letters)
              /\ <<MsgOf("continue", <<arg>>)>> # <<>>
          BY Replies DEF IInv
        <5>3. Head(Inflow) = Head(<<MsgOf("continue", <<arg>>)>>)
          BY <5>1, <5>2, AtTaken
        <5> QED
          BY <3>1, <3>5, <5>3 DEF MsgOf
      <4> QED
        BY <3>5, <4>1, <4>2 DEF IInv, Sync
    <3>6. CASE pc = "saslFinal"
      <4>1. CASE At(<<>>, <<MsgOf("saslFinal", <<"proof", given>>)>>, "saslFinal") \/ Denied
        BY <3>2, <3>6, <4>1
      <4>2. CASE \E arg \in {<<"signature", secret>>, <<"bad">>} :
                   At(<<MsgOf("final", arg)>> \o Welcome, <<>>, "ready")
        <5>1. PICK arg \in {<<"signature", secret>>, <<"bad">>} :
                At(<<MsgOf("final", arg)>> \o Welcome, <<>>, "ready")
          BY <4>2
        <5>2. /\ <<MsgOf("final", arg)>> \in Seq(Letters)
              /\ <<MsgOf("final", arg)>> # <<>>
              /\ Head(<<MsgOf("final", arg)>>) = MsgOf("final", arg)
          <6>1. TypeInv
            BY DEF IInv
          <6>2. <<MsgOf("final", arg)>> \in Seq(Letters)
            BY <6>1, Replies
          <6>3. \A x : <<x>> # <<>> /\ Head(<<x>>) = x
            BY Tuples
          <6> QED
            BY <6>2, <6>3
        <5> DEFINE m == <<MsgOf("final", arg)>> \o Welcome
        <5>3. m \in Seq(Letters) /\ m # <<>> /\ Head(m) = MsgOf("final", arg)
          BY <5>2, WelcomeFacts, Taken
        <5>4. At(m, <<>>, "ready")
          BY <5>1
        <5> HIDE DEF m
        <5>5. Head(Inflow) = Head(m)
          BY <5>3, <5>4, AtTaken
        <5> QED
          BY <3>1, <3>6, <5>3, <5>5 DEF MsgOf
      <4> QED
        BY <3>6, <4>1, <4>2 DEF IInv, Sync
    <3>7. CASE pc \notin {"negotiating", "starting", "saslContinue", "saslFinal"}
      BY <3>1, <3>2, <3>7 DEF IInv, Sync
    <3> QED
      BY <3>3, <3>4, <3>5, <3>6, <3>7
  <2>3. pc = "connected" /\ ~Broken =>
          /\ state = "ready" /\ key
          /\ toServer = <<>>
          /\ (server = "ready" /\ rbuf = <<>> /\ toClient = <<>>) \/ server = "gone"
          /\ method = "scram" => signature = <<"signature", secret>>
    BY FlowOpen DEF IInv, Sync, At, StateKnown, Broken
  <2> QED
    BY <2>1, <2>2, <2>3 DEF IInv, TlsAgreed, InStep
<1> QED
  BY <1>1, Invariance, PTL

\* A refusal is the password's fault and reaches the caller of connect() as the
\* server's error.
THEOREM FailureCorrect == Spec => []TruthfulFailure
<1>1. IInv => TruthfulFailure
  BY DEF IInv, RefusalKnown, TruthfulFailure
<1> QED
  BY <1>1, Invariance, PTL
=============================================================================

----------------------------- MODULE Handshake -----------------------------
(***************************************************************************)
(* Connection.connect(): TLS negotiation, startup and authentication       *)
(* (src/packages/pg-rocket/src/connection/connection.ts, tcp.ts, and       *)
(* protocol/auth), up to the onConnect hook.                               *)
(*                                                                         *)
(* A stretch of JavaScript between two awaits is one action; Quiet guards  *)
(* the socket, because continuations run first.  While connect() awaits    *)
(* something else than the server (the password callback, key derivation,  *)
(* the hook) no waiter is registered: those are the Thinking phases.       *)
(*                                                                         *)
(* The argument of a message is a tuple.  Digests are free constructors:   *)
(* <<"md5", password, salt>> and <<"proof", password>> are equal exactly   *)
(* if their parts are.                                                     *)
(***************************************************************************)
EXTENDS Integers, Sequences, SequencesExt

CONSTANTS
  Modes,     \* the client's tls option: of "disable", "prefer", "require"
  Methods,   \* what the server asks for: of "trust", "clear", "md5", "scram",
             \* "unknown" (a subcode or a SASL mechanism the client lacks)
  Passwords, \* passwords the client may have; the server's is one of them
  Salts

VARIABLES
  mode,      \* the client's tls mode
  pc,        \* where connect() is
  state,     \* the connection's state
  rbuf,      \* messages in the reader
  salt,      \* the salt of the md5 request, sliced out of the reader
  signature, \* session.serverSignature of the SCRAM exchange
  key,       \* processId and secretKey are set
  cTls,      \* the transport is a TLS socket
  reason,    \* why connect() rejected
  toServer, toClient,
  server,    \* how far the server is
  method, secret, hash, \* what it asks for, the password and the salt it has
  sTls,
  given,     \* ghost: the password the callback resolved to
  refused    \* ghost: the request the server answered with an ErrorResponse

clientVars == <<mode, pc, state, rbuf, salt, signature, key, cTls, reason>>
serverConsts == <<method, secret, hash>>
ghosts == <<given, refused>>
vars == <<clientVars, toServer, toClient, server, serverConsts, sTls, ghosts>>

Phases == {"start", "negotiating", "upgrading", "starting", "clear", "md5",
           "sasl", "saslContinue", "deriving", "saslFinal", "hook",
           "connected", "failed"}

Over == {"connected", "failed"}
Thinking == {"clear", "md5", "sasl", "deriving", "hook"}
Waiting == {"negotiating", "starting", "saslContinue", "saslFinal"}

\* Byte is the answer to an SSLRequest, all else are framed messages.
Byte(b) == [kind |-> "byte", arg |-> <<b>>]
Msg(kind) == [kind |-> kind, arg |-> <<>>]
MsgOf(kind, arg) == [kind |-> kind, arg |-> arg]

Broken == state \in {"errored", "closed"}
Quiet == pc \in Waiting => (rbuf = <<>> /\ ~Broken)

Send(frame) == toServer' = IF server = "gone" THEN toServer
                                              ELSE Append(toServer, frame)

\* connect() rejects: the socket is destroyed.
Fail(why) ==
  /\ pc' = "failed"
  /\ reason' = why
  /\ rbuf' = <<>> /\ toServer' = <<>> /\ toClient' = <<>>

Goto(phase) == pc' = phase /\ UNCHANGED reason

-----------------------------------------------------------------------------
\* connectTcp() rejects.
Unreachable ==
  /\ pc = "start"
  /\ Fail("transport")
  /\ UNCHANGED <<mode, state, salt, signature, key, cTls, server, serverConsts,
                 sTls, ghosts>>

(* maybeUpgradeTls() *)

\* From the open socket to the first write: SSLRequest or, without TLS, the
\* startup message at once.
Begin ==
  /\ pc = "start"
  /\ IF mode = "disable"
     THEN /\ Goto("starting") /\ state' = "authenticating"
          /\ Send(Msg("startup"))
     ELSE /\ Goto("negotiating") /\ state' = "negotiating-tls"
          /\ Send(Msg("ssl"))
  /\ UNCHANGED <<mode, rbuf, salt, signature, key, cTls, toClient, server,
                 serverConsts, sTls, ghosts>>

Startup ==
  /\ Goto("starting")
  /\ state' = "authenticating"
  /\ Send(Msg("startup"))

\* The negotiation byte: awaitNegotiationByte(), served by phase 1 of drain().
Negotiate ==
  /\ pc = "negotiating"
  /\ ~Broken
  /\ rbuf # <<>>
  /\ LET b == Head(rbuf).arg[1]
     IN  \/ /\ b = "S"
            /\ Goto("upgrading")
            /\ rbuf' = Tail(rbuf)
            /\ UNCHANGED <<state, toServer, toClient>>
         \/ /\ b = "N" /\ mode = "prefer"
            /\ Startup
            /\ rbuf' = Tail(rbuf)
            /\ UNCHANGED toClient
         \/ /\ b = "N" /\ mode = "require"
            /\ Fail("tls")
            /\ UNCHANGED state
         \/ /\ b \notin {"S", "N"}
            /\ Fail("protocol")
            /\ UNCHANGED state
  /\ UNCHANGED <<mode, salt, signature, key, cTls, server, serverConsts, sTls,
                 ghosts>>

\* upgradeTls(): the socket's handlers move to the TLS socket once it is
\* secure; a certificate that does not verify rejects, in every mode.
MutUpgrade ==
  /\ pc = "upgrading" /\ server = "tls"
  /\ \/ /\ cTls' = TRUE /\ sTls' = TRUE
        /\ Startup
        /\ server' = "start"
        /\ UNCHANGED <<rbuf, toClient>>
     \/ /\ Startup
        /\ server' = "start"
        /\ UNCHANGED <<rbuf, toClient, cTls, sTls>>
  /\ UNCHANGED <<mode, salt, signature, key, serverConsts, ghosts>>

Upgrade ==
  /\ pc = "upgrading" /\ server = "tls"
  /\ \/ /\ cTls' = TRUE /\ sTls' = TRUE
        /\ Startup
        /\ server' = "start"
        /\ UNCHANGED <<rbuf, toClient>>
     \/ /\ Fail("tls")
        /\ UNCHANGED <<state, cTls, sTls, server>>
  /\ UNCHANGED <<mode, salt, signature, key, serverConsts, ghosts>>

\* ... and so does a socket that closes during it.
UpgradeFails ==
  /\ pc = "upgrading" /\ server = "gone"
  /\ Fail("tls")
  /\ UNCHANGED <<mode, state, salt, signature, key, cTls, server, serverConsts,
                 sTls, ghosts>>

-----------------------------------------------------------------------------
(* startup() and the authentication it leads through *)

\* The message at the head of the reader is delivered to the waiter.
Deliver(phase, kinds) ==
  /\ pc = phase
  /\ ~Broken
  /\ rbuf # <<>>
  /\ Head(rbuf).kind \in kinds
  /\ rbuf' = Tail(rbuf)

\* Messages startup() takes without an answer.
Absorb ==
  /\ Deliver("starting", {"ok", "key", "negotiate"})
  /\ key' = (key \/ Head(rbuf).kind = "key")
  /\ UNCHANGED <<mode, pc, state, salt, signature, cTls, reason, toServer,
                 toClient, server, serverConsts, sTls, ghosts>>

\* handleAuthRequest(): on to the password.  The md5 salt is sliced out of the
\* reader before the await.
AskPassword ==
  /\ Deliver("starting", {"clear", "md5", "sasl"})
  /\ Goto(Head(rbuf).kind)
  /\ salt' = IF Head(rbuf).kind = "md5" THEN Head(rbuf).arg ELSE salt
  /\ UNCHANGED <<mode, state, signature, key, cTls, toServer, toClient, server,
                 serverConsts, sTls, ghosts>>

\* ReadyForQuery: handshake() is done; an onConnect hook runs, if there is one.
Ready ==
  /\ Deliver("starting", {"ready"})
  /\ state' = "ready"
  /\ \E phase \in {"hook", "connected"} : Goto(phase)
  /\ UNCHANGED <<mode, salt, signature, key, cTls, toServer, toClient, server,
                 serverConsts, sTls, ghosts>>

OutOfOrder(kind) ==
  CASE pc = "starting" -> kind \in {"continue", "final"}
    [] pc = "saslContinue" -> kind # "continue"
    [] pc = "saslFinal" -> kind # "final"
    [] OTHER -> FALSE

\* What ends the handshake: an error of the server, a method the client does
\* not know, a message out of order.
Rejected ==
  /\ ~Broken
  /\ rbuf # <<>>
  /\ LET kind == Head(rbuf).kind
     IN  \/ pc = "starting" /\ kind = "error" /\ Fail("server")
         \/ pc = "starting" /\ kind = "unknown" /\ Fail("auth")
         \/ OutOfOrder(kind) /\ Fail("protocol")
  /\ UNCHANGED <<mode, state, salt, signature, key, cTls, server, serverConsts,
                 sTls, ghosts>>

\* The password callback resolves, and the answer is written: on a dead socket
\* the write is an error.
Answer(frame, phase) ==
  IF Broken
  THEN Fail("transport")
  ELSE Goto(phase) /\ Send(frame) /\ UNCHANGED <<rbuf, toClient>>

MutToken(password) == <<"md5", password>>
\* md5PasswordToken()
Token(password) == <<"md5", password>> \o salt

PasswordResolves ==
  /\ \E password \in Passwords :
       /\ given' = password
       /\ \/ pc = "clear" /\ Answer(MsgOf("password", <<password>>), "starting")
          \/ pc = "md5" /\ Answer(MsgOf("password", Token(password)), "starting")
          \/ pc = "sasl" /\ Answer(Msg("saslFirst"), "saslContinue")
  /\ UNCHANGED <<mode, state, salt, signature, key, cTls, server, serverConsts,
                 sTls, refused>>

\* ... or it throws.
PasswordRejects ==
  /\ pc \in {"clear", "md5", "sasl"}
  /\ Fail("auth")
  /\ UNCHANGED <<mode, state, salt, signature, key, cTls, server, serverConsts,
                 sTls, ghosts>>

-----------------------------------------------------------------------------
(* handleSasl() from the server's first message on *)

\* The fields of the message are taken out of the reader; clientFinal() throws
\* at once on one it cannot read, or awaits the key derivation.
SaslContinue ==
  /\ Deliver("saslContinue", {"continue"})
  /\ Head(rbuf).arg = <<"ok">>
  /\ Goto("deriving")
  /\ UNCHANGED <<mode, state, salt, signature, key, cTls, toServer, toClient,
                 server, serverConsts, sTls, ghosts>>

Derived ==
  /\ pc = "deriving"
  /\ signature' = <<"signature", given>>
  /\ Answer(MsgOf("saslFinal", <<"proof", given>>), "saslFinal")
  /\ UNCHANGED <<mode, state, salt, key, cTls, server, serverConsts, sTls,
                 ghosts>>

\* verifyServerFinal(): the server's signature is the expected one.
SaslFinal ==
  /\ Deliver("saslFinal", {"final"})
  /\ Head(rbuf).arg = signature
  /\ Goto("starting")
  /\ UNCHANGED <<mode, state, salt, signature, key, cTls, toServer, toClient,
                 server, serverConsts, sTls, ghosts>>

SaslRefused ==
  /\ ~Broken
  /\ rbuf # <<>>
  /\ \/ pc = "saslContinue" /\ Head(rbuf) = MsgOf("continue", <<"bad">>)
     \/ pc = "saslFinal" /\ Head(rbuf) = MsgOf("final", <<"bad">>)
  /\ Fail("auth")
  /\ UNCHANGED <<mode, state, salt, signature, key, cTls, server, serverConsts,
                 sTls, ghosts>>

-----------------------------------------------------------------------------
(* The onConnect hook *)

MutHookEnds ==
  /\ pc = "hook"
  /\ pc' = "connected"
  /\ reason' \in {"none", "hook"}
  /\ UNCHANGED <<rbuf, toServer, toClient, mode, state, salt, signature, key,
                 cTls, server, serverConsts, sTls, ghosts>>

\* connect() resolves when the hook does, whatever became of the connection
\* meanwhile, and rejects when the hook throws.
HookEnds ==
  /\ pc = "hook"
  /\ \/ Goto("connected") /\ UNCHANGED <<rbuf, toServer, toClient>>
     \/ Fail("hook")
  /\ UNCHANGED <<mode, state, salt, signature, key, cTls, server, serverConsts,
                 sTls, ghosts>>

-----------------------------------------------------------------------------
(* The socket *)

Listening == pc \in Waiting \cup Thinking /\ ~Broken /\ Quiet

\* A chunk of n messages.  With no waiter a message is unsolicited: fatal()
\* destroys the socket.
Receive ==
  /\ Listening
  /\ \E n \in 1 .. Len(toClient) :
       IF pc \in Waiting
       THEN /\ rbuf' = rbuf \o SubSeq(toClient, 1, n)
            /\ toClient' = SubSeq(toClient, n + 1, Len(toClient))
            /\ UNCHANGED <<state, toServer>>
       ELSE /\ state' = "errored"
            /\ rbuf' = <<>> /\ toClient' = <<>> /\ toServer' = <<>>
  /\ UNCHANGED <<mode, pc, salt, signature, key, cTls, reason, server,
                 serverConsts, sTls, ghosts>>

\* The close of the socket comes after the data; onTransportClose().
Close ==
  /\ Listening
  /\ server = "gone" /\ toClient = <<>>
  /\ state' = "closed"
  /\ UNCHANGED <<mode, pc, rbuf, salt, signature, key, cTls, reason, toServer,
                 toClient, server, serverConsts, sTls, ghosts>>

MutRejectWaiter ==
  /\ pc \in Waiting /\ state = "errored"
  /\ Fail("closed")
  /\ UNCHANGED <<mode, state, salt, signature, key, cTls, server, serverConsts,
                 sTls, ghosts>>

\* failPending(): the waiter of a lost connection is rejected, and so is one
\* that is registered later.
RejectWaiter ==
  /\ pc \in Waiting /\ Broken
  /\ Fail("closed")
  /\ UNCHANGED <<mode, state, salt, signature, key, cTls, server, serverConsts,
                 sTls, ghosts>>

-----------------------------------------------------------------------------
(* The server *)

Takes(phase, kind) ==
  /\ server = phase
  /\ toServer # <<>> /\ Head(toServer).kind = kind
  /\ toServer' = Tail(toServer)

Reply(messages, phase) ==
  /\ toClient' = toClient \o messages
  /\ server' = phase

Welcome == <<Msg("ok"), Msg("key"), Msg("ready")>>

Admit == Reply(Welcome, "ready") /\ UNCHANGED refused

\* It refuses with an ErrorResponse and closes.
Refuse(request) ==
  /\ Reply(<<Msg("error")>>, "gone")
  /\ refused' = request

\* The answer to an SSLRequest; a server that knows none says "E".
ServerSsl ==
  /\ Takes("start", "ssl")
  /\ \/ Reply(<<Byte("S")>>, "tls")
     \/ Reply(<<Byte("N")>>, "start")
     \/ Reply(<<Byte("E")>>, "gone")
  /\ UNCHANGED <<clientVars, serverConsts, sTls, ghosts>>

\* No such role or database, too many clients; or it asks for the password.
ServerStartup ==
  /\ Takes("start", "startup")
  /\ \/ Refuse("startup")
     \/ method = "trust" /\ Admit
     \/ /\ method \in {"clear", "unknown"}
        /\ Reply(<<Msg("negotiate"), Msg(method)>>, "password")
        /\ UNCHANGED refused
     \/ /\ method = "md5"
        /\ Reply(<<MsgOf("md5", <<hash>>)>>, "password")
        /\ UNCHANGED refused
     \/ /\ method = "scram"
        /\ Reply(<<Msg("sasl")>>, "saslFirst")
        /\ UNCHANGED refused
  /\ UNCHANGED <<clientVars, serverConsts, sTls, given>>

\* What it expects in the PasswordMessage.
Expected == IF method = "md5" THEN <<"md5", secret, hash>> ELSE <<secret>>

ServerPassword ==
  /\ Takes("password", "password")
  /\ IF Head(toServer).arg = Expected THEN Admit ELSE Refuse("password")
  /\ UNCHANGED <<clientVars, serverConsts, sTls, given>>

ServerSaslFirst ==
  /\ Takes("saslFirst", "saslFirst")
  /\ \E arg \in {"ok", "bad"} : Reply(<<MsgOf("continue", <<arg>>)>>, "saslFinal")
  /\ UNCHANGED <<clientVars, serverConsts, sTls, ghosts>>

ServerSaslFinal ==
  /\ Takes("saslFinal", "saslFinal")
  /\ IF Head(toServer).arg = <<"proof", secret>>
     THEN /\ \E arg \in {<<"signature", secret>>, <<"bad">>} :
               Reply(<<MsgOf("final", arg)>> \o Welcome, "ready")
          /\ UNCHANGED refused
     ELSE Refuse("proof")
  /\ UNCHANGED <<clientVars, serverConsts, sTls, given>>

\* It goes away: shut down with an ErrorResponse, or the connection breaks.
ServerStops ==
  /\ pc # "start" /\ pc \notin Over
  /\ server # "gone"
  /\ toServer' = <<>>
  /\ \/ /\ server \notin {"start", "tls"}
        /\ Reply(<<Msg("error")>>, "gone")
     \/ Reply(<<>>, "gone")
  /\ UNCHANGED <<clientVars, serverConsts, sTls, ghosts>>

-----------------------------------------------------------------------------
Init ==
  /\ mode \in Modes
  /\ pc = "start" /\ state = "connecting"
  /\ rbuf = <<>>
  /\ salt = <<>> /\ signature = <<>> /\ key = FALSE /\ cTls = FALSE
  /\ reason = "none"
  /\ toServer = <<>> /\ toClient = <<>>
  /\ server = "start"
  /\ method \in Methods /\ secret \in Passwords /\ hash \in Salts
  /\ sTls = FALSE
  /\ given = "none" /\ refused = "none"

Connect ==
  \/ Unreachable \/ Begin \/ Negotiate \/ Upgrade \/ UpgradeFails
  \/ Absorb \/ AskPassword \/ Ready \/ Rejected
  \/ SaslContinue \/ Derived \/ SaslFinal \/ SaslRefused
  \/ RejectWaiter

User == PasswordResolves \/ PasswordRejects \/ HookEnds

Socket == Receive \/ Close

Server ==
  \/ ServerSsl \/ ServerStartup \/ ServerPassword
  \/ ServerSaslFirst \/ ServerSaslFinal

Next == Connect \/ User \/ Socket \/ Server \/ ServerStops

Spec == Init /\ [][Next]_vars

\* The client's steps run; the password callback, the hook and the crypto
\* resolve; the socket delivers; and the server answers what it was asked or
\* closes: connect() has no timeout of its own.
FairSpec ==
  Spec /\ WF_vars(Connect) /\ WF_vars(User) /\ WF_vars(Socket) /\ WF_vars(Server)

-----------------------------------------------------------------------------
(* Properties *)

Frames == [kind : {"ssl", "startup", "password", "saslFirst", "saslFinal"},
           arg : {<<>>} \cup {<<p>> : p \in Passwords}
                   \cup {<<"md5", p, h>> : p \in Passwords, h \in Salts}
                   \cup {<<"proof", p>> : p \in Passwords}]

\* Types; and a digest is made from the salt of the server's own request.
TypeOK ==
  /\ mode \in Modes /\ pc \in Phases
  /\ state \in {"connecting", "negotiating-tls", "authenticating", "ready",
                "errored", "closed"}
  /\ Len(rbuf) + Len(toClient) <= 5
  /\ salt \in {<<>>, <<hash>>}
  /\ signature \in {<<>>, <<"signature", given>>}
  /\ {key, cTls, sTls} \subseteq BOOLEAN
  /\ reason \in {"none", "tls", "protocol", "server", "auth", "closed",
                 "transport", "hook"}
  /\ Len(toServer) <= 1
  /\ \A i \in 1 .. Len(toServer) : toServer[i] \in Frames
  /\ server \in {"start", "tls", "password", "saslFirst", "saslFinal", "ready",
                 "gone"}
  /\ given \in Passwords \cup {"none"}
  /\ refused \in {"none", "startup", "password", "proof"}
  /\ (reason # "none") = (pc = "failed")

\* The frame each phase of the server takes next.
Wanted(frame) ==
  \/ server = "start" /\ frame.kind \in {"ssl", "startup"}
  \/ server = frame.kind

\* Client and server never lose each other: the server gets no frame it does not
\* wait for; the negotiation byte is never read as a frame, nor a frame as the
\* byte; both ends agree on TLS, which "require" never goes without and
\* "disable" never uses; and a connection that connect() hands out alive is
\* admitted, with nothing left over on the way and the key for cancelling known.
InStep ==
  /\ \A i \in 1 .. Len(toServer) : Wanted(toServer[i])
  /\ rbuf # <<>> => (Head(rbuf).kind = "byte") = (pc = "negotiating")
  /\ cTls = sTls
  /\ mode = "disable" => ~cTls
  /\ mode = "require" /\ state \in {"authenticating", "ready"} => cTls
  /\ pc = "connected" /\ ~Broken =>
       /\ state = "ready" /\ key
       /\ toServer = <<>>
       /\ (server = "ready" /\ rbuf = <<>> /\ toClient = <<>>) \/ server = "gone"
       /\ method = "scram" => signature = <<"signature", secret>>

\* A refusal is the password's fault and is reported as what it is: the server
\* turns nobody away who has the right password, and connect() rejects with the
\* server's error, across all the awaits in between.  After a SCRAM proof it
\* rejects with a ProtocolError: handleSasl() expects SaslFinal or nothing.
TruthfulFailure ==
  /\ refused \in {"password", "proof"} => given # secret
  /\ pc = "connected" => refused = "none"
  /\ pc = "failed" /\ refused \in {"startup", "password"} => reason = "server"

\* Every connect() resolves or rejects.
EveryConnectSettles == <>(pc \in Over)
=============================================================================

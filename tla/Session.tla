------------------------------ MODULE Session ------------------------------
(***************************************************************************)
(* Connecting, authenticating and attaching (FirebirdWireConnection::      *)
(* connect, srp_auth, attach_database of rsfbclient-rust/src/client.rs;    *)
(* the requests and answers of wire.rs; Arc4Stream of arc4.rs), with the   *)
(* server at the other end of two byte streams.                            *)
(*                                                                         *)
(* Abstraction: a message is two bytes, which is what it takes to arrive   *)
(* in pieces and to be cut.  A byte carries the key and the place in the   *)
(* key stream it was encrypted with; what is decrypted with any other is   *)
(* garbage.                                                                *)
(***************************************************************************)
EXTENDS Srp, FiniteSets

CONSTANTS
  Secrets,        \* the client's random key
  ServerSecrets,  \* the server's
  MaxRequests     \* attachments and detachments tried on a connection

ASSUME BoundsAssumption == MaxRequests \in Nat
ASSUME SecretsAssumption == Secrets \subseteq Nat /\ ServerSecrets \subseteq Nat

VARIABLES
  phase,          \* the client: which answer it waits for, or what it has
  version,        \* ProtocolVersion
  continue_auth,  \* the server answered CondAccept
  auth_plugin,    \* AuthPlugin named by the server, or None
  stream,         \* FbStream: cipher key, and key stream used for reading and writing
  pending,        \* bytes received, decrypted, not consumed
  pass,           \* the password of the configuration
  a,              \* srp_key
  up, down,       \* bytes on their way to the server and to the client
  link,           \* the server has not hung up
  srv,            \* server: its phase, plugin, keys and stream
  asked,          \* requests tried
  skew,           \* history: why the streams may be out of step
  rejected        \* history: the server refused the right password

vars == <<phase, version, continue_auth, auth_plugin, stream, pending, pass, a,
          up, down, link, srv, asked, skew, rejected>>
server == <<link, srv>>

None == "none"
NoKey == N
NoPlugin == [kind |-> None, data |-> <<>>]   \* no data is an empty field
Plugins == {"Srp", "Srp256"}
Versions == {"V10", "V12", "V13"}
Waiting == {"connect", "plugin", "proof", "crypt", "attach", "detach"}

\* FbStream: plain, or a key with the next position of each key stream.
Plain == [key |-> NoKey, rd |-> 0, wr |-> 0]
Arc4Stream(key) == [key |-> key, rd |-> 0, wr |-> 0]

\* How far n bytes move a key stream; there is none to move in the clear.
Moved(s, n) == IF s.key = NoKey THEN 0 ELSE n

\* A byte as it travels: half a message, encrypted at a place or not.
Byte(s, m, half, at) == [msg |-> m, half |-> half, key |-> s.key,
                         at |-> IF s.key = NoKey THEN 0 ELSE at]
Garbage == [op |-> "garbage"]

\* write_all through Arc4Stream::write: the whole rest is encrypted, then the
\* socket takes some of it, and what it did not take is encrypted again.
Written(s, m, short) ==
  LET cut == IF short THEN 1 ELSE 0
  IN [bytes |-> <<Byte(s, m, 1, s.wr), Byte(s, m, 2, s.wr + 1 + cut)>>,
      stream |-> [s EXCEPT !.wr = @ + Moved(s, 2 + cut)]]

\* Arc4Stream::read, of n bytes: each is decrypted at the next place.
Decrypted(s, bytes) ==
  [i \in DOMAIN bytes |->
     IF bytes[i].key = s.key /\ (s.key = NoKey \/ bytes[i].at = s.rd + i - 1)
     THEN bytes[i].msg ELSE Garbage]

\* read_with: the first complete message of the bytes received.
HasMessage(bytes) == Len(bytes) >= 2
Message(bytes) == IF Garbage \in {bytes[1], bytes[2]} THEN Garbage ELSE bytes[1]

Rest(bytes) == SubSeq(bytes, 3, Len(bytes))

---------------------------------------------------------------------------
(* The client.                                                             *)

A == powm(G, a, N)

\* A request, whole or, when encrypted, by two writes.
Send(s, m) ==
  \E short \in BOOLEAN :
    LET w == Written(s, m, short) IN
    /\ up' = up \o w.bytes
    /\ stream' = w.stream
    /\ skew' = IF short /\ s.key # NoKey THEN "short write" ELSE skew

Connect ==
  /\ phase = "new"
  /\ phase' = "connect"
  /\ Send(Plain, [op |-> "connect", pub |-> A])
  /\ UNCHANGED <<version, continue_auth, auth_plugin, pending, pass, a, down,
                 server, asked, rejected>>

\* read_with, when what it has does not parse: another read of the socket.
Read ==
  /\ phase \in Waiting
  /\ ~HasMessage(pending)
  /\ \E n \in 1 .. Len(down) :
       /\ pending' = pending \o Decrypted(stream, SubSeq(down, 1, n))
       /\ down' = SubSeq(down, n + 1, Len(down))
       /\ stream' = [stream EXCEPT !.rd = @ + Moved(stream, n)]
  /\ UNCHANGED <<phase, version, continue_auth, auth_plugin, pass, a, up, server,
                 asked, skew, rejected>>

\* Mutant of ReadFails: an end of the stream is read as nothing, again and again.
ReadsNothing ==
  /\ phase \in Waiting
  /\ ~HasMessage(pending) /\ down = <<>> /\ ~link
  /\ UNCHANGED vars

\* read_with on a closed socket: the call fails, and connect drops what it has.
ReadFails ==
  /\ phase \in Waiting
  /\ ~HasMessage(pending) /\ down = <<>> /\ ~link
  /\ phase' = "failed"
  /\ UNCHANGED <<version, continue_auth, auth_plugin, stream, pending, pass, a, up, down,
                 server, asked, skew, rejected>>

\* srp_verifier: the private key of the password, the answer to the server's.
Verify(plugin) ==
  LET B == PublicFromHex(plugin.data)
  IN Proof(plugin.kind, A, B, calc_key(a, B, XHash(pass), UHash(A, B)))
KeyOf(proof) == proof[5]

Nothing == UNCHANGED <<up, stream, skew>>

\* The loop of connect, for the plugin the server named last.
Authenticate(plugin, continue) ==
  \/ /\ plugin = NoPlugin
     /\ phase' = "ready" /\ Nothing
  \/ /\ plugin # NoPlugin /\ plugin.data # <<>> /\ ~continue
     /\ phase' = "ready" /\ Nothing
  \/ /\ plugin # NoPlugin /\ plugin.data # <<>> /\ continue
     /\ IF PublicFromHex(plugin.data) % N = 0
        THEN phase' = "failed" /\ Nothing
        ELSE /\ phase' = "proof"
             /\ Send(stream, [op |-> "cont_auth", plugin |-> plugin.kind,
                              data |-> Verify(plugin)])
  \/ /\ plugin # NoPlugin /\ plugin.data = <<>>
     /\ phase' = "plugin"
     /\ Send(stream, [op |-> "cont_auth", plugin |-> plugin.kind, data |-> <<A>>])

\* parse_accept: the plugin to go on with.
PluginOf(m) ==
  IF m.op = "accept" \/ m.authenticated THEN NoPlugin ELSE [kind |-> m.plugin, data |-> m.data]

Consume == pending' = Rest(pending)

\* parse_accept, and the first round of the loop.
HandleAccept ==
  LET m == Message(pending) IN
  /\ phase = "connect" /\ HasMessage(pending)
  /\ Consume
  /\ IF m.op \in {"accept", "accept_data", "cond_accept"}
     THEN /\ version' = m.version
          /\ continue_auth' = (m.op = "cond_accept")
          /\ auth_plugin' = PluginOf(m)
          /\ Authenticate(PluginOf(m), m.op = "cond_accept")
     ELSE /\ phase' = "failed" /\ Nothing
          /\ UNCHANGED <<version, continue_auth, auth_plugin>>
  /\ UNCHANGED <<pass, a, down, server, asked, rejected>>

\* parse_cont_auth, and the next round.
HandleContAuth ==
  LET m == Message(pending) IN
  /\ phase = "plugin" /\ HasMessage(pending)
  /\ Consume
  /\ IF m.op = "cont_auth"
     THEN /\ auth_plugin' = [kind |-> m.plugin, data |-> m.data]
          /\ Authenticate(auth_plugin', continue_auth)
     ELSE phase' = "failed" /\ Nothing /\ UNCHANGED auth_plugin
  /\ UNCHANGED <<version, continue_auth, pass, a, down, server, asked, rejected>>

\* Mutant of HandleProofAnswer: the cipher is on before it is asked for.
HandleProofAnswerEarly ==
  LET m == Message(pending) IN
  /\ phase = "proof" /\ HasMessage(pending)
  /\ Consume
  /\ IF m.op = "response" /\ m.ok
     THEN /\ phase' = "crypt"
          /\ Send(Arc4Stream(KeyOf(Verify(auth_plugin))), [op |-> "crypt"])
     ELSE phase' = "failed" /\ Nothing
  /\ UNCHANGED <<version, continue_auth, auth_plugin, pass, a, down, server, asked, rejected>>

\* srp_auth, when the proof is answered: ask for the cipher, in the clear, then
\* read and write through it.
HandleProofAnswer ==
  LET m == Message(pending) IN
  /\ phase = "proof" /\ HasMessage(pending)
  /\ Consume
  /\ IF m.op = "response" /\ m.ok
     THEN /\ phase' = "crypt"
          /\ up' = up \o Written(stream, [op |-> "crypt"], FALSE).bytes
          /\ stream' = Arc4Stream(KeyOf(Verify(auth_plugin)))
          /\ UNCHANGED skew
     ELSE phase' = "failed" /\ Nothing
  /\ UNCHANGED <<version, continue_auth, auth_plugin, pass, a, down, server, asked, rejected>>

\* The end of srp_auth and of connect: nothing is left to prove.
HandleCryptAnswer ==
  LET m == Message(pending) IN
  /\ phase = "crypt" /\ HasMessage(pending)
  /\ Consume
  /\ IF m.op = "response" /\ m.ok
     THEN phase' = "ready" /\ auth_plugin' = NoPlugin
     ELSE phase' = "failed" /\ UNCHANGED auth_plugin
  /\ Nothing
  /\ UNCHANGED <<version, continue_auth, pass, a, down, server, asked, rejected>>

\* build_dpb: what an attachment proves the password with.
Evidence ==
  CASE version = "V10" -> [kind |-> "password", value |-> pass]
    [] version = "V12" -> [kind |-> "password_enc", value |-> <<"hash", pass>>]
    [] version = "V13" /\ auth_plugin # NoPlugin ->
         [kind |-> "proof", plugin |-> auth_plugin.kind, value |-> Verify(auth_plugin)]
    [] OTHER -> [kind |-> "nothing"]

\* attach_database and create_database, on the connection there is: one that
\* failed to attach is kept, and tried again, perhaps with another password.
Attach ==
  /\ phase = "ready" /\ asked < MaxRequests
  /\ auth_plugin # NoPlugin => PublicFromHex(auth_plugin.data) % N # 0
  /\ asked' = asked + 1
  /\ phase' = "attach"
  /\ Send(stream, [op |-> "attach", evidence |-> Evidence])
  /\ UNCHANGED <<version, continue_auth, auth_plugin, pending, pass, a, down, server, rejected>>

\* attach_database, when the server's key cannot be answered: nothing is sent.
AttachRefused ==
  /\ phase = "ready" /\ asked < MaxRequests
  /\ auth_plugin # NoPlugin /\ PublicFromHex(auth_plugin.data) % N = 0
  /\ asked' = asked + 1
  /\ Nothing
  /\ UNCHANGED <<phase, version, continue_auth, auth_plugin, pending, pass, a, down, server,
                 rejected>>

\* detach_database, and drop_database: the same exchange.
Detach ==
  /\ phase = "attached" /\ asked < MaxRequests
  /\ asked' = asked + 1
  /\ phase' = "detach"
  /\ Send(stream, [op |-> "detach"])
  /\ UNCHANGED <<version, continue_auth, auth_plugin, pending, pass, a, down, server, rejected>>

\* read_response, in attach_database and detach_database.
HandleResponse ==
  LET m == Message(pending) IN
  /\ phase \in {"attach", "detach"} /\ HasMessage(pending)
  /\ Consume
  /\ phase' = IF m.op # "response" THEN "failed"
              ELSE IF m.ok = (phase = "attach") THEN "attached" ELSE "ready"
  /\ Nothing
  /\ UNCHANGED <<version, continue_auth, auth_plugin, pass, a, down, server, asked, rejected>>

---------------------------------------------------------------------------
(* The server, from what the client expects of it.                         *)

\* The message at the head of the client's stream, as the server decrypts it.
Heard == Message(Decrypted(srv.stream, SubSeq(up, 1, 2)))

\* The server consumes it, answers, and goes on with s; what it writes is whole.
Answer(s, m) ==
  LET w == Written(s.stream, m, FALSE) IN
  /\ up' = Rest(up)
  /\ down' = down \o w.bytes
  /\ srv' = [s EXCEPT !.stream = w.stream]
  /\ UNCHANGED link

Receives(in, op) == link /\ srv.phase \in in /\ HasMessage(up) /\ Heard.op = op
Advance(s) == [s EXCEPT !.stream.rd = @ + Moved(s.stream, 2)]
Client == UNCHANGED <<phase, version, continue_auth, auth_plugin, stream, pending, pass, a, asked>>
NoVerdict == UNCHANGED <<skew, rejected>>
OK(ok) == [op |-> "response", ok |-> ok]

ServerKeyData == HexOf(ServerPublic(srv.b))

\* The password is proved in the connection, in the attachment, or not at all.
ServerAccepts ==
  /\ Receives({"new"}, "connect")
  /\ \/ \E v \in Versions :
          Answer([Advance(srv) EXCEPT !.phase = "open", !.trusts = (v = "V13"), !.pub = Heard.pub],
                 [op |-> "accept", version |-> v])
     \/ \E kind \in Plugins, op \in {"accept_data", "cond_accept"}, trusts, keyed \in BOOLEAN :
          Answer([Advance(srv) EXCEPT
                    !.phase = IF trusts \/ (keyed /\ op = "accept_data") THEN "open"
                              ELSE IF keyed THEN "proof" ELSE "key",
                    !.trusts = trusts, !.plugin = kind, !.now = (op = "cond_accept"),
                    !.pub = Heard.pub],
                 [op |-> op, version |-> "V13", plugin |-> kind, authenticated |-> trusts,
                  data |-> IF keyed THEN ServerKeyData ELSE <<>>])
  /\ Client /\ NoVerdict

\* The client's key for the plugin named last, answered with the server's.
ServerTakesKey ==
  /\ Receives({"key"}, "cont_auth")
  /\ Answer([Advance(srv) EXCEPT !.phase = IF srv.now THEN "proof" ELSE "open",
                                 !.pub = Heard.data[1]],
            [op |-> "cont_auth", plugin |-> srv.plugin, data |-> ServerKeyData])
  /\ Client /\ NoVerdict

\* Or answered with a plugin, another or the same, and no key: as often as it likes.
ServerSwaps ==
  /\ Receives({"key"}, "cont_auth")
  /\ \E kind \in Plugins :
       Answer([Advance(srv) EXCEPT !.plugin = kind],
              [op |-> "cont_auth", plugin |-> kind, data |-> <<>>])
  /\ Client /\ NoVerdict

\* The proof the server expects, from its verifier of the password.
Expected == Proof(srv.plugin, srv.pub, ServerPublic(srv.b), ServerKey(srv.b, srv.pub))

Judge(right) == rejected' = (rejected \/ (~right /\ pass = "right"))

ServerTakesProof ==
  LET right == Heard.data = Expected IN
  /\ Receives({"proof"}, "cont_auth")
  /\ Answer([Advance(srv) EXCEPT !.phase = IF right THEN "crypt" ELSE "new",
                                 !.trusts = right], OK(right))
  /\ Judge(right)
  /\ Client /\ UNCHANGED skew

\* The answer is the first message under the cipher; a refusal is not.
ServerEncrypts ==
  /\ Receives({"crypt"}, "crypt")
  /\ \/ /\ Answer([srv EXCEPT !.phase = "open",
                          !.stream = Arc4Stream(ServerKey(srv.b, srv.pub))], OK(TRUE))
        /\ UNCHANGED skew
     \/ /\ Answer(Advance(srv), OK(FALSE))
        /\ skew' = "cipher refused"
  /\ Client /\ UNCHANGED rejected

Convincing(evidence) ==
  \/ srv.trusts
  \/ evidence.kind = "password" /\ evidence.value = "right"
  \/ evidence.kind = "password_enc" /\ evidence.value = <<"hash", "right">>
  \/ evidence.kind = "proof" /\ evidence.plugin = srv.plugin /\ evidence.value = Expected

\* An attachment may fail for other reasons than its password.
ServerAttaches ==
  LET right == Convincing(Heard.evidence) IN
  /\ Receives({"open"}, "attach")
  /\ \E there \in BOOLEAN : Answer(Advance(srv), OK(right /\ there))
  /\ Judge(right)
  /\ Client /\ UNCHANGED skew

ServerDetaches ==
  /\ Receives({"open"}, "detach")
  /\ Answer(Advance(srv), OK(TRUE))
  /\ Client /\ NoVerdict

\* The server refuses the connection, or gives up, or cannot read a message.
ServerRejects ==
  /\ Receives({"new", "key"}, Heard.op)
  /\ Answer(Advance(srv), OK(FALSE))
  /\ Client /\ NoVerdict

ServerHangsUp ==
  /\ link
  /\ link' = FALSE
  /\ Client /\ NoVerdict
  /\ UNCHANGED <<up, down, srv>>

---------------------------------------------------------------------------

Init ==
  /\ phase = "new" /\ version = None /\ continue_auth = FALSE /\ auth_plugin = NoPlugin
  /\ stream = Plain /\ pending = <<>> /\ pass \in Passwords /\ a \in Secrets
  /\ up = <<>> /\ down = <<>> /\ link = TRUE
  /\ \E b \in ServerSecrets :
       srv = [phase |-> "new", plugin |-> None, b |-> b, pub |-> 0, stream |-> Plain,
              now |-> FALSE, trusts |-> FALSE]
  /\ asked = 0 /\ skew = None /\ rejected = FALSE

ClientStep ==
  \/ Read \/ ReadFails \/ HandleAccept \/ HandleContAuth \/ HandleProofAnswer
  \/ HandleCryptAnswer \/ HandleResponse

ServerStep ==
  \/ ServerAccepts \/ ServerTakesKey \/ ServerSwaps \/ ServerTakesProof \/ ServerEncrypts
  \/ ServerAttaches \/ ServerDetaches \/ ServerRejects

Next ==
  \/ Connect \/ Attach \/ AttachRefused \/ Detach \/ ClientStep
  \/ ServerStep \/ ServerHangsUp

\* A blocked read goes on when there is something to read; a server answers
\* what it can read, and hangs up when that is not so.
Spec ==
  /\ Init /\ [][Next]_vars
  /\ WF_vars(ClientStep) /\ WF_vars(ServerStep \/ ServerHangsUp)

---------------------------------------------------------------------------

\* The types of the variables, a part of StreamsAreInStep.
TypeOK ==
  /\ phase \in Waiting \cup {"new", "ready", "attached", "failed"}
  /\ version \in Versions \cup {None}
  /\ auth_plugin = NoPlugin \/ auth_plugin.kind \in Plugins
  /\ stream.key \in 0 .. NoKey /\ stream.rd \in Nat /\ stream.wr \in Nat
  /\ srv.phase \in {"new", "key", "proof", "crypt", "open"}
  /\ skew \in {None, "short write", "cipher refused"}
  /\ Len(pending) =< 2

\* A server never refuses the right password, wherever it is proved: in the
\* clear, in the connection or in the attachment, for whichever plugin was
\* named last.  client.rs:392-479, srp.rs:84-106, wire.rs:264-320.
RightPasswordIsAccepted == ~rejected

\* The variables have their types.  Whatever either side reads was encrypted with the key, and at the place of
\* the key stream, that it decrypts with, unless a write was short (arc4.rs:113)
\* or the server refused the cipher the client is already using (client.rs:1405).
StreamsAreInStep ==
  /\ TypeOK
  /\ skew = None =>
       /\ \A i \in DOMAIN pending : pending[i] # Garbage
       /\ link /\ HasMessage(up) => Heard # Garbage

\* connect, attach_database and detach_database return, unless the server names a
\* plugin without its key for ever: the loop of plugins has no limit of its own, and
\* nothing else keeps the client in it or in a read.  client.rs:393, 1217.
CallsReturn == <>[][~ServerSwaps]_vars => (phase \in Waiting ~> phase \notin Waiting)
===========================================================================

---------------------------- MODULE ClientServer ----------------------------
(***************************************************************************)
(* The ManageSieve client (managesieve/client/client.go) against one       *)
(* connection of the server (managesieve/server/conn.go), over the streams *)
(* of module Wire. The client holds its mutex for the whole of every       *)
(* operation, so one operation at a time is under way, Close included. The *)
(* server's goroutine reads a command, carries it out on the session       *)
(* behind it, an abstract ScriptStore, and writes the reply.               *)
(*                                                                         *)
(* An operation that gives up half way leaves the server where it is:      *)
(* inside a SASL exchange, a literal or a TLS handshake. After that the    *)
(* model follows the two for MaxLate more operations.                      *)
(***************************************************************************)
EXTENDS Wire, FiniteSets, Functions

CONSTANTS
    Names, Contents, NoName, MaxScripts,   \* of the store
    Settings,    \* the options looked at
    MaxRounds,   \* challenges of a SASL exchange
    MaxLate      \* operations followed after one was given up, by the client's state

\* The words of the protocol and those that stand for what it carries.
Keywords ==
    {"OK", "NO", "BYE", "SIEVE", "SASL", "STARTTLS", "ACTIVE", "CAPABILITY", "AUTHENTICATE",
     "LOGOUT", "NOOP", "LISTSCRIPTS", "GETSCRIPT", "PUTSCRIPT", "CHECKSCRIPT", "SETACTIVE",
     "DELETESCRIPT", "RENAMESCRIPT", "HAVESPACE",
     "value", "challenge", "response", "mech", "ir", "tag", "size"}

ASSUME ProtocolAssumption ==
    /\ Names \cup Contents \cup {NoName, Mixed, Blank} \cup Keywords \subseteq Texts
    /\ Length \in [Texts -> Nat] /\ \A s \in Texts : Length[s] = 0 => s = Blank
    /\ MaxLiteralBytes \in Nat /\ MaxCommandArgs \in Nat /\ MaxNonLiteralCommandLen \in Nat
    /\ ClientMaxLiteralBytes \in Nat

\* What the mechanisms and the configuration make fits the reader's limit.
ASSUME ExchangeAssumption ==
    /\ Length["value"] <= ClientMaxLiteralBytes /\ Length["challenge"] <= ClientMaxLiteralBytes
    /\ Length["response"] <= MaxLiteralBytes

VARIABLES
    opts,        \* what server and client are set up to do
    buf,         \* written by the client and not flushed
    c2s, s2c,    \* on the way to the server, and to the client
    closed,      \* the client has closed the connection
    op,          \* the client's operation: where it is, its command, its
                 \* arguments and text, the capabilities read so far
    cstate,      \* Client.state
    ctls,        \* Client.conn is a TLS connection
    offered,     \* Client.caps.StartTLS
    phase,       \* where the server's goroutine is
    sstate,      \* Conn.state
    stls,        \* Conn.conn is a TLS connection
    rounds,      \* challenges left in the SASL exchange
    scripts, active,   \* the session
    seen,        \* the session as the caller knows it from the results
    late         \* 0, or operations called since one was given up

wireVars == <<buf, c2s, s2c, closed>>
clientVars == <<op, cstate, ctls, offered>>
serverVars == <<phase, sstate, stls, rounds>>
storeVars == <<scripts, active>>
ghosts == <<seen, late>>
vars == <<opts, wireVars, clientVars, serverVars, storeVars, ghosts>>

Store == INSTANCE ScriptStore WITH scripts <- scripts, active <- active,
             Contents <- Contents \cup {Mixed}

Operation(at, name, args, text) ==
    [at |-> at, name |-> name, args |-> args, text |-> text, items |-> {}]
Idle == Operation("idle", Blank, <<>>, Blank)

Options == [describes : BOOLEAN,       \* capabilities or an owner to announce
            tls : BOOLEAN,             \* Options.TLSConfig is set
            clientInsecure : BOOLEAN,  \* Options.AllowInsecureAuth
            serverInsecure : BOOLEAN]  \* Options.InsecureAuth

\* A session that holds these scripts, one of them active.
Holding(ss, a) == [scripts |-> ss, active |-> a]

Init ==
    /\ opts \in Settings \cap Options
    /\ buf = <<>> /\ c2s = <<>> /\ s2c = <<>> /\ closed = FALSE
    /\ op = Operation("caps", "GREETING", <<>>, Blank)
    /\ cstate = "notAuthenticated" /\ ctls = FALSE /\ offered = FALSE
    /\ phase = "greet" /\ sstate = "notAuthenticated" /\ stls = FALSE /\ rounds = 0
    /\ Store!StoreInit
    /\ seen = Holding(scripts, active)
    /\ late = 0

-----------------------------------------------------------------------------
\* The server.

Reply(tokens) == s2c' = s2c \o tokens

\* writeCapabilityResponse in a state, with a status that has a SASL code or not.
CapabilityLine(name, valued) ==
    <<Quoted(name)>> \o ((IF valued THEN Argument("value") ELSE <<>>) \o <<CRLF>>)
CapabilityLines(describes, sasl, starttls, code) ==
        (IF describes THEN CapabilityLine("SIEVE", TRUE) ELSE <<>>)
    \o ((IF sasl THEN CapabilityLine("SASL", TRUE) ELSE <<>>)
    \o ((IF starttls THEN CapabilityLine("STARTTLS", FALSE) ELSE <<>>)
    \o Status("OK", code)))
CapabilityResponse(state, secure, code) ==
    CapabilityLines(opts.describes, state # "authenticated",
                    opts.tls /\ ~secure /\ state # "authenticated", code)

\* The client gives an exchange up that the server goes on with.
Abandon == late' = IF late = 0 THEN 1 ELSE late

\* Conn.serve up to the first command.
Greet ==
    /\ phase = "greet"
    /\ phase' = "read"
    /\ Reply(CapabilityResponse(sstate, stls, 0))
    /\ UNCHANGED <<opts, buf, c2s, closed, clientVars, sstate, stls, rounds, storeVars, ghosts>>

\* The goroutine leaves: Conn.Close ends the connection.
Leave == phase' = "gone" /\ sstate' = "logout" /\ UNCHANGED <<stls, rounds>>

StaysReading == UNCHANGED serverVars

Refuse == Reply(Status("NO", 0)) /\ StaysReading /\ UNCHANGED storeVars
Accept == Reply(Status("OK", 0)) /\ StaysReading

\* What srv.Next makes of a response: a challenge, success with or without
\* data for the client, or an error. Authorize may fail too.
SaslNext ==
    \/ /\ rounds' > 0
       /\ phase' = "sasl"
       /\ Reply(String("challenge") \o <<CRLF>>)
       /\ UNCHANGED <<sstate, stls>>
    \/ /\ rounds' = 0
       /\ phase' = "read"
       /\ sstate' = "authenticated"
       /\ \E code \in {0, 1} : Reply(CapabilityResponse("authenticated", stls, code))
       /\ UNCHANGED stls
    \/ /\ rounds' = 0
       /\ phase' = "read"
       /\ Reply(Status("NO", 0))
       /\ UNCHANGED <<sstate, stls>>

\* handleAuthenticate up to the first challenge or the end.
HandleAuthenticate(args) ==
    IF \/ Len(args) \notin 1..2
       \/ sstate # "notAuthenticated"
       \/ ~stls /\ ~opts.serverInsecure
    THEN Refuse
    ELSE rounds' \in 0..MaxRounds /\ SaslNext /\ UNCHANGED storeVars

\* handleStartTLS up to the handshake.
HandleStartTLS(args) ==
    IF args # <<>> \/ sstate # "notAuthenticated" \/ ~opts.tls
    THEN Refuse
    ELSE /\ Reply(Status("OK", 0))
         /\ phase' = "handshake"
         /\ UNCHANGED <<sstate, stls, rounds, storeVars>>

\* handleListScripts: a line per script, in the order the session gives them, and
\* a status.
ScriptLine(n) ==
    String(n) \o (IF n = active THEN <<SP, Atom("ACTIVE"), CRLF>> ELSE <<CRLF>>)
ListReply(names) ==
    LET last[i \in 0..Len(names)] ==   \* the last i lines and the status
            IF i = 0 THEN Status("OK", 0) ELSE ScriptLine(names[Len(names) - i + 1]) \o last[i - 1]
    IN  last[Len(names)]
Orders(S) == UNION {Bijection(1..n, S) : n \in 0..Cardinality(S)}

\* handleCommand: the session refuses what it cannot do, and may refuse
\* anything else with an error of its own.
HandleCommand(name, args) ==
    CASE name = "CAPABILITY" -> IF args # <<>> THEN Refuse
                                ELSE /\ Reply(CapabilityResponse(sstate, stls, 0))
                                     /\ StaysReading /\ UNCHANGED storeVars
      [] name = "STARTTLS" -> HandleStartTLS(args)
      [] name = "AUTHENTICATE" -> HandleAuthenticate(args)
      [] name = "LOGOUT" -> IF args # <<>> THEN Refuse
                            ELSE Reply(Status("OK", 0)) /\ Leave /\ UNCHANGED storeVars
      [] name = "NOOP" -> IF Len(args) > 1 THEN Refuse ELSE Accept /\ UNCHANGED storeVars
      [] OTHER ->
          \/ Refuse
          \/ /\ sstate = "authenticated"
             /\ \/ /\ name = "LISTSCRIPTS" /\ args = <<>>
                   /\ \E names \in Orders(DOMAIN scripts) : Reply(ListReply(names))
                   /\ StaysReading /\ UNCHANGED storeVars
                \/ /\ name = "GETSCRIPT" /\ Len(args) = 1 /\ args[1] \in DOMAIN scripts
                   /\ Reply(String(scripts[args[1]]) \o (<<CRLF>> \o Status("OK", 0)))
                   /\ StaysReading /\ UNCHANGED storeVars
                \/ name = "PUTSCRIPT" /\ Len(args) = 2 /\ Length[args[2]] > 0
                   /\ Accept /\ Store!Put(args[1], args[2])
                \/ name = "CHECKSCRIPT" /\ Len(args) = 1 /\ Accept /\ UNCHANGED storeVars
                \/ name = "SETACTIVE" /\ Len(args) = 1 /\ Accept /\ Store!Activate(args[1])
                \/ name = "DELETESCRIPT" /\ Len(args) = 1 /\ Accept /\ Store!Delete(args[1])
                \/ name = "RENAMESCRIPT" /\ Len(args) = 2 /\ Accept /\ Store!Rename(args[1], args[2])
                \/ name = "HAVESPACE" /\ Len(args) = 2 /\ Accept /\ UNCHANGED storeVars

\* One turn of Conn.serve: a command, or a syntax error that ends it.
ServeCommand ==
    /\ phase = "read"
    /\ \E r \in {ReadCommand(c2s)} :
        /\ r.st # "more"
        /\ c2s' = r.rest
        /\ IF r.st = "ok"
           THEN HandleCommand(r.v[1], Tail(r.v))
           ELSE Reply(Status("NO", 0)) /\ Leave /\ UNCHANGED storeVars
        /\ UNCHANGED <<opts, buf, closed, clientVars, ghosts>>

\* The client's answer to a challenge. Anything but a string is left unread
\* and makes the exchange fail; the goroutine then reads it as a command.
SaslResponse ==
    /\ phase = "sasl"
    /\ \E r \in {ExpectCRLF(ReadString(MaxLiteralBytes)[c2s])} :
        /\ r.st # "more"
        /\ c2s' = r.rest
        /\ IF r.st = "ok"
           THEN rounds' \in {0, rounds - 1} /\ SaslNext
           ELSE /\ Reply(Status("NO", 0))
                /\ phase' = "read" /\ rounds' = 0
                /\ UNCHANGED <<sstate, stls>>
        /\ UNCHANGED <<opts, buf, closed, clientVars, storeVars, ghosts>>

\* The client's first TLS message.
Hello == Token("tls", Blank, 0)

\* The two ends of a TLS handshake. Both then have new readers and drop what
\* the old ones held; where it fails both go on without TLS.
Handshake ==
    /\ phase = "handshake" /\ op.at = "handshake" /\ c2s # <<>> /\ c2s[1] = Hello
    /\ phase' = "read"
    /\ \/ /\ stls' = TRUE /\ ctls' = TRUE
          /\ s2c' = CapabilityResponse(sstate, TRUE, 0) /\ c2s' = <<>>
          /\ op' = [op EXCEPT !.at = "caps"]
          /\ UNCHANGED late
       \/ /\ Reply(Status("NO", 0)) /\ c2s' = Tail(c2s)
          /\ op' = Idle
          /\ Abandon
          /\ UNCHANGED <<stls, ctls>>
    /\ UNCHANGED <<opts, buf, closed, cstate, offered, sstate, rounds, storeVars, seen>>

\* A server that waits for a handshake and gets something else swallows what
\* has come of it.
HandshakeFails ==
    /\ phase = "handshake" /\ c2s # <<>> /\ c2s[1] # Hello
    /\ \E n \in 1..Len(c2s) : c2s' = Drop(c2s, n)
    /\ Reply(Status("NO", 0))
    /\ phase' = "read"
    /\ UNCHANGED <<opts, buf, closed, clientVars, sstate, stls, rounds, storeVars, ghosts>>

\* Nothing the server can use has come: it waits.
Waiting ==
    \/ phase = "read" /\ ReadCommand(c2s).st = "more"
    \/ phase = "sasl" /\ ExpectCRLF(ReadString(MaxLiteralBytes)[c2s]).st = "more"
    \/ phase = "handshake" /\ c2s = <<>>

\* Mutant: no deadline is set while part of a command has been read.
TimeoutBetweenCommands ==
    /\ Waiting /\ c2s = <<>>
    /\ IF closed THEN UNCHANGED s2c ELSE Reply(Status("BYE", 0))
    /\ Leave
    /\ UNCHANGED <<opts, buf, c2s, closed, clientVars, storeVars, ghosts>>

\* The deadline passes while the server waits, or the client's end is closed.
Timeout ==
    /\ Waiting
    /\ IF closed THEN UNCHANGED s2c ELSE Reply(Status("BYE", 0))
    /\ Leave
    /\ UNCHANGED <<opts, buf, c2s, closed, clientVars, storeVars, ghosts>>

-----------------------------------------------------------------------------
\* The client. A flush sends what an earlier operation left in the buffer too;
\* what is sent to a server that is gone is lost.

Send(tokens) ==
    /\ c2s' = IF phase = "gone" THEN c2s ELSE c2s \o buf \o tokens
    /\ buf' = <<>>

\* An operation is called, writes these tokens and goes on at this place.
Call(at, name, args, text, tokens) ==
    /\ op = Idle /\ ~closed
    /\ late <= MaxLate[cstate]
    /\ late' = IF late = 0 THEN 0 ELSE late + 1
    /\ op' = Operation(at, name, args, text)
    /\ Send(tokens)
    /\ UNCHANGED <<opts, s2c, closed, cstate, ctls, offered, serverVars, storeVars, seen>>

\* One whose command is a line.
CallLine(at, name, args) == Call(at, name, args, Blank, CommandLine(name, args))

CallStartTLS ==
    /\ cstate = "notAuthenticated" /\ offered
    /\ CallLine("starttls", "STARTTLS", <<>>)

CallAuthenticate ==
    /\ cstate = "notAuthenticated" /\ (ctls \/ opts.clientInsecure)
    /\ \E args \in {<<"mech">>, <<"mech", "ir">>} : CallLine("auth", "AUTHENTICATE", args)

CallCapability == CallLine("caps", "CAPABILITY", <<>>)

\* requireAuthenticatedLocked.
Authenticated == cstate = "authenticated"

CallListScripts == Authenticated /\ CallLine("list", "LISTSCRIPTS", <<>>)
CallGetScript(n) == Authenticated /\ CallLine("get", "GETSCRIPT", <<n>>)

\* PutScript and CheckScript flush the literal's header first.
CallPutScript(n, t) ==
    /\ Authenticated
    /\ Call("literal", "PUTSCRIPT", <<n>>, t,
            <<Atom("PUTSCRIPT")>> \o (Argument(n) \o <<SP, LiteralHeader(Length[t])>>))

CallCheckScript(t) ==
    /\ Authenticated
    /\ Call("literal", "CHECKSCRIPT", <<>>, t, <<Atom("CHECKSCRIPT")>> \o <<SP, LiteralHeader(Length[t])>>)

\* runSimpleAuthenticated: SetActive, DeleteScript, RenameScript.
CallSimple(name, args) == Authenticated /\ CallLine("status", name, args)

\* HaveSpace sends the size as an atom.
CallHaveSpace(n) ==
    /\ Authenticated
    /\ Call("status", "HAVESPACE", <<n, "size">>, Blank,
            <<Atom("HAVESPACE")>> \o (Argument(n) \o <<SP, Atom("size"), CRLF>>))

\* Noop and Logout ask for no state.
CallNoop == \E args \in {<<>>, <<"tag">>} : CallLine("status", "NOOP", args)
CallLogout == CallLine("logout", "LOGOUT", <<>>)

CallClose ==
    /\ op = Idle /\ ~closed
    /\ closed' = TRUE /\ cstate' = "logout"
    /\ UNCHANGED <<opts, buf, c2s, s2c, op, ctls, offered, serverVars, storeVars, ghosts>>

\* The rest of the literal and the line.
LiteralBody ==
    /\ op.at = "literal"
    /\ Send(Bytes(op.text) \o <<CRLF>>)
    /\ op' = [op EXCEPT !.at = "status"]
    /\ UNCHANGED <<opts, s2c, closed, cstate, ctls, offered, serverVars, storeVars, ghosts>>

\* The reader fails, or has fewer or more bytes than it was said to have: what
\* was copied stays in the buffer and the operation returns an error.
LiteralAborted ==
    /\ op.at = "literal"
    /\ \E n \in 0..Length[op.text] : buf' = SubSeq(Bytes(op.text), 1, n)
    /\ op' = Idle
    /\ Abandon
    /\ UNCHANGED <<opts, c2s, s2c, closed, cstate, ctls, offered, serverVars, storeVars, seen>>

\* What an operation that has returned without an error tells its caller,
\* who stops listening once an operation was given up.
Learned ==
    CASE op.name \in {"PUTSCRIPT", "GETSCRIPT"} ->
             Holding([n \in DOMAIN seen.scripts \cup {op.args[1]} |->
                         IF n = op.args[1] THEN op.text ELSE seen.scripts[n]], seen.active)
      [] op.name = "SETACTIVE" -> Holding(seen.scripts, op.args[1])
      [] op.name = "DELETESCRIPT" ->
             Holding([n \in DOMAIN seen.scripts \ {op.args[1]} |-> seen.scripts[n]], seen.active)
      [] op.name = "RENAMESCRIPT" ->
             Holding([n \in (DOMAIN seen.scripts \ {op.args[1]}) \cup {op.args[2]} |->
                         seen.scripts[IF n = op.args[2] THEN op.args[1] ELSE n]],
                     IF seen.active = op.args[1] THEN op.args[2] ELSE seen.active)
      [] OTHER -> seen

\* The client reads r and takes it off the stream.
Reads(r) == r.st # "more" /\ s2c' = r.rest
IsItem(r) == r.st = "ok" /\ r.v.k = "item"
Said(r, type) == r.st = "ok" /\ r.v.k = "status" /\ r.v.v = type

\* Mutant: SetActive takes any status for success.
ReadsActiveUnchecked ==
    /\ op.at \in {"status", "getStatus"}
    /\ \E r \in {ReadStatusLine(s2c)} :
          /\ Reads(r)
          /\ seen' = IF (Said(r, "OK") \/ op.name = "SETACTIVE") /\ late = 0
                    THEN Learned ELSE seen
    /\ op' = Idle
    /\ UNCHANGED <<opts, buf, c2s, closed, cstate, ctls, offered, serverVars, storeVars, late>>

\* The status that ends an operation.
ReadsStatus ==
    /\ op.at \in {"status", "getStatus"}
    /\ \E r \in {ReadStatusLine(s2c)} :
          /\ Reads(r)
          /\ seen' = IF Said(r, "OK") /\ late = 0 THEN Learned ELSE seen
    /\ op' = Idle
    /\ UNCHANGED <<opts, buf, c2s, closed, cstate, ctls, offered, serverVars, storeVars, late>>

ReadsStartTLS ==
    /\ op.at = "starttls"
    /\ \E r \in {ReadStatusLine(s2c)} :
          /\ Reads(r)
          /\ IF Said(r, "OK")
             THEN op' = [op EXCEPT !.at = "handshake"] /\ Send(<<Hello>>)
             ELSE op' = Idle /\ UNCHANGED <<c2s, buf>>
    /\ UNCHANGED <<opts, closed, cstate, ctls, offered, serverVars, storeVars, ghosts>>

\* Something else than TLS comes, or nothing more.
ReadsNoHandshake ==
    /\ op.at = "handshake"
    /\ s2c # <<>> \/ phase = "gone"
    /\ s2c' = <<>>
    /\ op' = Idle
    /\ Abandon
    /\ UNCHANGED <<opts, buf, c2s, closed, cstate, ctls, offered, serverVars, storeVars, seen>>

ReadsLogout ==
    /\ op.at = "logout"
    /\ \E r \in {ReadStatusLine(s2c)} :
          /\ Reads(r)
          /\ cstate' = IF r.st = "ok" THEN "logout" ELSE cstate
          /\ closed' = (Said(r, "OK") \/ Said(r, "BYE"))
    /\ op' = Idle
    /\ UNCHANGED <<opts, buf, c2s, ctls, offered, serverVars, storeVars, ghosts>>

\* readCapabilitiesResponseLocked and readCapabilitiesGreetingLocked, line by
\* line. New closes the connection unless the greeting ends with OK.
ReadsCapability ==
    /\ op.at = "caps"
    /\ \E r \in {ReadCapabilityOrStatus(s2c)} :
          /\ Reads(r)
          /\ IF IsItem(r)
             THEN op' = [op EXCEPT !.items = @ \cup {r.v.v}] /\ UNCHANGED <<offered, closed, cstate>>
             ELSE /\ op' = Idle
                  /\ offered' = IF Said(r, "OK") THEN "STARTTLS" \in op.items ELSE offered
                  /\ closed' = (op.name = "GREETING" /\ ~Said(r, "OK"))
                  /\ cstate' = IF closed' THEN "logout" ELSE cstate
    /\ UNCHANGED <<opts, buf, c2s, ctls, serverVars, storeVars, ghosts>>

\* isCapabilityName.
Capabilities == {"SIEVE", "SASL", "STARTTLS"}

\* The loop of Authenticate takes a line for a capability or for a challenge.
IsCapability(r) == r.v.n = 1 \/ op.items # {} \/ r.v.v \in Capabilities

AuthItem ==
    /\ op.at = "auth"
    /\ \E r \in {ReadCapabilityOrStatus(s2c)} :
          /\ Reads(r)
          /\ IsItem(r) /\ IsCapability(r)
          /\ op' = [op EXCEPT !.items = @ \cup {r.v.v}]
    /\ UNCHANGED <<opts, buf, c2s, closed, cstate, ctls, offered, serverVars, storeVars, ghosts>>

\* It answers a challenge or, where the mechanism has no answer, returns
\* without cancelling the exchange.
AuthChallenge ==
    /\ op.at = "auth"
    /\ \E r \in {ReadCapabilityOrStatus(s2c)} : Reads(r) /\ IsItem(r) /\ ~IsCapability(r)
    /\ \/ Send(String("response") \o <<CRLF>>) /\ UNCHANGED <<op, late>>
       \/ op' = Idle /\ Abandon /\ UNCHANGED <<c2s, buf>>
    /\ UNCHANGED <<opts, closed, cstate, ctls, offered, serverVars, storeVars, seen>>

\* Mutant: the type of the status is not looked at.
AuthAnyStatus ==
    /\ op.at = "auth"
    /\ \E r \in {ReadCapabilityOrStatus(s2c)} :
          /\ Reads(r)
          /\ r.st = "ok" /\ ~IsItem(r)
    /\ cstate' = "authenticated"
    /\ op' = Idle
    /\ UNCHANGED <<opts, buf, c2s, closed, ctls, offered, serverVars, storeVars, ghosts>>

\* The status ends it. Data that comes with OK may be refused by the mechanism;
\* without capabilities the client asks for them.
AuthStatus ==
    /\ op.at = "auth"
    /\ \E r \in {ReadCapabilityOrStatus(s2c)} :
          /\ Reads(r)
          /\ ~IsItem(r)
          /\ \/ /\ ~Said(r, "OK") \/ r.v.n = 1
                /\ op' = Idle
                /\ UNCHANGED <<c2s, buf, cstate, offered>>
             \/ /\ Said(r, "OK")
                /\ cstate' = "authenticated"
                /\ IF op.items # {}
                   THEN op' = Idle /\ offered' = ("STARTTLS" \in op.items) /\ UNCHANGED <<c2s, buf>>
                   ELSE /\ op' = [op EXCEPT !.at = "caps"]
                        /\ Send(CommandLine("CAPABILITY", <<>>)) /\ UNCHANGED offered
    /\ UNCHANGED <<opts, closed, ctls, serverVars, storeVars, ghosts>>

\* A name or a text that is too large for the client makes it give the reply up.
TakesReply == IF TooLarge(s2c) THEN Abandon ELSE UNCHANGED late

\* ListScripts, line by line.
ReadsList ==
    /\ op.at = "list"
    /\ \E r \in {ReadScriptOrStatus(s2c)} :
          Reads(r) /\ op' = IF IsItem(r) THEN op ELSE Idle
    /\ TakesReply
    /\ UNCHANGED <<opts, buf, c2s, closed, cstate, ctls, offered, serverVars, storeVars, seen>>

\* Mutant: the status after the text is not read.
ReadsGetTextOnly ==
    /\ op.at = "get"
    /\ \E r \in {IF IsString(s2c) THEN ExpectCRLF(ReadReply(s2c)) ELSE ReadStatusLine(s2c)} :
          Reads(r)
    /\ op' = Idle
    /\ TakesReply
    /\ UNCHANGED <<opts, buf, c2s, closed, cstate, ctls, offered, serverVars, storeVars, seen>>

\* GetScript: the text, or a status, which is an error whatever it says.
ReadsGet ==
    /\ op.at = "get"
    /\ \E r \in {IF IsString(s2c) THEN ExpectCRLF(ReadReply(s2c)) ELSE ReadStatusLine(s2c)} :
          /\ Reads(r)
          /\ op' = IF IsString(s2c) /\ r.st = "ok"
                   THEN [op EXCEPT !.at = "getStatus", !.text = r.v]
                   ELSE Idle
    /\ TakesReply
    /\ UNCHANGED <<opts, buf, c2s, closed, cstate, ctls, offered, serverVars, storeVars, seen>>

\* The read an operation is in, on what has come so far.
Reading ==
    CASE op.at \in {"caps", "auth"} -> ReadCapabilityOrStatus(s2c)
      [] op.at = "list" -> ReadScriptOrStatus(s2c)
      [] op.at = "get" /\ IsString(s2c) -> ExpectCRLF(ReadReply(s2c))
      [] OTHER -> ReadStatusLine(s2c)

\* The server is gone and no more comes: the operation returns an error.
ReadsEOF ==
    /\ op.at \notin {"idle", "literal", "handshake"}
    /\ phase = "gone"
    /\ Reading.st = "more"
    /\ op' = Idle
    /\ closed' = (op.name = "GREETING")
    /\ UNCHANGED <<opts, buf, c2s, s2c, cstate, ctls, offered, serverVars, storeVars, ghosts>>

-----------------------------------------------------------------------------
ServerNext ==
    \/ Greet \/ ServeCommand \/ SaslResponse
    \/ Handshake \/ HandshakeFails \/ Timeout

CallNext ==
    \/ CallStartTLS \/ CallAuthenticate \/ CallCapability \/ CallListScripts
    \/ \E n \in Names : CallGetScript(n)
    \/ \E n \in Names, t \in Contents : CallPutScript(n, t)
    \/ \E t \in Contents : CallCheckScript(t)
    \/ \E n \in Names \cup {NoName} : CallSimple("SETACTIVE", <<n>>)
    \/ \E n \in Names : CallSimple("DELETESCRIPT", <<n>>)
    \/ \E n, m \in Names : CallSimple("RENAMESCRIPT", <<n, m>>)
    \/ \E n \in Names : CallHaveSpace(n)
    \/ CallNoop \/ CallLogout \/ CallClose

\* An operation under way goes on.
ClientNext ==
    \/ LiteralBody \/ LiteralAborted
    \/ ReadsStatus \/ ReadsStartTLS \/ ReadsNoHandshake \/ ReadsLogout
    \/ ReadsCapability \/ AuthItem \/ AuthChallenge \/ AuthStatus
    \/ ReadsList \/ ReadsGet \/ ReadsEOF

Next == ServerNext \/ CallNext \/ ClientNext

\* The server's goroutine goes on, and its deadlines pass; the client's
\* operation goes on, and the reader it copies a script from returns.
Spec == Init /\ [][Next]_vars /\ WF_vars(ServerNext) /\ WF_vars(ClientNext)

-----------------------------------------------------------------------------
\* Client and server agree between two operations.
Between == op = Idle /\ phase = "read" /\ late = 0 /\ ~closed

\* Client and server stay in step: between two operations nothing is on the way,
\* in a buffer or half read in either direction, the server waits for a
\* command and both ends agree on TLS. Only an exchange that the client gives
\* up (a SASL mechanism without an answer, a literal that comes up short, a
\* handshake that fails, a name or a script over the client's limit) may break it.
InStep ==
    op = Idle /\ late = 0 /\ ~closed /\ phase # "gone" =>
               /\ phase = "read"
               /\ buf = <<>> /\ c2s = <<>> /\ s2c = <<>>
               /\ ctls = stls

\* A client that takes itself for authenticated is: its state is set from an
\* answer to its own AUTHENTICATE.
AuthenticatedAtBothEnds ==
    cstate = "authenticated" /\ late = 0 /\ phase # "gone" => sstate = "authenticated"

\* The caller's knowledge is true: after every sequence of operations the
\* session holds what the results said was put, renamed, deleted, activated
\* and got, and nothing else.
CallerSeesStore ==
    Between => seen = Holding(scripts, active)

\* Every operation of the client returns, also one that has to wait for a
\* server that waits for it: the server's deadline ends it.
CallReturns == op # Idle ~> op = Idle
=============================================================================

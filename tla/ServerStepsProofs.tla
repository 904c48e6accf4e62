---------------------------- MODULE ServerStepsProofs -------------------------
(***************************************************************************)
(* The inductive invariant of ClientServer: while no exchange has been     *)
(* given up and the server is there, the two ends are at matching places   *)
(* of one exchange. It holds initially and the server's steps keep it, as  *)
(* does the client's copying of a literal that the server waits for, for   *)
(* any names, scripts and limits.                                          *)
(***************************************************************************)
EXTENDS WireProofs

USE Zenon

(* What the session holds.                                                  *)
Stored ==
  scripts \in [DOMAIN scripts -> Texts] /\ DOMAIN scripts \subseteq Texts
Agreed == seen = Holding(scripts, active)

(* An operation has the fields of one.                                      *)
Formed(o) == o = [at |-> o.at, name |-> o.name, args |-> o.args, text |-> o.text, items |-> o.items]

(* The server has, or will have, read this command.                         *)
Sends(ws) == Obeys(ReadCommand(c2s), ws, TRUE)
PutHeader(n, t) == <<Atom("PUTSCRIPT")>> \o (Argument(n) \o <<SP, LiteralHeader(Length[t])>>)
CheckHeader(t) == <<Atom("CHECKSCRIPT")>> \o <<SP, LiteralHeader(Length[t])>>

(* The places of an exchange.                                               *)
AtRest ==
  /\ op = Idle /\ phase = "read" /\ c2s = <<>> /\ s2c = <<>> /\ Agreed
  /\ closed => cstate # "authenticated"
Greeting == op.at = "caps" /\ phase = "greet" /\ c2s = <<>> /\ s2c = <<>> /\ Agreed /\ ~closed
AsksSimple ==
  \/ op.name = "SETACTIVE" /\ \E n \in Texts : op.args = <<n>> /\ Sends(<<"SETACTIVE", n>>)
  \/ op.name = "DELETESCRIPT" /\ \E n \in Texts : op.args = <<n>> /\ Sends(<<"DELETESCRIPT", n>>)
  \/ op.name = "RENAMESCRIPT"
     /\ \E n, m \in Texts : op.args = <<n, m>> /\ Sends(<<"RENAMESCRIPT", n, m>>)
  \/ op.name = "HAVESPACE" /\ \E n \in Texts : Sends(<<"HAVESPACE", n, "size">>)
  \/ op.name = "NOOP" /\ (Sends(<<"NOOP">>) \/ Sends(<<"NOOP", "tag">>))
  \/ op.name = "PUTSCRIPT"
     /\ \E n, t \in Texts : op.args = <<n>> /\ op.text = t /\ Sends(<<"PUTSCRIPT", n, t>>)
  \/ op.name = "CHECKSCRIPT" /\ \E t \in Texts : Sends(<<"CHECKSCRIPT", t>>)
Asks ==
  \/ op.at = "starttls" /\ Sends(<<"STARTTLS">>)
  \/ /\ op.at = "auth" /\ op.items = {}
     /\ Sends(<<"AUTHENTICATE", "mech">>) \/ Sends(<<"AUTHENTICATE", "mech", "ir">>)
  \/ op.at = "caps" /\ Sends(<<"CAPABILITY">>)
  \/ op.at = "list" /\ Sends(<<"LISTSCRIPTS">>)
  \/ /\ op.at = "get" /\ op.name = "GETSCRIPT"
     /\ \E n \in Texts : op.args = <<n>> /\ Sends(<<"GETSCRIPT", n>>)
  \/ op.at = "logout" /\ Sends(<<"LOGOUT">>)
  \/ op.at = "status" /\ AsksSimple
Asked == phase = "read" /\ s2c = <<>> /\ Agreed /\ ~closed /\ Asks
Copying ==
  /\ op.at = "literal" /\ phase = "read" /\ s2c = <<>> /\ Agreed /\ ~closed
  /\ op.text \in Texts
  /\ \/ op.name = "PUTSCRIPT" /\ \E n \in Texts : op.args = <<n>> /\ c2s = PutHeader(n, op.text)
     \/ op.name = "CHECKSCRIPT" /\ c2s = CheckHeader(op.text)
Announcing ==
  /\ op.at \in {"caps", "auth"} /\ phase = "read" /\ c2s = <<>> /\ Agreed /\ ~closed
  /\ op.at = "auth" => sstate = "authenticated"
  /\ \E code \in {0, 1} : Announces(s2c, code)
Challenged ==
  /\ op.at = "auth" /\ op.items = {} /\ phase = "sasl" /\ c2s = <<>> /\ Agreed /\ ~closed
  /\ s2c = String("challenge") \o <<CRLF>>
Answered ==
  /\ op.at = "auth" /\ op.items = {} /\ phase = "sasl" /\ s2c = <<>> /\ Agreed /\ ~closed
  /\ c2s = String("response") \o <<CRLF>>
Refused ==
  /\ op.at \in {"status", "auth", "get", "list", "starttls"} /\ phase = "read" /\ c2s = <<>>
  /\ s2c = Status("NO", 0) /\ Agreed /\ ~closed
Accepted ==
  /\ op.at \in {"status", "getStatus"} /\ phase = "read" /\ c2s = <<>>
  /\ s2c = Status("OK", 0) /\ Learned = Holding(scripts, active) /\ ~closed
Given ==
  /\ op.at = "get" /\ op.name = "GETSCRIPT" /\ phase = "read" /\ c2s = <<>> /\ Agreed /\ ~closed
  /\ \E n \in DOMAIN scripts : /\ op.args = <<n>>
                               /\ s2c = String(scripts[n]) \o (<<CRLF>> \o Status("OK", 0))
Enumerating ==
  op.at = "list" /\ phase = "read" /\ c2s = <<>> /\ Agreed /\ ~closed /\ Lists(s2c)
Permitted ==
  /\ op.at = "starttls" /\ phase = "handshake" /\ c2s = <<>> /\ s2c = Status("OK", 0)
  /\ Agreed /\ ~closed
Shaking ==
  op.at = "handshake" /\ phase = "handshake" /\ c2s = <<Hello>> /\ s2c = <<>> /\ Agreed /\ ~closed
Place ==
  \/ AtRest \/ Greeting \/ Asked \/ Copying \/ Announcing \/ Challenged \/ Answered
  \/ Refused \/ Accepted \/ Given \/ Enumerating \/ Permitted \/ Shaking
EndsAgree ==
  /\ opts \in Options /\ buf = <<>> /\ ctls = stls /\ Stored /\ Formed(op)
  /\ cstate = "authenticated" => sstate = "authenticated"

(* While the client has given nothing up and the server is there, the two   *)
(* are at one of these places.                                              *)
Together == EndsAgree /\ Place
Inv == late \in Nat /\ (late = 0 /\ phase # "gone" => Together)

-----------------------------------------------------------------------------

(* The greeting is about to be written.                                     *)
LEMMA InitInv == Init => Inv
<1> SUFFICES ASSUME Init PROVE Inv
  OBVIOUS
<1>1. late \in Nat
  BY DEF Init
<1>2. EndsAgree
  <2>1. opts \in Options /\ buf = <<>> /\ ctls = stls /\ cstate # "authenticated"
    BY DEF Init
  <2>2. Formed(op)
    BY DEF Init, Formed, Operation
  <2>3. scripts = [n \in {} |-> NoName]
    BY DEF Init, Store!StoreInit
  <2>4. DOMAIN scripts = {} /\ scripts \in [{} -> Texts]
    BY <2>3
  <2>5. Stored
    BY <2>4 DEF Stored
  <2> QED BY <2>1, <2>2, <2>5 DEF EndsAgree
<1>3. Greeting
  BY DEF Init, Greeting, Agreed, Operation
<1> QED BY <1>1, <1>2, <1>3 DEF Inv, Together, Place

-----------------------------------------------------------------------------

(* Which places there are for an operation, and for the server.             *)
LEMMA IdleIs == Idle.at = "idle" /\ Formed(Idle)
BY DEF Idle, Operation, Formed

(* Where client and server are at each place.                               *)
LEMMA Places ==
  /\ AtRest => op.at = "idle" /\ phase = "read" /\ c2s = <<>>
  /\ Greeting => op.at = "caps" /\ phase = "greet" /\ c2s = <<>>
  /\ Asked => op.at \in {"starttls", "auth", "caps", "list", "get", "logout", "status"} /\ phase = "read"
  /\ Copying => op.at = "literal" /\ phase = "read"
  /\ Announcing => op.at \in {"caps", "auth"} /\ phase = "read" /\ c2s = <<>>
  /\ Challenged => op.at = "auth" /\ phase = "sasl" /\ c2s = <<>>
  /\ Answered => op.at = "auth" /\ phase = "sasl"
  /\ Refused => op.at \in {"status", "auth", "get", "list", "starttls"} /\ phase = "read" /\ c2s = <<>>
  /\ Accepted => op.at \in {"status", "getStatus"} /\ phase = "read" /\ c2s = <<>>
  /\ Given => op.at = "get" /\ phase = "read" /\ c2s = <<>>
  /\ Enumerating => op.at = "list" /\ phase = "read" /\ c2s = <<>>
  /\ Permitted => op.at = "starttls" /\ phase = "handshake" /\ c2s = <<>>
  /\ Shaking => op.at = "handshake" /\ phase = "handshake"
\* Operations that wait for an answer to a command.
<1>AskedAt. Asked => op.at \in {"starttls", "auth", "caps", "list", "get", "logout", "status"}
  BY DEF Asked, Asks
<1> QED
  <2>1. AtRest => op.at = "idle" /\ phase = "read" /\ c2s = <<>>
    BY IdleIs DEF AtRest
  <2>2. Asked => op.at \in {"starttls", "auth", "caps", "list", "get", "logout", "status"} /\ phase = "read"
    BY <1>AskedAt DEF Asked
  <2> QED BY <2>1, <2>2 DEF Greeting, Copying, Announcing, Challenged, Answered, Refused, Accepted, Given,
             Enumerating, Permitted, Shaking

(* The places at which the server is elsewhere than before a command.       *)
LEMMA WherePhase ==
  ASSUME Place
  PROVE  /\ phase = "greet" => Greeting
         /\ phase = "sasl" => Challenged \/ Answered
         /\ phase = "handshake" => Permitted \/ Shaking
BY Places DEF Place

(* The places of operations that have one place only.                       *)
LEMMA WhereSimple ==
  ASSUME Place
  PROVE  /\ op.at = "idle" => AtRest
         /\ op.at = "literal" => Copying
         /\ op.at = "handshake" => Shaking
         /\ op.at = "getStatus" => Accepted
         /\ op.at = "logout" => Asked
BY Places DEF Place

(* The places of operations that read.                                      *)
LEMMA WhereReading ==
  ASSUME Place
  PROVE  /\ op.at = "status" => Asked \/ Refused \/ Accepted
         /\ op.at = "starttls" => Asked \/ Refused \/ Permitted
         /\ op.at = "caps" => Greeting \/ Asked \/ Announcing
         /\ op.at = "auth" => Asked \/ Announcing \/ Challenged \/ Answered \/ Refused
         /\ op.at = "list" => Asked \/ Refused \/ Enumerating
         /\ op.at = "get" => Asked \/ Refused \/ Given
BY Places DEF Place

(* Something that is on the way to a server that reads is a command or a    *)
(* header.                                                                  *)
LEMMA WhereCommand ==
  ASSUME Place, phase = "read", c2s # <<>>
  PROVE  Asked \/ Copying
BY Places DEF Place

(* An idle client is in no operation.                                       *)
LEMMA IdleAt == op = Idle => op.at = "idle"
BY IdleIs

(* What does not change.                                                    *)
LEMMA SameEnds ==
  ASSUME EndsAgree, UNCHANGED <<opts, buf, storeVars>>, ctls' = stls', Formed(op'),
         cstate' = "authenticated" => sstate' = "authenticated"
  PROVE  EndsAgree'
<1> opts' = opts /\ buf' = buf /\ scripts' = scripts /\ active' = active
  BY DEF storeVars
<1>2. Stored' <=> Stored
  BY DEF Stored
<1>3. Formed(op)'
  BY DEF Formed
<1> QED BY <1>2, <1>3 DEF EndsAgree

(* What the caller knows stays true.                                        *)
LEMMA SameAgreed ==
  ASSUME Agreed, UNCHANGED <<seen, storeVars>>
  PROVE  Agreed'
BY DEF Agreed, storeVars

(* What is written to an empty stream is the stream.                        *)
LEMMA Empties ==
  ASSUME NEW t \in Stream
  PROVE  <<>> \o t = t /\ (<<>> \o <<>>) \o t = t
BY Nothing DEF Stream

(* writeCapabilityResponse writes a capability response.                    *)
LEMMA ResponseIs ==
  ASSUME opts \in Options, NEW state, NEW secure, NEW code \in {0, 1}
  PROVE  /\ CapabilityResponse(state, secure, code) \in Stream
         /\ Announces(CapabilityResponse(state, secure, code), code)
<1>1. opts.describes \in BOOLEAN
  BY DEF Options
<1>2. PICK a \in BOOLEAN, t \in BOOLEAN :
        a = (state # "authenticated") /\ t = (opts.tls /\ ~secure /\ state # "authenticated")
  OBVIOUS
<1>3. CapabilityResponse(state, secure, code) = CapabilityLines(opts.describes, a, t, code)
  BY <1>2 DEF CapabilityResponse
<1>4. Announces(CapabilityResponse(state, secure, code), code)
  BY <1>1, <1>3 DEF Announces
<1> QED BY <1>4, Announced

(* A status is a stream.                                                    *)
LEMMA StatusType ==
  ASSUME NEW type \in {"OK", "NO", "BYE"}
  PROVE  Status(type, 0) \in Stream
<1>1. 0 \in {0, 1}
  OBVIOUS
<1> QED BY <1>1, StatusRead

(* A challenge is no capability.                                            *)
LEMMA ChallengeWords == "challenge" \in Texts /\ "response" \in Texts /\ "challenge" \notin Capabilities
<1>1. "challenge" \in Keywords /\ "response" \in Keywords
  BY DEF Keywords
<1>2. "challenge" \notin Capabilities
  BY DEF Capabilities
<1> QED BY <1>1, <1>2, WordsAre

-----------------------------------------------------------------------------

(* The server.                                                              *)
LEMMA GreetKeeps == ASSUME Together, Greet PROVE Together'
<1> EndsAgree /\ Greeting
  BY WherePhase DEF Together, Greet
<1> PICK t : t = CapabilityResponse(sstate, stls, 0)
  OBVIOUS
<1> t \in Stream /\ Announces(t, 0)
  <2>1. 0 \in {0, 1}
    OBVIOUS
  <2> QED BY <2>1, ResponseIs DEF EndsAgree
<1>4. s2c' = t
  BY Empties DEF Greet, Reply, Greeting
<1>5. Announcing'
  <2>1. op' = op /\ phase' = "read" /\ c2s' = <<>> /\ closed' = closed /\ Agreed'
    BY SameAgreed DEF Greet, clientVars, ghosts, Greeting, storeVars
  <2> QED BY <1>4, <2>1 DEF Announcing, Greeting
<1>6. EndsAgree'
  <2>1. /\ UNCHANGED <<opts, buf, storeVars>> /\ op' = op /\ ctls' = ctls /\ stls' = stls
        /\ cstate' = cstate /\ sstate' = sstate
    BY DEF Greet, clientVars
  <2> QED BY <2>1, SameEnds DEF EndsAgree
<1> QED BY <1>5, <1>6 DEF Together, Place

(* A handshake that succeeds starts both ends afresh with the capabilities. *)
LEMMA HandshakeKeeps == ASSUME Together, late = 0, late' = 0, Handshake PROVE Together'
<1> EndsAgree /\ Shaking
  BY WhereSimple DEF Together, Handshake
<1> /\ stls' = TRUE /\ ctls' = TRUE
    /\ s2c' = CapabilityResponse(sstate, TRUE, 0) /\ c2s' = <<>>
    /\ op' = [op EXCEPT !.at = "caps"]
  BY SMT DEF Handshake, Abandon
<1> phase' = "read" /\ UNCHANGED <<opts, buf, closed, cstate, sstate, storeVars, seen>>
  BY DEF Handshake
<1>4. Announces(s2c', 0)
  <2>1. 0 \in {0, 1}
    OBVIOUS
  <2> QED BY <2>1, ResponseIs DEF EndsAgree
<1> op'.at = "caps" /\ Formed(op')
  BY DEF EndsAgree, Formed
<1>6. Announcing'
  <2>1. Agreed' /\ ~closed'
    BY SameAgreed DEF Shaking
  <2> QED BY <1>4, <2>1 DEF Announcing
<1>7. EndsAgree'
  BY SameEnds DEF EndsAgree
<1> QED BY <1>6, <1>7 DEF Together, Place

(* A server that waits for a handshake gets nothing else.                   *)
LEMMA HandshakeHolds == ASSUME Together, HandshakeFails PROVE FALSE
<1>1. Permitted \/ Shaking
  BY WherePhase DEF Together, HandshakeFails
<1>2. c2s # <<>> /\ c2s[1] # Hello
  BY DEF HandshakeFails
<1> QED BY <1>1, <1>2, SMT DEF Permitted, Shaking

(* A step of the SASL exchange.                                             *)
LEMMA SaslKeeps ==
  ASSUME EndsAgree, SaslNext, op.at = "auth", op.items = {}, Agreed, ~closed, s2c = <<>>, c2s' = <<>>,
         UNCHANGED <<opts, buf, closed, clientVars, storeVars, ghosts>>
  PROVE  Together'
<1> /\ op' = op /\ ctls' = ctls /\ cstate' = cstate /\ closed' = closed /\ stls' = stls
    /\ UNCHANGED <<opts, buf, storeVars, seen>>
  BY DEF clientVars, ghosts, SaslNext
<1> Agreed'
  BY SameAgreed
<1>3. sstate' = sstate \/ sstate' = "authenticated"
  BY DEF SaslNext
<1> EndsAgree'
  BY <1>3, SameEnds DEF EndsAgree
<1> CASE phase' = "sasl" /\ Reply(String("challenge") \o <<CRLF>>)
  <2>1. String("challenge") \o <<CRLF>> \in Stream
    BY ExchangeRead
  <2>2. s2c' = String("challenge") \o <<CRLF>>
    BY <2>1, Empties DEF Reply
  <2>3. Challenged'
    BY <2>2, SMT DEF Challenged
  <2> QED BY <2>3 DEF Together, Place
<1> CASE /\ phase' = "read" /\ sstate' = "authenticated"
         /\ \E code \in {0, 1} : Reply(CapabilityResponse("authenticated", stls, code))
  <2>1. PICK code \in {0, 1} : Reply(CapabilityResponse("authenticated", stls, code))
    OBVIOUS
  <2> PICK t : t = CapabilityResponse("authenticated", stls, code)
    OBVIOUS
  <2> t \in Stream /\ Announces(t, code)
    BY ResponseIs DEF EndsAgree
  <2>4. s2c' = t
    BY <2>1, Empties DEF Reply
  <2>5. Announcing'
    BY <2>4, SMT DEF Announcing
  <2> QED BY <2>5 DEF Together, Place
<1> CASE phase' = "read" /\ Reply(Status("NO", 0))
  <2>1. Status("NO", 0) \in Stream
    BY StatusType
  <2>2. s2c' = Status("NO", 0)
    BY <2>1, Empties DEF Reply
  <2>3. Refused'
    BY <2>2, SMT DEF Refused
  <2> QED BY <2>3 DEF Together, Place
<1> QED BY DEF SaslNext

(* The server reads the answer to its challenge and nothing else.           *)
LEMMA ResponseKeeps == ASSUME Together, SaslResponse PROVE Together'
<1> EndsAgree /\ (Challenged \/ Answered)
  BY WherePhase DEF Together, SaslResponse
<1>2. PICK r : /\ r = ExpectCRLF(ReadString(MaxLiteralBytes)[c2s]) /\ r.st # "more" /\ c2s' = r.rest
               /\ IF r.st = "ok" THEN rounds' \in {0, rounds - 1} /\ SaslNext
                  ELSE /\ Reply(Status("NO", 0)) /\ phase' = "read" /\ rounds' = 0
                       /\ UNCHANGED <<sstate, stls>>
               /\ UNCHANGED <<opts, buf, closed, clientVars, storeVars, ghosts>>
  BY DEF SaslResponse
<1> CASE Challenged
  BY <1>2, EmptyRead DEF Challenged
<1> CASE Answered
  <2>1. r = Ok("response", <<>>)
    BY <1>2, ExchangeRead DEF Answered
  <2>2. r.st = "ok" /\ r.rest = <<>>
    BY <2>1, Results, SMT
  <2>3. SaslNext /\ c2s' = <<>>
    BY <1>2, <2>2
  <2> QED BY <1>2, <2>3, SaslKeeps DEF Answered
<1> QED OBVIOUS

-----------------------------------------------------------------------------

(* What every command leaves alone.                                         *)
Kept == UNCHANGED <<opts, buf, closed, clientVars, ghosts>>

(* What the caller learns from the results.                                 *)
LEMMA HoldingIs ==
  ASSUME Agreed PROVE seen.scripts = scripts /\ seen.active = active
BY DEF Agreed, Holding

(* The server is about to read a command and has nothing to say yet.        *)
Ready == EndsAgree /\ Agreed /\ ~closed /\ s2c = <<>> /\ phase = "read"

(* The reply to GETSCRIPT is read as the text, and its status is left,      *)
(* unless the text is too large for the client.                             *)
LEMMA GetReply ==
  ASSUME NEW v \in Texts
  PROVE  LET s == String(v) \o (<<CRLF>> \o Status("OK", 0))
         IN  /\ s \in Stream
             /\ TooLarge(s) \/ (IsString(s) /\ ExpectCRLF(ReadReply(s)) = Ok(v, Status("OK", 0)))
<1>1. PICK r : r = Status("OK", 0)
  OBVIOUS
<1>2. r \in Stream /\ <<CRLF>> \o r \in Stream
  BY <1>1, StatusType, Marks, Kind
<1>3. CASE Small(v, ClientMaxLiteralBytes)
  <2>1. ClientMaxLiteralBytes \in Int
    BY ProtocolAssumption, SMT
  <2> QED BY <1>1, <1>2, <1>3, <2>1, TextRead DEF ReadReply
<1>4. CASE ~Small(v, ClientMaxLiteralBytes)
  BY <1>1, <1>2, <1>4, LargeRead
<1> QED BY <1>3, <1>4

(* An atom before a stream.                                                 *)
LEMMA AtomFirst ==
  ASSUME NEW a \in Texts, NEW t \in Stream PROVE <<Atom(a)>> \o t \in Stream
<1>1. Atom(a) \in Tokens
  BY Spoken
<1> QED BY <1>1, SMT DEF Stream

(* The header of a script alone is no command.                              *)
LEMMA HeadersLack ==
  ASSUME NEW n \in Texts, NEW t \in Texts
  PROVE  /\ PutHeader(n, t) = <<Atom("PUTSCRIPT")>> \o (<<SP>> \o (String(n) \o (<<SP>> \o <<LiteralHeader(Length[t])>>)))
         /\ CheckHeader(t) = <<Atom("CHECKSCRIPT")>> \o (<<SP>> \o <<LiteralHeader(Length[t])>>)
         /\ PutHeader(n, t) \in Stream /\ CheckHeader(t) \in Stream
         /\ Lacks(ReadCommand(PutHeader(n, t))) /\ Lacks(ReadCommand(CheckHeader(t)))
<1> Length[t] \in Nat
  BY TextIs
<1> PICK h : h = LiteralHeader(Length[t])
  OBVIOUS
<1>3. h \in Tokens /\ SP \in Tokens
  BY Headers, Marks
<1> <<SP, h>> = <<SP>> \o <<h>> /\ <<SP, h>> \in Stream
  BY <1>3, SMT DEF Stream
<1> PutHeader(n, t) = <<Atom("PUTSCRIPT")>> \o (<<SP>> \o (String(n) \o (<<SP>> \o <<h>>)))
  <2> PICK r : r = <<SP, h>>
    OBVIOUS
  <2>2. Argument(n) \o r = <<SP>> \o (String(n) \o r)
    BY ArgumentBefore
  <2>3. PutHeader(n, t) = <<Atom("PUTSCRIPT")>> \o (Argument(n) \o r)
    BY DEF PutHeader
  <2> QED BY <2>2, <2>3
<1> CheckHeader(t) = <<Atom("CHECKSCRIPT")>> \o (<<SP>> \o <<h>>)
  BY DEF CheckHeader
<1> "PUTSCRIPT" \in Texts /\ "CHECKSCRIPT" \in Texts
  <2>1. "PUTSCRIPT" \in Keywords /\ "CHECKSCRIPT" \in Keywords
    BY DEF Keywords
  <2> QED BY <2>1, WordsAre
<1>8. Lacks(ReadCommand(PutHeader(n, t)))
  BY StringIs, Prefix1
<1>9. Lacks(ReadCommand(CheckHeader(t)))
  BY Prefix0
<1>10. PutHeader(n, t) \in Stream /\ CheckHeader(t) \in Stream
  <2> PICK r : r = <<SP, h>>
    OBVIOUS
  <2>2. Argument(n) \o r \in Stream /\ r \in Stream
    BY ArgumentBefore
  <2>3. PutHeader(n, t) = <<Atom("PUTSCRIPT")>> \o (Argument(n) \o r) /\ CheckHeader(t) = <<Atom("CHECKSCRIPT")>> \o r
    BY DEF PutHeader, CheckHeader
  <2> QED BY <2>2, <2>3, AtomFirst
<1> QED BY <1>8, <1>9, <1>10

(* One turn of Conn.serve keeps the two together.                           *)
LEMMA ServeKeeps == ASSUME Together, ServeCommand, phase' # "gone" PROVE Together'
\* Commands.
<1>HandleOwn. ASSUME NEW name, NEW args, HandleCommand(name, args)
      PROVE  /\ name = "CAPABILITY" /\ args = <<>> =>
                  Reply(CapabilityResponse(sstate, stls, 0)) /\ StaysReading /\ UNCHANGED storeVars
             /\ name = "STARTTLS" => HandleStartTLS(args)
             /\ name = "AUTHENTICATE" => HandleAuthenticate(args)
             /\ name = "LOGOUT" => args # <<>> \/ Leave
             /\ name = "NOOP" => Refuse \/ (Accept /\ UNCHANGED storeVars)
  BY <1>HandleOwn DEF HandleCommand
\* What handleCommand does with a command for the session.
<1>HandleStore. ASSUME NEW name, NEW args, HandleCommand(name, args)
      PROVE  /\ name = "LISTSCRIPTS" =>
                  \/ Refuse
                  \/ /\ \E names \in Orders(DOMAIN scripts) : Reply(ListReply(names))
                     /\ StaysReading /\ UNCHANGED storeVars
             /\ name = "GETSCRIPT" =>
                  \/ Refuse
                  \/ /\ args[1] \in DOMAIN scripts
                     /\ Reply(String(scripts[args[1]]) \o (<<CRLF>> \o Status("OK", 0)))
                     /\ StaysReading /\ UNCHANGED storeVars
             /\ name = "PUTSCRIPT" => Refuse \/ (Accept /\ Store!Put(args[1], args[2]))
             /\ name = "CHECKSCRIPT" => Refuse \/ (Accept /\ UNCHANGED storeVars)
             /\ name = "SETACTIVE" => Refuse \/ (Accept /\ Store!Activate(args[1]))
             /\ name = "DELETESCRIPT" => Refuse \/ (Accept /\ Store!Delete(args[1]))
             /\ name = "RENAMESCRIPT" => Refuse \/ (Accept /\ Store!Rename(args[1], args[2]))
             /\ name = "HAVESPACE" => Refuse \/ (Accept /\ UNCHANGED storeVars)
  BY <1>HandleStore DEF HandleCommand
\* The server carries out the command that was sent and takes all of it.
<1>Obeyed. ASSUME ServeCommand, phase' # "gone", NEW ws, Sends(ws)
      PROVE  /\ ReadCommand(c2s).st = "ok" /\ c2s' = <<>> /\ HandleCommand(ws[1], Tail(ws))
             /\ UNCHANGED <<opts, buf, closed, clientVars, ghosts>>
  <2> USE <1>Obeyed
  <2> PICK r : r = ReadCommand(c2s)
    OBVIOUS
  <2>2. /\ r.st # "more" /\ c2s' = r.rest
        /\ IF r.st = "ok" THEN HandleCommand(r.v[1], Tail(r.v))
           ELSE Reply(Status("NO", 0)) /\ Leave /\ UNCHANGED storeVars
        /\ UNCHANGED <<opts, buf, closed, clientVars, ghosts>>
    BY DEF ServeCommand
  <2>3. ~Leave
    BY DEF Leave
  <2> r.st = "ok"
    BY <2>2, <2>3
  <2>5. Obeys(r, ws, TRUE)
    BY DEF Sends
  <2>6. r.v = ws /\ r.rest = <<>>
    BY <2>5 DEF Obeys
  <2> QED BY <2>2, <2>6
\* A command of one of the shapes there are.
<1>Obeyed1. ASSUME ServeCommand, phase' # "gone", NEW a, Sends(<<a>>)
      PROVE  ReadCommand(c2s).st = "ok" /\ c2s' = <<>> /\ HandleCommand(a, <<>>) /\ Kept
  <2> USE <1>Obeyed1
  <2> PICK ws : ws = <<a>>
    OBVIOUS
  <2>2. ws[1] = a /\ Tail(ws) = <<>>
    BY SMT
  <2> QED BY <2>2, <1>Obeyed DEF Kept
\* With one argument.
<1>Obeyed2. ASSUME ServeCommand, phase' # "gone", NEW a, NEW x, Sends(<<a, x>>)
      PROVE  ReadCommand(c2s).st = "ok" /\ c2s' = <<>> /\ HandleCommand(a, <<x>>) /\ Kept
  <2> USE <1>Obeyed2
  <2> PICK ws : ws = <<a, x>>
    OBVIOUS
  <2>2. ws[1] = a /\ Tail(ws) = <<x>>
    BY SMT
  <2> QED BY <2>2, <1>Obeyed DEF Kept
\* With two arguments.
<1>Obeyed3. ASSUME ServeCommand, phase' # "gone", NEW a, NEW x, NEW y, Sends(<<a, x, y>>)
      PROVE  ReadCommand(c2s).st = "ok" /\ c2s' = <<>> /\ HandleCommand(a, <<x, y>>) /\ Kept
  <2> USE <1>Obeyed3
  <2> PICK ws : ws = <<a, x, y>>
    OBVIOUS
  <2>2. ws[1] = a /\ Tail(ws) = <<x, y>>
    BY SMT
  <2> QED BY <2>2, <1>Obeyed DEF Kept
\* Less than a command is waited for, or ends the connection.
<1>Unserved. ASSUME ServeCommand, Lacks(ReadCommand(c2s)) PROVE phase' = "gone"
  <2> USE <1>Unserved
  <2> PICK r : r = ReadCommand(c2s)
    OBVIOUS
  <2>2. /\ r.st # "more"
        /\ r.st # "ok" => Leave
    BY DEF ServeCommand
  <2>3. r.st # "ok"
    <3>1. Lacks(r)
      OBVIOUS
    <3> QED BY <3>1 DEF Lacks
  <2> QED BY <2>2, <2>3 DEF Leave
\* The same, variable by variable.
<1>KeptIs. ASSUME Kept
      PROVE  /\ opts' = opts /\ buf' = buf /\ closed' = closed /\ op' = op /\ cstate' = cstate
             /\ ctls' = ctls /\ seen' = seen /\ UNCHANGED seen
  BY <1>KeptIs DEF Kept, clientVars, ghosts
\* A server that goes on reading.
<1>StaysIs. ASSUME StaysReading PROVE phase' = phase /\ sstate' = sstate /\ stls' = stls
  BY <1>StaysIs DEF StaysReading, serverVars
\* Then a refusal keeps the two together,
<1>ReadyRefuses.   ASSUME Ready, Refuse, Kept, c2s' = <<>>, op.at \in {"status", "auth", "get", "list", "starttls"}
        PROVE  Together'
      \* A command that is refused: the client has a NO to read.
  <2> USE <1>ReadyRefuses
  <2>RefuseKeeps. ASSUME EndsAgree, Refuse, Kept, c2s' = <<>>, s2c = <<>>, phase = "read", Agreed, ~closed,
               op.at \in {"status", "auth", "get", "list", "starttls"}
        PROVE  Together'
    <3> USE <2>RefuseKeeps
    <3>1. Status("NO", 0) \in Stream
      BY StatusType
    <3>2. s2c' = Status("NO", 0)
      BY <3>1, Empties DEF Refuse, Reply
    <3> /\ phase' = "read" /\ sstate' = sstate /\ stls' = stls /\ UNCHANGED storeVars /\ ~closed'
        /\ op' = op /\ cstate' = cstate /\ ctls' = ctls /\ UNCHANGED <<opts, buf, seen>>
      BY <1>StaysIs, <1>KeptIs, SMT DEF Refuse
    <3>4. Agreed'
      BY SameAgreed
    <3>5. Refused'
      BY <3>2, <3>4 DEF Refused
    <3>6. EndsAgree'
      BY SameEnds DEF EndsAgree
    <3> QED BY <3>5, <3>6 DEF Together, Place
  <2> QED BY <2>RefuseKeeps DEF Ready
\* The commands that end with a status keep the two together.
<1>ServeSimple.   ASSUME Ready, ServeCommand, phase' # "gone", op.at = "status", AsksSimple
        PROVE  Together'
      \* The words of a command.
  <2> USE <1>ServeSimple
  <2>Words. ASSUME NEW a, NEW x, NEW y
        PROVE  /\ <<a>>[1] = a /\ Tail(<<a>>) = <<>>
               /\ <<a, x>>[1] = a /\ Tail(<<a, x>>) = <<x>> /\ <<x>>[1] = x
               /\ <<a, x, y>>[1] = a /\ Tail(<<a, x, y>>) = <<x, y>> /\ <<x, y>>[1] = x /\ <<x, y>>[2] = y
    BY SMT
  \* A command that is carried out: the client has an OK to read, and what it
  \* then learns is true.
  <2>AcceptKeeps. ASSUME EndsAgree, Accept, Kept, c2s' = <<>>, s2c = <<>>, phase = "read", ~closed,
               op.at = "status", Stored', Learned = Holding(scripts', active')
        PROVE  Together'
    <3> USE <2>AcceptKeeps
    <3>1. Status("OK", 0) \in Stream
      BY StatusType
    <3>2. s2c' = Status("OK", 0)
      BY <3>1, Empties DEF Accept, Reply
    <3> /\ phase' = "read" /\ sstate' = sstate /\ stls' = stls /\ ~closed'
        /\ op' = op /\ cstate' = cstate /\ ctls' = ctls /\ opts' = opts /\ buf' = buf /\ seen' = seen
      BY <1>StaysIs, <1>KeptIs, SMT DEF Accept
    <3>4. Learned' = Holding(scripts, active)'
      <4>1. Learned' = Learned
        BY DEF Learned
      <4>2. Holding(scripts, active)' = Holding(scripts', active')
        BY DEF Holding
      <4> QED BY <4>1, <4>2
    <3>5. Accepted'
      BY <3>2, <3>4 DEF Accepted
    <3>6. EndsAgree'
      BY DEF EndsAgree, Formed
    <3> QED BY <3>5, <3>6 DEF Together, Place
  \* Commands that change nothing teach nothing.
  <2>LearnedNothing. ASSUME Agreed, op.name \in {"HAVESPACE", "NOOP", "CHECKSCRIPT"}
        PROVE  Learned = Holding(scripts, active)
    BY <2>LearnedNothing DEF Agreed, Learned
  \* SETACTIVE teaches which script is active.
  <2>LearnedActive. ASSUME Agreed, op.name = "SETACTIVE", NEW n, op.args = <<n>>
        PROVE  Learned = Holding(scripts, n)
    <3> USE <2>LearnedActive
    <3>1. op.args[1] = n
      BY <2>Words
    <3>2. Learned = Holding(seen.scripts, op.args[1])
      BY DEF Learned
    <3> QED BY <3>1, <3>2, HoldingIs
  \* PUTSCRIPT and GETSCRIPT teach a text.
  <2>LearnedText. ASSUME Agreed, op.name \in {"PUTSCRIPT", "GETSCRIPT"}, NEW n, op.args = <<n>>
        PROVE  Learned = Holding([m \in DOMAIN scripts \cup {n} |-> IF m = n THEN op.text ELSE scripts[m]], active)
    <3> USE <2>LearnedText
    <3>1. op.args[1] = n
      BY <2>Words
    <3>2. Learned = Holding([m \in DOMAIN seen.scripts \cup {op.args[1]} |->
                               IF m = op.args[1] THEN op.text ELSE seen.scripts[m]], seen.active)
      BY DEF Learned
    <3> QED BY <3>1, <3>2, HoldingIs
  \* DELETESCRIPT teaches that a script is gone.
  <2>LearnedGone. ASSUME Agreed, op.name = "DELETESCRIPT", NEW n, op.args = <<n>>
        PROVE  Learned = Holding([m \in DOMAIN scripts \ {n} |-> scripts[m]], active)
    <3> USE <2>LearnedGone
    <3>1. op.args[1] = n
      BY <2>Words
    <3>2. Learned = Holding([m \in DOMAIN seen.scripts \ {op.args[1]} |-> seen.scripts[m]], seen.active)
      BY DEF Learned
    <3> QED BY <3>1, <3>2, HoldingIs
  \* RENAMESCRIPT teaches a new name, of the active script too.
  <2>LearnedName. ASSUME Agreed, op.name = "RENAMESCRIPT", NEW n, NEW k, op.args = <<n, k>>
        PROVE  Learned = Holding([m \in (DOMAIN scripts \ {n}) \cup {k} |-> scripts[IF m = k THEN n ELSE m]],
                                 IF active = n THEN k ELSE active)
    <3> USE <2>LearnedName
    <3>1. op.args[1] = n /\ op.args[2] = k
      BY SMT
    <3>2. Learned = Holding([m \in (DOMAIN seen.scripts \ {op.args[1]}) \cup {op.args[2]} |->
                               seen.scripts[IF m = op.args[2] THEN op.args[1] ELSE m]],
                            IF seen.active = op.args[1] THEN op.args[2] ELSE seen.active)
      BY DEF Learned
    <3> QED BY <3>1, <3>2, HoldingIs
  \* The session's scripts stay texts: when nothing changes,
  <2>StoredSame. ASSUME Stored, scripts' = scripts PROVE Stored'
    BY <2>StoredSame DEF Stored
  \* when one is put,
  <2>StoredPut. ASSUME Stored, NEW n \in Texts, NEW t \in Texts,
               scripts' = [m \in DOMAIN scripts \cup {n} |-> IF m = n THEN t ELSE scripts[m]]
        PROVE  Stored'
    BY <2>StoredPut DEF Stored
  \* when one is deleted,
  <2>StoredGone. ASSUME Stored, NEW n, scripts' = [m \in DOMAIN scripts \ {n} |-> scripts[m]]
        PROVE  Stored'
    BY <2>StoredGone DEF Stored
  \* and when one is renamed.
  <2>StoredName. ASSUME Stored, NEW n \in DOMAIN scripts, NEW k \in Texts,
               scripts' = [m \in (DOMAIN scripts \ {n}) \cup {k} |-> IF m = k THEN scripts[n] ELSE scripts[m]]
        PROVE  Stored'
    BY <2>StoredName DEF Stored
  \* and so does a success the caller learns the right thing from:
  <2>ReadyAccepts. ASSUME Ready, Accept, Kept, c2s' = <<>>, op.at = "status", Stored', Learned = Holding(scripts', active')
        PROVE  Together'
    BY <2>ReadyAccepts, <2>AcceptKeeps DEF Ready
  \* of a command that changes nothing,
  <2>ReadyAnswers. ASSUME Ready, Accept, UNCHANGED storeVars, Kept, c2s' = <<>>, op.at = "status",
               op.name \in {"HAVESPACE", "NOOP", "CHECKSCRIPT"}
        PROVE  Together'
    <3> USE <2>ReadyAnswers
    <3> scripts' = scripts /\ active' = active
      BY DEF storeVars
    <3>2. Stored'
      BY <2>StoredSame DEF Ready, EndsAgree
    <3>3. Learned = Holding(scripts', active')
      BY <2>LearnedNothing DEF Ready
    <3> QED BY <3>2, <3>3, <2>ReadyAccepts
  \* of SETACTIVE,
  <2>ReadyActivates. ASSUME Ready, Accept, Kept, c2s' = <<>>, op.at = "status",
               op.name = "SETACTIVE", NEW n \in Texts, op.args = <<n>>, Store!Activate(n)
        PROVE  Together'
    <3> USE <2>ReadyActivates
    <3> scripts' = scripts /\ active' = n
      BY DEF Store!Activate
    <3>2. Stored'
      BY <2>StoredSame DEF Ready, EndsAgree
    <3>3. Learned = Holding(scripts', active')
      BY <2>LearnedActive DEF Ready
    <3> QED BY <3>2, <3>3, <2>ReadyAccepts
  \* of PUTSCRIPT,
  <2>ReadyPuts. ASSUME Ready, Accept, Kept, c2s' = <<>>, op.at = "status", op.name = "PUTSCRIPT",
               NEW n \in Texts, op.args = <<n>>, op.text \in Texts, Store!Put(n, op.text)
        PROVE  Together'
    <3> USE <2>ReadyPuts
    <3> /\ scripts' = [m \in DOMAIN scripts \cup {n} |-> IF m = n THEN op.text ELSE scripts[m]]
        /\ active' = active
      BY DEF Store!Put, Store!With
    <3>2. Stored'
      BY <2>StoredPut DEF Ready, EndsAgree
    <3>3. Learned = Holding(scripts', active')
      BY <2>LearnedText DEF Ready
    <3> QED BY <3>2, <3>3, <2>ReadyAccepts
  \* of DELETESCRIPT
  <2>ReadyDeletes. ASSUME Ready, Accept, Kept, c2s' = <<>>, op.at = "status", op.name = "DELETESCRIPT",
               NEW n \in Texts, op.args = <<n>>, Store!Delete(n)
        PROVE  Together'
    <3> USE <2>ReadyDeletes
    <3> scripts' = [m \in DOMAIN scripts \ {n} |-> scripts[m]] /\ active' = active
      BY DEF Store!Delete, Store!Without
    <3>2. Stored'
      BY <2>StoredGone DEF Ready, EndsAgree
    <3>3. Learned = Holding(scripts', active')
      BY <2>LearnedGone DEF Ready
    <3> QED BY <3>2, <3>3, <2>ReadyAccepts
  \* and of RENAMESCRIPT.
  <2>ReadyRenames. ASSUME Ready, Accept, Kept, c2s' = <<>>, op.at = "status", op.name = "RENAMESCRIPT",
               NEW n \in Texts, NEW k \in Texts, op.args = <<n, k>>, Store!Rename(n, k)
        PROVE  Together'
    <3> USE <2>ReadyRenames
    <3> /\ n \in DOMAIN scripts
        /\ scripts' = [m \in (DOMAIN scripts \ {n}) \cup {k} |-> IF m = k THEN scripts[n] ELSE scripts[m]]
        /\ active' = IF active = n THEN k ELSE active
      BY DEF Store!Rename
    <3>2. Stored'
      BY <2>StoredName DEF Ready, EndsAgree
    <3>3. Learned = Holding(scripts', active')
      <4>1. scripts' = [m \in (DOMAIN scripts \ {n}) \cup {k} |-> scripts[IF m = k THEN n ELSE m]]
        OBVIOUS
      <4>2. Learned = Holding([m \in (DOMAIN scripts \ {n}) \cup {k} |-> scripts[IF m = k THEN n ELSE m]],
                              IF active = n THEN k ELSE active)
        BY <2>LearnedName DEF Ready
      <4> QED BY <4>1, <4>2
    <3> QED BY <3>2, <3>3, <2>ReadyAccepts
  <2> QED
    <3> op.at \in {"status", "auth", "get", "list", "starttls"}
      OBVIOUS
    <3>1. CASE op.name = "SETACTIVE" /\ \E n \in Texts : op.args = <<n>> /\ Sends(<<"SETACTIVE", n>>)
      <4> PICK n \in Texts : op.args = <<n>> /\ Sends(<<"SETACTIVE", n>>)
        BY <3>1
      <4> c2s' = <<>> /\ HandleCommand("SETACTIVE", <<n>>) /\ Kept
        BY <1>Obeyed2
      <4>3. Refuse \/ (Accept /\ Store!Activate(n))
        <5>1. Refuse \/ (Accept /\ Store!Activate(<<n>>[1]))
          BY <1>HandleStore
        <5>2. <<n>>[1] = n
          OBVIOUS
        <5> QED BY <5>1, <5>2
      <4> QED BY <3>1, <4>3, <1>ReadyRefuses, <2>ReadyActivates
    <3>2. CASE op.name = "DELETESCRIPT" /\ \E n \in Texts : op.args = <<n>> /\ Sends(<<"DELETESCRIPT", n>>)
      <4> PICK n \in Texts : op.args = <<n>> /\ Sends(<<"DELETESCRIPT", n>>)
        BY <3>2
      <4> c2s' = <<>> /\ HandleCommand("DELETESCRIPT", <<n>>) /\ Kept
        BY <1>Obeyed2
      <4>3. Refuse \/ (Accept /\ Store!Delete(n))
        <5>1. Refuse \/ (Accept /\ Store!Delete(<<n>>[1]))
          BY <1>HandleStore
        <5>2. <<n>>[1] = n
          OBVIOUS
        <5> QED BY <5>1, <5>2
      <4> QED BY <3>2, <4>3, <1>ReadyRefuses, <2>ReadyDeletes
    <3>3. CASE op.name = "RENAMESCRIPT"
               /\ \E n, m \in Texts : op.args = <<n, m>> /\ Sends(<<"RENAMESCRIPT", n, m>>)
      <4> PICK n \in Texts, m \in Texts : op.args = <<n, m>> /\ Sends(<<"RENAMESCRIPT", n, m>>)
        BY <3>3
      <4> c2s' = <<>> /\ HandleCommand("RENAMESCRIPT", <<n, m>>) /\ Kept
        BY <1>Obeyed3
      <4>3. Refuse \/ (Accept /\ Store!Rename(n, m))
        <5>1. Refuse \/ (Accept /\ Store!Rename(<<n, m>>[1], <<n, m>>[2]))
          BY <1>HandleStore
        <5>2. <<n, m>>[1] = n /\ <<n, m>>[2] = m
          OBVIOUS
        <5> QED BY <5>1, <5>2
      <4> QED BY <3>3, <4>3, <1>ReadyRefuses, <2>ReadyRenames
    <3>4. CASE op.name = "HAVESPACE" /\ \E n \in Texts : Sends(<<"HAVESPACE", n, "size">>)
      <4>1. PICK n \in Texts : Sends(<<"HAVESPACE", n, "size">>)
        BY <3>4
      <4> c2s' = <<>> /\ HandleCommand("HAVESPACE", <<n, "size">>) /\ Kept
        BY <4>1, <1>Obeyed3
      <4>3. Refuse \/ (Accept /\ UNCHANGED storeVars)
        BY <1>HandleStore
      <4> QED BY <3>4, <4>3, <1>ReadyRefuses, <2>ReadyAnswers
    <3>5. CASE op.name = "NOOP" /\ (Sends(<<"NOOP">>) \/ Sends(<<"NOOP", "tag">>))
      <4> \E args : c2s' = <<>> /\ HandleCommand("NOOP", args) /\ Kept
        BY <3>5, <1>Obeyed1, <1>Obeyed2
      <4>2. Refuse \/ (Accept /\ UNCHANGED storeVars)
        BY <1>HandleOwn
      <4> QED BY <3>5, <4>2, <1>ReadyRefuses, <2>ReadyAnswers
    <3>6. CASE op.name = "PUTSCRIPT"
               /\ \E n, t \in Texts : op.args = <<n>> /\ op.text = t /\ Sends(<<"PUTSCRIPT", n, t>>)
      <4> PICK n \in Texts, t \in Texts : op.args = <<n>> /\ op.text = t /\ Sends(<<"PUTSCRIPT", n, t>>)
        BY <3>6
      <4> c2s' = <<>> /\ HandleCommand("PUTSCRIPT", <<n, t>>) /\ Kept
        BY <1>Obeyed3
      <4>3. Refuse \/ (Accept /\ Store!Put(n, t))
        <5>1. Refuse \/ (Accept /\ Store!Put(<<n, t>>[1], <<n, t>>[2]))
          BY <1>HandleStore
        <5>2. <<n, t>>[1] = n /\ <<n, t>>[2] = t
          OBVIOUS
        <5> QED BY <5>1, <5>2
      <4> QED BY <3>6, <4>3, <1>ReadyRefuses, <2>ReadyPuts
    <3>7. CASE op.name = "CHECKSCRIPT" /\ \E t \in Texts : Sends(<<"CHECKSCRIPT", t>>)
      <4>1. PICK t \in Texts : Sends(<<"CHECKSCRIPT", t>>)
        BY <3>7
      <4> c2s' = <<>> /\ HandleCommand("CHECKSCRIPT", <<t>>) /\ Kept
        BY <4>1, <1>Obeyed2
      <4>3. Refuse \/ (Accept /\ UNCHANGED storeVars)
        BY <1>HandleStore
      <4> QED BY <3>7, <4>3, <1>ReadyRefuses, <2>ReadyAnswers
    <3> QED BY <3>1, <3>2, <3>3, <3>4, <3>5, <3>6, <3>7 DEF AsksSimple
\* STARTTLS is refused, or the server waits for the handshake.
<1>ServeStartTLS. ASSUME Ready, ServeCommand, phase' # "gone", op.at = "starttls", Sends(<<"STARTTLS">>)
      PROVE  Together'
  <2> USE <1>ServeStartTLS
  <2> c2s' = <<>> /\ HandleCommand("STARTTLS", <<>>) /\ Kept
    BY <1>Obeyed1
  <2>2. \/ Refuse
        \/ /\ Reply(Status("OK", 0)) /\ phase' = "handshake" /\ UNCHANGED <<sstate, stls, rounds, storeVars>>
    BY <1>HandleOwn DEF HandleStartTLS
  <2> CASE Refuse
    BY <1>ReadyRefuses
  <2> CASE /\ Reply(Status("OK", 0)) /\ phase' = "handshake" /\ UNCHANGED <<sstate, stls, rounds, storeVars>>
    <3>1. s2c' = Status("OK", 0)
      <4>1. Status("OK", 0) \in Stream
        BY StatusType
      <4> QED BY <4>1, Empties DEF Ready, Reply
    <3> /\ sstate' = sstate /\ stls' = stls /\ UNCHANGED storeVars /\ ~closed'
        /\ op' = op /\ cstate' = cstate /\ ctls' = ctls /\ UNCHANGED <<opts, buf, seen>>
      BY <1>KeptIs, SMT DEF Ready
    <3>3. Agreed'
      BY SameAgreed DEF Ready
    <3>4. Permitted'
      BY <3>1, <3>3 DEF Permitted
    <3>5. EndsAgree'
      BY SameEnds DEF Ready, EndsAgree
    <3> QED BY <3>4, <3>5 DEF Together, Place
  <2> QED BY <2>2
\* AUTHENTICATE is refused or starts the exchange.
<1>ServeAuthenticate. ASSUME Ready, ServeCommand, phase' # "gone", op.at = "auth", op.items = {},
             Sends(<<"AUTHENTICATE", "mech">>) \/ Sends(<<"AUTHENTICATE", "mech", "ir">>)
      PROVE  Together'
  <2> USE <1>ServeAuthenticate
  <2> PICK args : c2s' = <<>> /\ HandleCommand("AUTHENTICATE", args) /\ Kept
    BY <1>Obeyed2, <1>Obeyed3
  <2>2. Refuse \/ (SaslNext /\ UNCHANGED storeVars)
    BY <1>HandleOwn DEF HandleAuthenticate
  <2> CASE Refuse
    BY <1>ReadyRefuses
  <2> CASE SaslNext /\ UNCHANGED storeVars
    <3>1. UNCHANGED <<opts, buf, closed, clientVars, storeVars, ghosts>>
      BY DEF Kept
    <3> QED BY <3>1, SaslKeeps DEF Ready
  <2> QED BY <2>2
\* What a command that answers with more than a status leaves alone.
<1>AnswerKeeps. ASSUME Ready, Kept, StaysReading, UNCHANGED storeVars
      PROVE  /\ EndsAgree' /\ Agreed' /\ ~closed' /\ phase' = "read" /\ op' = op
             /\ scripts' = scripts /\ sstate' = sstate
  <2> USE <1>AnswerKeeps
  <2> /\ phase' = "read" /\ sstate' = sstate /\ stls' = stls /\ UNCHANGED storeVars /\ ~closed'
      /\ op' = op /\ cstate' = cstate /\ ctls' = ctls /\ UNCHANGED <<opts, buf, seen>>
    BY <1>StaysIs, <1>KeptIs, SMT DEF Ready
  <2>2. Agreed'
    BY SameAgreed DEF Ready
  <2>3. EndsAgree'
    BY SameEnds DEF Ready, EndsAgree
  <2> QED BY <2>2, <2>3 DEF storeVars
\* CAPABILITY is answered with the capabilities.
<1>ServeCapability. ASSUME Ready, ServeCommand, phase' # "gone", op.at = "caps", Sends(<<"CAPABILITY">>)
      PROVE  Together'
  <2> USE <1>ServeCapability
  <2> c2s' = <<>> /\ HandleCommand("CAPABILITY", <<>>) /\ Kept
    BY <1>Obeyed1
  <2> Reply(CapabilityResponse(sstate, stls, 0)) /\ StaysReading /\ UNCHANGED storeVars
    BY <1>HandleOwn
  <2> PICK t : t = CapabilityResponse(sstate, stls, 0)
    OBVIOUS
  <2> 0 \in {0, 1}
    OBVIOUS
  <2> t \in Stream /\ Announces(t, 0)
    BY ResponseIs DEF Ready, EndsAgree
  <2>6. s2c' = t
    BY Empties DEF Ready, Reply
  <2> EndsAgree' /\ Agreed' /\ ~closed' /\ phase' = "read" /\ op' = op
    BY <1>AnswerKeeps
  <2>8. Announcing'
    BY <2>6 DEF Announcing
  <2> QED BY <2>8 DEF Together, Place
\* LISTSCRIPTS is refused or answered with a listing.
<1>ServeList. ASSUME Ready, ServeCommand, phase' # "gone", op.at = "list", Sends(<<"LISTSCRIPTS">>)
      PROVE  Together'
  <2> USE <1>ServeList
  <2> c2s' = <<>> /\ HandleCommand("LISTSCRIPTS", <<>>) /\ Kept
    BY <1>Obeyed1
  <2>2. \/ Refuse
        \/ /\ \E names \in Orders(DOMAIN scripts) : Reply(ListReply(names))
           /\ StaysReading /\ UNCHANGED storeVars
    BY <1>HandleStore
  <2> CASE Refuse
    BY <1>ReadyRefuses
  <2> CASE /\ \E names \in Orders(DOMAIN scripts) : Reply(ListReply(names))
           /\ StaysReading /\ UNCHANGED storeVars
    <3> PICK names \in Orders(DOMAIN scripts) : Reply(ListReply(names))
      OBVIOUS
    <3>2. PICK N \in 0..Cardinality(DOMAIN scripts) : names \in Bijection(1..N, DOMAIN scripts)
      BY DEF Orders
    <3>3. names \in [1..N -> DOMAIN scripts] /\ DOMAIN scripts \subseteq Texts
      BY <3>2 DEF Bijection, Injection, Ready, EndsAgree, Stored
    <3>4. N \in Nat /\ names \in [1..N -> Texts]
      BY <3>3, SMT
    <3> PICK t : t = ListReply(names)
      OBVIOUS
    <3> Lists(t)
      BY <3>4, ListReplyIs
    <3>7. t \in Stream
      BY SMT DEF Lists
    <3>8. s2c' = t
      BY <3>7, Empties DEF Ready, Reply
    <3> EndsAgree' /\ Agreed' /\ ~closed' /\ phase' = "read" /\ op' = op
      BY <1>AnswerKeeps
    <3>10. Enumerating'
      BY <3>8 DEF Enumerating
    <3> QED BY <3>10 DEF Together, Place
  <2> QED BY <2>2
\* GETSCRIPT is refused or answered with the text that is stored.
<1>ServeGet. ASSUME Ready, ServeCommand, phase' # "gone", op.at = "get", op.name = "GETSCRIPT",
             NEW n \in Texts, op.args = <<n>>, Sends(<<"GETSCRIPT", n>>)
      PROVE  Together'
  <2> USE <1>ServeGet
  <2> c2s' = <<>> /\ HandleCommand("GETSCRIPT", <<n>>) /\ Kept
    BY <1>Obeyed2
  <2>2. \/ Refuse
        \/ /\ n \in DOMAIN scripts /\ Reply(String(scripts[n]) \o (<<CRLF>> \o Status("OK", 0)))
           /\ StaysReading /\ UNCHANGED storeVars
    <3>1. <<n>>[1] = n
      OBVIOUS
    <3>2. \/ Refuse
          \/ /\ <<n>>[1] \in DOMAIN scripts
             /\ Reply(String(scripts[<<n>>[1]]) \o (<<CRLF>> \o Status("OK", 0)))
             /\ StaysReading /\ UNCHANGED storeVars
      BY <1>HandleStore
    <3> QED BY <3>1, <3>2
  <2> CASE Refuse
    BY <1>ReadyRefuses
  <2> CASE /\ n \in DOMAIN scripts /\ Reply(String(scripts[n]) \o (<<CRLF>> \o Status("OK", 0)))
           /\ StaysReading /\ UNCHANGED storeVars
    <3>1. scripts[n] \in Texts
      BY DEF Ready, EndsAgree, Stored
    <3> PICK t : t = String(scripts[n]) \o (<<CRLF>> \o Status("OK", 0))
      OBVIOUS
    <3>3. t \in Stream
      BY <3>1, GetReply
    <3>4. s2c' = t
      BY <3>3, Empties DEF Ready, Reply
    <3> EndsAgree' /\ Agreed' /\ ~closed' /\ phase' = "read" /\ op' = op /\ scripts' = scripts
      BY <1>AnswerKeeps
    <3>6. Given'
      BY <3>4 DEF Given
    <3> QED BY <3>6 DEF Together, Place
  <2> QED BY <2>2
<1> QED
  <2>1. phase = "read" /\ c2s # <<>>
    <3>1. ReadCommand(c2s).st # "more"
      BY DEF ServeCommand
    <3> QED BY <3>1, EmptyRead DEF ServeCommand
  <2> EndsAgree /\ (Asked \/ Copying)
    BY <2>1, WhereCommand DEF Together
  <2> CASE Copying
    <3>1. Lacks(ReadCommand(c2s))
      BY HeadersLack DEF Copying
    <3> QED BY <3>1, <1>Unserved
  <2> CASE Asked
    <3>1. Ready /\ Asks
      BY DEF Asked, Ready
    <3>2. op.at = "logout" => ~Sends(<<"LOGOUT">>)
      <4> SUFFICES ASSUME Sends(<<"LOGOUT">>) PROVE FALSE
        OBVIOUS
      <4>1. HandleCommand("LOGOUT", <<>>)
        BY <1>Obeyed1
      <4> QED BY <4>1, <1>HandleOwn DEF Leave
    <3> QED BY <3>1, <3>2, <1>ServeStartTLS, <1>ServeAuthenticate, <1>ServeCapability, <1>ServeList,
               <1>ServeGet, <1>ServeSimple DEF Asks
  <2> QED OBVIOUS

-----------------------------------------------------------------------------

(* The server is to read what the client asks.                              *)
LEMMA NowAsked ==
  ASSUME EndsAgree', Agreed', ~closed', phase' = "read", s2c' = <<>>, Asks' PROVE Together'
<1>1. Asked'
  BY DEF Asked
<1> QED BY <1>1 DEF Together, Place

(* The commands and the words in them are texts.                            *)
LEMMA CommandWords ==
  \A v \in {"CAPABILITY", "STARTTLS", "AUTHENTICATE", "LOGOUT", "NOOP", "LISTSCRIPTS", "GETSCRIPT",
            "PUTSCRIPT", "CHECKSCRIPT", "SETACTIVE", "DELETESCRIPT", "RENAMESCRIPT", "HAVESPACE",
            "mech", "ir", "tag", "size"} : v \in Texts
<1>1. \A v \in {"CAPABILITY", "STARTTLS", "AUTHENTICATE", "LOGOUT", "NOOP", "LISTSCRIPTS", "GETSCRIPT",
                "PUTSCRIPT", "CHECKSCRIPT", "SETACTIVE", "DELETESCRIPT", "RENAMESCRIPT", "HAVESPACE",
                "mech", "ir", "tag", "size"} : v \in Keywords
  BY DEF Keywords
<1> QED BY <1>1, WordsAre

(* A sequence with something behind the last of its parts.                  *)
Follows(p, h, x) == (p \o h) \o x = p \o (h \o x)
CheckGrown(a, s, h, b, c) == (a \o (s \o h)) \o (b \o c) = a \o (s \o ((h \o b) \o c))
PutGrown(a, s, e, h, b, c) ==
  (a \o (s \o (e \o (s \o h)))) \o (b \o c) = a \o (s \o (e \o (s \o ((h \o b) \o c))))

(* The rest of a literal completes the command that the server waits for.   *)
LEMMA BodyKeeps == ASSUME Together, LiteralBody PROVE Together'
\* What is put behind a sequence is put behind its second part.
<1>Deeper. ASSUME NEW S, NEW p \in Seq(S), NEW h \in Seq(S), NEW x \in Seq(S)
      PROVE  Follows(p, h, x) /\ p \o h \in Seq(S)
  BY Assoc, SMT DEF Follows
\* So the header of CHECKSCRIPT grows into the command,
<1>CheckGrows. ASSUME NEW S, NEW a \in Seq(S), NEW s \in Seq(S), NEW h \in Seq(S), NEW b \in Seq(S), NEW c \in Seq(S)
      PROVE  CheckGrown(a, s, h, b, c)
  <2> PICK w, x : w = s \o h /\ x = b \o c
    OBVIOUS
  <2>2. w \in Seq(S) /\ x \in Seq(S)
    BY SMT
  <2>3. Follows(a, w, x) /\ Follows(s, h, x) /\ Follows(h, b, c)
    BY <2>2, <1>Deeper
  <2>4. (a \o w) \o x = a \o (w \o x) /\ (s \o h) \o x = s \o (h \o x) /\ (h \o b) \o c = h \o (b \o c)
    BY <2>3 DEF Follows
  <2> QED BY <2>4 DEF CheckGrown
\* and that of PUTSCRIPT.
<1>PutGrows. ASSUME NEW S, NEW a \in Seq(S), NEW s \in Seq(S), NEW e \in Seq(S), NEW h \in Seq(S),
             NEW b \in Seq(S), NEW c \in Seq(S)
      PROVE  PutGrown(a, s, e, h, b, c)
  <2> PICK w, x : w = s \o (e \o (s \o h)) /\ x = b \o c
    OBVIOUS
  <2> PICK v, u : u = s \o h /\ v = e \o u
    OBVIOUS
  <2> u \in Seq(S) /\ v \in Seq(S) /\ w \in Seq(S) /\ x \in Seq(S) /\ w = s \o v
    BY SMT
  <2>4. Follows(a, w, x) /\ Follows(s, v, x) /\ Follows(e, u, x) /\ Follows(s, h, x) /\ Follows(h, b, c)
    BY <1>Deeper
  <2> /\ (a \o w) \o x = a \o (w \o x) /\ (s \o v) \o x = s \o (v \o x) /\ (e \o u) \o x = e \o (u \o x)
      /\ (s \o h) \o x = s \o (h \o x) /\ (h \o b) \o c = h \o (b \o c)
    BY <2>4 DEF Follows
  <2>6. w \o x = s \o (v \o x) /\ v \o x = e \o (u \o x) /\ u \o x = s \o (h \o x)
    OBVIOUS
  <2>7. h \o x = (h \o b) \o c
    OBVIOUS
  <2>8. (a \o w) \o x = a \o (s \o (e \o (s \o ((h \o b) \o c))))
    BY <2>6, <2>7
  <2> QED BY <2>8 DEF PutGrown
\* A header and the bytes it announces are read as the command, or refused.
<1>BodyObeyed. ASSUME NEW n \in Texts, NEW t \in Texts
      PROVE  LET x == Bytes(t) \o <<CRLF>> IN
             /\ x \in Stream
             /\ Obeys(ReadCommand(PutHeader(n, t) \o x), <<"PUTSCRIPT", n, t>>, Fits(Literal(t), t))
             /\ Obeys(ReadCommand(CheckHeader(t) \o x), <<"CHECKSCRIPT", t>>, Fits(Literal(t), t))
  <2> "PUTSCRIPT" \in Texts /\ "CHECKSCRIPT" \in Texts
    BY CommandWords
  <2> PICK p, q, s, h, e, b, c :
        /\ p = <<Atom("PUTSCRIPT")>> /\ q = <<Atom("CHECKSCRIPT")>> /\ s = <<SP>>
        /\ h = <<LiteralHeader(Length[t])>> /\ e = String(n) /\ b = Bytes(t) /\ c = <<CRLF>>
    OBVIOUS
  <2> p \in Seq(Tokens) /\ q \in Seq(Tokens) /\ s \in Seq(Tokens) /\ h \in Seq(Tokens) /\ c \in Seq(Tokens)
    <3>1. /\ Atom("PUTSCRIPT") \in Tokens /\ Atom("CHECKSCRIPT") \in Tokens /\ SP \in Tokens /\ CRLF \in Tokens
          /\ LiteralHeader(Length[t]) \in Tokens
      BY Spoken, Marks, TextIs, Headers
    <3> QED BY <3>1, SMT
  <2> e \in Seq(Tokens) /\ b \in Seq(Tokens) /\ Encodes(e, n)
    BY StringIs, ByteIs DEF Stream
  <2>5. b \o c \in Stream
    BY SMT DEF Stream
  <2> h \o b = Literal(t) /\ Encodes(Literal(t), t)
    BY DEF Literal, Encodes
  <2> PutHeader(n, t) = p \o (s \o (e \o (s \o h))) /\ CheckHeader(t) = q \o (s \o h)
    BY HeadersLack
  <2>8. PutHeader(n, t) \o (b \o c) = p \o (s \o (e \o (s \o (Literal(t) \o c))))
    <3>1. PutGrown(p, s, e, h, b, c)
      BY <1>PutGrows
    <3> QED BY <3>1 DEF PutGrown
  <2>9. CheckHeader(t) \o (b \o c) = q \o (s \o (Literal(t) \o c))
    <3>1. CheckGrown(q, s, h, b, c)
      BY <1>CheckGrows
    <3> QED BY <3>1 DEF CheckGrown
  <2>10. Obeys(ReadCommand(p \o (s \o (e \o (s \o (Literal(t) \o c))))), <<"PUTSCRIPT", n, t>>, Fits(Literal(t), t))
    BY Command2
  <2>11. Obeys(ReadCommand(q \o (s \o (Literal(t) \o c))), <<"CHECKSCRIPT", t>>, Fits(Literal(t), t))
    BY Command1
  <2> QED BY <2>5, <2>8, <2>9, <2>10, <2>11
<1> QED
  <2> EndsAgree /\ Copying
    BY WhereSimple DEF Together, LiteralBody
  <2> PICK t \in Texts : t = op.text
    BY DEF Copying
  <2> PICK x : x = Bytes(t) \o <<CRLF>>
    OBVIOUS
  <2>4. x \in Stream
    BY <1>BodyObeyed
  <2>5. c2s \in Stream
    BY HeadersLack DEF Copying
  <2> c2s' = c2s \o x /\ buf' = <<>>
    <3>1. c2s' = (c2s \o <<>>) \o x /\ buf' = <<>>
      BY DEF LiteralBody, Send, Copying, EndsAgree
    <3>2. c2s \o <<>> = c2s
      BY <2>5, Nothing DEF Stream
    <3> QED BY <3>1, <3>2
  <2> /\ op'.at = "status" /\ op'.name = op.name /\ op'.args = op.args /\ op'.text = t /\ Formed(op')
    BY DEF LiteralBody, EndsAgree, Formed
  <2> /\ opts' = opts /\ buf' = buf /\ s2c' = <<>> /\ ~closed' /\ cstate' = cstate /\ ctls' = ctls
      /\ phase' = "read" /\ sstate' = sstate /\ stls' = stls /\ UNCHANGED storeVars /\ seen' = seen
    BY DEF LiteralBody, serverVars, ghosts, Copying, EndsAgree
  <2>9. Agreed'
    BY SameAgreed DEF Copying
  <2>10. EndsAgree'
    BY SameEnds DEF EndsAgree
  <2>11. AsksSimple'
    <3> CASE op.name = "PUTSCRIPT" /\ \E n \in Texts : op.args = <<n>> /\ c2s = PutHeader(n, op.text)
      <4> PICK n \in Texts : op.args = <<n>> /\ c2s = PutHeader(n, t)
        OBVIOUS
      <4> Obeys(ReadCommand(c2s'), <<"PUTSCRIPT", n, t>>, Fits(Literal(t), t))
        BY <1>BodyObeyed
      <4>3. Obeys(ReadCommand(c2s'), <<"PUTSCRIPT", n, t>>, TRUE)
        BY DEF Obeys
      <4> QED BY <4>3 DEF AsksSimple, Sends
    <3> CASE op.name = "CHECKSCRIPT" /\ c2s = CheckHeader(op.text)
      <4>1. Obeys(ReadCommand(c2s'), <<"CHECKSCRIPT", t>>, Fits(Literal(t), t))
        BY <1>BodyObeyed
      <4>2. Obeys(ReadCommand(c2s'), <<"CHECKSCRIPT", t>>, TRUE)
        BY <4>1 DEF Obeys
      <4> QED BY <4>2 DEF AsksSimple, Sends
    <3> QED BY DEF Copying
  <2>12. Asks'
    BY <2>11 DEF Asks
  <2> QED BY <2>9, <2>10, <2>12, NowAsked
=============================================================================

------------------------- MODULE ClientServerProofs -------------------------
(***************************************************************************)
(* Client and server stay in step: the client's steps, too, keep the two   *)
(* at matching places of one exchange, and what the runs check of the      *)
(* protocol follows.                                                       *)
(***************************************************************************)
EXTENDS ServerStepsProofs

USE Zenon

(* A command line is read as the command: without arguments,                *)
LEMMA LineObeyed0 ==
  ASSUME NEW a \in Texts
  PROVE  CommandLine(a, <<>>) \in Stream /\ Obeys(ReadCommand(CommandLine(a, <<>>)), <<a>>, TRUE)
<1>1. <<CRLF>> \in Stream
  BY LineEnd DEF Ends
<1>2. CommandLine(a, <<>>) = <<Atom(a)>> \o <<CRLF>>
  BY Line0
<1> QED BY <1>1, <1>2, AtomFirst, Command0

(* Every call keeps the two together.                                       *)
LEMMA CallKeeps == ASSUME Together, late = 0, phase # "gone", CallNext PROVE Together'
\* The client calls an operation.
<1>OperationIs. ASSUME NEW at, NEW name, NEW args, NEW text
      PROVE  LET o == Operation(at, name, args, text)
             IN  /\ o.at = at /\ o.name = name /\ o.args = args /\ o.text = text /\ o.items = {}
                 /\ Formed(o)
  BY DEF Operation, Formed
\* with one
<1>LineObeyed1. ASSUME NEW a \in Texts, NEW x \in Texts
      PROVE  CommandLine(a, <<x>>) \in Stream /\ Obeys(ReadCommand(CommandLine(a, <<x>>)), <<a, x>>, TRUE)
  <2>1. <<CRLF>> \in Stream
    BY LineEnd DEF Ends
  <2> PICK t : t = <<SP>> \o (String(x) \o <<CRLF>>)
    OBVIOUS
  <2>3. t \in Stream
    <3>1. Argument(x) \o <<CRLF>> = t /\ Argument(x) \o <<CRLF>> \in Stream
      BY <2>1, ArgumentBefore
    <3> QED BY <3>1
  <2>4. CommandLine(a, <<x>>) = <<Atom(a)>> \o t
    BY Line1
  <2>5. Obeys(ReadCommand(<<Atom(a)>> \o t), <<a, x>>, Fits(String(x), x))
    BY StringIs, Command1
  <2>6. Obeys(ReadCommand(<<Atom(a)>> \o t), <<a, x>>, TRUE)
    BY <2>5 DEF Obeys
  <2> QED BY <2>3, <2>4, <2>6, AtomFirst
\* and with two.
<1>LineObeyed2. ASSUME NEW a \in Texts, NEW x \in Texts, NEW y \in Texts
      PROVE  /\ CommandLine(a, <<x, y>>) \in Stream
             /\ Obeys(ReadCommand(CommandLine(a, <<x, y>>)), <<a, x, y>>, TRUE)
  <2>1. <<CRLF>> \in Stream
    BY LineEnd DEF Ends
  <2> PICK t, u : u = <<SP>> \o (String(y) \o <<CRLF>>) /\ t = <<SP>> \o (String(x) \o u)
    OBVIOUS
  <2>3. u \in Stream
    <3>1. Argument(y) \o <<CRLF>> = u /\ Argument(y) \o <<CRLF>> \in Stream
      BY <2>1, ArgumentBefore
    <3> QED BY <3>1
  <2>4. t \in Stream
    <3>1. Argument(x) \o u = t /\ Argument(x) \o u \in Stream
      BY <2>3, ArgumentBefore
    <3> QED BY <3>1
  <2>5. CommandLine(a, <<x, y>>) = <<Atom(a)>> \o t
    BY Line2
  <2>6. Obeys(ReadCommand(<<Atom(a)>> \o t), <<a, x, y>>, Fits(String(y), y))
    BY StringIs, Command2
  <2>7. Obeys(ReadCommand(<<Atom(a)>> \o t), <<a, x, y>>, TRUE)
    BY <2>6 DEF Obeys
  <2> QED BY <2>4, <2>5, <2>7, AtomFirst
\* A call sends its tokens and nothing else, to a server that reads.
<1>Called. ASSUME Together, late = 0, phase # "gone",
             NEW at, NEW name, NEW args, NEW text, NEW tokens \in Stream, Call(at, name, args, text, tokens)
      PROVE  /\ EndsAgree' /\ Agreed' /\ ~closed' /\ phase' = "read" /\ s2c' = <<>> /\ c2s' = tokens
             /\ op' = Operation(at, name, args, text)
  <2> USE <1>Called
  <2> op = Idle /\ ~closed /\ op' = Operation(at, name, args, text) /\ Send(tokens)
      /\ UNCHANGED <<opts, s2c, closed, cstate, ctls, offered, serverVars, storeVars, seen>>
    BY DEF Call
  <2> EndsAgree /\ AtRest
    BY IdleAt, WhereSimple DEF Together
  <2> buf = <<>> /\ c2s = <<>>
    BY DEF EndsAgree, AtRest
  <2> c2s' = tokens /\ buf' = <<>>
    <3>1. c2s' = (<<>> \o <<>>) \o tokens /\ buf' = <<>>
      BY DEF Send
    <3> QED BY <3>1, Empties
  <2> /\ opts' = opts /\ buf' = buf /\ s2c' = s2c /\ closed' = closed /\ cstate' = cstate /\ ctls' = ctls
      /\ phase' = phase /\ sstate' = sstate /\ stls' = stls /\ UNCHANGED storeVars /\ seen' = seen
    BY DEF serverVars
  <2>6. Agreed'
    BY SameAgreed DEF AtRest
  <2>7. Formed(op')
    BY <1>OperationIs
  <2>8. EndsAgree'
    BY <2>7, SameEnds DEF EndsAgree
  <2> QED BY <2>6, <2>8, SMT DEF AtRest
\* One whose command is a line: the server will read the command from it.
<1>CalledLine0. ASSUME Together, late = 0, phase # "gone", NEW at, NEW name \in Texts, CallLine(at, name, <<>>)
      PROVE  /\ EndsAgree' /\ Agreed' /\ ~closed' /\ phase' = "read" /\ s2c' = <<>>
             /\ op'.at = at /\ op'.name = name /\ op'.items = {} /\ Sends(<<name>>)'
  <2> USE <1>CalledLine0
  <2> PICK t \in Stream : t = CommandLine(name, <<>>)
    BY LineObeyed0
  <2>2. Call(at, name, <<>>, Blank, t)
    BY DEF CallLine
  <2> /\ EndsAgree' /\ Agreed' /\ ~closed' /\ phase' = "read" /\ s2c' = <<>> /\ c2s' = t
      /\ op' = Operation(at, name, <<>>, Blank)
    BY <2>2, <1>Called
  <2>4. Obeys(ReadCommand(c2s'), <<name>>, TRUE)
    BY LineObeyed0
  <2>5. op'.at = at /\ op'.name = name /\ op'.items = {}
    BY DEF Operation
  <2> QED BY <2>4, <2>5 DEF Sends
\* With one argument.
<1>CalledLine1. ASSUME Together, late = 0, phase # "gone", NEW at, NEW name \in Texts, NEW x \in Texts,
             CallLine(at, name, <<x>>)
      PROVE  /\ EndsAgree' /\ Agreed' /\ ~closed' /\ phase' = "read" /\ s2c' = <<>>
             /\ op'.at = at /\ op'.name = name /\ op'.items = {} /\ op'.args = <<x>> /\ Sends(<<name, x>>)'
  <2> USE <1>CalledLine1
  <2> PICK t \in Stream : t = CommandLine(name, <<x>>)
    BY <1>LineObeyed1
  <2>2. Call(at, name, <<x>>, Blank, t)
    BY DEF CallLine
  <2> /\ EndsAgree' /\ Agreed' /\ ~closed' /\ phase' = "read" /\ s2c' = <<>> /\ c2s' = t
      /\ op' = Operation(at, name, <<x>>, Blank)
    BY <2>2, <1>Called
  <2>4. Obeys(ReadCommand(c2s'), <<name, x>>, TRUE)
    BY <1>LineObeyed1
  <2>5. op'.at = at /\ op'.name = name /\ op'.items = {} /\ op'.args = <<x>>
    BY DEF Operation
  <2> QED BY <2>4, <2>5 DEF Sends
\* With two arguments.
<1>CalledLine2. ASSUME Together, late = 0, phase # "gone", NEW at, NEW name \in Texts, NEW x \in Texts, NEW y \in Texts,
             CallLine(at, name, <<x, y>>)
      PROVE  /\ EndsAgree' /\ Agreed' /\ ~closed' /\ phase' = "read" /\ s2c' = <<>>
             /\ op'.at = at /\ op'.name = name /\ op'.items = {} /\ op'.args = <<x, y>> /\ Sends(<<name, x, y>>)'
  <2> USE <1>CalledLine2
  <2> PICK t \in Stream : t = CommandLine(name, <<x, y>>)
    BY <1>LineObeyed2
  <2>2. Call(at, name, <<x, y>>, Blank, t)
    BY DEF CallLine
  <2> /\ EndsAgree' /\ Agreed' /\ ~closed' /\ phase' = "read" /\ s2c' = <<>> /\ c2s' = t
      /\ op' = Operation(at, name, <<x, y>>, Blank)
    BY <2>2, <1>Called
  <2>4. Obeys(ReadCommand(c2s'), <<name, x, y>>, TRUE)
    BY <1>LineObeyed2
  <2>5. op'.at = at /\ op'.name = name /\ op'.items = {} /\ op'.args = <<x, y>>
    BY DEF Operation
  <2> QED BY <2>4, <2>5 DEF Sends
\* Calls of commands without arguments keep the two together.
<1>CallsPlain. ASSUME Together, late = 0, phase # "gone",
             CallStartTLS \/ CallCapability \/ CallListScripts \/ CallLogout
      PROVE  Together'
  <2> USE <1>CallsPlain
  <2> PICK at, name : /\ CallLine(at, name, <<>>)
                      /\ \/ at = "starttls" /\ name = "STARTTLS"
                         \/ at = "caps" /\ name = "CAPABILITY"
                         \/ at = "list" /\ name = "LISTSCRIPTS"
                         \/ at = "logout" /\ name = "LOGOUT"
    BY DEF CallStartTLS, CallCapability, CallListScripts, CallLogout
  <2>2. name \in Texts
    <3>1. name \in {"STARTTLS", "CAPABILITY", "LISTSCRIPTS", "LOGOUT"}
      OBVIOUS
    <3> QED BY <3>1, CommandWords
  <2> /\ EndsAgree' /\ Agreed' /\ ~closed' /\ phase' = "read" /\ s2c' = <<>>
      /\ op'.at = at /\ Sends(<<name>>)'
    BY <2>2, <1>CalledLine0
  <2>4. Asks'
    BY DEF Asks
  <2> QED BY <2>4, NowAsked
\* So does Authenticate,
<1>CallsAuthenticate. ASSUME Together, late = 0, phase # "gone", CallAuthenticate PROVE Together'
  <2> USE <1>CallsAuthenticate
  <2> "AUTHENTICATE" \in Texts /\ "mech" \in Texts /\ "ir" \in Texts
    BY CommandWords
  <2> CASE CallLine("auth", "AUTHENTICATE", <<"mech">>)
    <3> /\ EndsAgree' /\ Agreed' /\ ~closed' /\ phase' = "read" /\ s2c' = <<>>
        /\ op'.at = "auth" /\ op'.items = {} /\ Sends(<<"AUTHENTICATE", "mech">>)'
      BY <1>CalledLine1
    <3>2. Asks'
      BY DEF Asks
    <3> QED BY <3>2, NowAsked
  <2> CASE CallLine("auth", "AUTHENTICATE", <<"mech", "ir">>)
    <3> /\ EndsAgree' /\ Agreed' /\ ~closed' /\ phase' = "read" /\ s2c' = <<>>
        /\ op'.at = "auth" /\ op'.items = {} /\ Sends(<<"AUTHENTICATE", "mech", "ir">>)'
      BY <1>CalledLine2
    <3>2. Asks'
      BY DEF Asks
    <3> QED BY <3>2, NowAsked
  <2> QED BY DEF CallAuthenticate
\* GetScript,
<1>CallsGet. ASSUME Together, late = 0, phase # "gone", NEW n \in Names, CallGetScript(n) PROVE Together'
  <2> USE <1>CallsGet
  <2> "GETSCRIPT" \in Texts /\ n \in Texts
    BY CommandWords, WordsAre
  <2>2. CallLine("get", "GETSCRIPT", <<n>>)
    BY DEF CallGetScript
  <2> /\ EndsAgree' /\ Agreed' /\ ~closed' /\ phase' = "read" /\ s2c' = <<>>
      /\ op'.at = "get" /\ op'.name = "GETSCRIPT" /\ op'.args = <<n>> /\ Sends(<<"GETSCRIPT", n>>)'
    BY <2>2, <1>CalledLine1
  <2>4. Asks'
    BY DEF Asks
  <2> QED BY <2>4, NowAsked
\* SetActive and DeleteScript,
<1>CallsSimple1. ASSUME Together, late = 0, phase # "gone", NEW name \in {"SETACTIVE", "DELETESCRIPT"},
             NEW n \in Names \cup {NoName}, CallSimple(name, <<n>>)
      PROVE  Together'
  <2> USE <1>CallsSimple1
  <2> name \in Texts /\ n \in Texts
    BY CommandWords, WordsAre
  <2>2. CallLine("status", name, <<n>>)
    BY DEF CallSimple
  <2> /\ EndsAgree' /\ Agreed' /\ ~closed' /\ phase' = "read" /\ s2c' = <<>>
      /\ op'.at = "status" /\ op'.name = name /\ op'.args = <<n>> /\ Sends(<<name, n>>)'
    BY <2>2, <1>CalledLine1
  <2>4. AsksSimple'
    <3>1. name = "SETACTIVE" \/ name = "DELETESCRIPT"
      OBVIOUS
    <3> QED BY <3>1 DEF AsksSimple
  <2>5. Asks'
    BY <2>4 DEF Asks
  <2> QED BY <2>5, NowAsked
\* RenameScript,
<1>CallsRename. ASSUME Together, late = 0, phase # "gone", NEW n \in Names, NEW m \in Names,
             CallSimple("RENAMESCRIPT", <<n, m>>)
      PROVE  Together'
  <2> USE <1>CallsRename
  <2> "RENAMESCRIPT" \in Texts /\ n \in Texts /\ m \in Texts
    BY CommandWords, WordsAre
  <2>2. CallLine("status", "RENAMESCRIPT", <<n, m>>)
    BY DEF CallSimple
  <2> /\ EndsAgree' /\ Agreed' /\ ~closed' /\ phase' = "read" /\ s2c' = <<>>
      /\ op'.at = "status" /\ op'.name = "RENAMESCRIPT" /\ op'.args = <<n, m>>
      /\ Sends(<<"RENAMESCRIPT", n, m>>)'
    BY <2>2, <1>CalledLine2
  <2>4. AsksSimple'
    BY DEF AsksSimple
  <2>5. Asks'
    BY <2>4 DEF Asks
  <2> QED BY <2>5, NowAsked
\* Noop,
<1>CallsNoop. ASSUME Together, late = 0, phase # "gone", CallNoop PROVE Together'
  <2> USE <1>CallsNoop
  <2>1. "NOOP" \in Texts /\ "tag" \in Texts
    BY CommandWords
  <2>2. CallLine("status", "NOOP", <<>>) \/ CallLine("status", "NOOP", <<"tag">>)
    BY DEF CallNoop
  <2> /\ EndsAgree' /\ Agreed' /\ ~closed' /\ phase' = "read" /\ s2c' = <<>>
      /\ op'.at = "status" /\ op'.name = "NOOP" /\ (Sends(<<"NOOP">>)' \/ Sends(<<"NOOP", "tag">>)')
    BY <2>1, <2>2, <1>CalledLine0, <1>CalledLine1
  <2>4. AsksSimple'
    BY DEF AsksSimple
  <2>5. Asks'
    BY <2>4 DEF Asks
  <2> QED BY <2>5, NowAsked
\* HaveSpace, which writes the size as an atom,
<1>CallsHaveSpace. ASSUME Together, late = 0, phase # "gone", NEW n \in Names, CallHaveSpace(n) PROVE Together'
  <2> USE <1>CallsHaveSpace
  <2> "HAVESPACE" \in Texts /\ n \in Texts /\ "size" \in Texts
    BY CommandWords, WordsAre
  <2> PICK u, t : u = <<SP, Atom("size"), CRLF>> /\ t = <<Atom("HAVESPACE")>> \o (Argument(n) \o u)
    OBVIOUS
  <2> u = <<SP>> \o (<<Atom("size")>> \o <<CRLF>>) /\ u \in Stream
    <3> SP \in Tokens /\ Atom("size") \in Tokens /\ CRLF \in Tokens
      BY Spoken, Marks
    <3> PICK a \in Tokens : a = Atom("size")
      OBVIOUS
    <3> PICK v : v = <<SP>> \o (<<a>> \o <<CRLF>>)
      OBVIOUS
    <3> u \in Seq(Tokens) /\ v \in Seq(Tokens) /\ Len(u) = 3 /\ Len(v) = 3
      BY SMT
    <3>5. u[1] = SP /\ u[2] = a /\ u[3] = CRLF
      OBVIOUS
    <3>6. v[1] = SP /\ v[2] = a /\ v[3] = CRLF
      BY SMT
    <3>7. ASSUME NEW i \in 1..Len(u) PROVE u[i] = v[i]
      <4>1. i = 1 \/ i = 2 \/ i = 3
        BY SMT
      <4> QED BY <3>5, <3>6, <4>1
    <3>8. u = v
      BY <3>7, Same
    <3> QED BY <3>8 DEF Stream
  <2> Argument(n) \o u = <<SP>> \o (String(n) \o u) /\ Argument(n) \o u \in Stream
    BY ArgumentBefore
  <2>5. t \in Stream
    BY AtomFirst
  <2>6. Call("status", "HAVESPACE", <<n, "size">>, Blank, t)
    BY DEF CallHaveSpace
  <2> /\ EndsAgree' /\ Agreed' /\ ~closed' /\ phase' = "read" /\ s2c' = <<>> /\ c2s' = t
      /\ op' = Operation("status", "HAVESPACE", <<n, "size">>, Blank)
    BY <2>5, <2>6, <1>Called
  <2> op'.at = "status" /\ op'.name = "HAVESPACE"
    BY DEF Operation
  <2>9. Obeys(ReadCommand(t), <<"HAVESPACE", n, "size">>, Fits(<<Atom("size")>>, "size"))
    <3>1. Encodes(<<Atom("size")>>, "size") /\ Encodes(String(n), n)
      BY StringIs DEF Encodes
    <3>2. t = <<Atom("HAVESPACE")>> \o (<<SP>> \o (String(n) \o (<<SP>> \o (<<Atom("size")>> \o <<CRLF>>))))
      OBVIOUS
    <3> QED BY <3>1, <3>2, Command2
  <2>10. Obeys(ReadCommand(c2s'), <<"HAVESPACE", n, "size">>, TRUE)
    BY <2>9 DEF Obeys
  <2>11. AsksSimple'
    BY <2>10 DEF AsksSimple, Sends
  <2>12. Asks'
    BY <2>11 DEF Asks
  <2> QED BY <2>12, NowAsked
\* PutScript and
<1>CallsPut. ASSUME Together, late = 0, phase # "gone", NEW n \in Names, NEW t \in Contents, CallPutScript(n, t)
      PROVE  Together'
  <2> USE <1>CallsPut
  <2> n \in Texts /\ t \in Texts
    BY WordsAre
  <2> PICK h \in Stream : h = PutHeader(n, t)
    BY HeadersLack
  <2>3. Call("literal", "PUTSCRIPT", <<n>>, t, h)
    BY DEF CallPutScript, PutHeader
  <2> /\ EndsAgree' /\ Agreed' /\ ~closed' /\ phase' = "read" /\ s2c' = <<>> /\ c2s' = h
      /\ op' = Operation("literal", "PUTSCRIPT", <<n>>, t)
    BY <2>3, <1>Called
  <2> op'.at = "literal" /\ op'.name = "PUTSCRIPT" /\ op'.args = <<n>> /\ op'.text = t
    BY DEF Operation
  <2>6. c2s' = PutHeader(n, op'.text)
    OBVIOUS
  <2>7. Copying'
    BY <2>6 DEF Copying, PutHeader
  <2> QED BY <2>7 DEF Together, Place
\* CheckScript, which send a header first,
<1>CallsCheck. ASSUME Together, late = 0, phase # "gone", NEW t \in Contents, CallCheckScript(t)
      PROVE  Together'
  <2> USE <1>CallsCheck
  <2> t \in Texts
    BY WordsAre
  <2> PICK h \in Stream : h = CheckHeader(t)
    BY HeadersLack
  <2>3. Call("literal", "CHECKSCRIPT", <<>>, t, h)
    BY DEF CallCheckScript, CheckHeader
  <2> /\ EndsAgree' /\ Agreed' /\ ~closed' /\ phase' = "read" /\ s2c' = <<>> /\ c2s' = h
      /\ op' = Operation("literal", "CHECKSCRIPT", <<>>, t)
    BY <2>3, <1>Called
  <2> op'.at = "literal" /\ op'.name = "CHECKSCRIPT" /\ op'.text = t
    BY DEF Operation
  <2>6. c2s' = CheckHeader(op'.text)
    OBVIOUS
  <2>7. Copying'
    BY <2>6 DEF Copying, CheckHeader
  <2> QED BY <2>7 DEF Together, Place
\* and Close.
<1>CloseKeeps. ASSUME Together, CallClose PROVE Together'
  <2> USE <1>CloseKeeps
  <2> EndsAgree /\ AtRest
    BY IdleAt, WhereSimple DEF Together, CallClose
  <2> /\ opts' = opts /\ buf' = buf /\ c2s' = c2s /\ s2c' = s2c /\ op' = op /\ ctls' = ctls
      /\ phase' = phase /\ sstate' = sstate /\ stls' = stls /\ UNCHANGED storeVars /\ seen' = seen
      /\ cstate' = "logout"
    BY DEF CallClose, serverVars, ghosts
  <2>3. Agreed'
    BY SameAgreed DEF AtRest
  <2>4. AtRest'
    BY <2>3 DEF AtRest, Idle, Operation
  <2>5. EndsAgree'
    BY SameEnds DEF EndsAgree
  <2> QED BY <2>4, <2>5 DEF Together, Place
<1> QED
  <2>1. \A n \in Names : n \in Names \cup {NoName}
    OBVIOUS
  <2> "SETACTIVE" \in {"SETACTIVE", "DELETESCRIPT"} /\ "DELETESCRIPT" \in {"SETACTIVE", "DELETESCRIPT"}
    OBVIOUS
  <2>3. ASSUME NEW n \in Names \cup {NoName}, CallSimple("SETACTIVE", <<n>>) PROVE Together'
    BY <2>3, <1>CallsSimple1
  <2>4. ASSUME NEW n \in Names, CallSimple("DELETESCRIPT", <<n>>) PROVE Together'
    BY <2>1, <2>4, <1>CallsSimple1
  <2> QED BY <2>3, <2>4, <1>CallsPlain, <1>CallsAuthenticate, <1>CallsGet, <1>CallsPut, <1>CallsCheck,
             <1>CallsRename, <1>CallsHaveSpace, <1>CallsNoop, <1>CloseKeeps DEF CallNext

-----------------------------------------------------------------------------

(* The client reads.                                                        *)
LEMMA RestKeeps ==
  ASSUME EndsAgree, op' = Idle, phase = "read", c2s' = <<>>, s2c' = <<>>, opts' = opts, buf' = buf, ctls' = ctls,
         UNCHANGED serverVars, UNCHANGED storeVars, Agreed', closed' => cstate' # "authenticated",
         cstate' = "authenticated" => sstate = "authenticated"
  PROVE  Together'
<1> phase' = "read" /\ sstate' = sstate /\ stls' = stls
  BY DEF serverVars
<1>2. Idle' = Idle
  BY DEF Idle, Operation
<1>3. AtRest'
  BY <1>2 DEF AtRest
<1>4. Formed(op')
  BY IdleIs
<1>5. EndsAgree'
  BY <1>4, SameEnds DEF EndsAgree
<1> QED BY <1>3, <1>5 DEF Together, Place

(* Statuses without a code.                                                 *)
LEMMA StatusWords == 0 \in {0, 1} /\ "NO" \in {"OK", "NO", "BYE"} /\ "OK" \in {"OK", "NO", "BYE"}
OBVIOUS

(* What a reading of a status says.                                         *)
LEMMA SaysNo ==
  ASSUME NEW r, NEW code, Tells(r, "NO", code)
  PROVE  r.st = "ok" /\ r.rest = <<>> /\ ~Said(r, "OK") /\ ~IsItem(r)
BY DEF Tells, Said, IsItem

(* The same of an OK,                                                       *)
LEMMA SaysOk ==
  ASSUME NEW r, NEW code, Tells(r, "OK", code)
  PROVE  r.st = "ok" /\ r.rest = <<>> /\ Said(r, "OK") /\ ~IsItem(r)
BY DEF Tells, Said, IsItem

(* and of a line with a name.                                               *)
LEMMA SaysItem ==
  ASSUME NEW r, NEW n, NEW m, NEW rest, NamesLine(r, n, m, rest)
  PROVE  r.st = "ok" /\ r.rest = rest /\ IsItem(r) /\ r.v.v = n /\ r.v.n = m
BY DEF NamesLine, IsItem

(* The status that ends an operation leaves the two at rest, and the caller *)
(* with the truth.                                                          *)
LEMMA StatusKeeps == ASSUME Together, late = 0, phase # "gone", ReadsStatus PROVE Together'
<1> EndsAgree /\ (Asked \/ Refused \/ Accepted)
  <2>1. op.at = "status" \/ op.at = "getStatus"
    BY DEF ReadsStatus
  <2> QED BY <2>1, WhereReading, WhereSimple DEF Together
<1> PICK r : /\ r = ReadStatusLine(s2c) /\ r.st # "more" /\ s2c' = r.rest
             /\ seen' = IF Said(r, "OK") /\ late = 0 THEN Learned ELSE seen
  BY DEF ReadsStatus, Reads
<1> /\ op' = Idle /\ c2s' = c2s /\ opts' = opts /\ buf' = buf /\ ctls' = ctls /\ closed' = closed
    /\ cstate' = cstate /\ UNCHANGED serverVars /\ UNCHANGED storeVars
  BY DEF ReadsStatus
<1>4. scripts' = scripts /\ active' = active
  BY DEF storeVars
<1> CASE Asked
  BY EmptyRead DEF Asked
<1> CASE Refused
  <2>1. Tells(r, "NO", 0)
    BY StatusWords, StatusRead DEF Refused
  <2> r.rest = <<>> /\ ~Said(r, "OK")
    BY <2>1, SaysNo
  <2>3. Agreed'
    <3>1. UNCHANGED <<seen, storeVars>>
      OBVIOUS
    <3> QED BY <3>1, SameAgreed DEF Refused
  <2> QED BY <2>3, RestKeeps DEF Refused, EndsAgree
<1> CASE Accepted
  <2>1. Tells(r, "OK", 0)
    BY StatusWords, StatusRead DEF Accepted
  <2> r.rest = <<>> /\ Said(r, "OK")
    BY <2>1, SaysOk
  <2>3. Agreed'
    BY <1>4 DEF Accepted, Agreed, Holding
  <2> QED BY <2>3, RestKeeps DEF Accepted, EndsAgree
<1> QED OBVIOUS

(* The client starts a handshake when the server waits for one.             *)
LEMMA StartTLSKeeps == ASSUME Together, phase # "gone", ReadsStartTLS PROVE Together'
<1> EndsAgree /\ (Asked \/ Refused \/ Permitted)
  BY WhereReading DEF Together, ReadsStartTLS
<1> PICK r : /\ r = ReadStatusLine(s2c) /\ r.st # "more" /\ s2c' = r.rest
             /\ IF Said(r, "OK") THEN op' = [op EXCEPT !.at = "handshake"] /\ Send(<<Hello>>)
                ELSE op' = Idle /\ UNCHANGED <<c2s, buf>>
  BY DEF ReadsStartTLS, Reads
<1> /\ opts' = opts /\ ctls' = ctls /\ closed' = closed /\ cstate' = cstate /\ seen' = seen
    /\ UNCHANGED serverVars /\ UNCHANGED storeVars /\ UNCHANGED <<seen, storeVars>>
  BY DEF ReadsStartTLS, ghosts
<1> CASE Asked
  BY EmptyRead DEF Asked
<1> CASE Refused
  <2>1. Tells(r, "NO", 0)
    BY StatusWords, StatusRead DEF Refused
  <2> r.rest = <<>> /\ ~Said(r, "OK")
    BY <2>1, SaysNo
  <2>3. op' = Idle /\ c2s' = c2s /\ buf' = buf
    OBVIOUS
  <2>4. Agreed'
    BY SameAgreed DEF Refused
  <2> QED BY <2>3, <2>4, RestKeeps DEF Refused, EndsAgree
<1> CASE Permitted
  <2>1. Tells(r, "OK", 0)
    BY StatusWords, StatusRead DEF Permitted
  <2> r.rest = <<>> /\ Said(r, "OK")
    BY <2>1, SaysOk
  <2> op' = [op EXCEPT !.at = "handshake"] /\ Send(<<Hello>>)
    OBVIOUS
  <2> op'.at = "handshake" /\ Formed(op')
    BY DEF EndsAgree, Formed
  <2> c2s' = <<Hello>> /\ buf' = buf
    BY SMT DEF Send, Permitted, EndsAgree
  <2> phase' = phase /\ sstate' = sstate /\ stls' = stls
    BY DEF serverVars
  <2>7. Agreed'
    BY SameAgreed DEF Permitted
  <2>8. Hello' = Hello
    BY DEF Hello, Token, Blank
  <2>9. Shaking'
    BY <2>7, <2>8 DEF Shaking, Permitted
  <2>10. EndsAgree'
    BY SameEnds DEF EndsAgree
  <2> QED BY <2>9, <2>10 DEF Together, Place
<1> QED OBVIOUS

(* Nothing but the handshake comes while the client waits for it.           *)
LEMMA HandshakeGoesOn == ASSUME Together, phase # "gone", ReadsNoHandshake PROVE FALSE
<1>1. Shaking
  BY WhereSimple DEF Together, ReadsNoHandshake
<1> QED BY <1>1 DEF Shaking, ReadsNoHandshake

(* A server that has answered LOGOUT is gone.                               *)
LEMMA LogoutWaits == ASSUME Together, ReadsLogout PROVE FALSE
<1>1. Asked
  BY WhereSimple DEF Together, ReadsLogout
<1>2. ReadStatusLine(s2c).st # "more"
  BY DEF ReadsLogout, Reads
<1> QED BY <1>1, <1>2, EmptyRead DEF Asked

(* One more line of capabilities.                                           *)
LEMMA ItemKeeps ==
  ASSUME EndsAgree, Announcing, NEW code \in {0, 1}, Announces(s2c', code), NEW items,
         op' = [op EXCEPT !.items = items],
         UNCHANGED <<opts, buf, c2s, closed, cstate, ctls, serverVars, storeVars, seen>>
  PROVE  Together'
<1> op'.at = op.at /\ Formed(op')
  BY DEF EndsAgree, Formed
<1> /\ opts' = opts /\ buf' = buf /\ c2s' = c2s /\ closed' = closed /\ cstate' = cstate /\ ctls' = ctls
    /\ phase' = phase /\ sstate' = sstate /\ stls' = stls
    /\ UNCHANGED storeVars /\ UNCHANGED <<seen, storeVars>>
  BY DEF serverVars
<1>3. Agreed'
  BY SameAgreed DEF Announcing
<1>4. Announcing'
  BY <1>3, SMT DEF Announcing
<1>5. EndsAgree'
  BY SameEnds DEF EndsAgree
<1> QED BY <1>4, <1>5 DEF Together, Place

(* Reading capabilities keeps the two together.                             *)
LEMMA CapabilityKeeps == ASSUME Together, ReadsCapability PROVE Together'
<1> EndsAgree /\ (Greeting \/ Asked \/ Announcing)
  BY WhereReading DEF Together, ReadsCapability
<1> PICK r : /\ r = ReadCapabilityOrStatus(s2c) /\ r.st # "more" /\ s2c' = r.rest
             /\ IF IsItem(r)
                THEN op' = [op EXCEPT !.items = @ \cup {r.v.v}] /\ UNCHANGED <<offered, closed, cstate>>
                ELSE /\ op' = Idle
                     /\ closed' = (op.name = "GREETING" /\ ~Said(r, "OK"))
                     /\ cstate' = IF closed' THEN "logout" ELSE cstate
  BY DEF ReadsCapability, Reads
<1> /\ opts' = opts /\ buf' = buf /\ c2s' = c2s /\ ctls' = ctls /\ seen' = seen
    /\ UNCHANGED serverVars /\ UNCHANGED storeVars /\ UNCHANGED <<seen, storeVars>>
  BY DEF ReadsCapability, ghosts
<1> CASE Greeting \/ Asked
  <2>1. s2c = <<>>
    BY DEF Greeting, Asked
  <2> QED BY <2>1, EmptyRead
<1> CASE Announcing
  <2>1. PICK code \in {0, 1} : Announces(s2c, code)
    BY DEF Announcing
  <2> CASE Tells(r, "OK", code)
    <3>1. r.rest = <<>> /\ Said(r, "OK") /\ ~IsItem(r)
      BY SaysOk
    <3>2. op' = Idle /\ closed' = FALSE /\ cstate' = cstate /\ s2c' = <<>>
      BY <3>1
    <3>3. Agreed'
      BY SameAgreed DEF Announcing
    <3> QED BY <3>2, <3>3, RestKeeps DEF Announcing, EndsAgree
  <2>3. ASSUME NEW n, NEW m, NEW rest, NamesLine(r, n, m, rest), Announces(rest, code)
        PROVE  Together'
    <3> IsItem(r) /\ s2c' = rest
      BY <2>3, SaysItem
    <3> op' = [op EXCEPT !.items = op.items \cup {r.v.v}] /\ closed' = closed /\ cstate' = cstate
      OBVIOUS
    <3>3. UNCHANGED <<opts, buf, c2s, closed, cstate, ctls, serverVars, storeVars, seen>>
      OBVIOUS
    <3> QED BY <2>3, <3>3, ItemKeeps
  <2> QED BY <2>1, <2>3, Announced
<1> QED OBVIOUS

(* Authenticate.                                                            *)
LEMMA AuthReads ==
  ASSUME Place, op.at = "auth", NEW r, r = ReadCapabilityOrStatus(s2c), r.st # "more"
  PROVE  \/ Refused /\ Tells(r, "NO", 0)
         \/ Challenged /\ NamesLine(r, "challenge", 0, <<>>)
         \/ Announcing /\ \E code \in {0, 1} : Tells(r, "OK", code)
         \/ Announcing /\ \E code \in {0, 1}, n \in Capabilities, m \in {0, 1} : \E rest :
                             NamesLine(r, n, m, rest) /\ Announces(rest, code)
<1>1. Asked \/ Announcing \/ Challenged \/ Answered \/ Refused
  BY WhereReading
<1> CASE Asked \/ Answered
  <2>1. s2c = <<>>
    BY DEF Asked, Answered
  <2> QED BY <2>1, EmptyRead
<1> CASE Refused
  BY StatusWords, StatusRead DEF Refused
<1> CASE Challenged
  BY ExchangeRead DEF Challenged
<1> CASE Announcing
  <2>1. PICK code \in {0, 1} : Announces(s2c, code)
    BY DEF Announcing
  <2> QED BY <2>1, Announced
<1> QED BY <1>1

(* A line that Authenticate takes for a capability is one.                  *)
LEMMA AuthItemKeeps == ASSUME Together, AuthItem PROVE Together'
<1> EndsAgree /\ Place /\ op.at = "auth"
  BY DEF Together, AuthItem
<1> PICK r : /\ r = ReadCapabilityOrStatus(s2c) /\ r.st # "more" /\ s2c' = r.rest
             /\ IsItem(r) /\ IsCapability(r) /\ op' = [op EXCEPT !.items = @ \cup {r.v.v}]
  BY DEF AuthItem, Reads
<1>3. UNCHANGED <<opts, buf, c2s, closed, cstate, ctls, serverVars, storeVars, seen>>
  BY DEF AuthItem, ghosts
<1>4. ~Tells(r, "NO", 0) /\ \A code \in {0, 1} : ~Tells(r, "OK", code)
  BY SaysNo, SaysOk
<1>5. ~(Challenged /\ NamesLine(r, "challenge", 0, <<>>))
  <2> SUFFICES ASSUME Challenged, NamesLine(r, "challenge", 0, <<>>) PROVE FALSE
    OBVIOUS
  <2>1. r.v.v = "challenge" /\ r.v.n = 0
    BY SaysItem
  <2>2. op.items = {}
    BY DEF Challenged
  <2> QED BY <2>1, <2>2, ChallengeWords, SMT DEF IsCapability
<1>6. ASSUME Announcing, NEW code \in {0, 1}, NEW n, NEW m, NEW rest,
             NamesLine(r, n, m, rest), Announces(rest, code)
      PROVE  Together'
  <2>1. s2c' = rest
    BY <1>6, SaysItem
  <2>2. op' = [op EXCEPT !.items = op.items \cup {r.v.v}]
    OBVIOUS
  <2> QED BY <1>3, <1>6, <2>1, <2>2, ItemKeeps
<1> QED BY <1>4, <1>5, <1>6, AuthReads

(* A line that Authenticate takes for a challenge is one, and the server    *)
(* waits for its answer.                                                    *)
LEMMA ChallengeKeeps ==
  ASSUME Together, late = 0, late' = 0, phase # "gone", AuthChallenge PROVE Together'
<1> EndsAgree /\ Place /\ op.at = "auth"
  BY DEF Together, AuthChallenge
<1> PICK r : /\ r = ReadCapabilityOrStatus(s2c) /\ r.st # "more" /\ s2c' = r.rest
             /\ IsItem(r) /\ ~IsCapability(r)
  BY DEF AuthChallenge, Reads
<1>3. ~Tells(r, "NO", 0) /\ \A code \in {0, 1} : ~Tells(r, "OK", code)
  BY SaysNo, SaysOk
<1>4. ASSUME NEW n \in Capabilities, NEW m, NEW rest PROVE ~NamesLine(r, n, m, rest)
  BY SaysItem DEF IsCapability
<1> Challenged /\ NamesLine(r, "challenge", 0, <<>>)
  BY <1>3, <1>4, AuthReads
<1>6. s2c' = <<>>
  BY SaysItem
<1>7. Send(String("response") \o <<CRLF>>) /\ op' = op
  <2>1. ~Abandon
    BY SMT DEF Abandon
  <2> QED BY <2>1 DEF AuthChallenge
<1>8. c2s' = String("response") \o <<CRLF>> /\ buf' = <<>>
  <2>1. PICK a : a = String("response") \o <<CRLF>>
    OBVIOUS
  <2>2. a \in Stream
    BY <2>1, ExchangeRead
  <2>3. c2s' = (<<>> \o <<>>) \o a /\ buf' = <<>>
    BY <1>7, <2>1 DEF Send, Challenged, EndsAgree
  <2> QED BY <2>1, <2>2, <2>3, Empties
<1> /\ opts' = opts /\ buf' = buf /\ closed' = closed /\ cstate' = cstate /\ ctls' = ctls
    /\ phase' = phase /\ sstate' = sstate /\ stls' = stls
    /\ UNCHANGED storeVars /\ UNCHANGED <<seen, storeVars>>
  BY <1>8 DEF AuthChallenge, serverVars, EndsAgree
<1>10. Agreed'
  BY SameAgreed DEF Challenged
<1>11. Answered'
  BY <1>6, <1>7, <1>8, <1>10 DEF Answered, Challenged
<1>12. EndsAgree'
  BY <1>7, SameEnds DEF EndsAgree
<1> QED BY <1>11, <1>12 DEF Together, Place

(* An OK that Authenticate takes for its own is, and both ends are then     *)
(* authenticated.                                                           *)
LEMMA AuthStatusKeeps == ASSUME Together, phase # "gone", AuthStatus PROVE Together'
<1> EndsAgree /\ Place /\ op.at = "auth"
  BY DEF Together, AuthStatus
<1> PICK r : /\ r = ReadCapabilityOrStatus(s2c) /\ r.st # "more" /\ s2c' = r.rest /\ ~IsItem(r)
             /\ \/ op' = Idle /\ UNCHANGED <<c2s, buf, cstate, offered>>
                \/ /\ Said(r, "OK") /\ cstate' = "authenticated"
                   /\ IF op.items # {}
                      THEN op' = Idle /\ UNCHANGED <<c2s, buf>>
                      ELSE /\ op' = [op EXCEPT !.at = "caps"]
                           /\ Send(CommandLine("CAPABILITY", <<>>))
  BY DEF AuthStatus, Reads
<1> /\ opts' = opts /\ closed' = closed /\ ctls' = ctls /\ seen' = seen
    /\ UNCHANGED serverVars /\ UNCHANGED storeVars /\ UNCHANGED <<seen, storeVars>>
  BY DEF AuthStatus, ghosts
<1> CASE Refused /\ Tells(r, "NO", 0)
  <2> ~Said(r, "OK") /\ s2c' = <<>>
    BY SaysNo
  <2>2. op' = Idle /\ c2s' = c2s /\ buf' = buf /\ cstate' = cstate
    OBVIOUS
  <2>3. Agreed'
    BY SameAgreed DEF Refused
  <2> QED BY <2>2, <2>3, RestKeeps DEF Refused, EndsAgree
<1> CASE Announcing /\ \E code \in {0, 1} : Tells(r, "OK", code)
  <2> s2c' = <<>>
    BY SaysOk
  <2> Agreed'
    BY SameAgreed DEF Announcing
  <2> sstate = "authenticated" /\ ~closed' /\ phase = "read" /\ c2s = <<>>
    BY DEF Announcing
  <2> CASE op' = Idle /\ c2s' = c2s /\ buf' = buf
    BY RestKeeps
  <2> CASE op' = [op EXCEPT !.at = "caps"] /\ Send(CommandLine("CAPABILITY", <<>>))
    <3> PICK t \in Stream : t = CommandLine("CAPABILITY", <<>>) /\ Obeys(ReadCommand(t), <<"CAPABILITY">>, TRUE)
      <4>1. "CAPABILITY" \in Texts
        BY CommandWords
      <4> QED BY <4>1, LineObeyed0
    <3> c2s' = t /\ buf' = <<>>
      <4>1. c2s' = (<<>> \o <<>>) \o t /\ buf' = <<>>
        BY DEF Send, EndsAgree
      <4> QED BY <4>1, Empties
    <3> op'.at = "caps" /\ Formed(op')
      BY DEF EndsAgree, Formed
    <3>4. Asks'
      BY DEF Asks, Sends
    <3> phase' = phase /\ sstate' = sstate /\ stls' = stls /\ buf' = buf
      BY DEF serverVars, EndsAgree
    <3>6. EndsAgree'
      BY SameEnds DEF EndsAgree
    <3> QED BY <3>4, <3>6, NowAsked
  <2> QED OBVIOUS
<1>6. ASSUME NEW n, NEW m, NEW rest PROVE ~NamesLine(r, n, m, rest)
  BY SaysItem
<1> QED BY <1>6, AuthReads

(* A client that goes on has met nothing too large.                         *)
LEMMA GoesOn == ASSUME late = 0, late' = 0, TakesReply PROVE ~TooLarge(s2c)
BY SMT DEF TakesReply, Abandon

(* ListScripts reads to the end of the listing.                             *)
LEMMA ListKeeps == ASSUME Together, late = 0, late' = 0, ReadsList PROVE Together'
<1>1. ~TooLarge(s2c)
  BY GoesOn DEF ReadsList
<1> EndsAgree /\ (Asked \/ Refused \/ Enumerating)
  BY WhereReading DEF Together, ReadsList
<1> PICK r : /\ r = ReadScriptOrStatus(s2c) /\ r.st # "more" /\ s2c' = r.rest
             /\ op' = IF IsItem(r) THEN op ELSE Idle
  BY DEF ReadsList, Reads
<1> /\ op.at = "list" /\ opts' = opts /\ buf' = buf /\ c2s' = c2s /\ closed' = closed /\ cstate' = cstate
    /\ ctls' = ctls /\ UNCHANGED serverVars /\ UNCHANGED storeVars /\ UNCHANGED <<seen, storeVars>>
  BY DEF ReadsList
<1> CASE Asked
  BY EmptyRead DEF Asked
<1> CASE Refused
  <2>1. Tells(r, "NO", 0)
    BY StatusWords, StatusRead DEF Refused
  <2>2. op' = Idle /\ s2c' = <<>>
    BY <2>1, SaysNo
  <2>3. Agreed'
    BY SameAgreed DEF Refused
  <2> QED BY <2>2, <2>3, RestKeeps DEF Refused, EndsAgree
<1> CASE Enumerating
  <2> Agreed'
    BY SameAgreed DEF Enumerating
  <2> CASE Tells(r, "OK", 0)
    <3>1. op' = Idle /\ s2c' = <<>>
      BY SaysOk
    <3> QED BY <3>1, RestKeeps DEF Enumerating, EndsAgree
  <2>3. ASSUME NEW n, NEW m, NEW rest, NamesLine(r, n, m, rest), Lists(rest)
        PROVE  Together'
    <3> op' = op /\ s2c' = rest
      BY <2>3, SaysItem
    <3> phase' = phase /\ sstate' = sstate /\ stls' = stls
      BY DEF serverVars
    <3>3. Enumerating'
      BY <2>3 DEF Enumerating
    <3>4. EndsAgree'
      BY SameEnds DEF EndsAgree
    <3> QED BY <3>3, <3>4 DEF Together, Place
  <2> QED BY <1>1, <2>3, Listed DEF Enumerating
<1> QED OBVIOUS

(* GetScript reads the text that is stored, and goes on to the status.      *)
LEMMA GetKeeps == ASSUME Together, late = 0, late' = 0, ReadsGet PROVE Together'
<1>1. ~TooLarge(s2c)
  BY GoesOn DEF ReadsGet
<1> EndsAgree /\ (Asked \/ Refused \/ Given)
  BY WhereReading DEF Together, ReadsGet
<1>2. PICK r : /\ r = IF IsString(s2c) THEN ExpectCRLF(ReadReply(s2c)) ELSE ReadStatusLine(s2c)
               /\ r.st # "more" /\ s2c' = r.rest
               /\ op' = IF IsString(s2c) /\ r.st = "ok"
                        THEN [op EXCEPT !.at = "getStatus", !.text = r.v]
                        ELSE Idle
  BY DEF ReadsGet, Reads
<1> /\ opts' = opts /\ buf' = buf /\ c2s' = c2s /\ closed' = closed /\ cstate' = cstate /\ seen' = seen
    /\ ctls' = ctls /\ UNCHANGED serverVars /\ UNCHANGED storeVars /\ UNCHANGED <<seen, storeVars>>
  BY DEF ReadsGet
<1> CASE Asked
  <2>1. s2c = <<>>
    BY DEF Asked
  <2>2. ~IsString(s2c) /\ ReadStatusLine(s2c).st = "more"
    BY <2>1, EmptyRead
  <2> QED BY <1>2, <2>2
<1> CASE Refused
  <2> ~IsString(s2c) /\ Tells(ReadStatusLine(s2c), "NO", 0)
    BY StatusWords, StatusRead DEF Refused
  <2>2. r = ReadStatusLine(s2c)
    BY <1>2
  <2>3. op' = Idle /\ s2c' = <<>>
    BY <1>2, <2>2, SaysNo
  <2>4. Agreed'
    BY SameAgreed DEF Refused
  <2> QED BY <2>3, <2>4, RestKeeps DEF Refused, EndsAgree
<1> CASE Given
  <2> PICK n \in DOMAIN scripts : op.args = <<n>> /\ s2c = String(scripts[n]) \o (<<CRLF>> \o Status("OK", 0))
    BY DEF Given
  <2> PICK v \in Texts : v = scripts[n]
    BY DEF EndsAgree, Stored
  <2> IsString(s2c) /\ ExpectCRLF(ReadReply(s2c)) = Ok(v, Status("OK", 0))
    BY <1>1, GetReply
  <2>4. r = Ok(v, Status("OK", 0))
    BY <1>2
  <2>5. r.st = "ok" /\ r.v = v /\ r.rest = Status("OK", 0)
    BY <2>4 DEF Ok
  <2> s2c' = Status("OK", 0) /\ op' = [op EXCEPT !.at = "getStatus", !.text = v]
    BY <1>2, <2>5
  <2> /\ op'.at = "getStatus" /\ op'.name = "GETSCRIPT" /\ op'.args = <<n>> /\ op'.text = v /\ Formed(op')
    BY DEF EndsAgree, Formed, Given
  <2> phase' = phase /\ sstate' = sstate /\ stls' = stls /\ scripts' = scripts /\ active' = active
    BY DEF serverVars, storeVars
  <2>9. Learned' = Holding(scripts, active)'
    <3>1. seen'.scripts = scripts /\ seen'.active = active
      BY HoldingIs DEF Given
    <3>2. op'.args[1] = n
      BY SMT
    <3>3. Learned' = Holding([m \in DOMAIN scripts \cup {n} |-> IF m = n THEN v ELSE scripts[m]], active)
      <4>1. op'.name \in {"PUTSCRIPT", "GETSCRIPT"}
        OBVIOUS
      <4>2. Learned' = Holding([m \in DOMAIN seen'.scripts \cup {op'.args[1]} |->
                                  IF m = op'.args[1] THEN op'.text ELSE seen'.scripts[m]], seen'.active)
        BY <4>1 DEF Learned, Holding
      <4> QED BY <3>1, <3>2, <4>2
    <3>4. [m \in DOMAIN scripts \cup {n} |-> IF m = n THEN v ELSE scripts[m]] = scripts
      BY DEF EndsAgree, Stored
    <3>5. Learned' = Holding(scripts, active)
      BY <3>3, <3>4, SMT
    <3> QED BY <3>5 DEF Holding
  <2>10. Accepted'
    BY <2>9 DEF Accepted, Given
  <2>11. EndsAgree'
    BY SameEnds DEF EndsAgree
  <2> QED BY <2>10, <2>11 DEF Together, Place
<1> QED OBVIOUS

-----------------------------------------------------------------------------

(* Every step.                                                              *)
LEMMA ServerLate ==
  ASSUME ServerNext, late \in Nat
  PROVE  late' \in Nat /\ (late' = 0 => late = 0) /\ phase # "gone"
<1> CASE Greet
  BY DEF Greet, ghosts
<1> CASE ServeCommand
  BY DEF ServeCommand, ghosts
<1> CASE SaslResponse
  BY DEF SaslResponse, ghosts
<1> CASE Handshake
  <2>1. phase = "handshake" /\ (late' = late \/ late' = IF late = 0 THEN 1 ELSE late)
    BY DEF Handshake, Abandon
  <2> QED BY <2>1, SMT
<1> CASE HandshakeFails
  BY DEF HandshakeFails, ghosts
<1> CASE Timeout
  BY DEF Timeout, Waiting, ghosts
<1> QED BY DEF ServerNext

(* Calls,                                                                   *)
LEMMA CallLate ==
  ASSUME CallNext, late \in Nat
  PROVE  late' \in Nat /\ (late' = 0 => late = 0) /\ phase' = phase
<1>1. ASSUME NEW at, NEW name, NEW args, NEW text, NEW tokens, Call(at, name, args, text, tokens)
      PROVE  late' \in Nat /\ (late' = 0 => late = 0) /\ phase' = phase
  BY <1>1, SMT DEF Call, serverVars
<1> CASE CallClose
  BY DEF CallClose, serverVars, ghosts
<1> QED BY <1>1 DEF CallNext, CallLine, CallStartTLS, CallAuthenticate, CallCapability, CallListScripts,
           CallGetScript, CallPutScript, CallCheckScript, CallSimple, CallHaveSpace, CallNoop, CallLogout

(* and the steps of an operation.                                           *)
LEMMA ClientLate ==
  ASSUME ClientNext, late \in Nat
  PROVE  late' \in Nat /\ (late' = 0 => late = 0) /\ phase' = phase
<1> CASE LiteralBody \/ LiteralAborted
  BY SMT DEF LiteralBody, LiteralAborted, Abandon, serverVars, ghosts
<1> CASE ReadsStatus \/ ReadsStartTLS \/ ReadsNoHandshake \/ ReadsLogout
  BY SMT DEF ReadsStatus, ReadsStartTLS, ReadsNoHandshake, ReadsLogout, Abandon, serverVars, ghosts
<1> CASE ReadsCapability \/ AuthItem \/ AuthChallenge \/ AuthStatus
  BY SMT DEF ReadsCapability, AuthItem, AuthChallenge, AuthStatus, Abandon, serverVars, ghosts
<1> CASE ReadsList \/ ReadsGet
  <2>1. TakesReply /\ phase' = phase
    BY DEF ReadsList, ReadsGet, serverVars
  <2> QED BY <2>1, SMT DEF TakesReply, Abandon
<1> CASE ReadsEOF
  BY DEF ReadsEOF, serverVars, ghosts
<1> QED BY DEF ClientNext

(* Steps of the server keep the two together,                               *)
LEMMA ServerKeeps ==
  ASSUME Together, late = 0, late' = 0, phase' # "gone", ServerNext PROVE Together'
<1>1. ~Timeout
  BY DEF Timeout, Leave
<1> QED BY <1>1, GreetKeeps, ServeKeeps, ResponseKeeps, HandshakeKeeps, HandshakeHolds DEF ServerNext

(* and so do those of an operation.                                         *)
LEMMA ClientKeeps ==
  ASSUME Together, late = 0, late' = 0, phase # "gone", ClientNext PROVE Together'
<1>1. ~ReadsEOF
  BY DEF ReadsEOF
<1>2. ~LiteralAborted
  BY SMT DEF LiteralAborted, Abandon
<1> QED BY <1>1, <1>2, BodyKeeps, StatusKeeps, StartTLSKeeps, HandshakeGoesOn, LogoutWaits, CapabilityKeeps,
           AuthItemKeeps, ChallengeKeeps, AuthStatusKeeps, ListKeeps, GetKeeps DEF ClientNext

(* Inv is inductive.                                                        *)
LEMMA NextInv == Inv /\ [Next]_vars => Inv'
<1> SUFFICES ASSUME Inv, [Next]_vars PROVE Inv'
  OBVIOUS
<1> late \in Nat
  BY DEF Inv
<1> CASE ServerNext
  <2> late' \in Nat /\ (late' = 0 => late = 0) /\ phase # "gone"
    BY ServerLate
  <2>2. late' = 0 /\ phase' # "gone" => Together'
    BY ServerKeeps DEF Inv
  <2> QED BY <2>2 DEF Inv
<1> CASE CallNext
  <2> late' \in Nat /\ (late' = 0 => late = 0) /\ phase' = phase
    BY CallLate
  <2>2. late' = 0 /\ phase' # "gone" => Together'
    BY CallKeeps DEF Inv
  <2> QED BY <2>2 DEF Inv
<1> CASE ClientNext
  <2> late' \in Nat /\ (late' = 0 => late = 0) /\ phase' = phase
    BY ClientLate
  <2>2. late' = 0 /\ phase' # "gone" => Together'
    BY ClientKeeps DEF Inv
  <2> QED BY <2>2 DEF Inv
<1> CASE UNCHANGED vars
  <2> UNCHANGED <<opts, buf, c2s, s2c, closed, op, cstate, ctls, offered, phase, sstate, stls, rounds,
                  scripts, active, seen, late>>
    BY DEF vars, wireVars, clientVars, serverVars, storeVars, ghosts
  <2> (Agreed' <=> Agreed) /\ (Learned' = Learned)
    BY DEF Agreed, Holding, Learned
  <2>3. EndsAgree' <=> EndsAgree
    BY DEF EndsAgree, Stored, Formed
  <2>4. Asks' <=> Asks
    <3> ReadCommand(c2s)' = ReadCommand(c2s) /\ \A ws : Sends(ws)' <=> Sends(ws)
      BY DEF Sends
    <3>2. AsksSimple' <=> AsksSimple
      BY DEF AsksSimple
    <3> QED BY <3>2 DEF Asks
  <2>5. (AtRest' <=> AtRest) /\ (Greeting' <=> Greeting) /\ (Asked' <=> Asked) /\ (Copying' <=> Copying)
    BY <2>4 DEF AtRest, Idle, Operation, Greeting, Asked, Copying
  <2>6. (Announcing' <=> Announcing) /\ (Challenged' <=> Challenged) /\ (Answered' <=> Answered)
    BY DEF Announcing, Challenged, Answered
  <2>7. (Refused' <=> Refused) /\ (Accepted' <=> Accepted) /\ (Given' <=> Given)
    BY DEF Refused, Accepted, Holding, Given
  <2>8. (Enumerating' <=> Enumerating) /\ (Permitted' <=> Permitted) /\ (Shaking' <=> Shaking)
    BY DEF Enumerating, Permitted, Shaking
  <2>9. Place' <=> Place
    BY <2>5, <2>6, <2>7, <2>8 DEF Place
  <2> QED BY <2>3, <2>9 DEF Inv, Together
<1> QED BY DEF Next

(* Inv says what the properties say.                                        *)
LEMMA InvAgrees == Inv => InStep /\ AuthenticatedAtBothEnds /\ CallerSeesStore
<1> SUFFICES ASSUME Inv PROVE InStep /\ AuthenticatedAtBothEnds /\ CallerSeesStore
  OBVIOUS
<1>1. ASSUME op = Idle, late = 0, phase # "gone" PROVE EndsAgree /\ AtRest
  BY <1>1, IdleAt, WhereSimple DEF Inv, Together
<1>2. InStep
  BY <1>1 DEF InStep, EndsAgree, AtRest
<1>3. AuthenticatedAtBothEnds
  BY DEF AuthenticatedAtBothEnds, Inv, Together, EndsAgree
<1>4. CallerSeesStore
  <2> SUFFICES ASSUME Between PROVE seen = Holding(scripts, active)
    BY DEF CallerSeesStore
  <2>1. op = Idle /\ late = 0 /\ phase # "gone"
    BY DEF Between
  <2> QED BY <1>1, <2>1 DEF AtRest, Agreed
<1> QED BY <1>2, <1>3, <1>4

(* InStep, for all names, texts, lengths and limits: between two operations *)
(* nothing is on the way or half read, the server waits for a command and   *)
(* both ends agree on TLS, as long as the client has given up no exchange,  *)
(* one whose reply is over its own limit included.                          *)
THEOREM StaysInStep == Spec => []InStep
BY InitInv, NextInv, InvAgrees, PTL DEF Spec

(* AuthenticatedAtBothEnds, for all of them: Client.state is authenticated  *)
(* only when Conn.state is.                                                 *)
THEOREM BothAuthenticated == Spec => []AuthenticatedAtBothEnds
BY InitInv, NextInv, InvAgrees, PTL DEF Spec

(* CallerSeesStore, for all of them and any number of scripts: what the     *)
(* results of the operations said is what the session holds.                *)
THEOREM CallerKnows == Spec => []CallerSeesStore
BY InitInv, NextInv, InvAgrees, PTL DEF Spec

=============================================================================

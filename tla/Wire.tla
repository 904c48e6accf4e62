-------------------------------- MODULE Wire --------------------------------
(***************************************************************************)
(* The ManageSieve wire codec (managesieve/internal/wire/codec.go). A      *)
(* stream is a sequence of tokens: atoms, quoted strings, literal headers, *)
(* the bytes of a literal, spaces and line ends. Bytes are looked at only  *)
(* as to which text they belong to and at which place; an atom or a quoted *)
(* string counts as one byte towards the limits. A status line is one      *)
(* token, since the decoder takes all of it or stops at its first word.    *)
(*                                                                         *)
(* Reading operators look at what has arrived. Their result says "more"    *)
(* where the decoder would block, "err" where it gives up, with the rest   *)
(* of the stream it has not consumed in either case.                       *)
(***************************************************************************)
EXTENDS Integers, Sequences

CONSTANTS
    Texts,         \* what an atom or a string may stand for
    Length,        \* the number of bytes of a text
    Unquotable,    \* texts that validQuoted refuses
    Mixed,         \* a text made up of bytes that no one text consists of
    MaxLiteralBytes,   \* the server's limits, options that server.New makes positive
    MaxCommandArgs,
    MaxNonLiteralCommandLen,
    ClientMaxLiteralBytes   \* the client's, a constant of its package

\* The text of what has none.
Blank == ""

Token(k, v, n) == [k |-> k, v |-> v, n |-> n]
Atom(a) == Token("atom", a, 0)
SP == Token("sp", Blank, 0)
CRLF == Token("nl", Blank, 0)
Quoted(s) == Token("str", s, 0)
LiteralHeader(n) == Token("lit", Blank, n)
Bytes(s) == [i \in 1..Length[s] |-> Token("byte", s, i)]

\* writeStatus: OK, NO or BYE, with a SASL code (1) or without (0).
Status(type, code) == <<Token("status", type, code)>>

\* Encoder.string: quoted where possible, a literal otherwise.
String(s) ==
    IF s \in Unquotable THEN <<LiteralHeader(Length[s])>> \o Bytes(s) ELSE <<Quoted(s)>>

\* writeSimpleCommandLocked and the other command lines, the end included. No
\* command of the client has more than two arguments.
Argument(s) == <<SP>> \o String(s)
CommandLine(name, args) ==
    <<Atom(name)>> \o ((IF Len(args) > 0 THEN Argument(args[1]) ELSE <<>>)
                   \o ((IF Len(args) > 1 THEN Argument(args[2]) ELSE <<>>)
                   \o <<CRLF>>))

-----------------------------------------------------------------------------
Ok(v, rest) == [st |-> "ok", v |-> v, rest |-> rest]
Err(rest) == [st |-> "err", v |-> Blank, rest |-> rest]
More(rest) == [st |-> "more", v |-> Blank, rest |-> rest]

\* s without its first n tokens.
Drop(s, n) == SubSeq(s, n + 1, Len(s))

Tokens == [k : {"atom", "sp", "nl", "str", "lit", "byte", "status", "tls"}, v : Texts, n : Nat]
Stream == Seq(Tokens)

\* SkipSP; an encoder never writes two spaces.
SkipSP[s \in Stream] == IF s # <<>> /\ s[1].k = "sp" THEN Tail(s) ELSE s

\* The length of the atom s starts with. Bytes of a text outside a literal are
\* taken for characters of an atom.
AtomLength[s \in Stream] ==
    CHOOSE n \in 0..Len(s) :
        /\ \A i \in 1..n : s[i].k \in {"atom", "byte"}
        /\ n < Len(s) => s[n + 1].k \notin {"atom", "byte"}

\* The text that bytes of a literal make up.
Content[s \in Stream] ==
    IF s = <<>> THEN Blank
    ELSE IF s[1].k = "byte" /\ s = Bytes(s[1].v) THEN s[1].v ELSE Mixed

\* readAtom at a place that has no space: characters up to the first that no
\* atom has.
ReadAtom[s \in Stream] ==
    LET n == AtomLength[s]
    IN  IF n = Len(s) THEN More(s)
        ELSE IF n = 0 THEN Err(s)
        ELSE Ok(IF n = 1 THEN s[1].v ELSE Mixed, Drop(s, n))

\* readString at a place that has no space, with a limit on literals. One that is
\* too large is given up after the header, before the end of its line.
ReadString(limit) == [s \in Stream |->
    IF s = <<>> THEN More(s)
    ELSE IF s[1].k = "str" THEN Ok(s[1].v, Tail(s))
    ELSE IF s[1].k # "lit" THEN Err(s)
    ELSE IF s[1].n > limit THEN Err(<<CRLF>> \o Tail(s))
    ELSE IF Len(s) <= s[1].n THEN More(s)
    ELSE Ok(Content[SubSeq(s, 2, s[1].n + 1)], Drop(s, s[1].n + 1))]

\* readToken in a command that may still take `left` bytes, and the number of
\* bytes it counts for.
IsString(s) == s # <<>> /\ s[1].k \in {"str", "lit"}
Within(left) == IF left < MaxLiteralBytes THEN left ELSE MaxLiteralBytes
ReadToken(left) == [s \in Stream |-> IF IsString(s) THEN ReadString(Within(left))[s] ELSE ReadAtom[s]]
Cost(s) == IF s[1].k = "lit" THEN s[1].n ELSE 1

ExpectCRLF(r) ==
    IF r.st # "ok" THEN r
    ELSE IF r.rest = <<>> THEN More(r.rest)
    ELSE IF r.rest[1].k = "nl" THEN Ok(r.v, Tail(r.rest))
    ELSE Err(Tail(r.rest))

\* Where ReadCommand's loop is ("go", or how it ended), the name and arguments it
\* has, what it has not read and how many bytes may follow.
Loop(st, v, rest, left) == [st |-> st, v |-> v, rest |-> rest, left |-> left]
Loops == [st : {"go", "ok", "err", "more"}, v : Seq(Texts), rest : Stream, left : Int]

\* One turn of the loop: an argument, or the line's end. Literals count towards
\* the limit too.
Turn[m \in Loops] ==
    LET s == SkipSP[m.rest]
        r == ReadToken(m.left)[s]
    IN  IF m.st # "go" THEN m
        ELSE IF m.rest = <<>> THEN Loop("more", m.v, m.rest, m.left)
        ELSE IF m.rest[1].k = "nl" THEN Loop("ok", m.v, Tail(m.rest), m.left)
        ELSE IF Len(m.v) > MaxCommandArgs THEN Loop("err", m.v, m.rest, m.left)
        ELSE IF r.st # "ok" THEN Loop(r.st, m.v, r.rest, m.left)
        ELSE IF m.left < Cost(s) THEN Loop("err", m.v, r.rest, m.left)
        ELSE Loop("go", Append(m.v, r.v), r.rest, m.left - Cost(s))

\* ReadCommand: the name, then arguments to the line's end. Every turn but the
\* last takes a token, so that there are no more turns than tokens.
ReadCommand(s) ==
    LET name == ReadAtom[SkipSP[s]]
        turns[i \in 0..Len(s)] ==
            IF i = 0 THEN Loop("go", <<name.v>>, name.rest, MaxNonLiteralCommandLen - 1)
            ELSE Turn[turns[i - 1]]
    IN  IF name.st # "ok" THEN name ELSE turns[Len(s)]

\* ReadStatusLine. A line that starts with a string is left unread; another
\* word than a status is read and refused.
ReadStatusLine(s) ==
    IF s = <<>> THEN More(s)
    ELSE IF s[1].k = "status" THEN Ok(s[1], Tail(s))
    ELSE Err(Drop(s, AtomLength[s]))

\* A string the client reads, and one it does not take.
ReadReply(s) == ReadString(ClientMaxLiteralBytes)[s]
TooLarge(s) == s # <<>> /\ s[1].k = "lit" /\ s[1].n > ClientMaxLiteralBytes

\* A line of strings that starts with a name: its result carries the name and
\* whether something followed it.
Item(name, more) == Token("item", name, more)

\* ReadCapabilityOrStatus: a name and perhaps a value, or a status.
ReadCapabilityOrStatus(s) ==
    IF s = <<>> THEN More(s)
    ELSE IF ~IsString(s) THEN ReadStatusLine(s)
    ELSE LET name == ReadReply(s)
             valued == name.rest # <<>> /\ name.rest[1].k = "sp"
             value == IF valued THEN ReadReply(SkipSP[name.rest]) ELSE name
             line == ExpectCRLF(value)
         IN  IF name.st # "ok" THEN name
             ELSE IF line.st # "ok" THEN line
             ELSE Ok(Item(name.v, IF valued THEN 1 ELSE 0), line.rest)

\* ReadScriptOrStatus: a script's name, marked ACTIVE or not, or a status.
ReadScriptOrStatus(s) ==
    IF s = <<>> THEN More(s)
    ELSE IF ~IsString(s) THEN ReadStatusLine(s)
    ELSE LET name == ReadReply(s)
             marked == name.rest # <<>> /\ name.rest[1].k = "sp"
             mark == IF marked THEN ReadAtom[SkipSP[name.rest]] ELSE name
             line == ExpectCRLF(mark)
         IN  IF name.st # "ok" THEN name
             ELSE IF line.st # "ok" THEN line
             ELSE Ok(Item(name.v, IF marked THEN 1 ELSE 0), line.rest)
=============================================================================

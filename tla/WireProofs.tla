----------------------------- MODULE WireProofs -----------------------------
(***************************************************************************)
(* What one end of a ManageSieve connection writes, the other end's codec  *)
(* reads, for every text and every limit: commands with up to two          *)
(* arguments, status lines, capability responses, listings and the text of *)
(* a script. A command is refused as a whole or taken as it was written,   *)
(* and one that stops at the header of a literal is not taken for one.     *)
(***************************************************************************)
EXTENDS ClientServer, WellFoundedInduction, TLAPS

USE Zenon

(* One token before others.                                                 *)
LEMMA Cons ==
  ASSUME NEW S, NEW x \in S, NEW r \in Seq(S)
  PROVE  /\ <<x>> \o r \in Seq(S) /\ <<x>> \o r # <<>>
         /\ (<<x>> \o r)[1] = x /\ Tail(<<x>> \o r) = r
         /\ Len(<<x>> \o r) = Len(r) + 1
<1>1. /\ <<x>> \o r \in Seq(S) /\ <<x>> \o r # <<>>
      /\ (<<x>> \o r)[1] = x /\ Len(<<x>> \o r) = Len(r) + 1
  BY SMT
<1>2. Tail(<<x>> \o r) = r
  BY SMT
<1> QED BY <1>1, <1>2

(* Sequences with the same values are equal.                                *)
LEMMA Same ==
  ASSUME NEW S, NEW s \in Seq(S), NEW t \in Seq(S), Len(s) = Len(t),
         \A i \in 1..Len(s) : s[i] = t[i]
  PROVE  s = t
BY SMT

(* Three sequences put together in either order.                            *)
LEMMA Assoc ==
  ASSUME NEW S, NEW a \in Seq(S), NEW b \in Seq(S), NEW c \in Seq(S)
  PROVE  (a \o b) \o c = a \o (b \o c)
<1>1. PICK l, r : l = (a \o b) \o c /\ r = a \o (b \o c)
  OBVIOUS
<1> l \in Seq(S) /\ r \in Seq(S) /\ Len(l) = Len(r) /\ Len(l) = Len(a) + Len(b) + Len(c)
  BY <1>1, SMT
<1>3. ASSUME NEW i \in 1..Len(l) PROVE l[i] = r[i]
  BY <1>1, SMT
<1> QED BY <1>1, <1>3, Same

(* A sequence put before another, taken off again.                          *)
LEMMA Halves ==
  ASSUME NEW S, NEW a \in Seq(S), NEW b \in Seq(S)
  PROVE  /\ a \o b \in Seq(S) /\ Len(a \o b) = Len(a) + Len(b)
         /\ SubSeq(a \o b, 1, Len(a)) = a
         /\ SubSeq(a \o b, Len(a) + 1, Len(a \o b)) = b
<1>1. a \o b \in Seq(S) /\ Len(a \o b) = Len(a) + Len(b)
  BY SMT
<1>2. SubSeq(a \o b, 1, Len(a)) = a
  BY SMT
<1>3. SubSeq(a \o b, Len(a) + 1, Len(a \o b)) = b
  BY SMT
<1> QED BY <1>1, <1>2, <1>3

(* The empty sequence.                                                      *)
LEMMA Nothing ==
  ASSUME NEW S, NEW a \in Seq(S)
  PROVE  <<>> \in Seq(S) /\ <<>> \o a = a /\ a \o <<>> = a /\ Len(a) \in Nat
BY SMT

-----------------------------------------------------------------------------

(* Induction over the natural numbers, for a set instead of a predicate.    *)
LEMMA Induct ==
  ASSUME NEW S, 0 \in S, \A n \in Nat : n \in S => n + 1 \in S
  PROVE  Nat \subseteq S
\* A set of natural numbers has a least one.
<1>Least. ASSUME NEW T, T \subseteq Nat, T # {}
      PROVE  \E n \in T : \A m \in T : n <= m
  <2> USE <1>Least
  <2>1. PICK x \in T : \A y \in T : ~(<<y, x>> \in OpToRel(<, Nat))
    BY NatLessThanWellFounded, WFMin
  <2>2. ASSUME NEW y \in Nat, NEW z \in Nat, y < z PROVE <<y, z>> \in OpToRel(<, Nat)
    BY <2>2 DEF OpToRel
  <2>3. \A y \in T : x \in Nat /\ y \in Nat /\ ~(y < x)
    BY <2>1, <2>2
  <2> QED BY <2>3, SMT
<1> QED
  <2> SUFFICES ASSUME Nat \ S # {} PROVE FALSE
    OBVIOUS
  <2>1. PICK n \in Nat \ S : \A m \in Nat \ S : n <= m
    BY <1>Least
  <2>2. n # 0 /\ n - 1 \in Nat /\ n - 1 \in S
    BY <2>1, SMT
  <2> QED BY <2>1, <2>2, SMT

(* A loop of N turns over values of V.                                      *)
Iterates(f, N, V, start, step) ==
  f \in [0..N -> V] /\ f[0] = start /\ \A i \in 1..N : f[i] = step[i][f[i - 1]]

(* There is one.                                                            *)
LEMMA Recursion ==
  ASSUME NEW N \in Nat, NEW V, NEW start \in V, NEW step \in [1..N -> [V -> V]]
  PROVE  \E f : Iterates(f, N, V, start, step)
<1> DEFINE Runs(f, k) == f[0] = start /\ \A i \in 1..k : f[i] = step[i][f[i - 1]]
           S == {k \in Nat : k <= N => \E f \in [0..k -> V] : Runs(f, k)}
<1>1. 0 \in S
  <2>1. [i \in 0..0 |-> start] \in [0..0 -> V] /\ Runs([i \in 0..0 |-> start], 0)
    BY SMT
  <2> QED BY <2>1
<1>2. ASSUME NEW k \in Nat, k \in S PROVE k + 1 \in S
  <2> SUFFICES ASSUME k + 1 <= N PROVE \E f \in [0..(k + 1) -> V] : Runs(f, k + 1)
    BY SMT
  <2>1. PICK f \in [0..k -> V] : Runs(f, k)
    BY <1>2, SMT
  <2>2. PICK g : g = [i \in 0..(k + 1) |-> IF i = k + 1 THEN step[k + 1][f[k]] ELSE f[i]]
    OBVIOUS
  <2>3. g \in [0..(k + 1) -> V]
    <3>1. k + 1 \in 1..N /\ step[k + 1] \in [V -> V] /\ f[k] \in V
      BY <2>1, SMT
    <3>2. step[k + 1][f[k]] \in V
      BY <3>1
    <3>3. \A i \in 0..(k + 1) : i # k + 1 => f[i] \in V
      BY <2>1, SMT
    <3> QED BY <2>2, <3>2, <3>3
  <2>4. ASSUME NEW i \in 1..(k + 1) PROVE g[i] = step[i][g[i - 1]]
    <3> g[i - 1] = f[i - 1]
      BY <2>2, SMT
    <3> CASE i = k + 1
      BY <2>2, SMT
    <3> CASE i # k + 1
      <4>1. g[i] = f[i] /\ i \in 1..k
        BY <2>2, SMT
      <4> QED BY <2>1, <4>1
    <3> QED OBVIOUS
  <2>5. g[0] = start
    BY <2>1, <2>2, SMT
  <2> QED BY <2>3, <2>4, <2>5
<1>3. N \in S
  <2> HIDE DEF S
  <2> QED BY <1>1, <1>2, Induct
<1>4. PICK f \in [0..N -> V] : Runs(f, N)
  BY <1>3, SMT
<1>5. Iterates(f, N, V, start, step)
  BY <1>4 DEF Iterates
<1> QED BY <1>5

-----------------------------------------------------------------------------

(* Tokens.                                                                  *)
Kinds == {"atom", "sp", "nl", "str", "lit", "byte", "status", "tls"}

(* A token has the fields it was made of.                                   *)
LEMMA TokenIs ==
  ASSUME NEW k \in Kinds, NEW v \in Texts, NEW n \in Nat
  PROVE  /\ Token(k, v, n) \in Tokens
         /\ Token(k, v, n).k = k /\ Token(k, v, n).v = v /\ Token(k, v, n).n = n
BY DEF Token, Tokens, Kinds

(* The empty text is a text.                                                *)
LEMMA Blanks == Blank \in Texts
BY ProtocolAssumption

(* A space, a line end and the first TLS message are tokens.                *)
LEMMA Marks ==
  /\ SP \in Tokens /\ SP.k = "sp" /\ CRLF \in Tokens /\ CRLF.k = "nl"
  /\ Hello \in Tokens /\ Hello.k = "tls"
<1>1. "sp" \in Kinds /\ "nl" \in Kinds /\ "tls" \in Kinds /\ 0 \in Nat
  BY DEF Kinds
<1> QED BY <1>1, Blanks, TokenIs, SMT DEF SP, CRLF, Hello

(* An atom and a quoted string are tokens that carry their text.            *)
LEMMA Spoken ==
  ASSUME NEW v \in Texts
  PROVE  /\ Atom(v) \in Tokens /\ Atom(v).k = "atom" /\ Atom(v).v = v
         /\ Quoted(v) \in Tokens /\ Quoted(v).k = "str" /\ Quoted(v).v = v
<1>1. "atom" \in Kinds /\ "str" \in Kinds /\ 0 \in Nat
  BY DEF Kinds
<1> QED BY <1>1, TokenIs, SMT DEF Atom, Quoted

(* The header of a literal is a token that carries its length.              *)
LEMMA Headers ==
  ASSUME NEW n \in Nat
  PROVE  LiteralHeader(n) \in Tokens /\ LiteralHeader(n).k = "lit" /\ LiteralHeader(n).n = n
<1>1. "lit" \in Kinds
  BY DEF Kinds
<1> QED BY <1>1, Blanks, TokenIs, SMT DEF LiteralHeader

(* Texts have lengths, and only the empty one has length zero.              *)
LEMMA TextIs ==
  ASSUME NEW v \in Texts
  PROVE  Length[v] \in Nat /\ (Length[v] = 0 => v = Blank)
BY ProtocolAssumption

(* The bytes of a text make up that text again.                             *)
LEMMA ByteIs ==
  ASSUME NEW v \in Texts
  PROVE  /\ Bytes(v) \in Stream /\ Len(Bytes(v)) = Length[v]
         /\ Content[Bytes(v)] = v
<1> Length[v] \in Nat /\ (Length[v] = 0 => v = Blank)
  BY TextIs
<1>2. "byte" \in Kinds
  BY DEF Kinds
<1>3. ASSUME NEW i \in 1..Length[v]
      PROVE  Token("byte", v, i) \in Tokens /\ Token("byte", v, i).k = "byte" /\ Token("byte", v, i).v = v
  <2>1. i \in Nat
    BY SMT
  <2> QED BY <1>2, <2>1, TokenIs, SMT
<1>4. PICK b : b = Bytes(v)
  OBVIOUS
<1>5. b = [i \in 1..Length[v] |-> Token("byte", v, i)]
  BY <1>4 DEF Bytes
<1> b \in Seq(Tokens) /\ Len(b) = Length[v] /\ \A i \in 1..Length[v] : b[i] = Token("byte", v, i)
  BY <1>3, <1>5, SMT
<1> b \in Stream
  BY DEF Stream
<1> Content[b] = IF b = <<>> THEN Blank ELSE IF b[1].k = "byte" /\ b = Bytes(b[1].v) THEN b[1].v ELSE Mixed
  BY DEF Content
<1> CASE Length[v] = 0
  <2>1. b = <<>>
    BY SMT
  <2> QED BY <1>4, <2>1
<1> CASE Length[v] # 0
  <2> 1 \in 1..Length[v] /\ b # <<>>
    BY SMT
  <2>2. b[1].k = "byte" /\ b[1].v = v
    BY <1>3
  <2> QED BY <1>4, <2>2
<1> QED OBVIOUS

-----------------------------------------------------------------------------

(* What the decoder makes of what the encoder writes.                       *)

(* A stream a word may stand before: it starts with a space or a line end.  *)
Ends(r) == r \in Stream /\ r # <<>> /\ r[1].k \in {"sp", "nl"}

(* readAtom gets back the atom that was written.                            *)
LEMMA ReadAtomIs ==
  ASSUME NEW v \in Texts, NEW r, Ends(r)
  PROVE  <<Atom(v)>> \o r \in Stream /\ ReadAtom[<<Atom(v)>> \o r] = Ok(v, r)
<1>1. PICK s, t : s = <<Atom(v)>> \o r /\ t = Atom(v)
  OBVIOUS
<1> t \in Tokens /\ t.k = "atom" /\ t.v = v
  BY <1>1, Spoken
<1>2. r \in Seq(Tokens)
  BY DEF Ends, Stream
<1>4. LET q == <<t>> \o r
      IN  q \in Seq(Tokens) /\ q # <<>> /\ q[1] = t /\ Tail(q) = r /\ Len(q) = Len(r) + 1
  BY <1>2, Cons
<1>3. r \in Seq(Tokens) /\ r # <<>> /\ r[1].k \in {"sp", "nl"}
  BY <1>2 DEF Ends
<1> s \in Seq(Tokens) /\ s # <<>> /\ s[1] = t /\ Tail(s) = r /\ Len(s) = Len(r) + 1
  BY <1>1, <1>4
<1> s \in Stream
  BY DEF Stream
<1> Len(r) \in Nat /\ Len(r) # 0 /\ s[2] = r[1]
  BY <1>1, <1>3, SMT
<1>7. AtomLength[s] = 1
  <2>1. AtomLength[s] = CHOOSE n \in 0..Len(s) : /\ \A i \in 1..n : s[i].k \in {"atom", "byte"}
                                                 /\ n < Len(s) => s[n + 1].k \notin {"atom", "byte"}
    BY DEF AtomLength
  <2>2. PICK k : k = [i \in 1..Len(s) |-> s[i].k]
    OBVIOUS
  <2> k[1] = "atom" /\ k[2] \in {"sp", "nl"} /\ 1 \in 0..Len(s) /\ 1 < Len(s) /\ 2 \in 1..Len(s)
    BY <1>3, <2>2, SMT
  <2>4. ASSUME NEW n \in 0..Len(s), \A i \in 1..n : s[i].k \in {"atom", "byte"},
               n < Len(s) => s[n + 1].k \notin {"atom", "byte"}
        PROVE  n = 1
    <3>1. n < 2
      <4> SUFFICES ASSUME n >= 2 PROVE FALSE
        BY SMT
      <4>1. s[2].k \in {"atom", "byte"}
        BY <2>4, SMT
      <4> QED BY <1>3, <4>1
    <3>2. n # 0
      BY <2>4, SMT
    <3> QED BY <3>1, <3>2, SMT
  <2>5. /\ \A i \in 1..1 : s[i].k \in {"atom", "byte"}
        /\ 1 < Len(s) => s[1 + 1].k \notin {"atom", "byte"}
    BY <1>3, SMT
  <2> QED BY <2>1, <2>4, <2>5
<1>8. 1 # Len(s) /\ Drop(s, 1) = r
  <2>1. SubSeq(s, 1 + 1, Len(s)) = r
    BY <1>1, <1>3, SMT
  <2> QED BY <2>1, SMT DEF Drop
<1>9. ReadAtom[s] = Ok(v, r)
  <2>1. ReadAtom[s] = LET n == AtomLength[s]
                      IN  IF n = Len(s) THEN More(s)
                          ELSE IF n = 0 THEN Err(s)
                          ELSE Ok(IF n = 1 THEN s[1].v ELSE Mixed, Drop(s, n))
    BY DEF ReadAtom
  <2>2. 1 # 0 /\ 1 # Len(s)
    BY <1>3, SMT
  <2> QED BY <1>7, <1>8, <2>1, <2>2
<1> QED BY <1>1, <1>9

(* readString gets back a quoted string.                                    *)
LEMMA ReadQuoted ==
  ASSUME NEW v \in Texts, NEW r \in Stream, NEW left
  PROVE  /\ <<Quoted(v)>> \o r \in Stream /\ IsString(<<Quoted(v)>> \o r)
         /\ ReadString(left)[<<Quoted(v)>> \o r] = Ok(v, r)
<1>1. PICK s, t : s = <<Quoted(v)>> \o r /\ t = Quoted(v)
  OBVIOUS
<1> t \in Tokens /\ t.k = "str" /\ t.v = v
  BY <1>1, Spoken
<1> s \in Seq(Tokens) /\ s # <<>> /\ s[1] = t /\ Tail(s) = r
  <2>1. r \in Seq(Tokens)
    BY DEF Stream
  <2>2. LET q == <<t>> \o r IN q \in Seq(Tokens) /\ q # <<>> /\ q[1] = t /\ Tail(q) = r
    BY <2>1, Cons
  <2> QED BY <1>1, <2>2
<1> s \in Stream
  BY DEF Stream
<1>5. IsString(s)
  BY DEF IsString
<1>6. ReadString(left)[s] = Ok(v, r)
  BY DEF ReadString
<1> QED BY <1>1, <1>5, <1>6

(* readString gets back a literal of a size it allows, and refuses another  *)
(* after its header.                                                        *)
LEMMA ReadLiteral ==
  ASSUME NEW v \in Texts, NEW r \in Stream, NEW limit \in Int
  PROVE  LET e == <<LiteralHeader(Length[v])>> \o Bytes(v)
         IN  /\ e \o r \in Stream /\ IsString(e \o r)
             /\ ReadString(limit)[e \o r] =
                  IF Length[v] > limit THEN Err(<<CRLF>> \o (Bytes(v) \o r)) ELSE Ok(v, r)
             /\ <<CRLF>> \o (Bytes(v) \o r) \in Stream
<1>1. PICK h, b, n : h = LiteralHeader(Length[v]) /\ b = Bytes(v) /\ n = Length[v]
  OBVIOUS
<1>2. n \in Nat
  BY <1>1, TextIs
<1>3. h \in Tokens /\ h.k = "lit" /\ h.n = n
  BY <1>1, <1>2, Headers
<1>4. b \in Seq(Tokens) /\ Len(b) = n /\ Content[b] = v
  BY <1>1, ByteIs DEF Stream
<1>5. r \in Seq(Tokens)
  BY DEF Stream
<1>6. PICK s : s = (<<h>> \o b) \o r
  OBVIOUS
<1>7. s = <<h>> \o (b \o r)
  <2>1. <<h>> \in Seq(Tokens)
    BY <1>3, SMT
  <2> QED BY <1>4, <1>5, <1>6, <2>1, Assoc, SMT
<1>8. b \o r \in Seq(Tokens) /\ Len(b \o r) = n + Len(r) /\ Len(r) \in Nat
  BY <1>4, <1>5, SMT
<1>9. s \in Seq(Tokens) /\ s # <<>> /\ s[1] = h /\ Tail(s) = b \o r /\ Len(s) = Len(b \o r) + 1
  BY <1>3, <1>7, <1>8, Cons, SMT
<1>10. s \in Stream
  BY <1>9 DEF Stream
<1>11. IsString(s)
  BY <1>3, <1>9 DEF IsString
<1>12. SubSeq(s, 2, n + 1) = b
  <2>1. SubSeq(s, 2, n + 1) \in Seq(Tokens) /\ Len(SubSeq(s, 2, n + 1)) = n
    BY <1>2, <1>8, <1>9, SMT
  <2>2. ASSUME NEW i \in 1..n PROVE SubSeq(s, 2, n + 1)[i] = b[i]
    <3>1. SubSeq(s, 2, n + 1)[i] = s[i + 1]
      BY <1>2, <1>8, <1>9, SMT
    <3>2. s[i + 1] = (b \o r)[i]
      BY <1>2, <1>3, <1>7, <1>8, SMT
    <3> QED BY <1>4, <1>5, <3>1, <3>2, SMT
  <2> QED BY <1>4, <2>1, <2>2, Same
<1>13. Drop(s, n + 1) = r
  <2>1. PICK a : a = <<h>> \o b
    OBVIOUS
  <2>2. a \in Seq(Tokens) /\ Len(a) = n + 1
    BY <1>2, <1>3, <1>4, <2>1, SMT
  <2>3. SubSeq(s, Len(a) + 1, Len(s)) = r
    BY <1>5, <1>6, <2>1, <2>2, Halves, SMT
  <2> QED BY <2>2, <2>3 DEF Drop
<1>14. ~(Len(s) <= n)
  BY <1>2, <1>8, <1>9, SMT
<1>15. ReadString(limit)[s] = IF n > limit THEN Err(<<CRLF>> \o (b \o r)) ELSE Ok(v, r)
  <2>1. h.k # "str"
    BY <1>3
  <2> QED BY <1>3, <1>4, <1>9, <1>10, <1>12, <1>13, <1>14, <2>1 DEF ReadString
<1>16. <<CRLF>> \o (b \o r) \in Stream
  BY <1>8, Marks, Cons DEF Stream
<1> QED BY <1>1, <1>6, <1>10, <1>11, <1>15, <1>16

(* The fields of a result.                                                  *)
LEMMA Results ==
  ASSUME NEW v, NEW r
  PROVE  /\ Ok(v, r).st = "ok" /\ Ok(v, r).v = v /\ Ok(v, r).rest = r
         /\ Err(r).st = "err" /\ Err(r).rest = r
         /\ More(r).st = "more" /\ More(r).rest = r
BY DEF Ok, Err, More

(* What is left of a stream after an error.                                 *)
LEMMA Refusal ==
  ASSUME NEW w \in Stream, NEW x, x = Err(w)
  PROVE  x.st = "err" /\ x.rest \in Stream
BY Results, SMT

(* The token or tokens e are the argument v.                                *)
Literal(v) == <<LiteralHeader(Length[v])>> \o Bytes(v)
Encodes(e, v) == e = <<Quoted(v)>> \/ e = <<Atom(v)>> \/ e = Literal(v)

(* A literal the decoder takes.                                             *)
Fits(e, v) == e = Literal(v) => Length[v] <= MaxLiteralBytes

(* One token before a stream.                                               *)
LEMMA Kind ==
  ASSUME NEW x \in Tokens, NEW r \in Stream
  PROVE  /\ <<x>> \o r \in Stream /\ <<x>> \o r # <<>>
         /\ (<<x>> \o r)[1] = x /\ Tail(<<x>> \o r) = r
<1>1. r \in Seq(Tokens)
  BY DEF Stream
<1>2. <<x>> \o r \in Seq(Tokens) /\ <<x>> \o r # <<>> /\ (<<x>> \o r)[1] = x /\ Tail(<<x>> \o r) = r
  BY <1>1, Cons
<1> QED BY <1>2 DEF Stream

(* A literal is a stream.                                                   *)
LEMMA LiteralIs ==
  ASSUME NEW v \in Texts
  PROVE  Literal(v) \in Stream
<1>1. LiteralHeader(Length[v]) \in Tokens /\ Bytes(v) \in Stream
  BY TextIs, Headers, ByteIs
<1> QED BY <1>1, Kind DEF Literal

-----------------------------------------------------------------------------

(* The loop of ReadCommand.                                                 *)

(* A turn that takes an argument.                                           *)
Takes(t, v, r, fits) ==
  t \in Loops /\ (t.st = "err" \/ (fits /\ \E l \in Int : t = Loop("go", v, r, l)))

(* SkipSP takes off the one space that an encoder writes.                   *)
LEMMA SkipIs ==
  ASSUME NEW s \in Stream
  PROVE  /\ SkipSP[<<SP>> \o s] = s /\ <<SP>> \o s \in Stream /\ <<SP>> \o s # <<>>
         /\ (<<SP>> \o s)[1].k = "sp"
         /\ s = <<>> \/ s[1].k # "sp" => SkipSP[s] = s
<1>1. PICK t : t = <<SP>> \o s
  OBVIOUS
<1> t \in Stream /\ t # <<>> /\ t[1] = SP /\ Tail(t) = s
  <2>1. SP \in Tokens
    BY Marks
  <2>2. LET q == <<SP>> \o s IN q \in Stream /\ q # <<>> /\ q[1] = SP /\ Tail(q) = s
    BY <2>1, Kind
  <2> QED BY <1>1, <2>2
<1>3. SkipSP[t] = s
  BY Marks DEF SkipSP
<1>4. s = <<>> \/ s[1].k # "sp" => SkipSP[s] = s
  BY DEF SkipSP
<1> QED BY <1>1, <1>3, <1>4, Marks
Turns(m, N) ==
  CHOOSE f : f = [i \in 0..N |-> IF i = 0 THEN m ELSE Turn[f[i - 1]]]

(* A command that was read, or refused.                                     *)
Obeys(r, ws, fits) ==
  r.st = "err" \/ (fits /\ r.st = "ok" /\ r.v = ws /\ r.rest = <<>>)

(* A command of which more is to come, or that was refused.                 *)
Lacks(r) == r.st \in {"more", "err"}

-----------------------------------------------------------------------------

(* Commands without and with arguments.                                     *)
LEMMA LineEnd == Ends(<<CRLF>>) /\ Len(<<CRLF>>) = 1
<1>1. <<CRLF>> \in Seq(Tokens) /\ <<CRLF>> # <<>> /\ <<CRLF>>[1] = CRLF /\ Len(<<CRLF>>) = 1
  BY Marks, SMT
<1> QED BY <1>1, Marks DEF Ends, Stream

(* The tokens of an argument are a stream of at least one token.            *)
LEMMA EncodesIs ==
  ASSUME NEW x \in Texts, NEW e, Encodes(e, x)
  PROVE  e \in Stream /\ Len(e) >= 1
<1>1. Quoted(x) \in Tokens /\ Atom(x) \in Tokens
  BY Spoken
<1>2. <<Quoted(x)>> \in Stream /\ Len(<<Quoted(x)>>) >= 1 /\ <<Atom(x)>> \in Stream /\ Len(<<Atom(x)>>) >= 1
  BY <1>1, SMT DEF Stream
<1>3. Literal(x) \in Stream /\ Len(Literal(x)) >= 1
  <2>1. LiteralHeader(Length[x]) \in Tokens /\ Bytes(x) \in Stream
    BY TextIs, Headers, ByteIs
  <2>2. Len(Literal(x)) = Len(Bytes(x)) + 1 /\ Len(Bytes(x)) \in Nat
    BY <2>1, Cons, SMT DEF Literal, Stream
  <2> QED BY <2>2, LiteralIs, SMT
<1> QED BY <1>2, <1>3 DEF Encodes

(* ReadCommand gets back what the client wrote: a name and up to two        *)
(* arguments, or one argument less before the header of a literal.          *)
THEOREM ReadsCommands ==
  /\ \A a \in Texts : Obeys(ReadCommand(<<Atom(a)>> \o <<CRLF>>), <<a>>, TRUE)
  /\ \A a \in Texts, x \in Texts : \A e : Encodes(e, x) =>
       Obeys(ReadCommand(<<Atom(a)>> \o (<<SP>> \o (e \o <<CRLF>>))), <<a, x>>, Fits(e, x))
  /\ \A a \in Texts, x \in Texts, y \in Texts : \A e, d : Encodes(e, x) /\ Encodes(d, y) =>
       Obeys(ReadCommand(<<Atom(a)>> \o (<<SP>> \o (e \o (<<SP>> \o (d \o <<CRLF>>))))), <<a, x, y>>, Fits(d, y))
  /\ \A a \in Texts, n \in Nat : Lacks(ReadCommand(<<Atom(a)>> \o (<<SP>> \o <<LiteralHeader(n)>>)))
  /\ \A a \in Texts, x \in Texts, n \in Nat : \A e : Encodes(e, x) =>
       Lacks(ReadCommand(<<Atom(a)>> \o (<<SP>> \o (e \o (<<SP>> \o <<LiteralHeader(n)>>)))))
\* States of the loop are in its set.
<1>LoopType. ASSUME NEW st \in {"go", "ok", "err", "more"}, NEW v \in Seq(Texts), NEW r \in Stream, NEW left \in Int
      PROVE  Loop(st, v, r, left) \in Loops
  BY DEF Loop, Loops
\* A literal starts with its header.
<1>LiteralKind. ASSUME NEW v \in Texts, NEW r \in Stream
      PROVE  Literal(v) \o r \in Stream /\ Literal(v) \o r # <<>>
             /\ (Literal(v) \o r)[1].k = "lit" /\ (Literal(v) \o r)[1].n = Length[v]
  <2>1. PICK h, b : h = LiteralHeader(Length[v]) /\ b = Bytes(v)
    OBVIOUS
  <2> h \in Tokens /\ h.k = "lit" /\ h.n = Length[v] /\ b \in Stream
    BY <2>1, TextIs, Headers, ByteIs
  <2> <<h>> \in Seq(Tokens) /\ b \in Seq(Tokens) /\ r \in Seq(Tokens) /\ b \o r \in Seq(Tokens)
    BY SMT DEF Stream
  <2>4. Literal(v) \o r = <<h>> \o (b \o r)
    BY <2>1, Assoc, SMT DEF Literal
  <2>5. b \o r \in Stream
    BY DEF Stream
  <2> QED BY <2>4, <2>5, Kind, SMT
\* An argument is read, or refused.
<1>ReadTokenIs. ASSUME NEW v \in Texts, NEW e, Encodes(e, v), NEW r, Ends(r), NEW left \in Int
      PROVE  /\ e \o r \in Stream /\ e \o r # <<>> /\ (e \o r)[1].k \in {"str", "atom", "lit"}
             /\ Cost(e \o r) \in Nat
             /\ \/ ReadToken(left)[e \o r] = Ok(v, r) /\ Fits(e, v)
                \/ ReadToken(left)[e \o r].st = "err" /\ ReadToken(left)[e \o r].rest \in Stream
  <2> USE <1>ReadTokenIs
  <2> r \in Stream
    BY DEF Ends
  <2> CASE e = <<Quoted(v)>>
    <3>1. PICK q : q = Quoted(v)
      OBVIOUS
    <3> q \in Tokens /\ q.k = "str"
      BY <3>1, Spoken
    <3>3. PICK s : s = <<q>> \o r
      OBVIOUS
    <3> s \in Stream /\ s # <<>> /\ s[1] = q
      BY <3>3, Kind
    <3>5. IsString(s) /\ ReadString(Within(left))[s] = Ok(v, r)
      BY <3>1, <3>3, ReadQuoted
    <3>6. ReadToken(left)[s] = Ok(v, r)
      BY <3>5 DEF ReadToken
    <3>7. Cost(s) \in Nat
      BY DEF Cost
    <3>8. Fits(e, v)
      <4>1. ASSUME e = Literal(v) PROVE FALSE
        <5>1. (Literal(v) \o r)[1].k = "lit"
          BY <1>LiteralKind
        <5> QED BY <3>1, <3>3, <4>1, <5>1
      <4> QED BY <4>1 DEF Fits
    <3> QED BY <3>1, <3>3, <3>6, <3>7, <3>8
  <2> CASE e = <<Atom(v)>>
    <3>1. PICK q : q = Atom(v)
      OBVIOUS
    <3> q \in Tokens /\ q.k = "atom"
      BY <3>1, Spoken
    <3>3. PICK s : s = <<q>> \o r
      OBVIOUS
    <3> s \in Stream /\ s # <<>> /\ s[1] = q
      BY <3>3, Kind
    <3>5. ReadAtom[s] = Ok(v, r)
      BY <3>1, <3>3, ReadAtomIs
    <3>6. ~IsString(s)
      BY DEF IsString
    <3>7. ReadToken(left)[s] = Ok(v, r)
      BY <3>5, <3>6 DEF ReadToken
    <3>8. Cost(s) \in Nat
      BY DEF Cost
    <3>9. Fits(e, v)
      <4>1. ASSUME e = Literal(v) PROVE FALSE
        <5>1. (Literal(v) \o r)[1].k = "lit"
          BY <1>LiteralKind
        <5> QED BY <3>1, <3>3, <4>1, <5>1
      <4> QED BY <4>1 DEF Fits
    <3> QED BY <3>1, <3>3, <3>7, <3>8, <3>9
  <2> CASE e = Literal(v)
    <3>1. PICK s : s = e \o r
      OBVIOUS
    <3> s \in Stream /\ s # <<>> /\ s[1].k = "lit" /\ s[1].n = Length[v]
      BY <3>1, <1>LiteralKind
    <3> Cost(s) \in Nat
      <4>1. Length[v] \in Nat
        BY TextIs
      <4> QED BY <4>1 DEF Cost
    <3>4. PICK limit : limit = Within(left)
      OBVIOUS
    <3> limit \in Int /\ limit <= MaxLiteralBytes
      BY <3>4, ProtocolAssumption, SMT DEF Within
    <3>5. PICK w : w = <<CRLF>> \o (Bytes(v) \o r)
      OBVIOUS
    <3>6. /\ IsString(s) /\ w \in Stream
          /\ ReadString(limit)[s] = IF Length[v] > limit THEN Err(w) ELSE Ok(v, r)
      BY <3>1, <3>5, ReadLiteral DEF Literal
    <3>7. ReadToken(left)[s] = ReadString(limit)[s]
      BY <3>4, <3>6 DEF ReadToken
    <3> CASE Length[v] > limit
      <4>1. ReadToken(left)[s] = Err(w) /\ w \in Stream
        BY <3>6, <3>7
      <4>2. ReadToken(left)[s].st = "err" /\ ReadToken(left)[s].rest \in Stream
        BY <4>1, Refusal
      <4> QED BY <3>1, <4>2
    <3> CASE ~(Length[v] > limit)
      <4>1. ReadToken(left)[s] = Ok(v, r)
        BY <3>6, <3>7
      <4>2. Fits(e, v)
        <5>1. Length[v] \in Nat
          BY TextIs
        <5> QED BY <5>1, ProtocolAssumption, SMT DEF Fits
      <4> QED BY <3>1, <4>1, <4>2
    <3> QED OBVIOUS
  <2> QED BY DEF Encodes
\* A turn of the loop takes a space and an argument, or refuses the
\* argument.
<1>TurnTakes. ASSUME NEW v \in Seq(Texts), NEW x \in Texts, NEW e, Encodes(e, x), NEW r, Ends(r), NEW left \in Int
      PROVE  Takes(Turn[Loop("go", v, <<SP>> \o (e \o r), left)], Append(v, x), r, Fits(e, x))
  <2> USE <1>TurnTakes
  <2>1. PICK s, m : s = e \o r /\ m = Loop("go", v, <<SP>> \o (e \o r), left)
    OBVIOUS
  <2> /\ s \in Stream /\ Cost(s) \in Nat
      /\ \/ ReadToken(left)[s] = Ok(x, r) /\ Fits(e, x)
         \/ ReadToken(left)[s].st = "err" /\ ReadToken(left)[s].rest \in Stream
    BY <2>1, <1>ReadTokenIs
  <2>3. PICK q : q = <<SP>> \o s
    OBVIOUS
  <2> q \in Stream /\ q # <<>> /\ q[1].k = "sp" /\ SkipSP[q] = s
    BY <2>3, SkipIs
  <2>5. m.st = "go" /\ m.v = v /\ m.rest = q /\ m.left = left /\ m \in Loops
    <3>1. m = [st |-> "go", v |-> v, rest |-> q, left |-> left]
      BY <2>1, <2>3 DEF Loop
    <3> QED BY <3>1, SMT DEF Loops
  <2> r \in Stream
    BY DEF Ends
  <2>7. PICK t : t = ReadToken(left)[s]
    OBVIOUS
  <2> Turn[m] = IF Len(v) > MaxCommandArgs THEN Loop("err", v, q, left)
                ELSE IF t.st # "ok" THEN Loop(t.st, v, t.rest, left)
                ELSE IF left < Cost(s) THEN Loop("err", v, t.rest, left)
                ELSE Loop("go", Append(v, t.v), t.rest, left - Cost(s))
    <3>1. q[1].k # "nl"
      OBVIOUS
    <3> QED BY <2>5, <2>7, <3>1 DEF Turn
  <2>9. ASSUME NEW z \in Stream PROVE Takes(Loop("err", v, z, left), Append(v, x), r, Fits(e, x))
    <3>1. Loop("err", v, z, left) \in Loops /\ Loop("err", v, z, left).st = "err"
      BY DEF Loop, Loops
    <3> QED BY <3>1 DEF Takes
  <2> CASE Len(v) > MaxCommandArgs
    BY <2>1, <2>9
  <2> CASE ~(Len(v) > MaxCommandArgs) /\ t.st = "err"
    <3>1. t.rest \in Stream
      BY <2>7, Results, SMT
    <3>2. t.st # "ok"
      OBVIOUS
    <3>3. Turn[m] = Loop("err", v, t.rest, left)
      BY <3>2
    <3> QED BY <2>1, <2>9, <3>1, <3>3
  <2> CASE ~(Len(v) > MaxCommandArgs) /\ t = Ok(x, r) /\ Fits(e, x)
    <3> t.st = "ok" /\ t.v = x /\ t.rest = r
      BY Results, SMT
    <3> CASE left < Cost(s)
      BY <2>1, <2>9
    <3> CASE ~(left < Cost(s))
      <4>1. PICK l \in Int : l = left - Cost(s)
        BY SMT
      <4> Turn[m] = Loop("go", Append(v, x), r, l)
        BY <4>1
      <4>3. Append(v, x) \in Seq(Texts) /\ "go" \in {"go", "ok", "err", "more"}
        BY SMT
      <4>4. Turn[m] \in Loops
        BY <4>3, <1>LoopType
      <4> QED BY <2>1, <4>4 DEF Takes
    <3> QED OBVIOUS
  <2> QED BY <2>7
\* The turn at the end of the line, and those after the last.
<1>TurnEnds. ASSUME NEW v \in Seq(Texts), NEW left \in Int, NEW r \in Stream
      PROVE  Turn[Loop("go", v, <<CRLF>> \o r, left)] = Loop("ok", v, r, left)
  <2>1. PICK q, m : q = <<CRLF>> \o r /\ m = Loop("go", v, <<CRLF>> \o r, left)
    OBVIOUS
  <2> q \in Stream /\ q # <<>> /\ q[1] = CRLF /\ Tail(q) = r
    BY <2>1, Marks, Kind
  <2>3. m.st = "go" /\ m.v = v /\ m.rest = q /\ m.left = left /\ m \in Loops
    <3>1. m = [st |-> "go", v |-> v, rest |-> q, left |-> left]
      BY <2>1 DEF Loop
    <3> QED BY <3>1, SMT DEF Loops
  <2> QED BY <2>1, <2>3, Marks DEF Turn
\* A loop that has ended stays as it is.
<1>TurnStays. ASSUME NEW m \in Loops, m.st # "go"
      PROVE  Turn[m] = m
  BY <1>TurnStays DEF Turn
\* The text of an empty literal is an argument too.
<1>Appends. ASSUME NEW v \in Seq(Texts) PROVE Append(v, Blank) \in Seq(Texts)
  BY Blanks, SMT
\* A loop that has come to the end of what was sent waits for more.
<1>TurnLacks. ASSUME NEW v \in Seq(Texts), NEW left \in Int
      PROVE  Turn[Loop("go", v, <<>>, left)] = Loop("more", v, <<>>, left)
  <2>1. PICK m : m = Loop("go", v, <<>>, left)
    OBVIOUS
  <2>2. m \in Loops /\ m.st = "go" /\ m.v = v /\ m.rest = <<>> /\ m.left = left
    BY <2>1, SMT DEF Loop, Loops, Stream
  <2>3. Turn[m] = Loop("more", m.v, m.rest, m.left)
    BY <2>2 DEF Turn
  <2> QED BY <2>1, <2>2, <2>3
\* After no more than three turns the loop has come to its end.
<1>Settles. ASSUME NEW m0, NEW m1, NEW m2, NEW m3, Turn[m0] = m1, Turn[m1] = m2, Turn[m2] = m3, Turn[m3] = m3,
             NEW N \in Nat, N >= 1
      PROVE  Turns(m0, N)[N] = IF N = 1 THEN m1 ELSE IF N = 2 THEN m2 ELSE m3
  <2> USE <1>Settles
  <2> DEFINE Body(f) == [i \in 0..N |-> IF i = 0 THEN m0 ELSE Turn[f[i - 1]]]
             At(i) == IF i = 0 THEN m0 ELSE IF i = 1 THEN m1 ELSE IF i = 2 THEN m2 ELSE m3
  <2>1. PICK g : g = [i \in 0..N |-> At(i)]
    OBVIOUS
  <2>2. g = Body(g)
    <3>1. ASSUME NEW i \in 0..N PROVE g[i] = IF i = 0 THEN m0 ELSE Turn[g[i - 1]]
      <4> CASE i = 0
        BY <2>1
      <4> CASE i # 0
        <5>1. i - 1 \in 0..N /\ g[i] = At(i) /\ g[i - 1] = At(i - 1)
          BY <2>1, SMT
        <5>2. At(i) = Turn[At(i - 1)]
          BY SMT
        <5> QED BY <5>1, <5>2
      <4> QED OBVIOUS
    <3> QED BY <2>1, <3>1
  <2>3. Turns(m0, N) = Body(Turns(m0, N))
    BY <2>2 DEF Turns
  <2>4. PICK f : f = Turns(m0, N)
    OBVIOUS
  <2>5. f = Body(f)
    BY <2>3, <2>4
  <2> f[0] = m0 /\ \A i \in 1..N : f[i] = Turn[f[i - 1]]
    BY <2>5, SMT
  <2>7. N \in {i \in Nat : i <= N => f[i] = At(i)}
    <3> DEFINE S == {i \in Nat : i <= N => f[i] = At(i)}
    <3>1. 0 \in S
      OBVIOUS
    <3>2. ASSUME NEW i \in Nat, i \in S PROVE i + 1 \in S
      <4> SUFFICES ASSUME i + 1 <= N PROVE f[i + 1] = At(i + 1)
        BY SMT
      <4>1. f[i + 1] = Turn[f[i]] /\ f[i] = At(i)
        BY <3>2, SMT
      <4> QED BY <4>1, SMT
    <3> HIDE DEF S
    <3>3. Nat \subseteq S
      BY <3>1, <3>2, Induct
    <3> QED BY <3>3 DEF S
  <2> QED BY <2>4, <2>7, SMT
\* In particular it has where three turns or more are allowed.
<1>SettlesLong. ASSUME NEW m0, NEW N \in Nat, N >= 3,
                       Turn[Turn[Turn[Turn[m0]]]] = Turn[Turn[Turn[m0]]]
      PROVE  Turns(m0, N)[N] = Turn[Turn[Turn[m0]]]
  <2>1. N >= 1 /\ N # 1 /\ N # 2
    BY <1>SettlesLong, SMT
  <2>2. Turns(m0, N)[N] = IF N = 1 THEN Turn[m0] ELSE IF N = 2 THEN Turn[Turn[m0]]
                          ELSE Turn[Turn[Turn[m0]]]
    BY <1>SettlesLong, <2>1, <1>Settles, SMT
  <2> QED BY <2>1, <2>2
\* ReadCommand on an atom and what follows it is the loop from that atom.
<1>CommandIs. ASSUME NEW a \in Texts, NEW t, Ends(t)
      PROVE  LET s == <<Atom(a)>> \o t
             IN  /\ Len(s) = Len(t) + 1
                 /\ ReadCommand(s) = Turns(Loop("go", <<a>>, t, MaxNonLiteralCommandLen - 1), Len(s))[Len(s)]
  <2> USE <1>CommandIs
  <2>1. PICK s : s = <<Atom(a)>> \o t
    OBVIOUS
  <2> s \in Stream /\ s[1].k = "atom" /\ Len(s) = Len(t) + 1
    <3>1. t \in Seq(Tokens)
      BY DEF Ends, Stream
    <3> Atom(a) \in Tokens /\ Atom(a).k = "atom"
      BY Spoken
    <3>3. s \in Seq(Tokens) /\ s[1] = Atom(a) /\ Len(s) = Len(t) + 1
      BY <2>1, <3>1, Cons
    <3> QED BY <3>3 DEF Stream
  <2>3. SkipSP[s] = s
    <3>1. s[1].k # "sp"
      OBVIOUS
    <3> QED BY <3>1, SkipIs
  <2>4. ReadAtom[s] = Ok(a, t)
    BY <2>1, ReadAtomIs
  <2>5. PICK n : n = ReadAtom[SkipSP[s]]
    OBVIOUS
  <2>6. n.st = "ok" /\ n.v = a /\ n.rest = t
    BY <2>3, <2>4, <2>5, Results, SMT
  <2>7. ReadCommand(s) = IF ReadAtom[SkipSP[s]].st # "ok" THEN ReadAtom[SkipSP[s]]
                         ELSE Turns(Loop("go", <<ReadAtom[SkipSP[s]].v>>, ReadAtom[SkipSP[s]].rest,
                                         MaxNonLiteralCommandLen - 1), Len(s))[Len(s)]
    BY DEF ReadCommand, Turns
  <2> QED BY <2>1, <2>5, <2>6, <2>7
\* Where the loop starts, it has taken the name.
<1>GoIs. ASSUME NEW v \in Seq(Texts), NEW r \in Stream, NEW l \in Int
      PROVE  Takes(Loop("go", v, r, l), v, r, TRUE)
  <2>1. Loop("go", v, r, l) \in Loops
    BY DEF Loop, Loops
  <2> QED BY <2>1 DEF Takes
\* The line end ends the loop with what it has taken.
<1>AfterEnd. ASSUME NEW v \in Seq(Texts), NEW t, NEW fits, Takes(t, v, <<CRLF>>, fits)
      PROVE  Turn[t] \in Loops /\ Turn[t].st # "go" /\ Obeys(Turn[t], v, fits) /\ Turn[Turn[t]] = Turn[t]
  <2> USE <1>AfterEnd
  <2> t \in Loops
    BY DEF Takes
  <2> CASE t.st = "err"
    <3> t.st # "go"
      OBVIOUS
    <3>2. Turn[t] = t
      BY <1>TurnStays
    <3> QED BY <3>2 DEF Obeys
  <2> CASE t.st # "err"
    <3>1. PICK l \in Int : fits /\ t = Loop("go", v, <<CRLF>>, l)
      BY DEF Takes
    <3> <<>> \in Stream /\ <<CRLF>> = <<CRLF>> \o <<>>
      <4>1. <<CRLF>> \in Seq(Tokens)
        BY Marks, SMT
      <4> QED BY <4>1, Nothing DEF Stream
    <3>3. Turn[t] = Loop("ok", v, <<>>, l)
      BY <3>1, <1>TurnEnds
    <3> Turn[t] \in Loops /\ Turn[t].st = "ok" /\ Turn[t].v = v /\ Turn[t].rest = <<>>
      BY <3>3, SMT DEF Loop, Loops
    <3>5. Turn[t].st # "go"
      OBVIOUS
    <3> QED BY <3>1, <3>5, <1>TurnStays DEF Obeys
  <2> QED OBVIOUS
\* One more argument is taken, or the loop has given up.
<1>AfterArgument. ASSUME NEW v \in Seq(Texts), NEW x \in Texts, NEW e, Encodes(e, x), NEW r, Ends(r), NEW t, NEW fits,
             Takes(t, v, <<SP>> \o (e \o r), fits)
      PROVE  Takes(Turn[t], Append(v, x), r, fits /\ Fits(e, x))
  <2> USE <1>AfterArgument
  <2> t \in Loops
    BY DEF Takes
  <2> CASE t.st = "err"
    <3>1. t.st # "go"
      OBVIOUS
    <3>2. Turn[t] = t
      BY <3>1, <1>TurnStays
    <3> QED BY <3>2 DEF Takes
  <2> CASE t.st # "err"
    <3>1. PICK l \in Int : fits /\ t = Loop("go", v, <<SP>> \o (e \o r), l)
      BY DEF Takes
    <3>2. Takes(Turn[t], Append(v, x), r, Fits(e, x))
      BY <3>1, <1>TurnTakes
    <3> QED BY <3>1, <3>2 DEF Takes
  <2> QED OBVIOUS
\* A literal of which only the header has come.
<1>AfterHeader. ASSUME NEW v \in Seq(Texts), NEW n \in Nat, NEW t, NEW fits,
             Takes(t, v, <<SP>> \o <<LiteralHeader(n)>>, fits)
      PROVE  LET u == Turn[Turn[t]] IN Lacks(u) /\ Turn[u] = u
  <2> USE <1>AfterHeader
  <2> t \in Loops
    BY DEF Takes
  <2> CASE t.st = "err"
    <3>1. t.st # "go"
      OBVIOUS
    <3>2. Turn[t] = t
      BY <3>1, <1>TurnStays
    <3> QED BY <3>2 DEF Lacks
  <2> CASE t.st # "err"
    <3>1. PICK l \in Int : t = Loop("go", v, <<SP>> \o <<LiteralHeader(n)>>, l)
      BY DEF Takes
    <3>2. PICK h, s, q : h = LiteralHeader(n) /\ s = <<LiteralHeader(n)>> /\ q = <<SP>> \o <<LiteralHeader(n)>>
      OBVIOUS
    <3> h \in Tokens /\ h.k = "lit" /\ h.n = n
      BY <3>2, Headers
    <3> s \in Stream /\ s # <<>> /\ s[1] = h /\ Tail(s) = <<>> /\ Len(s) = 1 /\ <<>> \in Stream
      BY <3>2, SMT DEF Stream
    <3> q \in Stream /\ q # <<>> /\ q[1].k = "sp" /\ SkipSP[q] = s
      BY <3>2, SkipIs
    <3>6. t.st = "go" /\ t.v = v /\ t.rest = q /\ t.left = l
      BY <3>1, <3>2 DEF Loop
    <3>7. PICK r : r = ReadToken(l)[s]
      OBVIOUS
    <3> <<CRLF>> \o <<>> \in Stream
      BY Marks, Kind
    <3>8. r = Err(<<CRLF>> \o <<>>) \/ r = More(s) \/ r = Ok(Blank, <<>>)
      <4>1. IsString(s)
        BY DEF IsString
      <4>2. r = ReadString(Within(l))[s]
        BY <3>7, <4>1 DEF ReadToken
      <4>3. h.k # "str"
        OBVIOUS
      <4>4. r = IF n > Within(l) THEN Err(<<CRLF>> \o <<>>)
                ELSE IF 1 <= n THEN More(s) ELSE Ok(Content[SubSeq(s, 2, n + 1)], Drop(s, n + 1))
        BY <4>2, <4>3 DEF ReadString
      <4>5. ~(1 <= n) => SubSeq(s, 2, n + 1) = <<>> /\ Drop(s, n + 1) = <<>>
        BY SMT DEF Drop, Stream
      <4>6. Content[<<>>] = Blank
        BY DEF Content
      <4> QED BY <4>4, <4>5, <4>6
    <3>18. (r.st # "ok" => r.st \in {"more", "err"}) /\ (r.st = "ok" => r = Ok(Blank, <<>>))
      BY <3>8, SMT DEF Ok, Err, More
    <3> Turn[t] = IF Len(v) > MaxCommandArgs THEN Loop("err", v, q, l)
                  ELSE IF r.st # "ok" THEN Loop(r.st, v, r.rest, l)
                  ELSE IF l < Cost(s) THEN Loop("err", v, r.rest, l)
                  ELSE Loop("go", Append(v, r.v), r.rest, l - Cost(s))
      <4>1. q[1].k # "nl"
        OBVIOUS
      <4> QED BY <3>6, <3>7, <4>1 DEF Turn
    <3> Cost(s) \in Int /\ r.rest \in Stream
      <4>1. Cost(s) = n
        BY DEF Cost
      <4> QED BY <3>8, <4>1, SMT DEF Ok, Err, More
    <3>11. ASSUME NEW w \in Loops, w.st \in {"more", "err"} PROVE Lacks(w) /\ Turn[w] = w
      <4>1. w.st # "go"
        BY <3>11
      <4> QED BY <3>11, <4>1, <1>TurnStays DEF Lacks
    <3>12. ASSUME NEW w \in Stream, NEW st \in {"more", "err"}
           PROVE  Loop(st, v, w, l) \in Loops /\ Loop(st, v, w, l).st = st
      BY DEF Loop, Loops
    <3> CASE \E st \in {"more", "err"}, w \in Stream : Turn[t] = Loop(st, v, w, l)
      <4>1. Turn[t] \in Loops /\ Turn[t].st \in {"more", "err"}
        BY <3>12
      <4>2. Lacks(Turn[t]) /\ Turn[Turn[t]] = Turn[t]
        BY <3>11, <4>1
      <4> QED BY <4>2
    <3> CASE r = Ok(Blank, <<>>) /\ Turn[t] = Loop("go", Append(v, r.v), r.rest, l - Cost(s))
      <4>1. PICK ws, k : ws = Append(v, Blank) /\ k = l - Cost(s)
        OBVIOUS
      <4>2. r.v = Blank /\ r.rest = <<>>
        BY DEF Ok
      <4>3. Turn[t] = Loop("go", ws, <<>>, k)
        BY <4>1, <4>2
      <4>4. ws \in Seq(Texts) /\ k \in Int
        <5>1. ws \in Seq(Texts)
          BY <4>1, <1>Appends
        <5>2. k \in Int
          BY <4>1, SMT
        <5> QED BY <5>1, <5>2
      <4>5. Turn[Turn[t]] = Loop("more", ws, <<>>, k)
        BY <4>3, <4>4, <1>TurnLacks
      <4>6. Loop("more", ws, <<>>, k) \in Loops /\ Loop("more", ws, <<>>, k).st = "more"
        BY <4>4 DEF Loop, Loops
      <4> QED BY <3>11, <4>5, <4>6
    <3>15. \/ \E st \in {"more", "err"}, w \in Stream : Turn[t] = Loop(st, v, w, l)
           \/ r = Ok(Blank, <<>>) /\ Turn[t] = Loop("go", Append(v, r.v), r.rest, l - Cost(s))
      <4> CASE Len(v) > MaxCommandArgs
        OBVIOUS
      <4> CASE ~(Len(v) > MaxCommandArgs) /\ r.st # "ok"
        <5>1. r.st \in {"more", "err"}
          BY <3>18
        <5> QED BY <5>1
      <4> CASE ~(Len(v) > MaxCommandArgs) /\ r.st = "ok"
        <5>1. r = Ok(Blank, <<>>)
          BY <3>18
        <5> QED BY <5>1
      <4> QED OBVIOUS
    <3> QED BY <3>15
  <2> QED OBVIOUS
\* A space, an argument and what follows.
<1>ArgumentIs. ASSUME NEW x \in Texts, NEW e, Encodes(e, x), NEW r \in Stream
      PROVE  Ends(<<SP>> \o (e \o r)) /\ Len(<<SP>> \o (e \o r)) = Len(e) + Len(r) + 1 /\ Len(e) >= 1 /\ Len(e) \in Nat
  <2> USE <1>ArgumentIs
  <2> e \in Seq(Tokens) /\ Len(e) >= 1
    BY EncodesIs DEF Stream
  <2> r \in Seq(Tokens) /\ e \o r \in Seq(Tokens) /\ Len(e \o r) = Len(e) + Len(r) /\ Len(e) \in Nat /\ Len(r) \in Nat
    BY SMT DEF Stream
  <2>3. Len(<<SP>> \o (e \o r)) = Len(e \o r) + 1
    BY Marks, Cons, SMT
  <2>4. Ends(<<SP>> \o (e \o r))
    BY SkipIs DEF Ends, Stream
  <2> QED BY <2>3, <2>4
\* There are at least as many tokens as turns are needed.
<1>Long. ASSUME NEW x \in Texts, NEW e, Encodes(e, x), NEW r, Ends(r)
      PROVE  LET t == <<SP>> \o (e \o r) IN Ends(t) /\ Len(t) >= 3 /\ Len(t) \in Nat
  <2> USE <1>Long
  <2> r \in Stream /\ r \in Seq(Tokens) /\ r # <<>>
    BY DEF Ends, Stream
  <2>2. Len(r) \in Nat /\ Len(r) >= 1
    BY SMT
  <2>3. PICK t : t = <<SP>> \o (e \o r)
    OBVIOUS
  <2> Ends(t) /\ Len(t) = Len(e) + Len(r) + 1 /\ Len(e) >= 1 /\ Len(e) \in Nat
    BY <2>3, <1>ArgumentIs
  <2>5. Len(t) >= 3 /\ Len(t) \in Nat
    BY <2>2, SMT
  <2> QED BY <2>3, <2>5
\* The name of a command and its arguments, one by one.
<1>Grows. ASSUME NEW a \in Texts, NEW x \in Texts, NEW y \in Texts
      PROVE  /\ <<a>> \in Seq(Texts) /\ <<a, x>> \in Seq(Texts) /\ <<a, x, y>> \in Seq(Texts)
             /\ Append(<<a>>, x) = <<a, x>> /\ Append(<<a, x>>, y) = <<a, x, y>>
  <2> <<a>> \in Seq(Texts) /\ <<a, x>> \in Seq(Texts) /\ <<a, x, y>> \in Seq(Texts)
    BY SMT
  <2> Append(<<a>>, x) \in Seq(Texts) /\ Append(<<a, x>>, y) \in Seq(Texts)
    BY SMT
  <2>3. Len(Append(<<a>>, x)) = 2 /\ \A i \in 1..2 : Append(<<a>>, x)[i] = <<a, x>>[i]
    BY SMT
  <2>4. Len(Append(<<a, x>>, y)) = 3 /\ \A i \in 1..3 : Append(<<a, x>>, y)[i] = <<a, x, y>>[i]
    BY SMT
  <2>5. Append(<<a>>, x) = <<a, x>>
    BY <2>3, Same
  <2>6. Append(<<a, x>>, y) = <<a, x, y>>
    BY <2>4, Same
  <2> QED BY <2>5, <2>6
\* What the loop may take at first is an integer.
<1> MaxNonLiteralCommandLen - 1 \in Int
  BY ProtocolAssumption, SMT
\* A command without arguments is read as it was written, unless a limit
\* refuses it.
<1>Command0Is. ASSUME NEW a \in Texts
      PROVE  Obeys(ReadCommand(<<Atom(a)>> \o <<CRLF>>), <<a>>, TRUE)
  <2>1. PICK s, m : s = <<Atom(a)>> \o <<CRLF>> /\ m = Loop("go", <<a>>, <<CRLF>>, MaxNonLiteralCommandLen - 1)
    OBVIOUS
  <2>2. Len(s) = 2 /\ ReadCommand(s) = Turns(m, Len(s))[Len(s)]
    <3>1. Len(s) = Len(<<CRLF>>) + 1 /\ ReadCommand(s) = Turns(m, Len(s))[Len(s)]
      BY <2>1, LineEnd, <1>CommandIs
    <3> QED BY <3>1, LineEnd, SMT
  <2> <<a>> \in Seq(Texts) /\ <<CRLF>> \in Stream
    BY LineEnd, SMT DEF Ends
  <2>4. Takes(m, <<a>>, <<CRLF>>, TRUE)
    BY <2>1, <1>GoIs
  <2> Obeys(Turn[m], <<a>>, TRUE) /\ Turn[Turn[m]] = Turn[m]
    BY <2>4, <1>AfterEnd
  <2>6. Turns(m, 2)[2] = Turn[m]
    BY <1>Settles, SMT
  <2> QED BY <2>1, <2>2, <2>6
\* A command with one argument is read as it was written, or refused; it is
\* not taken if its literal is too long.
<1>Command1Is. ASSUME NEW a \in Texts, NEW x \in Texts, NEW e, Encodes(e, x)
      PROVE  Obeys(ReadCommand(<<Atom(a)>> \o (<<SP>> \o (e \o <<CRLF>>))), <<a, x>>, Fits(e, x))
  <2> USE <1>Command1Is
  <2>1. PICK t : t = <<SP>> \o (e \o <<CRLF>>)
    OBVIOUS
  <2>2. PICK s, m : s = <<Atom(a)>> \o t /\ m = Loop("go", <<a>>, t, MaxNonLiteralCommandLen - 1)
    OBVIOUS
  <2> Ends(t) /\ Len(t) >= 3 /\ Len(t) \in Nat
    BY <2>1, LineEnd, <1>Long
  <2> Len(s) = Len(t) + 1 /\ ReadCommand(s) = Turns(m, Len(s))[Len(s)]
    BY <2>2, <1>CommandIs
  <2> <<a>> \in Seq(Texts) /\ <<a, x>> \in Seq(Texts) /\ Append(<<a>>, x) = <<a, x>>
    BY <1>Grows
  <2>6. Takes(m, <<a>>, t, TRUE)
    BY <2>2, <1>GoIs DEF Ends
  <2>7. Takes(Turn[m], <<a, x>>, <<CRLF>>, TRUE /\ Fits(e, x))
    BY <2>1, <2>6, LineEnd, <1>AfterArgument
  <2>8. PICK m1, m2 : m1 = Turn[m] /\ m2 = Turn[m1]
    OBVIOUS
  <2> Obeys(m2, <<a, x>>, TRUE /\ Fits(e, x)) /\ Turn[m2] = m2
    BY <2>7, <2>8, <1>AfterEnd
  <2>10. Turns(m, Len(s))[Len(s)] = m2
    <3>1. Len(s) \in Nat /\ Len(s) >= 3
      BY SMT
    <3>2. Turn[Turn[Turn[m]]] = m2 /\ Turn[Turn[Turn[Turn[m]]]] = m2
      BY <2>8
    <3> QED BY <3>1, <3>2, <1>SettlesLong
  <2>11. Obeys(m2, <<a, x>>, Fits(e, x))
    BY DEF Obeys
  <2> QED BY <2>1, <2>2, <2>10, <2>11
\* The same with two arguments.
<1>Command2Is. ASSUME NEW a \in Texts, NEW x \in Texts, NEW e, Encodes(e, x), NEW y \in Texts, NEW d, Encodes(d, y)
      PROVE  Obeys(ReadCommand(<<Atom(a)>> \o (<<SP>> \o (e \o (<<SP>> \o (d \o <<CRLF>>))))), <<a, x, y>>, Fits(d, y))
  <2> USE <1>Command2Is
  <2>1. PICK u, t : u = <<SP>> \o (d \o <<CRLF>>) /\ t = <<SP>> \o (e \o (<<SP>> \o (d \o <<CRLF>>)))
    OBVIOUS
  <2>2. PICK s, m : s = <<Atom(a)>> \o t /\ m = Loop("go", <<a>>, t, MaxNonLiteralCommandLen - 1)
    OBVIOUS
  <2> Ends(u) /\ Len(u) >= 3 /\ Len(u) \in Nat
    BY <2>1, LineEnd, <1>Long
  <2> Ends(t) /\ Len(t) >= 3 /\ Len(t) \in Nat
    BY <2>1, <1>Long
  <2> Len(s) = Len(t) + 1 /\ ReadCommand(s) = Turns(m, Len(s))[Len(s)]
    BY <2>2, <1>CommandIs
  <2> /\ <<a>> \in Seq(Texts) /\ <<a, x>> \in Seq(Texts) /\ Append(<<a>>, x) = <<a, x>>
      /\ <<a, x, y>> \in Seq(Texts) /\ Append(<<a, x>>, y) = <<a, x, y>>
    BY <1>Grows
  <2>7. Takes(m, <<a>>, t, TRUE)
    BY <2>2, <1>GoIs DEF Ends
  <2>8. PICK m1, m2, m3 : m1 = Turn[m] /\ m2 = Turn[m1] /\ m3 = Turn[m2]
    OBVIOUS
  <2>9. Takes(m1, <<a, x>>, u, TRUE /\ Fits(e, x))
    BY <2>1, <2>7, <2>8, <1>AfterArgument
  <2>10. Takes(m2, <<a, x, y>>, <<CRLF>>, (TRUE /\ Fits(e, x)) /\ Fits(d, y))
    <3>1. Takes(m1, <<a, x>>, <<SP>> \o (d \o <<CRLF>>), TRUE /\ Fits(e, x))
      BY <2>1, <2>9
    <3>2. Takes(Turn[m1], Append(<<a, x>>, y), <<CRLF>>, (TRUE /\ Fits(e, x)) /\ Fits(d, y))
      BY <3>1, LineEnd, <1>AfterArgument
    <3> QED BY <2>8, <3>2
  <2> Obeys(m3, <<a, x, y>>, (TRUE /\ Fits(e, x)) /\ Fits(d, y)) /\ Turn[m3] = m3
    BY <2>8, <2>10, <1>AfterEnd
  <2>12. Turns(m, Len(s))[Len(s)] = m3
    <3>1. Len(s) \in Nat /\ Len(s) >= 3
      BY SMT
    <3>2. Turn[Turn[Turn[m]]] = m3 /\ Turn[Turn[Turn[Turn[m]]]] = m3
      BY <2>8
    <3> QED BY <3>1, <3>2, <1>SettlesLong
  <2>13. Obeys(m3, <<a, x, y>>, Fits(d, y))
    BY DEF Obeys
  <2> QED BY <2>1, <2>2, <2>12, <2>13
\* Commands that stop after the header of a literal.
<1>Prefix0Is. ASSUME NEW a \in Texts, NEW n \in Nat
      PROVE  Lacks(ReadCommand(<<Atom(a)>> \o (<<SP>> \o <<LiteralHeader(n)>>)))
  <2>1. PICK t : t = <<SP>> \o <<LiteralHeader(n)>>
    OBVIOUS
  <2>2. PICK s, m : s = <<Atom(a)>> \o t /\ m = Loop("go", <<a>>, t, MaxNonLiteralCommandLen - 1)
    OBVIOUS
  <2> Ends(t) /\ Len(t) = 2
    <3> <<LiteralHeader(n)>> \in Seq(Tokens) /\ Len(<<LiteralHeader(n)>>) = 1
      BY Headers, SMT
    <3>2. Len(t) = 2
      BY <2>1, Marks, Cons, SMT
    <3> QED BY <2>1, <3>2, SkipIs DEF Ends, Stream
  <2> Len(s) = Len(t) + 1 /\ ReadCommand(s) = Turns(m, Len(s))[Len(s)]
    BY <2>2, <1>CommandIs
  <2> <<a>> \in Seq(Texts)
    BY SMT
  <2>6. Takes(m, <<a>>, t, TRUE)
    BY <2>2, <1>GoIs DEF Ends
  <2>7. PICK m1, m2 : m1 = Turn[m] /\ m2 = Turn[m1]
    OBVIOUS
  <2> Lacks(m2) /\ Turn[m2] = m2
    BY <2>1, <2>6, <2>7, <1>AfterHeader
  <2>9. Turns(m, Len(s))[Len(s)] = m2
    BY <2>7, <1>Settles, SMT
  <2> QED BY <2>1, <2>2, <2>9
\* A header that follows one argument is not a command yet.
<1>Prefix1Is. ASSUME NEW a \in Texts, NEW x \in Texts, NEW e, Encodes(e, x), NEW n \in Nat
      PROVE  Lacks(ReadCommand(<<Atom(a)>> \o (<<SP>> \o (e \o (<<SP>> \o <<LiteralHeader(n)>>)))))
  <2> USE <1>Prefix1Is
  <2>1. PICK u, t : u = <<SP>> \o <<LiteralHeader(n)>> /\ t = <<SP>> \o (e \o (<<SP>> \o <<LiteralHeader(n)>>))
    OBVIOUS
  <2>2. PICK s, m : s = <<Atom(a)>> \o t /\ m = Loop("go", <<a>>, t, MaxNonLiteralCommandLen - 1)
    OBVIOUS
  <2> Ends(u) /\ Len(u) = 2
    <3> <<LiteralHeader(n)>> \in Seq(Tokens) /\ Len(<<LiteralHeader(n)>>) = 1
      BY Headers, SMT
    <3>2. Len(u) = 2
      BY <2>1, Marks, Cons, SMT
    <3> QED BY <2>1, <3>2, SkipIs DEF Ends, Stream
  <2> Ends(t) /\ Len(t) >= 3 /\ Len(t) \in Nat
    BY <2>1, <1>Long
  <2> Len(s) = Len(t) + 1 /\ ReadCommand(s) = Turns(m, Len(s))[Len(s)]
    BY <2>2, <1>CommandIs
  <2> <<a>> \in Seq(Texts) /\ <<a, x>> \in Seq(Texts) /\ Append(<<a>>, x) = <<a, x>>
    BY <1>Grows
  <2>7. Takes(m, <<a>>, t, TRUE)
    BY <2>2, <1>GoIs DEF Ends
  <2>8. PICK m1, m2, m3 : m1 = Turn[m] /\ m2 = Turn[m1] /\ m3 = Turn[m2]
    OBVIOUS
  <2>9. Takes(m1, <<a, x>>, u, TRUE /\ Fits(e, x))
    BY <2>1, <2>7, <2>8, <1>AfterArgument
  <2> Lacks(m3) /\ Turn[m3] = m3
    BY <2>1, <2>8, <2>9, <1>AfterHeader
  <2>11. Turns(m, Len(s))[Len(s)] = m3
    <3>1. Len(s) \in Nat /\ Len(s) >= 3
      BY SMT
    <3>2. Turn[Turn[Turn[m]]] = m3 /\ Turn[Turn[Turn[Turn[m]]]] = m3
      BY <2>8
    <3> QED BY <3>1, <3>2, <1>SettlesLong
  <2> QED BY <2>1, <2>2, <2>11
<1> QED BY <1>Command0Is, <1>Command1Is, <1>Command2Is, <1>Prefix0Is, <1>Prefix1Is

(* A command without arguments is read as it was written, unless a limit    *)
(* refuses it.                                                              *)
LEMMA Command0 ==
  ASSUME NEW a \in Texts
  PROVE  Obeys(ReadCommand(<<Atom(a)>> \o <<CRLF>>), <<a>>, TRUE)
BY ReadsCommands

(* A command with one argument is read as it was written, or refused; it is *)
(* not taken if its literal is too long.                                    *)
LEMMA Command1 ==
  ASSUME NEW a \in Texts, NEW x \in Texts, NEW e, Encodes(e, x)
  PROVE  Obeys(ReadCommand(<<Atom(a)>> \o (<<SP>> \o (e \o <<CRLF>>))), <<a, x>>, Fits(e, x))
BY ReadsCommands

(* The same with two arguments.                                             *)
LEMMA Command2 ==
  ASSUME NEW a \in Texts, NEW x \in Texts, NEW e, Encodes(e, x), NEW y \in Texts, NEW d, Encodes(d, y)
  PROVE  Obeys(ReadCommand(<<Atom(a)>> \o (<<SP>> \o (e \o (<<SP>> \o (d \o <<CRLF>>))))), <<a, x, y>>, Fits(d, y))
BY ReadsCommands

(* Commands that stop after the header of a literal.                        *)
LEMMA Prefix0 ==
  ASSUME NEW a \in Texts, NEW n \in Nat
  PROVE  Lacks(ReadCommand(<<Atom(a)>> \o (<<SP>> \o <<LiteralHeader(n)>>)))
BY ReadsCommands

(* A header that follows one argument is not a command yet.                 *)
LEMMA Prefix1 ==
  ASSUME NEW a \in Texts, NEW x \in Texts, NEW e, Encodes(e, x), NEW n \in Nat
  PROVE  Lacks(ReadCommand(<<Atom(a)>> \o (<<SP>> \o (e \o (<<SP>> \o <<LiteralHeader(n)>>)))))
BY ReadsCommands

-----------------------------------------------------------------------------

(* What the client makes of a reply.                                        *)

(* A status was read, and nothing follows it.                               *)
Tells(r, type, code) ==
  r.st = "ok" /\ r.rest = <<>> /\ r.v.k = "status" /\ r.v.v = type /\ r.v.n = code

(* A line that starts with the string n was read.                           *)
NamesLine(r, n, more, rest) ==
  r.st = "ok" /\ r.rest = rest /\ r.v.k = "item" /\ r.v.v = n /\ r.v.n = more

(* A status line is read as the status it is, by every read that may meet   *)
(* one.                                                                     *)
LEMMA StatusRead ==
  ASSUME NEW type \in {"OK", "NO", "BYE"}, NEW code \in {0, 1}
  PROVE  LET s == Status(type, code)
         IN  /\ s \in Stream /\ s # <<>> /\ ~IsString(s)
             /\ Tells(ReadStatusLine(s), type, code)
             /\ Tells(ReadCapabilityOrStatus(s), type, code)
             /\ Tells(ReadScriptOrStatus(s), type, code)
<1>1. PICK t : t = Token("status", type, code)
  OBVIOUS
<1>2. type \in Texts /\ "status" \in Kinds /\ code \in Nat
  BY ProtocolAssumption, SMT DEF Keywords, Kinds
<1> t \in Tokens /\ t.k = "status" /\ t.v = type /\ t.n = code
  BY <1>1, <1>2, TokenIs, SMT
<1>4. PICK s : s = <<t>>
  OBVIOUS
<1> s \in Stream /\ s # <<>> /\ s[1] = t /\ Tail(s) = <<>>
  BY <1>4, SMT DEF Stream
<1> ~IsString(s)
  BY DEF IsString
<1> ReadStatusLine(s) = Ok(t, <<>>)
  BY DEF ReadStatusLine
<1>8. ReadCapabilityOrStatus(s) = Ok(t, <<>>) /\ ReadScriptOrStatus(s) = Ok(t, <<>>)
  BY DEF ReadCapabilityOrStatus, ReadScriptOrStatus
<1>9. Tells(Ok(t, <<>>), type, code)
  BY DEF Tells, Ok
<1>10. s = Status(type, code)
  BY <1>1, <1>4 DEF Status
<1> QED BY <1>8, <1>9, <1>10

(* On an empty stream every read waits for more.                            *)
LEMMA EmptyRead ==
  /\ <<>> \in Stream /\ ~IsString(<<>>)
  /\ ReadStatusLine(<<>>).st = "more"
  /\ ReadCapabilityOrStatus(<<>>).st = "more"
  /\ ReadScriptOrStatus(<<>>).st = "more"
  /\ ReadCommand(<<>>).st = "more"
  /\ ExpectCRLF(ReadString(MaxLiteralBytes)[<<>>]).st = "more"
<1>1. PICK s : s = <<>>
  OBVIOUS
<1> s \in Stream /\ Len(s) = 0
  BY <1>1, SMT DEF Stream
<1> More(s).st = "more" /\ More(s).st # "ok"
  BY DEF More
<1>4. ~IsString(s)
  BY <1>1 DEF IsString
<1>5. ReadStatusLine(s) = More(s) /\ ReadCapabilityOrStatus(s) = More(s) /\ ReadScriptOrStatus(s) = More(s)
  BY <1>1 DEF ReadStatusLine, ReadCapabilityOrStatus, ReadScriptOrStatus
<1>6. ReadString(MaxLiteralBytes)[s] = More(s)
  BY <1>1 DEF ReadString
<1>7. ExpectCRLF(ReadString(MaxLiteralBytes)[s]) = More(s)
  BY <1>6 DEF ExpectCRLF
<1>8. SkipSP[s] = s
  BY <1>1, SkipIs
<1>9. AtomLength[s] = 0
  <2>1. AtomLength[s] = CHOOSE n \in 0..Len(s) : /\ \A i \in 1..n : s[i].k \in {"atom", "byte"}
                                                 /\ n < Len(s) => s[n + 1].k \notin {"atom", "byte"}
    BY DEF AtomLength
  <2>2. /\ 0 \in 0..Len(s) /\ \A i \in 1..0 : s[i].k \in {"atom", "byte"}
        /\ 0 < Len(s) => s[0 + 1].k \notin {"atom", "byte"}
        /\ \A n \in 0..Len(s) : n = 0
    BY SMT
  <2> QED BY <2>1, <2>2
<1>10. ReadAtom[s] = More(s)
  BY <1>9 DEF ReadAtom
<1>11. ReadCommand(s) = More(s)
  BY <1>8, <1>10 DEF ReadCommand
<1> QED BY <1>1, <1>4, <1>5, <1>7, <1>11

(* A string is quoted or a literal.                                         *)
LEMMA StringIs ==
  ASSUME NEW v \in Texts
  PROVE  String(v) \in Stream /\ Encodes(String(v), v)
<1>1. String(v) = Literal(v) \/ String(v) = <<Quoted(v)>>
  BY DEF String, Literal
<1>2. Encodes(String(v), v)
  BY <1>1 DEF Encodes
<1> QED BY <1>2, EncodesIs

(* Streams put together in either order, and three tokens one at a time.    *)
Regroup(a, b, c) == (a \o b) \o c = a \o (b \o c)
RegroupTwice(a, b, c, d) == (a \o (b \o c)) \o d = a \o (b \o (c \o d))
Spell3(a, b, c, r) == <<a, b, c>> \o r = <<a>> \o (<<b>> \o (<<c>> \o r))

(* Two streams put together are one.                                        *)
LEMMA Joined ==
  ASSUME NEW a \in Stream, NEW b \in Stream
  PROVE  a \o b \in Stream
BY SMT DEF Stream

(* Three streams are the same one in either order.                          *)
LEMMA Regrouped ==
  ASSUME NEW a \in Stream, NEW b \in Stream, NEW c \in Stream
  PROVE  Regroup(a, b, c)
<1>1. a \in Seq(Tokens) /\ b \in Seq(Tokens) /\ c \in Seq(Tokens)
  BY DEF Stream
<1>2. (a \o b) \o c = a \o (b \o c)
  BY <1>1, Assoc, SMT
<1> QED BY <1>2 DEF Regroup

(* And so are four streams.                                                 *)
LEMMA RegroupedTwice ==
  ASSUME NEW a \in Stream, NEW b \in Stream, NEW c \in Stream, NEW d \in Stream
  PROVE  RegroupTwice(a, b, c, d)
<1>1. PICK x, y : x = b \o c /\ y = c \o d
  OBVIOUS
<1>2. x \in Stream /\ y \in Stream
  BY <1>1, Joined
<1>4. Regroup(b, c, d) /\ Regroup(a, x, d)
  BY <1>2, Regrouped
<1>5. x \o d = b \o y
  BY <1>1, <1>4 DEF Regroup
<1>6. (a \o x) \o d = a \o (x \o d)
  BY <1>4 DEF Regroup
<1> QED BY <1>1, <1>5, <1>6 DEF RegroupTwice

(* Three tokens before a stream, one at a time.                             *)
LEMMA Spelled3 ==
  ASSUME NEW a \in Tokens, NEW b \in Tokens, NEW c \in Tokens, NEW r \in Stream
  PROVE  <<a, b, c>> \in Stream /\ Spell3(a, b, c, r)
<1> r \in Seq(Tokens)
  BY DEF Stream
<1>1. PICK s, t : s = <<a, b, c>> \o r /\ t = <<a>> \o (<<b>> \o (<<c>> \o r))
  OBVIOUS
<1>2. <<a, b, c>> \in Stream
  BY SMT DEF Stream
<1> /\ s \in Seq(Tokens) /\ t \in Seq(Tokens) /\ Len(s) = Len(r) + 3 /\ Len(t) = Len(r) + 3
    /\ Len(r) \in Nat
  BY <1>1, SMT
<1>3. ASSUME NEW i \in 1..Len(s) PROVE s[i] = t[i]
  <2> CASE i = 1
    BY <1>1, SMT
  <2> CASE i = 2
    BY <1>1, SMT
  <2> CASE i = 3
    BY <1>1, SMT
  <2> CASE i > 3
    BY <1>1, SMT
  <2> QED BY SMT
<1> QED BY <1>1, <1>2, <1>3, Same DEF Spell3

(* A string within a limit on literals.                                     *)
Small(v, limit) == v \in Unquotable => Length[v] <= limit

(* readString gets back a string that keeps to its limit.                   *)
LEMMA StringRead ==
  ASSUME NEW v \in Texts, NEW r \in Stream, NEW limit \in Int, Small(v, limit)
  PROVE  LET s == String(v) \o r
         IN  s \in Stream /\ s # <<>> /\ IsString(s) /\ ReadString(limit)[s] = Ok(v, r)
<1>1. PICK s : s = String(v) \o r
  OBVIOUS
<1>2. s \in Stream /\ IsString(s) /\ ReadString(limit)[s] = Ok(v, r)
  <2> CASE v \in Unquotable
    <3>1. s = (<<LiteralHeader(Length[v])>> \o Bytes(v)) \o r
      BY <1>1 DEF String
    <3>2. ~(Length[v] > limit)
      <4>1. Length[v] \in Nat
        BY TextIs
      <4> QED BY <4>1, SMT DEF Small
    <3> QED BY <3>1, <3>2, ReadLiteral
  <2> CASE v \notin Unquotable
    <3>1. s = <<Quoted(v)>> \o r
      BY <1>1 DEF String
    <3> QED BY <3>1, ReadQuoted
  <2> QED OBVIOUS
<1>3. s # <<>>
  BY <1>2 DEF IsString
<1> QED BY <1>1, <1>2, <1>3

(* A string over the client's limit is seen at its header.                  *)
LEMMA LargeRead ==
  ASSUME NEW v \in Texts, NEW r \in Stream, ~Small(v, ClientMaxLiteralBytes)
  PROVE  String(v) \o r \in Stream /\ TooLarge(String(v) \o r)
<1>1. PICK h, b : h = LiteralHeader(Length[v]) /\ b = Bytes(v)
  OBVIOUS
<1>2. Length[v] \in Nat
  BY TextIs
<1>3. h \in Tokens /\ h.k = "lit" /\ h.n = Length[v] /\ b \in Stream
  BY <1>1, <1>2, Headers, ByteIs
<1>4. v \in Unquotable /\ Length[v] > ClientMaxLiteralBytes
  BY <1>2, ProtocolAssumption, SMT DEF Small
<1>5. PICK s : s = String(v) \o r
  OBVIOUS
<1>6. <<h>> \in Stream
  BY <1>3, SMT DEF Stream
<1>7. s = <<h>> \o (b \o r) /\ b \o r \in Stream
  <2>1. s = (<<h>> \o b) \o r
    BY <1>1, <1>4, <1>5 DEF String
  <2>2. Regroup(<<h>>, b, r) /\ b \o r \in Stream
    BY <1>3, <1>6, Joined, Regrouped
  <2> QED BY <2>1, <2>2 DEF Regroup
<1>8. s \in Stream /\ s # <<>> /\ s[1] = h
  BY <1>3, <1>7, Kind
<1>9. TooLarge(s)
  BY <1>3, <1>4, <1>8 DEF TooLarge
<1> QED BY <1>5, <1>8, <1>9

(* A line with nothing after its name.                                      *)
LEMMA NameAlone ==
  ASSUME NEW n, NEW r \in Stream, NEW s \in Stream, IsString(s), ReadReply(s) = Ok(n, <<CRLF>> \o r)
  PROVE  /\ NamesLine(ReadCapabilityOrStatus(s), n, 0, r)
         /\ NamesLine(ReadScriptOrStatus(s), n, 0, r)
<1>1. PICK t : t = <<CRLF>> \o r
  OBVIOUS
<1> t \in Stream /\ t # <<>> /\ t[1] = CRLF /\ Tail(t) = r
  BY <1>1, Marks, Kind
<1> s # <<>>
  BY DEF IsString
<1>6. PICK m : m = Ok(n, t)
  OBVIOUS
<1> m.st = "ok" /\ m.v = n /\ m.rest = t
  BY <1>6, Results, SMT
<1> t[1].k = "nl" /\ t[1].k # "sp"
  BY Marks
<1> ExpectCRLF(m) = Ok(n, r)
  BY DEF ExpectCRLF
<1>10. PICK l : l = Ok(n, r)
  OBVIOUS
<1> l.st = "ok" /\ l.rest = r
  BY <1>10, Results, SMT
<1> ReadReply(s) = m
  BY <1>1, <1>6
<1>12. ReadCapabilityOrStatus(s) = Ok(Item(n, 0), r)
  BY <1>10 DEF ReadCapabilityOrStatus
<1>13. ReadScriptOrStatus(s) = Ok(Item(n, 0), r)
  BY <1>10 DEF ReadScriptOrStatus
<1>14. NamesLine(Ok(Item(n, 0), r), n, 0, r)
  BY DEF NamesLine, Ok, Item, Token
<1> QED BY <1>12, <1>13, <1>14

(* A capability with a value, and the active script: a name, a space and    *)
(* something that is read at u.                                             *)
LEMMA NameAndMore ==
  ASSUME NEW n, NEW v, NEW r \in Stream, NEW u \in Stream, NEW s \in Stream, IsString(s),
         ReadReply(s) = Ok(n, <<SP>> \o u)
  PROVE  /\ ReadReply(u) = Ok(v, <<CRLF>> \o r) => NamesLine(ReadCapabilityOrStatus(s), n, 1, r)
         /\ ReadAtom[u] = Ok(v, <<CRLF>> \o r) => NamesLine(ReadScriptOrStatus(s), n, 1, r)
<1>1. PICK t, w : t = <<SP>> \o u /\ w = <<CRLF>> \o r
  OBVIOUS
<1> w \in Stream /\ w # <<>> /\ w[1] = CRLF /\ Tail(w) = r
  BY <1>1, Marks, Kind
<1> t \in Stream /\ t # <<>> /\ t[1].k = "sp" /\ SkipSP[t] = u
  BY <1>1, SkipIs
<1> s # <<>>
  BY DEF IsString
<1>8. PICK m, x, l : m = Ok(n, t) /\ x = Ok(v, w) /\ l = Ok(v, r)
  OBVIOUS
<1> /\ m.st = "ok" /\ m.v = n /\ m.rest = t /\ x.st = "ok" /\ x.v = v /\ x.rest = w
    /\ l.st = "ok" /\ l.rest = r
  BY <1>8 DEF Ok
<1>10. ExpectCRLF(x) = l
  BY <1>8, Marks DEF ExpectCRLF
<1> ReadReply(s) = m
  BY <1>1, <1>8
<1>11. ReadReply(u) = x => ReadCapabilityOrStatus(s) = Ok(Item(n, 1), r)
  BY <1>10 DEF ReadCapabilityOrStatus
<1>12. ReadAtom[u] = x => ReadScriptOrStatus(s) = Ok(Item(n, 1), r)
  BY <1>10 DEF ReadScriptOrStatus
<1>13. NamesLine(Ok(Item(n, 1), r), n, 1, r)
  BY DEF NamesLine, Ok, Item, Token
<1> QED BY <1>1, <1>8, <1>11, <1>12, <1>13

-----------------------------------------------------------------------------

(* A capability response, or what is left of one after some of its lines.   *)
Announces(s, code) == \E d, a, t \in BOOLEAN : s = CapabilityLines(d, a, t, code)

(* The words of the protocol, names and scripts are texts.                  *)
LEMMA WordsAre ==
  /\ \A v \in Keywords : v \in Texts
  /\ \A v \in Names \cup Contents \cup {NoName, Blank} : v \in Texts
BY ProtocolAssumption

(* The words in them are texts.                                             *)
LEMMA CapabilityWords == "SIEVE" \in Texts /\ "SASL" \in Texts /\ "STARTTLS" \in Texts /\ "value" \in Texts
<1>1. "SIEVE" \in Keywords /\ "SASL" \in Keywords /\ "STARTTLS" \in Keywords /\ "value" \in Keywords
  BY DEF Keywords
<1> QED BY <1>1, WordsAre

(* A line of capabilities is read as its name, whatever follows it.         *)
LEMMA CapabilityRead ==
  ASSUME NEW r \in Stream
  PROVE  /\ CapabilityLine("SIEVE", TRUE) \o r \in Stream
         /\ NamesLine(ReadCapabilityOrStatus(CapabilityLine("SIEVE", TRUE) \o r), "SIEVE", 1, r)
         /\ CapabilityLine("SASL", TRUE) \o r \in Stream
         /\ NamesLine(ReadCapabilityOrStatus(CapabilityLine("SASL", TRUE) \o r), "SASL", 1, r)
         /\ CapabilityLine("STARTTLS", FALSE) \o r \in Stream
         /\ NamesLine(ReadCapabilityOrStatus(CapabilityLine("STARTTLS", FALSE) \o r), "STARTTLS", 0, r)
<1>1. ASSUME NEW n \in Texts, NEW v \in {TRUE, FALSE}
      PROVE  /\ CapabilityLine(n, v) \o r \in Stream
             /\ NamesLine(ReadCapabilityOrStatus(CapabilityLine(n, v) \o r), n, IF v THEN 1 ELSE 0, r)
  <2>1. PICK q, e, a : /\ q = <<Quoted(n)>> /\ e = <<CRLF>>
                       /\ a = IF v THEN Argument("value") ELSE <<>>
    OBVIOUS
  <2> q \in Stream /\ e \in Stream
    <3>1. Quoted(n) \in Tokens
      BY Spoken
    <3> QED BY <2>1, <3>1, Marks, SMT DEF Stream
  <2> e \o r \in Stream
    BY Joined
  <2>3. a \in Stream
    <3>1. Argument("value") \in Stream
      <4>1. <<SP>> \in Stream /\ String("value") \in Stream
        BY Marks, CapabilityWords, StringIs, SMT DEF Stream
      <4> QED BY <4>1, Joined DEF Argument
    <3>2. <<>> \in Stream
      BY EmptyRead
    <3> QED BY <2>1, <3>1, <3>2
  <2>4. PICK s, t : s = CapabilityLine(n, v) \o r /\ t = a \o (e \o r)
    OBVIOUS
  <2>5. s = q \o t /\ t \in Stream
    <3>1. CapabilityLine(n, v) = q \o (a \o e)
      BY <2>1 DEF CapabilityLine
    <3>2. RegroupTwice(q, a, e, r)
      BY <2>3, RegroupedTwice
    <3>3. a \o (e \o r) \in Stream
      BY <2>3, Joined
    <3> QED BY <2>4, <3>1, <3>2, <3>3 DEF RegroupTwice
  <2>6. s \in Stream /\ IsString(s) /\ ReadReply(s) = Ok(n, t)
    BY <2>1, <2>5, ReadQuoted DEF ReadReply
  <2> CASE v = TRUE
    <3>1. PICK u : u = String("value") \o (e \o r)
      OBVIOUS
    <3>2. u \in Stream /\ ReadReply(u) = Ok("value", e \o r)
      <4>1. ClientMaxLiteralBytes \in Int /\ Small("value", ClientMaxLiteralBytes)
        BY ProtocolAssumption, ExchangeAssumption, SMT DEF Small
      <4> QED BY <3>1, <4>1, CapabilityWords, StringRead DEF ReadReply
    <3>3. t = <<SP>> \o u
      <4>1. <<SP>> \in Stream /\ String("value") \in Stream
        BY Marks, CapabilityWords, StringIs, SMT DEF Stream
      <4>2. a = <<SP>> \o String("value")
        BY <2>1 DEF Argument
      <4>3. PICK x, y, z : x = String("value") /\ y = e \o r /\ z = <<SP>>
        OBVIOUS
      <4>4. x \in Stream /\ y \in Stream /\ z \in Stream
        BY <4>1, <4>3
      <4>5. Regroup(z, x, y)
        BY <4>4, Regrouped
      <4> QED BY <2>4, <3>1, <4>2, <4>3, <4>5 DEF Regroup
    <3>4. NamesLine(ReadCapabilityOrStatus(s), n, 1, r)
      BY <2>1, <2>6, <3>2, <3>3, NameAndMore
    <3> QED BY <2>4, <2>6, <3>4
  <2> CASE v = FALSE
    <3>1. t = e \o r
      BY <2>1, <2>4, Nothing DEF Stream
    <3>2. NamesLine(ReadCapabilityOrStatus(s), n, 0, r)
      BY <2>1, <2>6, <3>1, NameAlone
    <3> QED BY <2>4, <2>6, <3>2
  <2> QED OBVIOUS
<1> QED BY <1>1, CapabilityWords

(* A capability response is read line by line and ends with its status.     *)
LEMMA Announced ==
  ASSUME NEW code \in {0, 1}, NEW s, Announces(s, code)
  PROVE  /\ s \in Stream
         /\ \/ Tells(ReadCapabilityOrStatus(s), "OK", code)
            \/ \E n \in Capabilities, m \in {0, 1} : \E r :
                  NamesLine(ReadCapabilityOrStatus(s), n, m, r) /\ Announces(r, code)
<1> DEFINE T == Status("OK", code)
           Third(t) == (IF t THEN CapabilityLine("STARTTLS", FALSE) ELSE <<>>) \o T
           Second(a, t) == (IF a THEN CapabilityLine("SASL", TRUE) ELSE <<>>) \o Third(t)
<1>0. ASSUME NEW d, NEW a, NEW t
      PROVE  CapabilityLines(d, a, t, code) =
               (IF d THEN CapabilityLine("SIEVE", TRUE) ELSE <<>>) \o Second(a, t)
  BY DEF CapabilityLines
<1>1. PICK d \in BOOLEAN, a \in BOOLEAN, t \in BOOLEAN : s = CapabilityLines(d, a, t, code)
  BY DEF Announces
<1> T \in Stream /\ Tells(ReadCapabilityOrStatus(T), "OK", code)
  <2>1. "OK" \in {"OK", "NO", "BYE"}
    OBVIOUS
  <2> QED BY <2>1, StatusRead
<1>3. ASSUME NEW r \in Stream PROVE <<>> \o r = r
  BY Nothing DEF Stream
<1> HIDE DEF T
<1> Third(TRUE) = CapabilityLine("STARTTLS", FALSE) \o T /\ Third(FALSE) = T
  BY <1>3
<1> Third(TRUE) \in Stream /\ Third(FALSE) \in Stream
  BY CapabilityRead
<1> Third(t) \in Stream
  OBVIOUS
<1> HIDE DEF Third
<1> /\ Second(TRUE, t) = CapabilityLine("SASL", TRUE) \o Third(t)
    /\ Second(FALSE, t) = Third(t) /\ Second(FALSE, FALSE) = Third(FALSE)
  BY <1>3
<1> Second(TRUE, t) \in Stream /\ Second(FALSE, t) \in Stream /\ Second(FALSE, FALSE) \in Stream
  BY CapabilityRead
<1> Second(a, t) \in Stream
  OBVIOUS
<1> HIDE DEF Second
<1> /\ CapabilityLines(TRUE, a, t, code) = CapabilityLine("SIEVE", TRUE) \o Second(a, t)
    /\ CapabilityLines(FALSE, a, t, code) = Second(a, t)
    /\ CapabilityLines(FALSE, FALSE, t, code) = Second(FALSE, t)
    /\ CapabilityLines(FALSE, FALSE, FALSE, code) = Second(FALSE, FALSE)
  <2>1. ASSUME NEW b, NEW c, Second(b, c) \in Stream
        PROVE  CapabilityLines(FALSE, b, c, code) = Second(b, c)
    <3>1. CapabilityLines(FALSE, b, c, code) = <<>> \o Second(b, c)
      BY DEF CapabilityLines, Second, Third, T
    <3> QED BY <1>3, <2>1, <3>1
  <2>2. CapabilityLines(TRUE, a, t, code) = CapabilityLine("SIEVE", TRUE) \o Second(a, t)
    BY <1>0
  <2> QED BY <2>1, <2>2
<1> "SIEVE" \in Capabilities /\ "SASL" \in Capabilities /\ "STARTTLS" \in Capabilities
  BY DEF Capabilities
<1> /\ Announces(Second(a, t), code) /\ Announces(Second(FALSE, t), code)
    /\ Announces(Second(FALSE, FALSE), code)
  BY DEF Announces
<1> CASE d
  <2>1. s \in Stream /\ NamesLine(ReadCapabilityOrStatus(s), "SIEVE", 1, Second(a, t))
    BY <1>1, CapabilityRead
  <2>2. 1 \in {0, 1}
    OBVIOUS
  <2> QED BY <2>1, <2>2
<1> CASE ~d /\ a
  <2>1. s \in Stream /\ NamesLine(ReadCapabilityOrStatus(s), "SASL", 1, Third(t))
    BY <1>1, CapabilityRead
  <2>2. 1 \in {0, 1}
    OBVIOUS
  <2> QED BY <2>1, <2>2
<1> CASE ~d /\ ~a /\ t
  <2>1. s \in Stream /\ NamesLine(ReadCapabilityOrStatus(s), "STARTTLS", 0, T)
    BY <1>1, CapabilityRead
  <2>2. 0 \in {0, 1}
    OBVIOUS
  <2> QED BY <2>1, <2>2
<1> CASE ~d /\ ~a /\ ~t
  <2>1. s = T
    BY <1>1
  <2> QED BY <2>1
<1> QED OBVIOUS

-----------------------------------------------------------------------------

(* A list of scripts, or what is left of one after some of its lines.       *)
Plain(n) == String(n) \o <<CRLF>>
Marked(n) == String(n) \o <<SP, Atom("ACTIVE"), CRLF>>
OneLine(s, r) == \E n \in Texts : s = Plain(n) \o r \/ s = Marked(n) \o r
Listing(f, k) == f[0] = Status("OK", 0) /\ \A i \in 1..k : OneLine(f[i], f[i - 1])
Lists(s) == \E k \in Nat : \E f \in [0..k -> Stream] : Listing(f, k) /\ s = f[k]

(* The mark of an active script is a text.                                  *)
LEMMA ActiveWord == "ACTIVE" \in Texts
<1>1. "ACTIVE" \in Keywords
  BY DEF Keywords
<1> QED BY <1>1, WordsAre

(* The mark before a stream.                                                *)
LEMMA MarkBefore ==
  ASSUME NEW r \in Stream
  PROVE  <<SP, Atom("ACTIVE"), CRLF>> \o r = <<SP>> \o (<<Atom("ACTIVE")>> \o (<<CRLF>> \o r))
<1>1. PICK a, b, c : a = SP /\ b = Atom("ACTIVE") /\ c = CRLF
  OBVIOUS
<1>2. a \in Tokens /\ b \in Tokens /\ c \in Tokens
  BY <1>1, Marks, Spoken, ActiveWord
<1>3. Spell3(a, b, c, r)
  BY <1>2, Spelled3
<1> QED BY <1>1, <1>3 DEF Spell3

(* A line of a listing is read as a name, unless that is too large.         *)
LEMMA LineRead ==
  ASSUME NEW r \in Stream, NEW s, OneLine(s, r)
  PROVE  /\ s \in Stream
         /\ \/ TooLarge(s)
            \/ \E n \in Texts, m \in {0, 1} : NamesLine(ReadScriptOrStatus(s), n, m, r)
<1>1. PICK n \in Texts : s = Plain(n) \o r \/ s = Marked(n) \o r
  BY DEF OneLine
<1>2. PICK e : /\ e = <<CRLF>> \/ e = <<SP, Atom("ACTIVE"), CRLF>>
               /\ s = (String(n) \o e) \o r
  BY <1>1 DEF Plain, Marked
<1>3. PICK t : t = e \o r
  OBVIOUS
<1>4. CRLF \in Tokens /\ SP \in Tokens /\ Atom("ACTIVE") \in Tokens
  BY Marks, Spoken, ActiveWord
<1>5. e \in Stream
  <2>1. <<CRLF>> \in Stream
    BY LineEnd DEF Ends
  <2>2. <<SP, Atom("ACTIVE"), CRLF>> \in Stream
    BY <1>4, Spelled3
  <2> QED BY <1>2, <2>1, <2>2
<1>6. s = String(n) \o t /\ t \in Stream
  <2>1. PICK x : x = String(n)
    OBVIOUS
  <2>2. x \in Stream
    BY <2>1, StringIs
  <2>3. Regroup(x, e, r)
    BY <1>5, <2>2, Regrouped
  <2>4. e \o r \in Stream
    BY <1>5, Joined
  <2> QED BY <1>2, <1>3, <2>1, <2>3, <2>4 DEF Regroup
<1> CASE ~Small(n, ClientMaxLiteralBytes)
  BY <1>6, LargeRead
<1> CASE Small(n, ClientMaxLiteralBytes)
  <2>1. ClientMaxLiteralBytes \in Int
    BY ProtocolAssumption, SMT
  <2>2. s \in Stream /\ IsString(s) /\ ReadReply(s) = Ok(n, t)
    BY <1>6, <2>1, StringRead DEF ReadReply
  <2> CASE e = <<CRLF>>
    <3>1. NamesLine(ReadScriptOrStatus(s), n, 0, r)
      BY <1>3, <2>2, NameAlone
    <3> QED BY <2>2, <3>1
  <2> CASE e = <<SP, Atom("ACTIVE"), CRLF>>
    <3>1. PICK w, u : w = <<CRLF>> \o r /\ u = <<Atom("ACTIVE")>> \o w
      OBVIOUS
    <3>2. w \in Stream /\ w # <<>> /\ w[1] = CRLF /\ u \in Stream
      BY <1>4, <3>1, Kind
    <3>3. t = <<SP>> \o u
      <4>1. <<SP, Atom("ACTIVE"), CRLF>> \o r = <<SP>> \o (<<Atom("ACTIVE")>> \o (<<CRLF>> \o r))
        BY MarkBefore
      <4> QED BY <1>3, <3>1, <4>1
    <3>4. ReadAtom[u] = Ok("ACTIVE", w)
      <4>1. Ends(w)
        BY <3>2, Marks DEF Ends
      <4> QED BY <3>1, <4>1, ActiveWord, ReadAtomIs
    <3>5. NamesLine(ReadScriptOrStatus(s), n, 1, r)
      BY <2>2, <3>1, <3>2, <3>3, <3>4, NameAndMore
    <3> QED BY <2>2, <3>5
  <2> QED BY <1>2
<1> QED OBVIOUS

(* A listing is read line by line, up to a name that is too large, and ends *)
(* with OK.                                                                 *)
LEMMA Listed ==
  ASSUME NEW s, Lists(s)
  PROVE  \/ Tells(ReadScriptOrStatus(s), "OK", 0)
         \/ TooLarge(s)
         \/ \E n \in Texts, m \in {0, 1} : \E r : NamesLine(ReadScriptOrStatus(s), n, m, r) /\ Lists(r)
<1>1. PICK k \in Nat : \E f \in [0..k -> Stream] : Listing(f, k) /\ s = f[k]
  BY DEF Lists
<1>2. PICK f \in [0..k -> Stream] : Listing(f, k) /\ s = f[k]
  BY <1>1
<1> CASE k = 0
  <2>1. s = Status("OK", 0)
    BY <1>2 DEF Listing
  <2>2. "OK" \in {"OK", "NO", "BYE"} /\ 0 \in {0, 1}
    OBVIOUS
  <2> QED BY <2>1, <2>2, StatusRead
<1> CASE k # 0
  <2> k \in 1..k /\ k - 1 \in Nat /\ k - 1 \in 0..k
    BY SMT
  <2>2. PICK r \in Stream : r = f[k - 1]
    OBVIOUS
  <2>3. OneLine(s, r)
    BY <1>2, <2>2 DEF Listing
  <2>4. TooLarge(s) \/ \E n \in Texts, m \in {0, 1} : NamesLine(ReadScriptOrStatus(s), n, m, r)
    BY <2>3, LineRead
  <2>5. Lists(r)
    <3>1. PICK g : g = [i \in 0..(k - 1) |-> f[i]]
      OBVIOUS
    <3> g \in [0..(k - 1) -> Stream] /\ g[k - 1] = r /\ g[0] = f[0]
      BY <2>2, <3>1, SMT
    <3>3. ASSUME NEW i \in 1..(k - 1) PROVE OneLine(g[i], g[i - 1])
      <4>1. g[i] = f[i] /\ g[i - 1] = f[i - 1] /\ i \in 1..k
        BY <3>1, SMT
      <4> QED BY <1>2, <4>1 DEF Listing
    <3>4. Listing(g, k - 1)
      BY <1>2, <3>3 DEF Listing
    <3> QED BY <3>4 DEF Lists
  <2> QED BY <2>4, <2>5
<1> QED OBVIOUS
Lasts(names) ==
  CHOOSE f : f = [i \in 0..Len(names) |->
                    IF i = 0 THEN Status("OK", 0) ELSE ScriptLine(names[Len(names) - i + 1]) \o f[i - 1]]

(* handleListScripts writes a listing, for any number of scripts in any     *)
(* order.                                                                   *)
LEMMA ListReplyIs ==
  ASSUME NEW N \in Nat, NEW names \in [1..N -> Texts]
  PROVE  Lists(ListReply(names))
<1> Len(names) = N
  BY SMT
<1> DEFINE Line(i) == ScriptLine(names[N - i + 1])
           step == [i \in 1..N |-> [s \in Stream |-> Line(i) \o s]]
           Body(f) == [i \in 0..N |-> IF i = 0 THEN Status("OK", 0) ELSE Line(i) \o f[i - 1]]
<1>2. ASSUME NEW i \in 1..N, NEW s \in Stream PROVE OneLine(Line(i) \o s, s)
  <2>1. PICK n \in Texts : n = names[N - i + 1]
    BY SMT
  <2>2. Line(i) = Plain(n) \/ Line(i) = Marked(n)
    <3>1. Line(i) = String(n) \o (IF n = active THEN <<SP, Atom("ACTIVE"), CRLF>> ELSE <<CRLF>>)
      BY <2>1 DEF ScriptLine
    <3> QED BY <3>1 DEF Plain, Marked
  <2> QED BY <2>2 DEF OneLine
<1> Status("OK", 0) \in Stream
  <2>1. "OK" \in {"OK", "NO", "BYE"} /\ 0 \in {0, 1}
    OBVIOUS
  <2> QED BY <2>1, StatusRead
<1>4. step \in [1..N -> [Stream -> Stream]]
  <2>1. ASSUME NEW i \in 1..N, NEW s \in Stream PROVE Line(i) \o s \in Stream
    BY <1>2, LineRead
  <2> HIDE DEF Line
  <2> QED BY <2>1
<1>5. PICK g : Iterates(g, N, Stream, Status("OK", 0), step)
  <2> HIDE DEF step
  <2> QED BY <1>4, Recursion
<1> g \in [0..N -> Stream] /\ g[0] = Status("OK", 0) /\ \A i \in 1..N : g[i] = step[i][g[i - 1]]
  BY <1>5 DEF Iterates
<1>7. ASSUME NEW i \in 1..N PROVE g[i] = Line(i) \o g[i - 1]
  <2>1. g[i - 1] \in Stream
    BY SMT
  <2>2. step[i][g[i - 1]] = Line(i) \o g[i - 1]
    BY <2>1
  <2> QED BY <2>2
<1> HIDE DEF Line
<1>8. g = Body(g)
  <2>1. ASSUME NEW i \in 0..N PROVE g[i] = IF i = 0 THEN Status("OK", 0) ELSE Line(i) \o g[i - 1]
    BY <1>7, SMT
  <2> QED BY <2>1
<1>9. Lasts(names) = Body(Lasts(names))
  BY <1>8 DEF Lasts, Line
<1>10. PICK f : f = Lasts(names)
  OBVIOUS
<1> f = Body(f)
  BY <1>9, <1>10
<1> f[0] = Status("OK", 0) /\ \A i \in 1..N : f[i] = Line(i) \o f[i - 1]
  <2>1. ASSUME NEW i \in 0..N PROVE f[i] = IF i = 0 THEN Status("OK", 0) ELSE Line(i) \o f[i - 1]
    OBVIOUS
  <2>2. 0 \in 0..N /\ \A i \in 1..N : i \in 0..N /\ i # 0
    BY SMT
  <2> QED BY <2>1, <2>2
<1>13. Nat \subseteq {i \in Nat : i <= N => f[i] \in Stream}
  <2> DEFINE S == {i \in Nat : i <= N => f[i] \in Stream}
  <2>1. 0 \in S
    OBVIOUS
  <2>2. ASSUME NEW i \in Nat, i \in S PROVE i + 1 \in S
    <3> SUFFICES ASSUME i + 1 <= N PROVE f[i + 1] \in Stream
      BY SMT
    <3> f[i] \in Stream /\ i + 1 \in 1..N /\ (i + 1) - 1 = i
      BY <2>2, SMT
    <3>2. f[i + 1] = Line(i + 1) \o f[i]
      OBVIOUS
    <3> QED BY <1>2, <3>2, LineRead
  <2> HIDE DEF S
  <2>3. Nat \subseteq S
    BY <2>1, <2>2, Induct
  <2> QED BY <2>3 DEF S
<1> f \in [0..N -> Stream]
  <2>1. \A i \in 0..N : f[i] \in Stream
    <3>1. \A i \in 0..N : i \in Nat /\ i <= N
      BY SMT
    <3> QED BY <1>13, <3>1
  <2>2. f = [i \in 0..N |-> f[i]]
    OBVIOUS
  <2> QED BY <2>1, <2>2
<1>15. Listing(f, N)
  <2>1. ASSUME NEW i \in 1..N PROVE OneLine(f[i], f[i - 1])
    <3>1. f[i - 1] \in Stream
      BY SMT
    <3> QED BY <1>2, <3>1
  <2> QED BY <2>1 DEF Listing
<1>16. ListReply(names) = f[N]
  <2>1. ListReply(names) = Lasts(names)[Len(names)]
    BY DEF ListReply, Lasts
  <2> QED BY <1>10, <2>1
<1> QED BY <1>15, <1>16 DEF Lists

-----------------------------------------------------------------------------

(* A line of one string is read as that string, whatever follows it: the    *)
(* text that GETSCRIPT returns, a challenge and the answer to one.          *)
LEMMA TextRead ==
  ASSUME NEW v \in Texts, NEW limit \in Int, Small(v, limit), NEW r \in Stream
  PROVE  LET s == String(v) \o (<<CRLF>> \o r)
         IN  s \in Stream /\ IsString(s) /\ ExpectCRLF(ReadString(limit)[s]) = Ok(v, r)
<1>1. PICK t, s : t = <<CRLF>> \o r /\ s = String(v) \o t
  OBVIOUS
<1> t \in Stream /\ t # <<>> /\ t[1] = CRLF /\ Tail(t) = r
  BY <1>1, Marks, Kind
<1>3. s \in Stream /\ IsString(s) /\ ReadString(limit)[s] = Ok(v, t)
  BY <1>1, StringRead
<1>4. PICK m : m = Ok(v, t)
  OBVIOUS
<1>5. m.st = "ok" /\ m.v = v /\ m.rest = t
  BY <1>4, Results, SMT
<1>6. ExpectCRLF(m) = Ok(v, r)
  BY <1>5, Marks DEF ExpectCRLF
<1> QED BY <1>1, <1>3, <1>4, <1>6

(* A challenge is taken for one by the client, and the answer is read by    *)
(* the server.                                                              *)
LEMMA ExchangeRead ==
  LET c == String("challenge") \o <<CRLF>>
      a == String("response") \o <<CRLF>>
  IN  /\ c \in Stream /\ NamesLine(ReadCapabilityOrStatus(c), "challenge", 0, <<>>)
      /\ a \in Stream /\ ExpectCRLF(ReadString(MaxLiteralBytes)[a]) = Ok("response", <<>>)
<1>1. "challenge" \in Texts /\ "response" \in Texts
  <2>1. "challenge" \in Keywords /\ "response" \in Keywords
    BY DEF Keywords
  <2> QED BY <2>1, WordsAre
<1>2. <<>> \in Stream /\ <<CRLF>> = <<CRLF>> \o <<>> /\ <<CRLF>> \in Stream
  BY Marks, SMT DEF Stream
<1>3. /\ ClientMaxLiteralBytes \in Int /\ Small("challenge", ClientMaxLiteralBytes)
      /\ MaxLiteralBytes \in Int /\ Small("response", MaxLiteralBytes)
  BY ProtocolAssumption, ExchangeAssumption, SMT DEF Small
<1>4. PICK c, a : c = String("challenge") \o <<CRLF>> /\ a = String("response") \o <<CRLF>>
  OBVIOUS
<1>5. c \in Stream /\ IsString(c) /\ ReadReply(c) = Ok("challenge", <<CRLF>> \o <<>>)
  BY <1>1, <1>2, <1>3, <1>4, StringRead DEF ReadReply
<1>6. NamesLine(ReadCapabilityOrStatus(c), "challenge", 0, <<>>)
  BY <1>2, <1>5, NameAlone
<1>7. a \in Stream /\ ExpectCRLF(ReadString(MaxLiteralBytes)[a]) = Ok("response", <<>>)
  <2>1. PICK e \in Stream : e = <<>>
    BY <1>2
  <2>2. a = String("response") \o (<<CRLF>> \o e)
    BY <1>2, <1>4, <2>1
  <2>3. a \in Stream /\ ExpectCRLF(ReadString(MaxLiteralBytes)[a]) = Ok("response", e)
    BY <1>1, <1>3, <2>2, TextRead
  <2> QED BY <2>1, <2>3
<1> QED BY <1>4, <1>5, <1>6, <1>7

-----------------------------------------------------------------------------

(* The command lines of the client.                                         *)
LEMMA Line0 ==
  ASSUME NEW a
  PROVE  CommandLine(a, <<>>) = <<Atom(a)>> \o <<CRLF>>
<1>1. <<CRLF>> \in Seq(Tokens)
  BY Marks, SMT
<1>2. ~(Len(<<>>) > 0) /\ ~(Len(<<>>) > 1)
  BY SMT
<1>3. <<>> \o <<CRLF>> = <<CRLF>>
  BY <1>1, Nothing
<1> QED BY <1>2, <1>3 DEF CommandLine

(* An argument before a stream.                                             *)
LEMMA ArgumentBefore ==
  ASSUME NEW x \in Texts, NEW r \in Stream
  PROVE  Argument(x) \o r = <<SP>> \o (String(x) \o r) /\ Argument(x) \o r \in Stream
<1> <<SP>> \in Seq(Tokens) /\ String(x) \in Seq(Tokens) /\ r \in Seq(Tokens)
  <2>1. SP \in Tokens /\ String(x) \in Stream
    BY Marks, StringIs
  <2> QED BY <2>1, SMT DEF Stream
<1> Argument(x) \o r = <<SP>> \o (String(x) \o r)
  BY Assoc, SMT DEF Argument
<1>3. Argument(x) \o r \in Stream
  BY SMT DEF Stream
<1> QED BY <1>3

(* A command line with one argument, spelled out.                           *)
LEMMA Line1 ==
  ASSUME NEW a, NEW x \in Texts
  PROVE  CommandLine(a, <<x>>) = <<Atom(a)>> \o (<<SP>> \o (String(x) \o <<CRLF>>))
<1> <<CRLF>> \in Seq(Tokens) /\ <<CRLF>> \in Stream
  BY Marks, SMT DEF Stream
<1>2. Len(<<x>>) > 0 /\ ~(Len(<<x>>) > 1) /\ <<x>>[1] = x
  BY SMT
<1>3. <<>> \o <<CRLF>> = <<CRLF>>
  BY Nothing
<1>4. CommandLine(a, <<x>>) = <<Atom(a)>> \o (Argument(x) \o <<CRLF>>)
  BY <1>2, <1>3 DEF CommandLine
<1>5. Argument(x) \o <<CRLF>> = <<SP>> \o (String(x) \o <<CRLF>>)
  BY ArgumentBefore
<1> QED BY <1>4, <1>5

(* A command line with two arguments, spelled out.                          *)
LEMMA Line2 ==
  ASSUME NEW a, NEW x \in Texts, NEW y \in Texts
  PROVE  CommandLine(a, <<x, y>>) =
           <<Atom(a)>> \o (<<SP>> \o (String(x) \o (<<SP>> \o (String(y) \o <<CRLF>>))))
<1>1. <<CRLF>> \in Stream
  BY Marks, SMT DEF Stream
<1>2. Len(<<x, y>>) > 0 /\ Len(<<x, y>>) > 1 /\ <<x, y>>[1] = x /\ <<x, y>>[2] = y
  BY SMT
<1>3. CommandLine(a, <<x, y>>) = <<Atom(a)>> \o (Argument(x) \o (Argument(y) \o <<CRLF>>))
  BY <1>2 DEF CommandLine
<1>4. PICK r : r = Argument(y) \o <<CRLF>>
  OBVIOUS
<1> r = <<SP>> \o (String(y) \o <<CRLF>>) /\ r \in Stream
  BY <1>1, <1>4, ArgumentBefore
<1>6. Argument(x) \o r = <<SP>> \o (String(x) \o r)
  BY ArgumentBefore
<1> QED BY <1>3, <1>4, <1>6
=============================================================================

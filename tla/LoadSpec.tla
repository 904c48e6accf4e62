------------------------------ MODULE LoadSpec ------------------------------
(* How a loader matches the arguments of a command or a test                *)
(* (interp/load_generic.go), and what those arguments may be.               *)
(*                                                                          *)
(* An argument is [k, v]: a string or a list of strings with its values, a  *)
(* number, or a tag with its name. A value stands for what the loaders'     *)
(* checks tell apart: "valid" is well formed for its place, "invalid" is    *)
(* not, "malformed" holds a broken encoded character, "" is empty, "0" and  *)
(* "1" are numbers; names of extensions, tags, comparators and references   *)
(* to variables stand for themselves.                                       *)
EXTENDS Integers, Sequences, FiniteSetsExt, TLC

Str(v) == [k |-> "str", v |-> <<v>>]
List(s) == [k |-> "list", v |-> s]
Number(n) == [k |-> "num", v |-> <<n>>]
Tag(t) == [k |-> "tag", v |-> <<t>>]

(* Arguments as the parser makes them: a tag has a name.                    *)
Arguments == Seq([k : {"str", "list", "num", "tag"}, v : Seq(STRING)])
TagsNamed(args) == \A i \in DOMAIN args : args[i].k = "tag" => args[i].v # <<>> /\ args[i].v[1] # ""

(* SpecTag and SpecPosArg: what an argument takes, how many strings its     *)
(* list may hold (0: no bound), whether it may be left out.                 *)
Takes(value, min, max) == [value |-> value, min |-> min, max |-> max, opt |-> FALSE]
Flag == Takes("none", 0, 0)
Num == Takes("num", 0, 0)
One == Takes("str", 1, 1)
Some == Takes("str", 1, 0)
Strings == Takes("str", 0, 0)
Rest == Takes("str", 0, -1)
Opt(a) == [a EXCEPT !.opt = TRUE]

-----------------------------------------------------------------------------
(* What LoadSpec has matched so far: lastTag waits for its value.           *)
NoTag == ""
Start == [ok |-> TRUE, lastTag |-> NoTag, tags |-> <<>>, pos |-> <<>>]
Failed == [ok |-> FALSE, lastTag |-> NoTag, tags |-> <<>>, pos |-> <<>>]

(* A string decodes unless it is malformed and decoding is on.              *)
Decodes(a, encoded) == ~(encoded /\ \E i \in DOMAIN a.v : a.v[i] = "malformed")

InRange(arg, n) == (arg.min = 0 \/ n >= arg.min) /\ (arg.max = 0 \/ n <= arg.max)

(* A value fits a tag or a positional argument. The number of strings is    *)
(* checked for lists only.                                                  *)
Fits(arg, a, encoded) ==
  \/ a.k = "num" /\ arg.value = "num"
  \/ a.k = "str" /\ arg.value = "str" /\ Decodes(a, encoded)
  \/ a.k = "list" /\ arg.value = "str" /\ InRange(arg, Len(a.v)) /\ Decodes(a, encoded)

(* Mutant: a tag is taken while the one before it waits for its value.      *)
MatchTagUnasked(tags, m, t) ==
  IF t \notin DOMAIN tags THEN Failed
  ELSE IF tags[t].value = "none" THEN [m EXCEPT !.tags = Append(@, [tag |-> t, v |-> <<>>])]
  ELSE [m EXCEPT !.lastTag = t]
MatchTag(tags, m, t) ==
  IF m.lastTag # NoTag \/ t \notin DOMAIN tags THEN Failed
  ELSE IF tags[t].value = "none" THEN [m EXCEPT !.tags = Append(@, [tag |-> t, v |-> <<>>])]
  ELSE [m EXCEPT !.lastTag = t]

MatchValue(tags, pos, encoded, m, a) ==
  IF m.lastTag # NoTag
  THEN IF Fits(tags[m.lastTag], a, encoded)
       THEN [m EXCEPT !.tags = Append(@, [tag |-> m.lastTag, v |-> a.v]), !.lastTag = NoTag]
       ELSE Failed
  ELSE IF Len(m.pos) < Len(pos) /\ Fits(pos[Len(m.pos) + 1], a, encoded)
       THEN [m EXCEPT !.pos = Append(@, a.v)]
       ELSE Failed

(* One turn of LoadSpec's loop over the arguments.                          *)
MatchArg(tags, pos, encoded, m, a) ==
  IF ~m.ok THEN m
  ELSE IF a.k = "tag" THEN MatchTag(tags, m, a.v[1])
  ELSE MatchValue(tags, pos, encoded, m, a)

(* LoadSpec on the arguments: the loop, then the required ones. A tag still *)
(* waiting for its value at the end is forgotten.                           *)
MatchArgs(tags, pos, encoded, args) ==
  LET matched[i \in 0..Len(args)] ==
        IF i = 0 THEN Start ELSE MatchArg(tags, pos, encoded, matched[i - 1], args[i])
      m == matched[Len(args)]
  IN  IF m.ok /\ \E i \in DOMAIN pos : i > Len(m.pos) /\ ~pos[i].opt
      THEN Failed ELSE m

(* LoadSpec on tests and block: how many tests and whether a block was      *)
(* given, against what the loader allows ("ignored" ones are not passed on).*)
BodyFits(tests, block, n, given) ==
  /\ CASE tests = "none" -> n = 0
       [] tests = "one" -> n = 1
       [] tests = "many" -> n >= 1
       [] tests = "ignored" -> TRUE
  /\ CASE block = "none" -> ~given
       [] block = "required" -> given
       [] block = "ignored" -> TRUE

-----------------------------------------------------------------------------
(* The reference: which arguments belong to a tag, by their places alone.   *)
ValueOfTag(tags, args, i) ==
  /\ i > 1 /\ args[i].k # "tag" /\ args[i - 1].k = "tag"
  /\ args[i - 1].v[1] \in DOMAIN tags /\ tags[args[i - 1].v[1]].value # "none"

Positional(tags, args) ==
  {i \in DOMAIN args : args[i].k # "tag" /\ ~ValueOfTag(tags, args, i)}

PlaceOf(tags, args, i) == Cardinality({j \in Positional(tags, args) : j <= i})

(* RFC 5228's grammar of a command's arguments as the repository's tables   *)
(* state it: tags are known, a tag that takes a value is followed by one    *)
(* that fits, positional arguments fit in order and none is missing. One    *)
(* thing is looser: the last argument may be a tag without its value.       *)
WellFormed(tags, pos, encoded, args) ==
  /\ \A i \in DOMAIN args : args[i].k = "tag" =>
       /\ args[i].v[1] \in DOMAIN tags
       /\ tags[args[i].v[1]].value # "none" /\ i < Len(args) =>
            args[i + 1].k # "tag" /\ Fits(tags[args[i].v[1]], args[i + 1], encoded)
  /\ \A i \in Positional(tags, args) :
       /\ PlaceOf(tags, args, i) <= Len(pos)
       /\ Fits(pos[PlaceOf(tags, args, i)], args[i], encoded)
  /\ \A p \in DOMAIN pos : pos[p].opt \/ p <= Cardinality(Positional(tags, args))
=============================================================================

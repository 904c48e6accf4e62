--------------------------- MODULE MCScriptLoading --------------------------
(* Calls of every command and test: with its positional arguments and at    *)
(* most one tag, with values of each kind; and every short list of          *)
(* arguments for LoadSpec alone.                                            *)
EXTENDS ScriptLoading

CONSTANTS MaxArgs

Filler(arg) == IF arg.value = "num" THEN Number("1") ELSE Str("valid")

TagValues(t, arg, texts) ==
  CASE arg.value = "num" -> {<<Number("0")>>, <<Number("1")>>}
    [] arg.value = "str" -> {<<Str(v)>> : v \in {"valid", "invalid", ""}
                               \cup (IF t = "comparator" THEN {"i;ascii-numeric"} ELSE {})
                               \cup (IF t \in texts THEN {"env.x"} ELSE {})}
    [] arg.value = "none" -> {<<>>}

Required(l) == [i \in 1..Cardinality({j \in DOMAIN l.pos : ~l.pos[j].opt}) |-> Filler(l.pos[i])]
Complete(l) == [i \in DOMAIN l.pos |-> Filler(l.pos[i])]
AllTags(l) == IF l.late = <<>> THEN l.tags ELSE l.tags @@ l.late[1].tags

(* Variables of every namespace where a check looks for one, and one of     *)
(* them in every other text or name; the script's own in keys.              *)
ReadsVars(l, i) == \E c \in Range(l.checks) : c.k \in {"vars", "canset"} /\ c.at = i
IsKey(l, i) == \E c \in Range(l.checks) : c.k \in {"key", "optkey"} /\ c.at = i
Vars(l, i) ==
  IF ReadsVars(l, i) THEN DOMAIN Namespace
  ELSE IF IsKey(l, i) THEN {"x"} ELSE IF i \in l.texts THEN {"env.x"} ELSE {}
Variants(l, i) == {[Complete(l) EXCEPT ![i] = Str(v)] : v \in {"invalid", "malformed"} \cup Vars(l, i)}
Pattern(l, i) == <<Tag("matches")>> \o [Complete(l) EXCEPT ![i] = Str("env.x")]

ArgLists(l) ==
  {Required(l), Complete(l)}
  \cup UNION {{<<Tag(t)>> \o v \o Required(l) : v \in TagValues(t, AllTags(l)[t], l.textTags)} : t \in DOMAIN AllTags(l)}
  \cup UNION {Variants(l, i) : i \in {j \in DOMAIN l.pos : l.pos[j].value = "str"}}
  \cup {Pattern(l, i) : i \in {j \in DOMAIN l.pos : IsKey(l, j)}}

Alphabet(l) ==
  {Tag(t) : t \in DOMAIN l.tags} \cup {Tag("unknown"), Str("valid"), Str("malformed"),
   List(<<>>), List(<<"valid">>), List(<<"valid", "valid">>), Number("1")}

CallsOf(kind, table, args(_)) ==
  UNION {{[kind |-> kind, name |-> n, args |-> a] : a \in args(table[n])} : n \in DOMAIN table}

MCCommands == CallsOf("command", commands, ArgLists)
MCCalls == MCCommands \cup CallsOf("test", tests, ArgLists)

(* LoadSpec knows a loader by its tags and places alone.                    *)
Short(l) == UNION {[1..n -> Alphabet(l)] : n \in 0..MaxArgs}
Like(table, n) == CHOOSE m \in DOMAIN table : table[m].tags = table[n].tags /\ table[m].pos = table[n].pos
MCMatches ==
  UNION {{[kind |-> "command", name |-> n, args |-> a] : a \in Short(commands[n])} :
           n \in {Like(commands, m) : m \in DOMAIN commands}}
  \cup UNION {{[kind |-> "test", name |-> n, args |-> a] : a \in Short(tests[n])} :
           n \in {Like(tests, m) : m \in DOMAIN tests}}

MCGrants == {supportedRequires, {"ihave"}}
=============================================================================

--------------------------- MODULE ScriptLoading ----------------------------
(* Loading a script: what require grants, what a true ihave grants inside   *)
(* its block, which commands that lets in, what Extensions reports to the   *)
(* host, what the loaded commands ask for again when they run, and saving   *)
(* and restoring (interp/load.go, load_control.go, script.go, binary.go).   *)
(*                                                                          *)
(* A script is made up as it loads, of require, if, blocks and one command  *)
(* or test of its choice (call), as often as it likes: commands meet only   *)
(* in the extensions they need.                                             *)
EXTENDS Loaders

CONSTANTS
  Calls,     \* the commands and tests a script may use
  Matches,   \* the commands and tests LoadSpec is tried on alone
  Grants,    \* the sets of extensions a host may allow
  MaxSteps,  \* commands of a script
  MaxNames,  \* extensions one require or ihave names
  MaxDepth   \* nested blocks

(* A call names an entry of its table.                                      *)
ASSUME CallsAssumption ==
  \A c \in Calls \cup Matches :
    /\ c.name \in DOMAIN (IF c.kind = "command" THEN commands ELSE tests)
    /\ c.args \in Arguments /\ TagsNamed(c.args)

VARIABLES
  call,        \* the command or test this script uses
  allowed,     \* Options.Allowed
  testing,     \* Options.T is set
  phase,
  extensions,  \* Script.extensions
  guarded,     \* Script.guarded
  guardedUsed, \* Script.guardedUsed
  stack,       \* open blocks, each with the capabilities of its true ihave
  loaded,      \* the loaded commands: what each is called, uses, asks for again
  steps

vars == <<call, allowed, testing, phase, extensions, guarded, guardedUsed, stack, loaded, steps>>

-----------------------------------------------------------------------------
(* Script.RequiresExtension: the names it says yes to, and the mark it      *)
(* leaves for those a guard alone grants.                                   *)
Have == extensions \cup {e \in DOMAIN guarded : guarded[e] > 0}
(* Mutant: what a guard grants is not recorded.                             *)
MarkUsedNever(asked) == guardedUsed
MarkUsed(asked) == guardedUsed \cup {e \in asked \cap DOMAIN guarded : e \notin extensions /\ guarded[e] > 0}

(* Script.Extensions                                                        *)
Extensions == extensions \cup guardedUsed

(* Script.available                                                         *)
available(e) == e \in supportedRequires \ {"variables", "encoded-character"} /\ e \in allowed

-----------------------------------------------------------------------------
(* Checks of a loader on what LoadSpec matched.                             *)
Times(m, names) == Cardinality({i \in DOMAIN m.tags : m.tags[i].tag \in names})
Given(m, t) == Times(m, {t}) > 0
ValueOf(m, t) == m.tags[Max({i \in DOMAIN m.tags : m.tags[i].tag = t})].v
IsSet(m, t) == Given(m, t) /\ ValueOf(m, t) \notin {<<"">>, <<"0">>}
PosOf(m, i) == IF i \in DOMAIN m.pos THEN Range(m.pos[i]) ELSE {}

(* Variables in namespaces and the extension each belongs to; no extension  *)
(* is there for a namespace nobody knows. In a text such a string refers to *)
(* the variable, in the place of a name it is the name. "x" is one of the   *)
(* script's own.                                                            *)
Namespace ==
  [v \in {"env.x", "envelope.x", "global.x", "other.x"} |->
     CASE v = "env.x" -> YariloEnvironmentExtension [] v = "envelope.x" -> "envelope"
       [] v = "global.x" -> "include" [] v = "other.x" -> "no-such-extension"]
AskedByVars(vs) == {Namespace[v] : v \in vs \cap DOMAIN Namespace}

(* Script.IsVarUsable, RuntimeData.Var; and RuntimeData.SetVar, which takes *)
(* no name of another namespace and none that is too long.                  *)
Gettable(v, have) == v \in DOMAIN Namespace => Namespace[v] \in have
Settable(v, have) == v \in {"valid", "x"} \/ (v = "global.x" /\ "include" \in have)
usedVarsAreValid(vs, have) == "variables" \in have => \A v \in vs : Gettable(v, have)
SetNeeds(vs) ==
  (IF "global.x" \in vs THEN {"include"} ELSE {})
  \cup (IF vs \cap {"env.x", "envelope.x", "other.x", "invalid"} # {} THEN {"no-such-extension"} ELSE {})

(* matcherTest.setKey                                                       *)
setKey(m, key, have) ==
  /\ Times(m, MatchTypes) <= 1
  /\ IF Given(m, "list") THEN "extlists" \in have /\ ~IsSet(m, "comparator")
     ELSE /\ \A t \in {"value", "count"} : Given(m, t) =>
               "relational" \in have /\ ValueOf(m, t) = <<"valid">>
          /\ IsSet(m, "comparator") => ValueOf(m, "comparator") # <<"invalid">>
          /\ Given(m, "regex") => "regex" \in have
          /\ Given(m, "regex") \/ Given(m, "matches") => "invalid" \notin key
          /\ Given(m, "count") /\ IsSet(m, "comparator") => ValueOf(m, "comparator") = <<"i;ascii-numeric">>
AskedByKey(m) ==
  IF Given(m, "list") THEN {"extlists"}
  ELSE (IF Given(m, "value") \/ Given(m, "count") THEN {"relational"} ELSE {})
       \cup (IF Given(m, "regex") THEN {"regex"} ELSE {})

Passes(c, m, have) ==
  CASE c.k = "given" -> Given(m, c.tag) => c.ext \in have
    [] c.k = "set" -> IsSet(m, c.tag) => c.ext \in have
    [] c.k = "ask" -> Given(m, c.tag) => c.ext \in have
    [] c.k = "notboth" -> ~(Given(m, c.tag) /\ Given(m, c.with))
    [] c.k = "exactly1" -> Given(m, c.tag) # Given(m, c.with)
    [] c.k = "needstag" -> Given(m, c.tag) => IsSet(m, c.with)
    [] c.k = "validtag" -> IsSet(m, c.tag) => ValueOf(m, c.tag) # <<"invalid">>
    [] c.k = "validpos" -> PosOf(m, c.at) \cap {"invalid", ""} = {}
    [] c.k = "word" -> PosOf(m, c.at) \subseteq {"valid"}
    [] c.k = "shortargs" -> "invalid" \notin PosOf(m, 2)
    [] c.k = "vars" -> usedVarsAreValid(PosOf(m, c.at), have)
    [] c.k = "canset" -> \A v \in PosOf(m, c.at) : Settable(v, have)
    [] c.k = "flagargs" -> \/ PosOf(m, 2) = {} /\ PosOf(m, 1) # {}
                           \/ PosOf(m, 2) # {} /\ Len(m.pos[1]) = 1
    [] c.k = "singlefirst" -> PosOf(m, 2) # {} => Len(m.pos[1]) = 1
    [] c.k = "key" -> setKey(m, PosOf(m, c.at), have)
    [] c.k = "optkey" -> PosOf(m, c.at) # {} => setKey(m, PosOf(m, c.at), have)
    [] c.k = "lastkey" -> setKey(m, PosOf(m, Len(m.pos)), have)
    [] c.k = "mime" -> /\ Times(m, mimeSelectors \cup {"anychild"}) > 0 => Given(m, "mime")
                       /\ Given(m, "mime") => "mime" \in have
    [] c.k = "noselector" -> Times(m, mimeSelectors) = 0
    [] c.k = "atmostone" -> \A g \in c.groups : Times(m, g) <= 1

(* What a check asks RequiresExtension for. Asking for variables or         *)
(* encoded-character leaves no mark: no guard ever grants those.            *)
AskedBy(c, m) ==
  CASE c.k = "given" -> IF Given(m, c.tag) THEN {c.ext} ELSE {}
    [] c.k = "set" -> IF IsSet(m, c.tag) THEN {c.ext} ELSE {}
    [] c.k = "ask" -> {c.ext}
    [] c.k \in {"vars", "canset"} -> AskedByVars(PosOf(m, c.at))
    [] c.k \in {"key", "lastkey"} -> AskedByKey(m)
    [] c.k = "optkey" -> IF PosOf(m, c.at) # {} THEN AskedByKey(m) ELSE {}
    [] c.k = "mime" -> IF Given(m, "mime") THEN {"mime"} ELSE {}
    [] OTHER -> {}

TagsOf(l, have) ==
  IF l.late # <<>> /\ l.late[1].ext \in have THEN l.tags @@ l.late[1].tags ELSE l.tags

(* The first of some alternatives that is there is asked for last.          *)
FirstOf(alternatives, have) ==
  LET there == {i \in DOMAIN alternatives : alternatives[i] \in have}
  IN  IF there = {} THEN Len(alternatives) ELSE Min(there)

(* Mutant: the loader forgets to ask for its extension.                     *)
LoadsUnasked(l, m, have) ==
  m.ok /\ (l.testing => testing) /\ \A i \in DOMAIN l.checks : Passes(l.checks[i], m, have)
Loads(l, m, have) ==
  /\ m.ok
  /\ \A i \in DOMAIN l.needs : \E j \in DOMAIN l.needs[i] : l.needs[i][j] \in have
  /\ l.testing => testing
  /\ \A i \in DOMAIN l.checks : Passes(l.checks[i], m, have)

Asked(l, m, have) ==
  (UNION {{l.needs[i][j] : j \in 1..FirstOf(l.needs[i], have)} : i \in DOMAIN l.needs})
  \cup {l.late[i].ext : i \in DOMAIN l.late}
  \cup UNION {AskedBy(l.checks[i], m) : i \in DOMAIN l.checks}

LoaderOf(c) == IF c.kind = "command" THEN commands[c.name] ELSE tests[c.name]
Match(c, have) ==
  MatchArgs(TagsOf(LoaderOf(c), have), LoaderOf(c).pos, "encoded-character" \in have, c.args)

-----------------------------------------------------------------------------
(* gob knows the types registered with it, a set for every file, and        *)
(* refuses the rest, and those with nothing but an unexported matcherTest:  *)
(* virustest and test_error.                                                *)
RegisteredActions ==
  {"stop", "fileinto", "redirect", "keep", "discard", "setflag", "addflag", "removeflag", "reject", "ereject"}
RegisteredControl == {"if", "elsif", "else"}
RegisteredMime == {"foreverypart", "break"}
RegisteredMimeActions == {"replace", "enclose"}
RegisteredTests ==
  {"address", "allof", "anyof", "body", "envelope", "environment", "exists", "false", "true", "header", "not", "size"}
RegisteredVariables == {"string"}
RegisteredMetadata == {"metadata", "metadataexists", "servermetadata", "servermetadataexists"}
RegisteredScores == {"spamtest"}
RegisteredTestsuite ==
  {"test", "test_fail", "test_config_set", "test_config_unset", "test_binary_save", "test_binary_load",
   "test_message", "test_result_reset", "test_mailbox_create", "test_script_compile", "test_script_run",
   "test_result_action", "test_result_execute"}
Registered ==
  UNION {RegisteredActions, RegisteredControl, RegisteredMime, RegisteredMimeActions, RegisteredTests,
         RegisteredVariables, RegisteredMetadata, RegisteredScores, RegisteredTestsuite}

-----------------------------------------------------------------------------
(* What a loaded command finds in its strings when it runs.                 *)
(*                                                                          *)
(* The variables it takes by name: hasflag reads them, the others set them. *)
NamesFirst(l, m) == l.first = "set" \/ (l.first \in {"setOfTwo", "getOfTwo"} /\ PosOf(m, 2) # {})
NameNeeds(l, m) ==
  (IF ~NamesFirst(l, m) THEN {}
   ELSE IF l.first = "getOfTwo" THEN AskedByVars(PosOf(m, 1)) ELSE SetNeeds(PosOf(m, 1)))
  \cup (IF IsSet(m, "output") THEN SetNeeds(Range(ValueOf(m, "output"))) ELSE {})

(* The keys of a matcherTest, and what they refer to when they are matched. *)
(* Patterns without variables are compiled when they load. tryMatch expands *)
(* a key twice: what a variable holds may refer to any other.               *)
KeyPlaces(l, m) ==
  {IF c.k = "lastkey" THEN Len(m.pos) ELSE c.at : c \in {d \in Range(l.checks) : d.k \in {"key", "optkey", "lastkey"}}}
Compiled(m, have) == "variables" \notin have /\ (Given(m, "matches") \/ Given(m, "regex"))
Keys(l, m) == UNION {PosOf(m, i) : i \in KeyPlaces(l, m)}
ExpandsTwice(m, key) ==
  key \cap (DOMAIN Namespace \cup {"x"}) # {} /\ ~Given(m, "list") /\ ~Given(m, "count")
KeyNeeds(l, m, have) ==
  IF Compiled(m, have) THEN {}
  ELSE AskedByVars(Keys(l, m)) \cup (IF ExpandsTwice(m, Keys(l, m)) THEN {"no-such-extension"} ELSE {})

(* What its other texts refer to.                                           *)
TextNeeds(l, m) ==
  LET places == l.texts \ (KeyPlaces(l, m) \cup (IF NamesFirst(l, m) THEN {1} ELSE {}))
  IN  AskedByVars(UNION {PosOf(m, i) : i \in places} \cup UNION {Range(ValueOf(m, t)) : t \in {u \in l.textTags : Given(m, u)}})

(* The variables its loader has checked. LoadSpec itself checks none.       *)
VarNeeds(l, m, have) ==
  UNION {AskedByVars(PosOf(m, c.at)) :
           c \in {d \in Range(l.checks) : d.k = "canset" \/ (d.k = "vars" /\ "variables" \in have)}}

Loaded(c, l, m) ==
  [name |-> c.name, uses |-> Asked(l, m, Have) \cap Have, runs |-> l.runs,
   names |-> NameNeeds(l, m), texts |-> TextNeeds(l, m), keys |-> KeyNeeds(l, m, Have),
   checked |-> VarNeeds(l, m, Have), compares |-> Keys(l, m) # {}, keyed |-> Keys(l, m) # {}]

Refers(c) == c.texts \cup c.keys

-----------------------------------------------------------------------------
Init ==
  /\ \/ call \in Calls /\ phase = "loading" /\ allowed \in Grants /\ testing = LoaderOf(call).testing
     \/ call \in Matches /\ phase = "matching" /\ allowed = {} /\ testing = FALSE
  /\ steps = 0
  /\ extensions = {} /\ guardedUsed = {} /\ loaded = {} /\ stack = <<>>
  /\ guarded = [e \in supportedRequires |-> 0]

(* The extensions this script may name: those its call asks for, and some.  *)
Named ==
  LET l == LoaderOf(call)
      m == Match(call, supportedRequires)
      refers == TextNeeds(l, m) \cup KeyNeeds(l, m, {"variables"})
  IN  Asked(l, m, {}) \cup NameNeeds(l, m) \cup refers \cup {"ihave", "no-such-extension"}
      \cup (IF refers # {} THEN {"variables"} ELSE {})

Lists == {s \in SUBSET Named : Cardinality(s) \in 1..MaxNames}

Loading == phase = "loading" /\ steps < MaxSteps /\ steps' = steps + 1
           /\ UNCHANGED <<call, allowed, testing>>
Fail == phase' = "failed" /\ UNCHANGED <<extensions, guarded, guardedUsed, stack, loaded>>

(* loadRequire. A name is added even if a later one of the list fails, but  *)
(* the script is lost then.                                                 *)
Implied(e) == CASE e = "imapflags" -> {"imap4flags"} [] e = "vacation-seconds" -> {"vacation"} [] OTHER -> {}
Require(exts) ==
  /\ Loading
  /\ IF exts \subseteq supportedRequires \cup (IF testing THEN {DovecotTestExtension} ELSE {})
     THEN /\ extensions' = extensions \cup exts \cup UNION {Implied(e) : e \in exts}
          /\ UNCHANGED <<phase, guarded, guardedUsed, stack, loaded>>
     ELSE Fail

(* LoadCmd, or LoadTest of an if's test, with n tests that ask for nothing  *)
(* and an empty block or none.                                              *)
LoadCall(n, block) ==
  /\ Loading
  /\ \E l \in {LoaderOf(call)}, m \in {Match(call, Have)} :
       IF BodyFits(l.tests, l.block, n, block) /\ Loads(l, m, Have)
       THEN /\ guardedUsed' = MarkUsed(Asked(l, m, Have))
            /\ loaded' = loaded \cup {Loaded(call, l, m)}
            /\ UNCHANGED <<phase, extensions, guarded, stack>>
       ELSE Fail

(* loadCondBlock whose only test is ihave. Under a false one the block is   *)
(* passed over; under a true one it is loaded with the guard up.            *)
Ihave == [name |-> "ihave", uses |-> {"ihave"}, runs |-> {}, names |-> {}, texts |-> {}, keys |-> {},
          checked |-> {}, compares |-> FALSE, keyed |-> FALSE]
LoadIfIhave(caps) ==
  /\ Loading
  /\ IF "ihave" \notin Have THEN Fail
     ELSE /\ guardedUsed' = MarkUsed({"ihave"})
          /\ loaded' = loaded \cup {Ihave}
          /\ UNCHANGED <<phase, extensions>>
          /\ IF \A e \in caps : available(e)
             THEN /\ Len(stack) < MaxDepth
                  /\ guarded' = [e \in DOMAIN guarded |-> guarded[e] + (IF e \in caps THEN 1 ELSE 0)]
                  /\ stack' = Append(stack, caps)
             ELSE UNCHANGED <<guarded, stack>>

(* An ihave inside another test guards nothing, and the block is loaded.    *)
LoadIfNotIhave ==
  /\ Loading /\ Len(stack) < MaxDepth
  /\ IF "ihave" \notin Have THEN Fail
     ELSE /\ guardedUsed' = MarkUsed({"ihave"})
          /\ loaded' = loaded \cup {Ihave}
          /\ stack' = Append(stack, {})
          /\ UNCHANGED <<phase, extensions, guarded>>

(* else, foreverypart, or an if with another test.                          *)
LoadBlock ==
  /\ Loading /\ Len(stack) < MaxDepth
  /\ stack' = Append(stack, {})
  /\ UNCHANGED <<phase, extensions, guarded, guardedUsed, loaded>>

(* The end of a block, and loadCondBlock's deferred function.               *)
(* Mutant: the guard of a true ihave stays up behind its block.             *)
EndBlockGuarded ==
  /\ phase = "loading" /\ stack # <<>> /\ stack' = SubSeq(stack, 1, Len(stack) - 1)
  /\ UNCHANGED <<call, allowed, testing, phase, extensions, guarded, guardedUsed, loaded, steps>>
EndBlock ==
  /\ phase = "loading" /\ stack # <<>>
  /\ guarded' = [e \in DOMAIN guarded |-> guarded[e] - (IF e \in stack[Len(stack)] THEN 1 ELSE 0)]
  /\ stack' = SubSeq(stack, 1, Len(stack) - 1)
  /\ UNCHANGED <<call, allowed, testing, phase, extensions, guardedUsed, loaded, steps>>

(* LoadScript returns.                                                      *)
LoadScript ==
  /\ phase = "loading" /\ stack = <<>> /\ loaded # {}
  /\ phase' = "loaded"
  /\ UNCHANGED <<call, allowed, testing, extensions, guarded, guardedUsed, stack, loaded, steps>>

(* A loaded command runs, asks again for its extension, expands its texts   *)
(* and reads or sets the variables it names, or returns before it comes to  *)
(* them. An unusable variable is an error where it is named and makes       *)
(* expandVars panic where it is referred to.                                *)
Execute ==
  /\ phase \in {"loaded", "restored"}
  /\ \E c \in loaded :
       \/ c.runs \subseteq Have /\ phase' = phase
       \/ ~(c.runs \subseteq Have) /\ phase' = "refused"
       \/ c.runs \subseteq Have /\ ~(c.names \subseteq Have) /\ phase' = "aborted"
       \/ /\ c.runs \subseteq Have /\ "variables" \in Have
          /\ ~(Refers(c) \subseteq Have) /\ phase' = "panicked"
  /\ UNCHANGED <<call, allowed, testing, extensions, guarded, guardedUsed, stack, loaded, steps>>

(* SaveTo fails on a type gob does not know; RestoreFrom makes a script     *)
(* with the reported extensions and no guards. gob leaves out what is not   *)
(* exported: a restored test has an empty matcherTest, no keys among it.    *)
Savable(c) == c.name \in Registered
SaveTo ==
  /\ phase = "loaded"
  /\ phase' = IF \A c \in loaded : Savable(c) THEN "saved" ELSE "unsaved"
  /\ UNCHANGED <<call, allowed, testing, extensions, guarded, guardedUsed, stack, loaded, steps>>
Restored(c) ==
  [name |-> c.name, uses |-> c.uses, runs |-> c.runs, names |-> c.names, texts |-> c.texts, keys |-> {},
   checked |-> c.checked, compares |-> c.compares, keyed |-> FALSE]
(* Mutant: the new script is not given the commands.                        *)
RestoreFromEmpty ==
  /\ phase = "saved" /\ phase' = "restored"
  /\ extensions' = Extensions /\ guardedUsed' = {}
  /\ guarded' = [e \in DOMAIN guarded |-> 0]
  /\ loaded' = {}
  /\ UNCHANGED <<call, allowed, testing, stack, steps>>
RestoreFrom ==
  /\ phase = "saved" /\ phase' = "restored"
  /\ extensions' = Extensions /\ guardedUsed' = {}
  /\ guarded' = [e \in DOMAIN guarded |-> 0]
  /\ loaded' = {Restored(c) : c \in loaded}
  /\ UNCHANGED <<call, allowed, testing, stack, steps>>

Next ==
  \/ \E exts \in Lists : Require(exts) \/ LoadIfIhave(exts)
  \/ \E n \in 0..2, block \in BOOLEAN : LoadCall(n, block)
  \/ LoadIfNotIhave \/ LoadBlock \/ EndBlock \/ LoadScript \/ Execute \/ SaveTo \/ RestoreFrom

Spec == Init /\ [][Next]_vars

-----------------------------------------------------------------------------
TypeOK ==
  /\ phase \in {"matching", "loading", "failed", "loaded", "refused", "aborted", "panicked", "saved", "unsaved", "restored"}
  /\ extensions \subseteq supportedRequires \cup {DovecotTestExtension}
  /\ guarded \in [supportedRequires -> Nat] /\ guardedUsed \subseteq supportedRequires
  /\ stack \in Seq(SUBSET supportedRequires)

(* A guard is up exactly while a block of a true ihave that names it is     *)
(* open, so nothing gets in on a guard that has ended, and every name a     *)
(* guard granted is one the host allows.                                    *)
GuardsNest ==
  /\ \A e \in supportedRequires : guarded[e] = Cardinality({i \in DOMAIN stack : e \in stack[i]})
  /\ \A e \in guardedUsed : available(e)

(* Script.Extensions tells the host exactly what was required and what the  *)
(* loaded commands were let in on.                                          *)
ReportsWhatIsUsed ==
  phase \in {"loading", "loaded"} => Extensions = extensions \cup UNION {c.uses : c \in loaded}

(* The script that RestoreFrom makes reports what the saved one reported,   *)
(* has the extensions the saved one had, and every command of the saved one *)
(* that passes its checks when it runs passes them in the restored one too. *)
(* Whether it then does the same is RestoredCompares.                       *)
Runs(c) == c.runs \cup c.names \subseteq Have /\ ("variables" \in Have => Refers(c) \subseteq Have)
RestoredAsSaved ==
  [][phase = "saved" /\ phase' = "restored" =>
       /\ Extensions' = Extensions /\ Have' = Have
       /\ \A c \in loaded : Runs(c) => \E d \in loaded' : d.name = c.name /\ Runs(d)']_vars

(* LoadSpec takes the arguments the grammar allows and no others.           *)
TakesWellFormed ==
  phase = "matching" => \A encoded \in BOOLEAN :
    LET l == LoaderOf(call) IN
    MatchArgs(l.tags, l.pos, encoded, call.args).ok <=> WellFormed(l.tags, l.pos, encoded, call.args)

(* A script fails the checks of a running command only if it uses an        *)
(* extension on a guard alone, or a command refers to or names a variable   *)
(* that its loader has not checked: usedVarsAreValid and IsVarUsable are    *)
(* called for the arguments of programs, messages of debug_log and names    *)
(* that are set, and only while "variables" is required.                    *)
RequiredSuffices ==
  phase \in {"refused", "aborted", "panicked"} =>
    guardedUsed # {} \/ \E c \in loaded : ~((c.names \cup Refers(c)) \ c.checked \subseteq extensions)

(* variables.go's panic asserts that no running command refers to an        *)
(* unusable variable; load_generic.go has its specs "Toggle checks for      *)
(* valid variable names".                                                   *)
RefersToUsable == phase # "panicked"

(* execute_test.go has every script applied again as "binary reloaded" with *)
(* the same actions expected. A test that compares with keys can match in a *)
(* restored script only if it has them.                                     *)
RestoredCompares == phase = "restored" => \A c \in loaded : c.compares => c.keyed
=============================================================================

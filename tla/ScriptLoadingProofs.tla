------------------------- MODULE ScriptLoadingProofs ------------------------
(* Loading, for any script of the commands and tests of the tables, any     *)
(* host and blocks nested to any depth: the guards of ihave; LoadSpec takes *)
(* what the grammar allows; what Extensions reports, what a saved script    *)
(* holds and what the loaded commands ask for again when they run.          *)
EXTENDS ScriptLoading, FiniteSetTheorems, WellFoundedInduction, TLAPS

Opened(s, e) == {i \in DOMAIN s : e \in s[i]}
Outer(s) == SubSeq(s, 1, Len(s) - 1)
Inner(s) == s[Len(s)]

(* The open blocks hold what the host allows, the counters count them, and  *)
(* loading ends only when every block has.                                  *)
IInv ==
  /\ stack \in Seq(SUBSET supportedRequires)
  /\ guarded \in [supportedRequires -> Nat]
  /\ \A i \in DOMAIN stack : \A e \in stack[i] : available(e)
  /\ \A e \in supportedRequires : guarded[e] = Cardinality(Opened(stack, e))
  /\ \A e \in guardedUsed : available(e)
  /\ phase \notin {"loading", "failed"} => stack = <<>>

(* A block adds itself to the open blocks of the names it guards.           *)
LEMMA Opening ==
  ASSUME NEW S, NEW s \in Seq(S), NEW c \in S, NEW e
  PROVE  /\ IsFiniteSet(Opened(s, e))
         /\ Cardinality(Opened(Append(s, c), e)) = Cardinality(Opened(s, e)) + (IF e \in c THEN 1 ELSE 0)
<1>1. IsFiniteSet(Opened(s, e))
  <2>1. Opened(s, e) \subseteq 1..Len(s) /\ Len(s) \in Nat
    BY DEF Opened
  <2>2. IsFiniteSet(1..Len(s))
    BY <2>1, FS_Interval
  <2> QED BY <2>1, <2>2, FS_Subset
<1>2. Opened(Append(s, c), e) = IF e \in c THEN Opened(s, e) \cup {Len(s) + 1} ELSE Opened(s, e)
  BY DEF Opened
<1>3. Len(s) + 1 \notin Opened(s, e)
  BY DEF Opened
<1>4. Cardinality(Opened(s, e)) \in Nat
  BY <1>1, FS_CardinalityType
<1>5. Cardinality(Opened(s, e) \cup {Len(s) + 1}) = Cardinality(Opened(s, e)) + 1
  BY <1>1, <1>3, FS_AddElement, Zenon
<1> QED BY <1>1, <1>2, <1>4, <1>5

(* A block that ends takes itself out again.                                *)
LEMMA Closing ==
  ASSUME NEW S, NEW s \in Seq(S), s # <<>>, NEW e
  PROVE  /\ Outer(s) \in Seq(S) /\ Inner(s) \in S /\ s = Append(Outer(s), Inner(s))
         /\ Cardinality(Opened(s, e)) = Cardinality(Opened(Outer(s), e)) + (IF e \in Inner(s) THEN 1 ELSE 0)
<1>1. Len(s) \in Nat \ {0} /\ Outer(s) = SubSeq(s, 1, Len(s) - 1) /\ Inner(s) = s[Len(s)]
  BY DEF Outer, Inner
<1>2. Outer(s) \in Seq(S) /\ Inner(s) \in S /\ s = Append(Outer(s), Inner(s))
  BY <1>1
<1>3. Cardinality(Opened(Append(Outer(s), Inner(s)), e))
        = Cardinality(Opened(Outer(s), e)) + (IF e \in Inner(s) THEN 1 ELSE 0)
  BY <1>2, Opening
<1> QED BY <1>2, <1>3, Zenon

(* Nothing is open at first.                                                *)
LEMMA Initially == Init => IInv
<1> SUFFICES ASSUME Init PROVE IInv
  OBVIOUS
<1>1. stack = <<>> /\ guardedUsed = {} /\ guarded = [e \in supportedRequires |-> 0]
  BY DEF Init
<1>2. \A e : Opened(<<>>, e) = {}
  BY DEF Opened
<1>3. Cardinality({}) = 0
  BY FS_EmptySet
<1>4. \A e \in supportedRequires : guarded[e] = Cardinality(Opened(stack, e))
  BY <1>1, <1>2, <1>3, Zenon
<1>5. /\ stack \in Seq(SUBSET supportedRequires)
      /\ \A i \in DOMAIN stack : \A e \in stack[i] : available(e)
  BY <1>1
<1> QED BY <1>1, <1>4, <1>5 DEF IInv

(* A name that is marked is one a guard grants, so an open block names it   *)
(* and the host allows it.                                                  *)
LEMMA Marking ==
  ASSUME IInv, NEW asked, NEW e \in MarkUsed(asked)
  PROVE  available(e)
<1>1. CASE e \in guardedUsed
  BY <1>1 DEF IInv
<1>2. CASE e \notin guardedUsed
  <2>1. e \in supportedRequires /\ guarded[e] > 0
    BY <1>2 DEF MarkUsed, IInv
  <2>2. Cardinality(Opened(stack, e)) # 0
    BY <2>1 DEF IInv
  <2>3. Opened(stack, e) # {}
    BY <2>2, FS_EmptySet
  <2>4. PICK i \in DOMAIN stack : e \in stack[i]
    BY <2>3 DEF Opened
  <2> QED BY <2>4 DEF IInv
<1> QED BY <1>1, <1>2

(* Steps that leave guards, blocks and the host's word alone.               *)
LEMMA Quiet ==
  ASSUME IInv, UNCHANGED <<allowed, guarded, stack>>,
         \A e \in guardedUsed' : available(e),
         phase' \in {"loading", "failed"} \/ stack = <<>>
  PROVE  IInv'
BY DEF IInv, available

(* A block with capabilities caps is opened.                                *)
LEMMA Guarding ==
  ASSUME IInv, NEW caps, \A e \in caps : available(e),
         guarded' = [e \in DOMAIN guarded |-> guarded[e] + (IF e \in caps THEN 1 ELSE 0)],
         stack' = Append(stack, caps), UNCHANGED allowed,
         \A e \in guardedUsed' : available(e),
         phase' = "loading"
  PROVE  IInv'
<1>1. caps \in SUBSET supportedRequires
  BY DEF available
<1>2. stack' \in Seq(SUBSET supportedRequires) /\ guarded' \in [supportedRequires -> Nat]
  BY <1>1 DEF IInv
<1>3. \A i \in DOMAIN stack' : \A e \in stack'[i] : available(e)
  BY <1>1 DEF IInv
<1>4. ASSUME NEW e \in supportedRequires
      PROVE  guarded'[e] = Cardinality(Opened(stack', e))
  <2>1. guarded'[e] = guarded[e] + (IF e \in caps THEN 1 ELSE 0)
    BY DEF IInv
  <2>2. Cardinality(Opened(stack', e)) = Cardinality(Opened(stack, e)) + (IF e \in caps THEN 1 ELSE 0)
    BY <1>1, Opening DEF IInv
  <2> QED BY <2>1, <2>2 DEF IInv
<1> QED BY <1>2, <1>3, <1>4 DEF IInv, available

(* A block without capabilities is opened.                                  *)
LEMMA Blocking ==
  ASSUME IInv, guarded' = guarded, stack' = Append(stack, {}), UNCHANGED allowed,
         \A e \in guardedUsed' : available(e),
         phase' = "loading"
  PROVE  IInv'
<1>1. PICK caps : caps = {}
  BY Zenon
<1>2. guarded' = [e \in DOMAIN guarded |-> guarded[e] + (IF e \in caps THEN 1 ELSE 0)]
  BY <1>1 DEF IInv
<1>3. stack' = Append(stack, caps) /\ \A e \in caps : available(e)
  BY <1>1
<1> QED BY <1>2, <1>3, Guarding

(* A block ends.                                                            *)
LEMMA Ending == IInv /\ EndBlock => IInv'
<1> SUFFICES ASSUME IInv, EndBlock PROVE IInv'
  OBVIOUS
<1>1. /\ stack \in Seq(SUBSET supportedRequires) /\ stack # <<>> /\ stack' = Outer(stack)
      /\ phase' = "loading" /\ UNCHANGED <<allowed, guardedUsed>>
  BY DEF IInv, EndBlock, Outer, Inner
<1>2. /\ stack' \in Seq(SUBSET supportedRequires) /\ stack = Append(stack', Inner(stack))
      /\ Inner(stack) \in SUBSET supportedRequires
  BY <1>1, Closing, Zenon
<1>3. \A i \in DOMAIN stack' : \A e \in stack'[i] : available(e)
  <2>1. \A i \in DOMAIN stack' : i \in DOMAIN stack /\ stack'[i] = stack[i]
    BY <1>2
  <2> QED BY <2>1 DEF IInv
<1>4. ASSUME NEW e \in supportedRequires
      PROVE  guarded'[e] \in Nat /\ guarded'[e] = Cardinality(Opened(stack', e))
  <2>1. guarded'[e] = guarded[e] - (IF e \in Inner(stack) THEN 1 ELSE 0)
    BY DEF IInv, EndBlock, Outer, Inner
  <2>2. Cardinality(Opened(stack, e)) = Cardinality(Opened(stack', e)) + (IF e \in Inner(stack) THEN 1 ELSE 0)
    BY <1>1, Closing
  <2>3. Cardinality(Opened(stack', e)) \in Nat
    BY <1>2, Opening, FS_CardinalityType, Zenon
  <2>4. guarded[e] = Cardinality(Opened(stack, e))
    BY DEF IInv
  <2> QED BY <2>1, <2>2, <2>3, <2>4
<1>5. guarded' \in [supportedRequires -> Nat]
  BY <1>4 DEF IInv, EndBlock
<1> QED BY <1>1, <1>2, <1>3, <1>4, <1>5 DEF IInv, available

(* Every step keeps the invariant. Only ihave and the end of a block touch  *)
(* the guards while loading; a restored script starts without them.         *)
LEMMA Inductive == IInv /\ [Next]_vars => IInv'
<1> SUFFICES ASSUME IInv, [Next]_vars PROVE IInv'
  OBVIOUS
<1>1. \A e \in guardedUsed : available(e)
  BY DEF IInv
<1>2. ASSUME NEW exts, Require(exts) PROVE IInv'
  BY <1>1, <1>2, Quiet DEF Require, Loading, Fail
<1>3. ASSUME NEW caps, LoadIfIhave(caps) PROVE IInv'
  <2>1. UNCHANGED allowed
    BY <1>3 DEF LoadIfIhave, Loading
  <2>2. CASE "ihave" \notin Have
    BY <1>1, <1>3, <2>2, Quiet DEF LoadIfIhave, Loading, Fail
  <2>3. CASE "ihave" \in Have
    <3>1. guardedUsed' = MarkUsed({"ihave"}) /\ phase' = "loading"
      BY <1>3, <2>3 DEF LoadIfIhave, Loading
    <3>2. \A e \in guardedUsed' : available(e)
      BY <3>1, Marking
    <3>3. CASE \A e \in caps : available(e)
      <4>1. /\ guarded' = [e \in DOMAIN guarded |-> guarded[e] + (IF e \in caps THEN 1 ELSE 0)]
            /\ stack' = Append(stack, caps)
        BY <1>3, <2>3, <3>3 DEF LoadIfIhave
      <4> QED BY <2>1, <3>1, <3>2, <3>3, <4>1, Guarding
    <3>4. CASE ~\A e \in caps : available(e)
      BY <1>3, <2>1, <2>3, <3>1, <3>2, <3>4, Quiet DEF LoadIfIhave
    <3> QED BY <3>3, <3>4
  <2> QED BY <2>2, <2>3
<1>4. ASSUME \E n \in 0..2, block \in BOOLEAN : LoadCall(n, block) PROVE IInv'
  <2>1. PICK n \in 0..2, block \in BOOLEAN : LoadCall(n, block)
    BY <1>4
  <2>2. PICK l \in {LoaderOf(call)}, m \in {Match(call, Have)} :
          IF BodyFits(l.tests, l.block, n, block) /\ Loads(l, m, Have)
          THEN /\ guardedUsed' = MarkUsed(Asked(l, m, Have))
               /\ loaded' = loaded \cup {Loaded(call, l, m)}
               /\ UNCHANGED <<phase, extensions, guarded, stack>>
          ELSE Fail
    BY <2>1 DEF LoadCall
  <2>3. phase = "loading" /\ UNCHANGED allowed
    BY <2>1 DEF LoadCall, Loading
  <2>4. CASE BodyFits(l.tests, l.block, n, block) /\ Loads(l, m, Have)
    <3>1. guardedUsed' = MarkUsed(Asked(l, m, Have)) /\ UNCHANGED <<phase, guarded, stack>>
      BY <2>2, <2>4
    <3>2. \A e \in guardedUsed' : available(e)
      BY <3>1, Marking
    <3> QED BY <2>3, <3>1, <3>2, Quiet
  <2>5. CASE ~(BodyFits(l.tests, l.block, n, block) /\ Loads(l, m, Have))
    <3>1. phase' = "failed" /\ UNCHANGED <<guarded, guardedUsed, stack>>
      BY <2>2, <2>5 DEF Fail
    <3> QED BY <1>1, <2>3, <3>1, Quiet
  <2> QED BY <2>4, <2>5
<1>5. CASE LoadIfNotIhave
  <2>1. UNCHANGED allowed
    BY <1>5 DEF LoadIfNotIhave, Loading
  <2>2. CASE "ihave" \notin Have
    BY <1>1, <1>5, <2>2, Quiet DEF LoadIfNotIhave, Loading, Fail
  <2>3. CASE "ihave" \in Have
    <3>1. /\ guardedUsed' = MarkUsed({"ihave"}) /\ phase' = "loading"
          /\ stack' = Append(stack, {}) /\ guarded' = guarded
      BY <1>5, <2>3 DEF LoadIfNotIhave, Loading
    <3>2. \A e \in guardedUsed' : available(e)
      BY <3>1, Marking
    <3> QED BY <2>1, <3>1, <3>2, Blocking
  <2> QED BY <2>2, <2>3
<1>6. CASE LoadBlock
  <2>1. /\ guardedUsed' = guardedUsed /\ phase' = "loading" /\ allowed' = allowed
        /\ stack' = Append(stack, {}) /\ guarded' = guarded
    BY <1>6 DEF LoadBlock, Loading
  <2> QED BY <1>1, <2>1, Blocking
<1>7. CASE EndBlock
  BY <1>7, Ending
<1>8. CASE LoadScript \/ Execute \/ SaveTo
  <2>1. UNCHANGED <<allowed, guarded, guardedUsed, stack>> /\ stack = <<>>
    BY <1>8 DEF LoadScript, Execute, SaveTo, IInv
  <2> QED BY <1>1, <2>1, Quiet
<1>9. CASE RestoreFrom
  <2>1. /\ stack' = <<>> /\ stack = <<>> /\ guardedUsed' = {} /\ allowed' = allowed
        /\ guarded' = [e \in supportedRequires |-> 0]
    BY <1>9 DEF RestoreFrom, IInv
  <2>2. \A e : Opened(<<>>, e) = {}
    BY DEF Opened
  <2>3. \A e \in supportedRequires : guarded'[e] = Cardinality(Opened(stack', e))
    BY <2>1, <2>2, FS_EmptySet, Zenon
  <2> QED BY <2>1, <2>3 DEF IInv
<1>10. CASE UNCHANGED vars
  <2>1. UNCHANGED <<allowed, guarded, guardedUsed, stack, phase>>
    BY <1>10 DEF vars
  <2>2. phase' \in {"loading", "failed"} \/ stack = <<>>
    BY <2>1 DEF IInv
  <2> QED BY <1>1, <2>1, <2>2, Quiet
<1> QED BY <1>2, <1>3, <1>4, <1>5, <1>6, <1>7, <1>8, <1>9, <1>10, Zenon DEF Next

(* A guard is up exactly while a block that names it is open, and grants    *)
(* only what the host allows: for any commands, nested to any depth.        *)
THEOREM Guards == Spec => []GuardsNest
<1>1. IInv => GuardsNest
  BY DEF IInv, GuardsNest, Opened
<1> QED BY <1>1, Initially, Inductive, PTL DEF Spec
-----------------------------------------------------------------------------
(* The least element of a set of numbers.                                   *)
LEMMA Least ==
  ASSUME NEW T, T \subseteq Nat, T # {}
  PROVE  \E n \in T : \A m \in T : n <= m
<1>1. PICK x \in T : \A y \in T : ~(<<y, x>> \in OpToRel(<, Nat))
  BY NatLessThanWellFounded, WFMin, Zenon
<1>2. ASSUME NEW y \in Nat, NEW z \in Nat, y < z PROVE <<y, z>> \in OpToRel(<, Nat)
  BY <1>2 DEF OpToRel
<1>3. \A y \in T : x \in Nat /\ y \in Nat /\ ~(y < x)
  BY <1>1, <1>2, Zenon
<1> QED BY <1>3

(* Induction over the natural numbers, for a set instead of a predicate.    *)
LEMMA Induct ==
  ASSUME NEW S, 0 \in S, \A n \in Nat : n \in S => n + 1 \in S
  PROVE  Nat \subseteq S
<1> SUFFICES ASSUME Nat \ S # {} PROVE FALSE
  OBVIOUS
<1>1. PICK n \in Nat \ S : \A m \in Nat \ S : n <= m
  BY Least, Zenon
<1>2. n # 0 /\ n - 1 \in Nat /\ n - 1 \in S
  BY <1>1
<1> QED BY <1>1, <1>2

(* The loop of LoadSpec, argument by argument.                              *)
Turns(tags, pos, encoded, args) ==
  CHOOSE f : f = [i \in 0..Len(args) |-> IF i = 0 THEN Start
                                         ELSE MatchArg(tags, pos, encoded, f[i - 1], args[i])]

(* The loop is defined for arguments of any length.                         *)
LEMMA LoopRuns ==
  ASSUME NEW tags, NEW pos, NEW encoded, NEW args, Len(args) \in Nat
  PROVE  LET f == Turns(tags, pos, encoded, args)
         IN  f = [i \in 0..Len(args) |-> IF i = 0 THEN Start
                                         ELSE MatchArg(tags, pos, encoded, f[i - 1], args[i])]
<1> DEFINE Def(f, k) == f = [i \in 0..k |-> IF i = 0 THEN Start
                                    ELSE MatchArg(tags, pos, encoded, f[i - 1], args[i])]
           S == {k \in Nat : \E f : Def(f, k)}
<1>1. 0 \in S
  <2> DEFINE f == [i \in 0..0 |-> Start]
  <2>1. Def(f, 0)
    BY 0..0 = {0}
  <2> QED BY <2>1, Zenon
<1>2. ASSUME NEW k \in Nat, k \in S PROVE k + 1 \in S
  <2>1. PICK f : Def(f, k)
    BY <1>2
  <2> DEFINE g == [i \in 0..(k + 1) |->
                     IF i = k + 1 THEN MatchArg(tags, pos, encoded, f[k], args[k + 1]) ELSE f[i]]
  <2>2. ASSUME NEW i \in 0..(k + 1)
        PROVE  g[i] = IF i = 0 THEN Start ELSE MatchArg(tags, pos, encoded, g[i - 1], args[i])
    <3>1. CASE i = k + 1
      <4>1. g[i - 1] = f[k] /\ i - 1 = k
        BY <3>1
      <4> QED BY <3>1, <4>1
    <3>2. CASE i # k + 1 /\ i # 0
      <4>1. i \in 0..k /\ i - 1 \in 0..k /\ i - 1 # k + 1 /\ g[i - 1] = f[i - 1] /\ g[i] = f[i]
        BY <3>2
      <4> QED BY <2>1, <3>2, <4>1
    <3>3. CASE i = 0
      BY <2>1, <3>3
    <3> QED BY <3>1, <3>2, <3>3
  <2>3. Def(g, k + 1)
    BY <2>2
  <2>4. \E h : Def(h, k + 1)
    <3> HIDE DEF Def, g
    <3> QED BY <2>3
  <2> QED BY <2>4
<1>3. Len(args) \in S
  BY <1>1, <1>2, Induct, Zenon
<1>4. \E f : Def(f, Len(args))
  BY <1>3
<1> QED BY <1>4, Zenon DEF Turns

(* What the loop carries.                                                   *)
Matching(m) ==
  /\ m = [ok |-> m.ok, lastTag |-> m.lastTag, tags |-> m.tags, pos |-> m.pos]
  /\ m.ok \in BOOLEAN /\ m.pos \in Seq(Seq(STRING))

(* The tag that waits for its value after the first n arguments, the number *)
(* of positional ones among these, and what the grammar asks of them.       *)
Waiting(tags, args, n) ==
  IF n > 0 /\ args[n].k = "tag" /\ tags[args[n].v[1]].value # "none" THEN args[n].v[1] ELSE NoTag
Count(tags, args, n) == Cardinality({j \in Positional(tags, args) : j <= n})
TagGood(tags, encoded, args, n, i) ==
  args[i].k = "tag" =>
    /\ args[i].v[1] \in DOMAIN tags
    /\ tags[args[i].v[1]].value # "none" /\ i < n =>
         args[i + 1].k # "tag" /\ Fits(tags[args[i].v[1]], args[i + 1], encoded)
PlaceGood(tags, pos, encoded, args, i) ==
  /\ PlaceOf(tags, args, i) <= Len(pos)
  /\ Fits(pos[PlaceOf(tags, args, i)], args[i], encoded)
Prefix(tags, pos, encoded, args, n) ==
  /\ \A i \in 1..n : TagGood(tags, encoded, args, n, i)
  /\ \A i \in Positional(tags, args) : i <= n => PlaceGood(tags, pos, encoded, args, i)

Carries(tags, pos, encoded, args, n, m) ==
  /\ Matching(m)
  /\ m.ok <=> Prefix(tags, pos, encoded, args, n)
  /\ m.ok => m.lastTag = Waiting(tags, args, n) /\ Len(m.pos) = Count(tags, args, n)

(* An argument moves the count if it is positional.                         *)
LEMMA Counting ==
  ASSUME NEW tags, NEW args \in Arguments, NEW n \in 0..(Len(args) - 1)
  PROVE  /\ Count(tags, args, 0) = 0
         /\ Count(tags, args, n) \in Nat
         /\ n + 1 \in Positional(tags, args) =>
              Count(tags, args, n + 1) = Count(tags, args, n) + 1
         /\ n + 1 \notin Positional(tags, args) =>
              Count(tags, args, n + 1) = Count(tags, args, n)
<1> DEFINE C(k) == {j \in Positional(tags, args) : j <= k}
<1>1. Positional(tags, args) \subseteq 1..Len(args) /\ Len(args) \in Nat
  BY DEF Positional, Arguments
<1>2. IsFiniteSet(C(n))
  <2>1. C(n) \subseteq 1..Len(args)
    BY <1>1
  <2>2. IsFiniteSet(1..Len(args))
    BY <1>1, FS_Interval
  <2> QED BY <2>1, <2>2, FS_Subset
<1>3. Cardinality(C(n)) \in Nat
  BY <1>2, FS_CardinalityType
<1>4. C(0) = {} /\ Cardinality({}) = 0
  BY <1>1, FS_EmptySet
<1>5. n + 1 \notin C(n)
  BY <1>1
<1>6. ASSUME n + 1 \in Positional(tags, args) PROVE C(n + 1) = C(n) \cup {n + 1}
  BY <1>1, <1>6
<1>7. ASSUME n + 1 \notin Positional(tags, args) PROVE C(n + 1) = C(n)
  BY <1>1, <1>7
<1>8. Cardinality(C(n) \cup {n + 1}) = Cardinality(C(n)) + 1
  <2> HIDE DEF C
  <2> QED BY <1>2, <1>5, FS_AddElement
<1> HIDE DEF C
<1>9. \A k : Count(tags, args, k) = Cardinality(C(k))
  BY Zenon DEF Count, C
<1> QED BY <1>3, <1>4, <1>6, <1>7, <1>8, <1>9, Zenon

(* The grammar of one argument more.                                        *)
LEMMA OneMore ==
  ASSUME NEW tags, NEW pos, NEW encoded, NEW args \in Arguments, NEW n \in 0..(Len(args) - 1)
  PROVE  Prefix(tags, pos, encoded, args, n + 1) <=>
           /\ Prefix(tags, pos, encoded, args, n)
           /\ args[n + 1].k = "tag" =>
                ~(n > 0 /\ args[n].k = "tag" /\ tags[args[n].v[1]].value # "none")
           /\ args[n + 1].k = "tag" => args[n + 1].v[1] \in DOMAIN tags
           /\ n > 0 /\ args[n].k = "tag" /\ tags[args[n].v[1]].value # "none" =>
                Fits(tags[args[n].v[1]], args[n + 1], encoded)
           /\ n + 1 \in Positional(tags, args) => PlaceGood(tags, pos, encoded, args, n + 1)
<1>1. /\ Positional(tags, args) \subseteq 1..Len(args) /\ Len(args) \in Nat
      /\ n + 1 \in 1..Len(args) /\ n < n + 1 /\ 1..(n + 1) = 1..n \cup {n + 1}
  BY DEF Positional, Arguments
<1>2. (\A i \in Positional(tags, args) : i <= n + 1 => PlaceGood(tags, pos, encoded, args, i)) <=>
        /\ \A i \in Positional(tags, args) : i <= n => PlaceGood(tags, pos, encoded, args, i)
        /\ n + 1 \in Positional(tags, args) => PlaceGood(tags, pos, encoded, args, n + 1)
  BY <1>1
<1>3. ASSUME NEW i \in 1..n, i # n
      PROVE  TagGood(tags, encoded, args, n + 1, i) <=> TagGood(tags, encoded, args, n, i)
  BY <1>3 DEF TagGood
<1>4. ASSUME n > 0
      PROVE  TagGood(tags, encoded, args, n + 1, n) <=>
               /\ TagGood(tags, encoded, args, n, n)
               /\ args[n].k = "tag" /\ tags[args[n].v[1]].value # "none" =>
                     args[n + 1].k # "tag" /\ Fits(tags[args[n].v[1]], args[n + 1], encoded)
  BY <1>4 DEF TagGood
<1>5. TagGood(tags, encoded, args, n + 1, n + 1) <=>
        (args[n + 1].k = "tag" => args[n + 1].v[1] \in DOMAIN tags)
  BY DEF TagGood
<1>6. (\A i \in 1..(n + 1) : TagGood(tags, encoded, args, n + 1, i)) <=>
        /\ \A i \in 1..n : TagGood(tags, encoded, args, n, i)
        /\ n > 0 /\ args[n].k = "tag" /\ tags[args[n].v[1]].value # "none" =>
             args[n + 1].k # "tag" /\ Fits(tags[args[n].v[1]], args[n + 1], encoded)
        /\ args[n + 1].k = "tag" => args[n + 1].v[1] \in DOMAIN tags
  BY <1>1, <1>3, <1>4, <1>5
<1> QED BY <1>2, <1>6 DEF Prefix

(* One turn of the loop.                                                    *)
LEMMA Turn ==
  ASSUME NEW tags, NEW P, NEW pos \in Seq(P), NEW encoded, NEW args \in Arguments,
         TagsNamed(args),
         NEW n \in 0..(Len(args) - 1), NEW m, Carries(tags, pos, encoded, args, n, m)
  PROVE  Carries(tags, pos, encoded, args, n + 1, MatchArg(tags, pos, encoded, m, args[n + 1]))
<1> DEFINE a == args[n + 1]
           r == MatchArg(tags, pos, encoded, m, a)
           Waits == n > 0 /\ args[n].k = "tag" /\ tags[args[n].v[1]].value # "none"
<1>1. /\ n + 1 \in DOMAIN args /\ Len(args) \in Nat /\ n + 1 > 0
      /\ n > 0 => n \in DOMAIN args
  BY DEF Arguments
<1>1a. a.v \in Seq(STRING)
  <2>1. a \in [k : {"str", "list", "num", "tag"}, v : Seq(STRING)]
    <3>1. PICK R : R = [k : {"str", "list", "num", "tag"}, v : Seq(STRING)]
      BY Zenon
    <3>2. args \in Seq(R)
      BY <3>1 DEF Arguments
    <3>3. args[n + 1] \in R
      BY <1>1, <3>2
    <3> QED BY <3>1, <3>3
  <2> QED BY <2>1
<1>2. Matching(m) /\ Matching(Failed) /\ Failed.ok = FALSE
  BY DEF Failed, Carries, Matching
<1>3. a.k = "tag" => a.v[1] \in STRING /\ a.v[1] # NoTag
  <2>1. a.k = "tag" => a.v # <<>> /\ a.v[1] # NoTag
    BY <1>1, Zenon DEF TagsNamed, NoTag
  <2> QED BY <1>1a, <2>1
<1> USE Zenon
<1>3a. Prefix(tags, pos, encoded, args, n + 1) <=>
         /\ Prefix(tags, pos, encoded, args, n)
         /\ a.k = "tag" => ~Waits
         /\ a.k = "tag" => a.v[1] \in DOMAIN tags
         /\ Waits => Fits(tags[args[n].v[1]], a, encoded)
         /\ n + 1 \in Positional(tags, args) => PlaceGood(tags, pos, encoded, args, n + 1)
  BY OneMore
<1>4. CASE ~m.ok
  <2>1. r = m /\ ~Prefix(tags, pos, encoded, args, n)
    BY <1>4 DEF MatchArg, Carries
  <2>2. ~Prefix(tags, pos, encoded, args, n + 1)
    BY <2>1, <1>3a
  <2> QED BY <1>2, <1>4, <2>1, <2>2 DEF Carries
<1>5. CASE m.ok
  <2>1. /\ Prefix(tags, pos, encoded, args, n) /\ m.lastTag = Waiting(tags, args, n)
        /\ Len(m.pos) = Count(tags, args, n)
    BY <1>5 DEF Carries
  <2>2. Waits <=> m.lastTag # NoTag
    BY <1>1, <2>1, Zenon DEF Waiting, TagsNamed, NoTag
  <2>3. Waits => m.lastTag = args[n].v[1]
    BY <2>1 DEF Waiting
  <2>4. CASE a.k = "tag"
    <3>1. n + 1 \notin Positional(tags, args)
      BY <2>4 DEF Positional
    <3>2. Count(tags, args, n + 1) = Count(tags, args, n)
      BY <3>1, Counting
    <3>3. Prefix(tags, pos, encoded, args, n + 1) <=> ~Waits /\ a.v[1] \in DOMAIN tags
      BY <2>1, <2>4, <3>1, <1>3a
    <3>4. r = MatchTag(tags, m, a.v[1])
      BY <1>5, <2>4 DEF MatchArg
    <3>5. CASE Waits \/ a.v[1] \notin DOMAIN tags
      <4>1. r = Failed
        BY <2>2, <3>4, <3>5 DEF MatchTag
      <4> QED BY <1>2, <3>3, <3>5, <4>1 DEF Carries
    <3>6. CASE ~Waits /\ a.v[1] \in DOMAIN tags /\ tags[a.v[1]].value = "none"
      <4>1. r = [m EXCEPT !.tags = Append(@, [tag |-> a.v[1], v |-> <<>>])] /\ m.lastTag = NoTag
        BY <2>2, <3>4, <3>6 DEF MatchTag
      <4>2. Matching(r) /\ r.ok = m.ok /\ r.lastTag = m.lastTag /\ r.pos = m.pos
        BY <1>2, <1>3, <2>4, <4>1, Zenon DEF Matching
      <4>3. Waiting(tags, args, n + 1) = NoTag
        BY <3>6 DEF Waiting
      <4> QED BY <1>5, <2>1, <3>2, <3>3, <3>6, <4>1, <4>2, <4>3 DEF Carries
    <3>7. CASE ~Waits /\ a.v[1] \in DOMAIN tags /\ tags[a.v[1]].value # "none"
      <4>1. r = [m EXCEPT !.lastTag = a.v[1]]
        BY <2>2, <3>4, <3>7 DEF MatchTag
      <4>2. Matching(r) /\ r.ok = m.ok /\ r.lastTag = a.v[1] /\ r.pos = m.pos
        BY <1>2, <1>3, <2>4, <4>1, Zenon DEF Matching
      <4>3. Waiting(tags, args, n + 1) = a.v[1]
        BY <1>1, <2>4, <3>7 DEF Waiting
      <4> QED BY <1>5, <2>1, <3>2, <3>3, <3>7, <4>2, <4>3 DEF Carries
    <3> QED BY <3>5, <3>6, <3>7
  <2>5. CASE a.k # "tag"
    <3>1. r = MatchValue(tags, pos, encoded, m, a) /\ Waiting(tags, args, n + 1) = NoTag
      BY <1>5, <2>5 DEF MatchArg, Waiting
    <3>2. CASE Waits
      <4>1. n + 1 \notin Positional(tags, args)
        <5>1. args[n].v[1] \in DOMAIN tags
          BY <1>1, <2>1, <3>2, SMT DEF Prefix, TagGood
        <5>2. ValueOfTag(tags, args, n + 1)
          BY <1>1, <2>5, <3>2, <5>1, SMT DEF ValueOfTag
        <5> QED BY <5>2 DEF Positional
      <4>2. Count(tags, args, n + 1) = Count(tags, args, n)
        BY <4>1, Counting
      <4>3. Prefix(tags, pos, encoded, args, n + 1) <=> Fits(tags[m.lastTag], a, encoded)
        BY <2>1, <2>3, <2>5, <3>2, <4>1, <1>3a
      <4>4. CASE Fits(tags[m.lastTag], a, encoded)
        <5>1. r = [m EXCEPT !.tags = Append(@, [tag |-> m.lastTag, v |-> a.v]), !.lastTag = NoTag]
          BY <2>2, <3>1, <3>2, <4>4 DEF MatchValue
        <5>2. Matching(r) /\ r.ok = m.ok /\ r.lastTag = NoTag /\ r.pos = m.pos
          BY <1>2, <1>1a, <5>1, Zenon DEF Matching, NoTag
        <5> QED BY <1>5, <2>1, <3>1, <4>2, <4>3, <4>4, <5>2 DEF Carries
      <4>5. CASE ~Fits(tags[m.lastTag], a, encoded)
        <5>1. r = Failed
          BY <2>2, <3>1, <3>2, <4>5 DEF MatchValue
        <5> QED BY <1>2, <4>3, <4>5, <5>1 DEF Carries
      <4> QED BY <4>4, <4>5
    <3>3. CASE ~Waits
      <4>1. n + 1 \in Positional(tags, args)
        BY <1>1, <2>5, <3>3, SMT DEF Positional, ValueOfTag
      <4>2. Count(tags, args, n + 1) = Len(m.pos) + 1 /\ PlaceOf(tags, args, n + 1) = Len(m.pos) + 1
        <5>1. PlaceOf(tags, args, n + 1) = Count(tags, args, n + 1)
          BY Zenon DEF Count, PlaceOf
        <5> QED BY <2>1, <4>1, <5>1, Counting
      <4> DEFINE good == Len(m.pos) < Len(pos) /\ Fits(pos[Len(m.pos) + 1], a, encoded)
      <4>3. Prefix(tags, pos, encoded, args, n + 1) <=> good
        <5>1. PlaceGood(tags, pos, encoded, args, n + 1) <=> good
          BY <1>2, <4>2, SMT DEF PlaceGood, Matching
        <5> QED BY <2>1, <2>5, <3>3, <4>1, <5>1, <1>3a
      <4>4. CASE good
        <5>1. r = [m EXCEPT !.pos = Append(@, a.v)]
          BY <2>2, <3>1, <3>3, <4>4 DEF MatchValue
        <5>2. Matching(r) /\ r.ok = m.ok /\ r.lastTag = m.lastTag /\ Len(r.pos) = Len(m.pos) + 1
          <6>1. Append(m.pos, a.v) \in Seq(Seq(STRING)) /\ Len(Append(m.pos, a.v)) = Len(m.pos) + 1
            BY <1>2, <1>1a, SMT DEF Matching
          <6>2. r = [ok |-> m.ok, lastTag |-> m.lastTag, tags |-> m.tags, pos |-> Append(m.pos, a.v)]
            BY <1>2, <5>1, Zenon DEF Matching
          <6> QED BY <1>2, <6>1, <6>2, SMT DEF Matching
        <5> QED BY <1>5, <2>2, <3>1, <3>3, <4>2, <4>3, <4>4, <5>2 DEF Carries
      <4>5. CASE ~good
        <5>1. r = Failed
          BY <2>2, <3>1, <3>3, <4>5 DEF MatchValue
        <5> QED BY <1>2, <4>3, <4>5, <5>1 DEF Carries
      <4> QED BY <4>4, <4>5
    <3> QED BY <3>2, <3>3
  <2> QED BY <2>4, <2>5
<1> QED BY <1>2, <1>4, <1>5 DEF Matching

(* The whole loop, and the check for arguments that are missing.            *)
THEOREM LoadSpecTakes ==
  ASSUME NEW tags, NEW P, NEW pos \in Seq(P), NEW encoded, NEW args \in Arguments,
         TagsNamed(args)
  PROVE  MatchArgs(tags, pos, encoded, args).ok <=> WellFormed(tags, pos, encoded, args)
<1> DEFINE f == Turns(tags, pos, encoded, args)
           m == f[Len(args)]
           S == {n \in Nat : n <= Len(args) => Carries(tags, pos, encoded, args, n, f[n])}
<1>1. Len(args) \in Nat /\ Positional(tags, args) \subseteq DOMAIN args
  BY DEF Arguments, Positional
<1>2. f = [i \in 0..Len(args) |-> IF i = 0 THEN Start
                                   ELSE MatchArg(tags, pos, encoded, f[i - 1], args[i])]
  BY <1>1, LoopRuns
<1> HIDE DEF f
<1>3. 0 \in S
  <2>1. f[0] = Start
    BY <1>1, <1>2
  <2>2. Matching(Start) /\ Start.ok = TRUE /\ Start.lastTag = NoTag /\ Len(Start.pos) = 0
    BY DEF Start, Matching, NoTag
  <2>3. Prefix(tags, pos, encoded, args, 0)
    BY <1>1 DEF Prefix, Arguments
  <2>4. Count(tags, args, 0) = 0
    <3>1. {j \in Positional(tags, args) : j <= 0} = {}
      BY <1>1 DEF Arguments
    <3> QED BY <3>1, FS_EmptySet, Zenon DEF Count
  <2>5. Waiting(tags, args, 0) = NoTag
    BY DEF Waiting
  <2> QED BY <2>1, <2>2, <2>3, <2>4, <2>5 DEF Carries
<1>4. ASSUME NEW n \in Nat, n \in S PROVE n + 1 \in S
  <2> SUFFICES ASSUME n + 1 <= Len(args) PROVE Carries(tags, pos, encoded, args, n + 1, f[n + 1])
    OBVIOUS
  <2>1. n \in 0..(Len(args) - 1) /\ Carries(tags, pos, encoded, args, n, f[n])
    BY <1>1, <1>4
  <2>2. f[n + 1] = MatchArg(tags, pos, encoded, f[n], args[n + 1])
    BY <1>1, <1>2, <2>1
  <2> QED BY <2>1, <2>2, Turn
<1>5. Carries(tags, pos, encoded, args, Len(args), m)
  <2>1. Len(args) \in S
    BY <1>1, <1>3, <1>4, Induct, Zenon
  <2> QED BY <1>1, <2>1
<1>6. MatchArgs(tags, pos, encoded, args)
        = IF m.ok /\ \E i \in DOMAIN pos : i > Len(m.pos) /\ ~pos[i].opt THEN Failed ELSE m
  BY Zenon DEF MatchArgs, Turns, f
<1>7. MatchArgs(tags, pos, encoded, args).ok
        <=> m.ok /\ ~\E i \in DOMAIN pos : i > Len(m.pos) /\ ~pos[i].opt
  BY <1>5, <1>6 DEF Failed, Start, Carries, Matching
<1>8. WellFormed(tags, pos, encoded, args)
        <=> /\ Prefix(tags, pos, encoded, args, Len(args))
            /\ \A p \in DOMAIN pos : pos[p].opt \/ p <= Count(tags, args, Len(args))
  <2>1. Count(tags, args, Len(args)) = Cardinality(Positional(tags, args))
    <3>1. {j \in Positional(tags, args) : j <= Len(args)} = Positional(tags, args)
      BY <1>1 DEF Arguments
    <3> QED BY <3>1, Zenon DEF Count
  <2>2. DOMAIN args = 1..Len(args) /\ \A i \in Positional(tags, args) : i <= Len(args)
    BY <1>1 DEF Arguments
  <2> QED BY <2>1, <2>2 DEF WellFormed, Prefix, TagGood, PlaceGood
<1>9. m.ok => Len(m.pos) = Count(tags, args, Len(args)) /\ Len(m.pos) \in Nat
  BY <1>5 DEF Carries, Matching
<1>10. m.ok <=> Prefix(tags, pos, encoded, args, Len(args))
  BY <1>5 DEF Carries
<1> QED BY <1>7, <1>8, <1>9, <1>10

-----------------------------------------------------------------------------
(* What the proofs need of a loader: its places are a sequence, and what    *)
(* its command asks for when it runs is one of the extensions it needs.     *)
Place == LET takes == {Flag, Num, One, Some, Strings, Rest}
         IN  takes \cup {Opt(a) : a \in takes}
Sound(l) ==
  /\ l.pos \in Seq(Place)
  /\ \A e \in l.runs : \E i \in DOMAIN l.needs : l.needs[i] = <<e>>

(* The places the tables name, and lists of up to three of them.            *)
LEMMA Places ==
  /\ \A a \in {Flag, Num, One, Some, Strings, Rest} : a \in Place /\ Opt(a) \in Place
  /\ <<>> \in Seq(Place)
  /\ \A a \in Place : <<a>> \in Seq(Place)
  /\ \A a, b \in Place : <<a, b>> \in Seq(Place)
  /\ \A a, b, c \in Place : <<a, b, c>> \in Seq(Place)
<1>1. \A a \in {Flag, Num, One, Some, Strings, Rest} : a \in Place /\ Opt(a) \in Place
  BY DEF Place
<1> HIDE DEF Place
<1>3. /\ <<>> \in Seq(Place)
      /\ \A a \in Place : <<a>> \in Seq(Place)
      /\ \A a, b \in Place : <<a, b>> \in Seq(Place)
      /\ \A a, b, c \in Place : <<a, b, c>> \in Seq(Place)
  OBVIOUS
<1> QED BY <1>1, <1>3

(* The forms of the table's entries.                                        *)
LEMMA Forms ==
  ASSUME NEW needs, NEW tags, NEW pos \in Seq(Place), NEW checks
  PROVE  /\ Sound(Loader(needs, tags, pos, checks))
         /\ \A t : Sound([Loader(needs, tags, pos, checks) EXCEPT !.tests = t])
         /\ \A b : Sound([Loader(needs, tags, pos, checks) EXCEPT !.block = b])
         /\ \A t, b : Sound([Loader(needs, tags, pos, checks) EXCEPT !.tests = t, !.block = b])
         /\ \A x : Sound([Loader(needs, tags, pos, checks) EXCEPT !.late = x])
         /\ \A e : Sound([Loader(<< <<e>> >>, tags, pos, checks) EXCEPT !.runs = {e}])
         /\ \A e, t : Sound([[Loader(<< <<e>> >>, tags, pos, checks) EXCEPT !.runs = {e}] EXCEPT !.tests = t])
         /\ Sound(Testing(tags, pos, checks))
         /\ \A b : Sound([Testing(tags, pos, checks) EXCEPT !.block = b])
         /\ \A x : Sound([Testing(tags, pos, checks) EXCEPT !.texts = x])
         /\ Sound(Constant(Loader(needs, tags, pos, checks)))
         /\ \A x : Sound(Expanding(x, Loader(needs, tags, pos, checks)))
         /\ \A x : Sound(Naming(x, Loader(needs, tags, pos, checks)))
         /\ \A e, x : Sound(Expanding(x, [Loader(<< <<e>> >>, tags, pos, checks) EXCEPT !.runs = {e}]))
         /\ \A e, x, t : Sound([Expanding(x, [Loader(<< <<e>> >>, tags, pos, checks) EXCEPT !.runs = {e}])
                                  EXCEPT !.tests = t])
<1> HIDE DEF Place
<1>1. Sound(Loader(needs, tags, pos, checks))
  BY DEF Sound, Loader
<1>2. \A t : Sound([Loader(needs, tags, pos, checks) EXCEPT !.tests = t])
  BY DEF Sound, Loader
<1>3. \A b : Sound([Loader(needs, tags, pos, checks) EXCEPT !.block = b])
  BY DEF Sound, Loader
<1>4. \A t, b : Sound([Loader(needs, tags, pos, checks) EXCEPT !.tests = t, !.block = b])
  BY DEF Sound, Loader
<1>5. \A x : Sound([Loader(needs, tags, pos, checks) EXCEPT !.late = x])
  BY DEF Sound, Loader
<1>6. \A e : Sound([Loader(<< <<e>> >>, tags, pos, checks) EXCEPT !.runs = {e}])
  BY DEF Sound, Loader
<1>7. \A e, t : Sound([[Loader(<< <<e>> >>, tags, pos, checks) EXCEPT !.runs = {e}] EXCEPT !.tests = t])
  BY DEF Sound, Loader
<1>8. Sound(Testing(tags, pos, checks))
  BY DEF Sound, Loader, Testing
<1>9. \A b : Sound([Testing(tags, pos, checks) EXCEPT !.block = b])
  BY DEF Sound, Loader, Testing
<1>10. \A x : Sound([Testing(tags, pos, checks) EXCEPT !.texts = x])
  BY DEF Sound, Loader, Testing
<1>11. /\ Sound(Constant(Loader(needs, tags, pos, checks)))
       /\ \A x : Sound(Expanding(x, Loader(needs, tags, pos, checks)))
       /\ \A x : Sound(Naming(x, Loader(needs, tags, pos, checks)))
  BY DEF Sound, Loader, Constant, Expanding, Naming
<1>12. \A e, x : Sound(Expanding(x, [Loader(<< <<e>> >>, tags, pos, checks) EXCEPT !.runs = {e}]))
  BY DEF Sound, Loader, Expanding
<1>13. \A e, x, t : Sound([Expanding(x, [Loader(<< <<e>> >>, tags, pos, checks) EXCEPT !.runs = {e}])
                             EXCEPT !.tests = t])
  BY DEF Sound, Loader, Expanding
<1> QED BY <1>1, <1>2, <1>3, <1>4, <1>5, <1>6, <1>7, <1>8, <1>9, <1>10, <1>11, <1>12, <1>13, Zenon

(* The loaders of the tables.                                               *)
LEMMA Entries ==
  /\ Sound(loadCondBlock) /\ Sound(loadElse) /\ Sound(loadForEveryPart) /\ Sound(loadDovecotTest)
  /\ Sound(loadStop) /\ Sound(loadBreak) /\ Sound(loadError) /\ Sound(loadInclude)
  /\ Sound(loadReturn) /\ Sound(loadGlobal) /\ Sound(loadFileInto) /\ Sound(loadRedirect)
  /\ Sound(loadKeep) /\ Sound(loadDiscard) /\ Sound(loadReject) /\ Sound(loadEReject)
  /\ Sound(loadFlagCmd) /\ Sound(loadVacation) /\ Sound(loadNotify) /\ Sound(loadReport)
  /\ Sound(loadPipe) /\ Sound(loadFilterCmd) /\ Sound(loadExecuteCmd) /\ Sound(loadDebugLog)
  /\ Sound(loadSet) /\ Sound(loadExtractText) /\ Sound(loadAddHeader) /\ Sound(loadDeleteHeader)
  /\ Sound(loadReplace) /\ Sound(loadEnclose) /\ Sound(loadDovecotTestSet)
  /\ Sound(loadDovecotTestFail) /\ Sound(loadDovecotBinary) /\ Sound(loadDovecotMailboxCreate)
  /\ Sound(loadDovecotConfigSet) /\ Sound(loadDovecotResultReset) /\ Sound(loadDovecotCmdMessage)
  /\ Sound(loadManyTest) /\ Sound(loadNotTest) /\ Sound(loadAddressTest)
  /\ Sound(loadEnvelopeTest) /\ Sound(loadExistsTest) /\ Sound(loadConstantTest)
  /\ Sound(loadHeaderTest) /\ Sound(loadSizeTest) /\ Sound(loadStringTest)
  /\ Sound(loadHasFlagTest) /\ Sound(loadEnvironmentTest) /\ Sound(loadBodyTest)
  /\ Sound(loadDateTest) /\ Sound(loadCurrentDateTest) /\ Sound(loadMailboxExistsTest)
  /\ Sound(loadDuplicateTest) /\ Sound(loadIhaveTest) /\ Sound(loadSpecialUseExists)
  /\ Sound(loadMailboxIDExists) /\ Sound(loadValidExtList) /\ Sound(loadValidNotifyMethod)
  /\ Sound(loadNotifyMethodCapability) /\ Sound(loadSpamTest) /\ Sound(loadVirusTest)
  /\ Sound(loadMetadataTest) /\ Sound(loadMetadataExistsTest) /\ Sound(loadServerMetadataTest)
  /\ Sound(loadServerMetadataExistsTest) /\ Sound(loadFilterTest) /\ Sound(loadExecuteTest)
  /\ Sound(loadDovecotCompile) /\ Sound(loadDovecotRun) /\ Sound(loadDovecotError)
  /\ Sound(loadDovecotTestMessage) /\ Sound(loadDovecotResultAction)
  /\ Sound(loadDovecotResultExecute)
<1>1. /\ Sound(loadCondBlock) /\ Sound(loadElse) /\ Sound(loadForEveryPart)
      /\ Sound(loadDovecotTest) /\ Sound(loadStop) /\ Sound(loadBreak) /\ Sound(loadError)
      /\ Sound(loadInclude) /\ Sound(loadReturn) /\ Sound(loadGlobal)
  BY Places, Forms, Zenon DEF loadCondBlock, loadElse, loadForEveryPart, loadDovecotTest,
         loadStop, loadBreak, loadError, loadInclude, loadReturn, loadGlobal
<1>2. /\ Sound(loadFileInto) /\ Sound(loadRedirect) /\ Sound(loadKeep) /\ Sound(loadDiscard)
      /\ Sound(loadReject) /\ Sound(loadEReject) /\ Sound(loadFlagCmd) /\ Sound(loadVacation)
      /\ Sound(loadNotify) /\ Sound(loadReport)
  BY Places, Forms, Zenon DEF loadFileInto, loadRedirect, loadKeep, loadDiscard, loadReject,
         loadEReject, loadFlagCmd, loadVacation, loadNotify, loadReport
<1>3. /\ Sound(loadPipe) /\ Sound(loadFilterCmd) /\ Sound(loadExecuteCmd) /\ Sound(loadDebugLog)
      /\ Sound(loadSet) /\ Sound(loadExtractText) /\ Sound(loadAddHeader)
      /\ Sound(loadDeleteHeader) /\ Sound(loadReplace) /\ Sound(loadEnclose)
  BY Places, Forms, Zenon DEF loadPipe, loadFilterCmd, loadExecuteCmd, loadDebugLog, loadSet,
         loadExtractText, loadAddHeader, loadDeleteHeader, loadReplace, loadEnclose, Program
<1>4. /\ Sound(loadDovecotTestSet) /\ Sound(loadDovecotTestFail) /\ Sound(loadDovecotBinary)
      /\ Sound(loadDovecotMailboxCreate) /\ Sound(loadDovecotConfigSet)
      /\ Sound(loadDovecotResultReset) /\ Sound(loadDovecotCmdMessage) /\ Sound(loadManyTest)
      /\ Sound(loadNotTest) /\ Sound(loadAddressTest)
  BY Places, Forms, Zenon DEF loadDovecotTestSet, loadDovecotTestFail, loadDovecotBinary,
         loadDovecotMailboxCreate, loadDovecotConfigSet, loadDovecotResultReset,
         loadDovecotCmdMessage, loadManyTest, loadNotTest, loadAddressTest, WithSubaddress
<1>5. /\ Sound(loadEnvelopeTest) /\ Sound(loadExistsTest) /\ Sound(loadConstantTest)
      /\ Sound(loadHeaderTest) /\ Sound(loadSizeTest) /\ Sound(loadStringTest)
      /\ Sound(loadHasFlagTest) /\ Sound(loadEnvironmentTest) /\ Sound(loadBodyTest)
      /\ Sound(loadDateTest)
  BY Places, Forms, Zenon DEF loadEnvelopeTest, loadExistsTest, loadConstantTest, loadHeaderTest,
         loadSizeTest, loadStringTest, loadHasFlagTest, loadEnvironmentTest, loadBodyTest,
         loadDateTest, WithSubaddress
<1>6. /\ Sound(loadCurrentDateTest) /\ Sound(loadMailboxExistsTest) /\ Sound(loadDuplicateTest)
      /\ Sound(loadIhaveTest) /\ Sound(loadSpecialUseExists) /\ Sound(loadMailboxIDExists)
      /\ Sound(loadValidExtList) /\ Sound(loadValidNotifyMethod)
      /\ Sound(loadNotifyMethodCapability) /\ Sound(loadSpamTest)
  BY Places, Forms, Zenon DEF loadCurrentDateTest, loadMailboxExistsTest, loadDuplicateTest,
         loadIhaveTest, loadSpecialUseExists, loadMailboxIDExists, loadValidExtList,
         loadValidNotifyMethod, loadNotifyMethodCapability, loadSpamTest
<1>7. /\ Sound(loadVirusTest) /\ Sound(loadMetadataTest) /\ Sound(loadMetadataExistsTest)
      /\ Sound(loadServerMetadataTest) /\ Sound(loadServerMetadataExistsTest)
      /\ Sound(loadFilterTest) /\ Sound(loadExecuteTest) /\ Sound(loadDovecotCompile)
      /\ Sound(loadDovecotRun) /\ Sound(loadDovecotError)
  BY Places, Forms, Zenon DEF loadVirusTest, loadMetadataTest, loadMetadataExistsTest,
         loadServerMetadataTest, loadServerMetadataExistsTest, loadFilterTest, loadExecuteTest,
         loadDovecotCompile, loadDovecotRun, loadDovecotError, loadFilterCmd, loadExecuteCmd,
         Program
<1>8. /\ Sound(loadDovecotTestMessage) /\ Sound(loadDovecotResultAction)
      /\ Sound(loadDovecotResultExecute)
  BY Places, Forms, Zenon DEF loadDovecotTestMessage, loadDovecotResultAction,
         loadDovecotResultExecute
<1> QED BY <1>1, <1>2, <1>3, <1>4, <1>5, <1>6, <1>7, <1>8

(* The tables: commands and tests.                                          *)
LEMMA Tables ==
  /\ \A n \in DOMAIN commands : Sound(commands[n])
  /\ \A n \in DOMAIN tests : Sound(tests[n])
<1>1. DOMAIN commands =
        {"if", "elsif", "else", "foreverypart", "test", "stop", "break", "error", "include",
         "return", "global", "fileinto", "redirect", "keep", "discard", "reject", "ereject",
         "setflag", "addflag", "removeflag", "vacation", "notify", "report", "pipe", "filter",
         "execute", "debug_log", "set", "extracttext", "addheader", "deleteheader", "replace",
         "enclose", "test_set", "test_fail", "test_binary_load", "test_binary_save",
         "test_mailbox_create", "test_config_set", "test_config_unset", "test_result_reset",
         "test_message"}
  BY Zenon DEF commands
<1>2. /\ commands["if"] = loadCondBlock /\ commands["elsif"] = loadCondBlock
      /\ commands["else"] = loadElse /\ commands["foreverypart"] = loadForEveryPart
      /\ commands["test"] = loadDovecotTest /\ commands["stop"] = loadStop
      /\ commands["break"] = loadBreak /\ commands["error"] = loadError
      /\ commands["include"] = loadInclude /\ commands["return"] = loadReturn
      /\ commands["global"] = loadGlobal /\ commands["fileinto"] = loadFileInto
      /\ commands["redirect"] = loadRedirect /\ commands["keep"] = loadKeep
      /\ commands["discard"] = loadDiscard /\ commands["reject"] = loadReject
      /\ commands["ereject"] = loadEReject /\ commands["setflag"] = loadFlagCmd
      /\ commands["addflag"] = loadFlagCmd /\ commands["removeflag"] = loadFlagCmd
      /\ commands["vacation"] = loadVacation /\ commands["notify"] = loadNotify
      /\ commands["report"] = loadReport /\ commands["pipe"] = loadPipe
      /\ commands["filter"] = loadFilterCmd /\ commands["execute"] = loadExecuteCmd
      /\ commands["debug_log"] = loadDebugLog /\ commands["set"] = loadSet
      /\ commands["extracttext"] = loadExtractText /\ commands["addheader"] = loadAddHeader
      /\ commands["deleteheader"] = loadDeleteHeader /\ commands["replace"] = loadReplace
      /\ commands["enclose"] = loadEnclose /\ commands["test_set"] = loadDovecotTestSet
      /\ commands["test_fail"] = loadDovecotTestFail
      /\ commands["test_binary_load"] = loadDovecotBinary
      /\ commands["test_binary_save"] = loadDovecotBinary
      /\ commands["test_mailbox_create"] = loadDovecotMailboxCreate
      /\ commands["test_config_set"] = loadDovecotConfigSet
      /\ commands["test_config_unset"] = loadDovecotConfigSet
      /\ commands["test_result_reset"] = loadDovecotResultReset
      /\ commands["test_message"] = loadDovecotCmdMessage
  BY Zenon DEF commands
<1>3. \A n \in DOMAIN commands : Sound(commands[n])
  BY <1>1, <1>2, Entries, Zenon
<1>4. DOMAIN tests =
        {"allof", "anyof", "not", "address", "envelope", "exists", "false", "true", "header",
         "size", "string", "hasflag", "environment", "body", "date", "currentdate",
         "mailboxexists", "duplicate", "ihave", "specialuse_exists", "mailboxidexists",
         "valid_ext_list", "valid_notify_method", "notify_method_capability", "spamtest",
         "virustest", "metadata", "metadataexists", "servermetadata", "servermetadataexists",
         "filter", "execute", "test_script_compile", "test_script_run", "test_error",
         "test_message", "test_result_action", "test_result_execute"}
  BY Zenon DEF tests
<1>5. /\ tests["allof"] = loadManyTest /\ tests["anyof"] = loadManyTest
      /\ tests["not"] = loadNotTest /\ tests["address"] = loadAddressTest
      /\ tests["envelope"] = loadEnvelopeTest /\ tests["exists"] = loadExistsTest
      /\ tests["false"] = loadConstantTest /\ tests["true"] = loadConstantTest
      /\ tests["header"] = loadHeaderTest /\ tests["size"] = loadSizeTest
      /\ tests["string"] = loadStringTest /\ tests["hasflag"] = loadHasFlagTest
      /\ tests["environment"] = loadEnvironmentTest /\ tests["body"] = loadBodyTest
      /\ tests["date"] = loadDateTest /\ tests["currentdate"] = loadCurrentDateTest
      /\ tests["mailboxexists"] = loadMailboxExistsTest
      /\ tests["duplicate"] = loadDuplicateTest /\ tests["ihave"] = loadIhaveTest
      /\ tests["specialuse_exists"] = loadSpecialUseExists
      /\ tests["mailboxidexists"] = loadMailboxIDExists
      /\ tests["valid_ext_list"] = loadValidExtList
      /\ tests["valid_notify_method"] = loadValidNotifyMethod
      /\ tests["notify_method_capability"] = loadNotifyMethodCapability
      /\ tests["spamtest"] = loadSpamTest /\ tests["virustest"] = loadVirusTest
      /\ tests["metadata"] = loadMetadataTest
      /\ tests["metadataexists"] = loadMetadataExistsTest
      /\ tests["servermetadata"] = loadServerMetadataTest
      /\ tests["servermetadataexists"] = loadServerMetadataExistsTest
      /\ tests["filter"] = loadFilterTest /\ tests["execute"] = loadExecuteTest
      /\ tests["test_script_compile"] = loadDovecotCompile
      /\ tests["test_script_run"] = loadDovecotRun /\ tests["test_error"] = loadDovecotError
      /\ tests["test_message"] = loadDovecotTestMessage
      /\ tests["test_result_action"] = loadDovecotResultAction
      /\ tests["test_result_execute"] = loadDovecotResultExecute
  BY Zenon DEF tests
<1>6. \A n \in DOMAIN tests : Sound(tests[n])
  BY <1>4, <1>5, Entries, Zenon
<1> QED BY <1>3, <1>6

-----------------------------------------------------------------------------
(* What is reported, saved and asked for again.                             *)
UInv ==
  /\ phase = "matching" => call \in Matches
  /\ phase # "matching" => call \in Calls
  /\ ReportsWhatIsUsed
  /\ guardedUsed # {} \/ (\E i \in DOMAIN stack : stack[i] # {}) => \E c \in loaded : c.name = "ihave"
  /\ phase = "saved" => \A c \in loaded : Savable(c)
  /\ guardedUsed = {} =>
       \A c \in loaded : c.runs \subseteq extensions /\ c.checked \subseteq extensions
  /\ RequiredSuffices

(* A guard that is up belongs to an open block with capabilities.           *)
LEMMA GuardOpen ==
  ASSUME IInv, NEW e \in DOMAIN guarded, guarded[e] > 0
  PROVE  \E i \in DOMAIN stack : e \in stack[i]
<1>1. e \in supportedRequires /\ Cardinality(Opened(stack, e)) # 0
  BY DEF IInv
<1>2. Opened(stack, e) # {}
  BY <1>1, FS_EmptySet
<1> QED BY <1>2 DEF Opened

(* Outside of blocks only what was required is there.                       *)
LEMMA Outside ==
  ASSUME IInv, stack = <<>>
  PROVE  Have = extensions
<1>1. ASSUME NEW e \in DOMAIN guarded, guarded[e] > 0 PROVE FALSE
  BY <1>1, GuardOpen
<1> QED BY <1>1 DEF Have

(* What is asked for and there is reported afterwards.                      *)
LEMMA Reported ==
  ASSUME NEW asked
  PROVE  extensions \cup MarkUsed(asked) = extensions \cup guardedUsed \cup (asked \cap Have)
BY DEF MarkUsed, Have

(* If nothing is marked, what is asked for and there was required.          *)
LEMMA Unmarked ==
  ASSUME NEW asked, MarkUsed(asked) = {}
  PROVE  asked \cap Have \subseteq extensions
BY DEF MarkUsed, Have

(* Marking needs a guard, and so an ihave.                                  *)
LEMMA MarkedByIhave ==
  ASSUME IInv, UInv, NEW asked, MarkUsed(asked) # {}
  PROVE  \E c \in loaded : c.name = "ihave"
<1>1. CASE guardedUsed # {}
  BY <1>1 DEF UInv
<1>2. CASE guardedUsed = {}
  <2>1. PICK e \in DOMAIN guarded : guarded[e] > 0
    BY <1>2 DEF MarkUsed
  <2>2. \E i \in DOMAIN stack : e \in stack[i]
    BY <2>1, GuardOpen
  <2>3. \E i \in DOMAIN stack : stack[i] # {}
    BY <2>2
  <2> QED BY <2>3 DEF UInv
<1> QED BY <1>1, <1>2

(* The namespaces that belong to an extension.                              *)
LEMMA Spaces ==
  /\ DOMAIN Namespace = {"env.x", "envelope.x", "global.x", "other.x"}
  /\ Namespace["global.x"] = "include"
BY DEF Namespace, YariloEnvironmentExtension

(* What a check on variables asks for, and what it lets pass.               *)
LEMMA VarChecks ==
  ASSUME NEW c, c.k \in {"vars", "canset"}, NEW m, NEW have
  PROVE  /\ AskedBy(c, m) = AskedByVars(PosOf(m, c.at))
         /\ Passes(c, m, have) /\ (c.k = "canset" \/ "variables" \in have)
              => AskedByVars(PosOf(m, c.at)) \subseteq have
<1>1. AskedBy(c, m) = AskedByVars(PosOf(m, c.at))
  BY DEF AskedBy
<1>2. CASE c.k = "vars"
  <2>1. Passes(c, m, have) <=> usedVarsAreValid(PosOf(m, c.at), have)
    BY <1>2 DEF Passes
  <2> QED BY <1>1, <1>2, <2>1 DEF usedVarsAreValid, Gettable, AskedByVars
<1>3. CASE c.k = "canset"
  <2>1. Passes(c, m, have) <=> \A v \in PosOf(m, c.at) : Settable(v, have)
    BY <1>3 DEF Passes
  <2> QED BY <1>1, <2>1, Spaces DEF Settable, AskedByVars
<1> QED BY <1>2, <1>3

(* A command that loads without a mark has what it asks for when it runs.   *)
LEMMA Granted ==
  ASSUME NEW l, Sound(l), NEW m, Loads(l, m, Have), MarkUsed(Asked(l, m, Have)) = {}
  PROVE  /\ l.runs \subseteq extensions
         /\ VarNeeds(l, m, Have) \subseteq extensions
<1>1. Asked(l, m, Have) \cap Have \subseteq extensions
  BY Unmarked
<1>2. ASSUME NEW e \in l.runs PROVE e \in extensions
  <2>1. PICK i \in DOMAIN l.needs : l.needs[i] = <<e>>
    BY Zenon DEF Sound
  <2>2. e \in Have
    BY <2>1 DEF Loads
  <2>3. FirstOf(l.needs[i], Have) = 1
    <3>1. {j \in DOMAIN <<e>> : <<e>>[j] \in Have} = {1}
      BY <2>2
    <3>2. Min({1}) = 1
      BY DEF Min
    <3> QED BY <2>1, <3>1, <3>2 DEF FirstOf
  <2>4. e \in {l.needs[i][j] : j \in 1..FirstOf(l.needs[i], Have)}
    BY <2>1, <2>3
  <2>5. e \in Asked(l, m, Have)
    BY <2>4 DEF Asked
  <2> QED BY <1>1, <2>2, <2>5
<1>3. ASSUME NEW e \in VarNeeds(l, m, Have) PROVE e \in extensions
  <2>1. PICK c \in Range(l.checks) : /\ c.k \in {"vars", "canset"} /\ (c.k = "canset" \/ "variables" \in Have)
                                     /\ e \in AskedByVars(PosOf(m, c.at))
    BY DEF VarNeeds
  <2>2. PICK i \in DOMAIN l.checks : c = l.checks[i]
    BY <2>1 DEF Range
  <2>3. Passes(c, m, Have)
    BY <2>2 DEF Loads
  <2>4. e \in Have
    BY <2>1, <2>3, VarChecks
  <2>5. e \in AskedBy(l.checks[i], m)
    BY <2>1, <2>2, VarChecks
  <2>6. e \in Asked(l, m, Have)
    BY <2>5 DEF Asked
  <2> QED BY <1>1, <2>4, <2>6
<1> QED BY <1>2, <1>3

(* gob does not know ihave.                                                 *)
LEMMA NotSaved == "ihave" \notin Registered
BY DEF Registered, RegisteredActions, RegisteredControl, RegisteredMime, RegisteredMimeActions,
       RegisteredTests, RegisteredVariables, RegisteredMetadata, RegisteredScores, RegisteredTestsuite

(* The entry of a call is one of the tables'.                               *)
LEMMA Known ==
  ASSUME NEW c \in Calls \cup Matches
  PROVE  Sound(LoaderOf(c)) /\ c.args \in Arguments /\ TagsNamed(c.args)
BY CallsAssumption, Tables DEF LoaderOf

(* The script starts with nothing.                                          *)
LEMMA UInitially == Init => UInv
BY DEF Init, UInv, ReportsWhatIsUsed, RequiredSuffices, Extensions

(* A step that fails, or only moves between phases after loading.           *)
LEMMA Failing ==
  ASSUME UInv, Loading, Fail
  PROVE  UInv'
BY DEF UInv, Loading, Fail, ReportsWhatIsUsed, RequiredSuffices, Extensions, Savable

(* require adds to both sides of what is reported.                          *)
LEMMA Requiring ==
  ASSUME UInv, NEW exts, Require(exts)
  PROVE  UInv'
<1>1. CASE Fail
  BY <1>1, Failing DEF Require
<1>2. CASE ~Fail
  <2>1. /\ phase = "loading" /\ phase' = phase /\ extensions \subseteq extensions' /\ call' = call
        /\ UNCHANGED <<guarded, guardedUsed, stack, loaded>>
    BY <1>2 DEF Require, Loading
  <2> QED BY <2>1 DEF UInv, ReportsWhatIsUsed, RequiredSuffices, Extensions, Savable
<1> QED BY <1>1, <1>2

(* A command is loaded, with its marks and at most another open block.      *)
LEMMA Adding ==
  ASSUME IInv, UInv, phase = "loading", UNCHANGED <<call, phase, extensions>>,
         NEW asked, guardedUsed' = MarkUsed(asked),
         NEW c, c.uses = asked \cap Have, loaded' = loaded \cup {c},
         guardedUsed' = {} => c.runs \subseteq extensions /\ c.checked \subseteq extensions,
         (\E i \in DOMAIN stack' : stack'[i] # {}) => \E d \in loaded' : d.name = "ihave"
  PROVE  UInv'
<1>1. Extensions' = Extensions \cup c.uses
  BY Reported DEF Extensions
<1>2. UNION {d.uses : d \in loaded'} = (UNION {d.uses : d \in loaded}) \cup c.uses
  OBVIOUS
<1>3. ReportsWhatIsUsed'
  BY <1>1, <1>2 DEF UInv, ReportsWhatIsUsed
<1>4. guardedUsed' # {} => \E d \in loaded' : d.name = "ihave"
  BY MarkedByIhave
<1>5. guardedUsed \subseteq guardedUsed'
  BY DEF MarkUsed
<1>6. guardedUsed' = {} =>
        \A d \in loaded' : d.runs \subseteq extensions' /\ d.checked \subseteq extensions'
  BY <1>5 DEF UInv
<1> QED BY <1>3, <1>4, <1>6 DEF UInv, RequiredSuffices

(* ihave itself, with a block of any capabilities.                          *)
LEMMA AddingIhave ==
  ASSUME IInv, UInv, phase = "loading", "ihave" \in Have, UNCHANGED <<call, phase, extensions>>,
         guardedUsed' = MarkUsed({"ihave"}), loaded' = loaded \cup {Ihave}
  PROVE  UInv'
<1>1. Ihave.uses = {"ihave"} \cap Have /\ Ihave.runs = {} /\ Ihave.checked = {} /\ Ihave.name = "ihave"
  BY DEF Ihave
<1>2. \E d \in loaded' : d.name = "ihave"
  BY <1>1
<1>3. PICK asked : asked = {"ihave"}
  OBVIOUS
<1>4. PICK c : c = Ihave
  OBVIOUS
<1>5. /\ guardedUsed' = MarkUsed(asked) /\ c.uses = asked \cap Have /\ loaded' = loaded \cup {c}
      /\ c.runs \subseteq extensions /\ c.checked \subseteq extensions
  BY <1>1, <1>3, <1>4
<1> HIDE DEF Ihave
<1> QED BY <1>2, <1>5, Adding

(* A command or a test of the tables.                                       *)
LEMMA Calling ==
  ASSUME IInv, UInv, NEW n, NEW block, LoadCall(n, block)
  PROVE  UInv'
<1>1. Loading /\ phase = "loading" /\ call' = call
  BY DEF LoadCall, Loading
<1>2. PICK l \in {LoaderOf(call)}, m \in {Match(call, Have)} :
        IF BodyFits(l.tests, l.block, n, block) /\ Loads(l, m, Have)
        THEN /\ guardedUsed' = MarkUsed(Asked(l, m, Have))
             /\ loaded' = loaded \cup {Loaded(call, l, m)}
             /\ UNCHANGED <<phase, extensions, guarded, stack>>
        ELSE Fail
  BY DEF LoadCall
<1>3. CASE BodyFits(l.tests, l.block, n, block) /\ Loads(l, m, Have)
  <2>1. /\ guardedUsed' = MarkUsed(Asked(l, m, Have)) /\ loaded' = loaded \cup {Loaded(call, l, m)}
        /\ UNCHANGED <<phase, extensions, guarded, stack>>
    BY <1>2, <1>3
  <2>2. Sound(l)
    BY <1>1, Known DEF UInv
  <2>3. PICK c : c = Loaded(call, l, m)
    OBVIOUS
  <2>4. c.uses = Asked(l, m, Have) \cap Have /\ c.runs = l.runs /\ c.checked = VarNeeds(l, m, Have)
    BY <2>3, Zenon DEF Loaded
  <2>5. guardedUsed' = {} => c.runs \subseteq extensions /\ c.checked \subseteq extensions
    BY <1>3, <2>1, <2>2, <2>4, Granted, Zenon
  <2>6. (\E i \in DOMAIN stack' : stack'[i] # {}) => \E d \in loaded' : d.name = "ihave"
    BY <2>1, Zenon DEF UInv
  <2>7. loaded' = loaded \cup {c}
    BY <2>1, <2>3
  <2>8. PICK asked : asked = Asked(l, m, Have)
    OBVIOUS
  <2>9. guardedUsed' = MarkUsed(asked) /\ c.uses = asked \cap Have /\ UNCHANGED <<call, phase, extensions>>
    BY <1>1, <2>1, <2>4, <2>8
  <2> QED BY <1>1, <2>5, <2>6, <2>7, <2>9, Adding, Zenon
<1>4. CASE ~(BodyFits(l.tests, l.block, n, block) /\ Loads(l, m, Have))
  BY <1>1, <1>2, <1>4, Failing
<1> QED BY <1>3, <1>4

(* Every step keeps what is reported, saved and asked for again.            *)
LEMMA UInductive == IInv /\ UInv /\ [Next]_vars => UInv'
<1> SUFFICES ASSUME IInv, UInv, [Next]_vars PROVE UInv'
  OBVIOUS
<1>1. ASSUME NEW exts, Require(exts) PROVE UInv'
  BY <1>1, Requiring
<1>2. ASSUME NEW caps, LoadIfIhave(caps) PROVE UInv'
  <2>1. CASE "ihave" \notin Have
    BY <1>2, <2>1, Failing DEF LoadIfIhave
  <2>2. CASE "ihave" \in Have
    <3>1. /\ phase = "loading" /\ UNCHANGED <<call, phase, extensions>>
          /\ guardedUsed' = MarkUsed({"ihave"}) /\ loaded' = loaded \cup {Ihave}
      BY <1>2, <2>2 DEF LoadIfIhave, Loading
    <3> QED BY <2>2, <3>1, AddingIhave
  <2> QED BY <2>1, <2>2
<1>3. ASSUME NEW n, NEW block, LoadCall(n, block) PROVE UInv'
  BY <1>3, Calling
<1>4. CASE LoadIfNotIhave
  <2>1. CASE "ihave" \notin Have
    BY <1>4, <2>1, Failing DEF LoadIfNotIhave
  <2>2. CASE "ihave" \in Have
    <3>1. /\ phase = "loading" /\ UNCHANGED <<call, phase, extensions>>
          /\ guardedUsed' = MarkUsed({"ihave"}) /\ loaded' = loaded \cup {Ihave}
      BY <1>4, <2>2 DEF LoadIfNotIhave, Loading
    <3> QED BY <2>2, <3>1, AddingIhave
  <2> QED BY <2>1, <2>2
<1>5. CASE LoadBlock \/ EndBlock
  <2>1. phase = "loading" /\ UNCHANGED <<call, phase, extensions, guardedUsed, loaded>>
    BY <1>5 DEF LoadBlock, EndBlock, Loading
  <2>2. (\E i \in DOMAIN stack' : stack'[i] # {}) => \E i \in DOMAIN stack : stack[i] # {}
    <3>1. stack \in Seq(SUBSET supportedRequires)
      BY DEF IInv
    <3>2. CASE stack' = Append(stack, {})
      BY <3>1, <3>2
    <3>3. CASE EndBlock
      <4>1. stack' \in Seq(SUBSET supportedRequires) /\ stack = Append(stack', Inner(stack))
        BY <3>1, <3>3, Closing, Zenon DEF EndBlock, Outer
      <4>2. \A i \in DOMAIN stack' : i \in DOMAIN stack /\ stack'[i] = stack[i]
        BY <3>1, <4>1
      <4> QED BY <4>2
    <3> QED BY <1>5, <3>2, <3>3 DEF LoadBlock
  <2> QED BY <2>1, <2>2 DEF UInv, ReportsWhatIsUsed, RequiredSuffices, Extensions
<1>6. CASE LoadScript
  BY <1>6 DEF LoadScript, UInv, ReportsWhatIsUsed, RequiredSuffices, Extensions
<1>7. CASE Execute
  <2>1. PICK c \in loaded :
          \/ c.runs \subseteq Have /\ phase' = phase
          \/ ~(c.runs \subseteq Have) /\ phase' = "refused"
          \/ ~(c.names \subseteq Have) /\ phase' = "aborted"
          \/ ~(Refers(c) \subseteq Have) /\ phase' = "panicked"
    BY <1>7, Zenon DEF Execute
  <2>2. /\ phase \in {"loaded", "restored"}
        /\ UNCHANGED <<call, extensions, guarded, guardedUsed, stack, loaded>>
    BY <1>7 DEF Execute
  <2>3. Have = extensions
    BY <2>2, Outside DEF IInv
  <2>4. guardedUsed = {} => c.runs \subseteq extensions /\ c.checked \subseteq extensions
    BY DEF UInv
  <2>5. RequiredSuffices'
    BY <2>1, <2>2, <2>3, <2>4 DEF RequiredSuffices
  <2>6. phase' \in {"loaded", "restored", "refused", "aborted", "panicked"} /\ (phase' = "loaded" => phase = "loaded")
    BY <2>1, <2>2
  <2>7. ReportsWhatIsUsed'
    BY <2>2, <2>6 DEF UInv, ReportsWhatIsUsed, Extensions
  <2> QED BY <2>2, <2>5, <2>6, <2>7 DEF UInv
<1>8. CASE SaveTo
  BY <1>8 DEF SaveTo, UInv, ReportsWhatIsUsed, RequiredSuffices, Extensions, Savable
<1>9. CASE RestoreFrom
  <2>1. /\ phase = "saved" /\ phase' = "restored" /\ extensions \subseteq extensions' /\ guardedUsed' = {}
        /\ loaded' = {Restored(c) : c \in loaded}
        /\ UNCHANGED <<call, stack>>
    BY <1>9 DEF RestoreFrom, Extensions
  <2>2. guardedUsed = {}
    BY <2>1, NotSaved DEF UInv, Savable
  <2>3. stack = <<>> /\ stack' = <<>>
    BY <2>1 DEF IInv
  <2>4. \A d \in loaded' : d.runs \subseteq extensions' /\ d.checked \subseteq extensions'
    <3>1. ASSUME NEW c \in loaded
          PROVE  Restored(c).runs \subseteq extensions' /\ Restored(c).checked \subseteq extensions'
      <4>1. c.runs \subseteq extensions /\ c.checked \subseteq extensions
        BY <2>2 DEF UInv
      <4>2. Restored(c).runs = c.runs /\ Restored(c).checked = c.checked
        BY DEF Restored
      <4> QED BY <2>1, <4>1, <4>2
    <3> QED BY <2>1, <3>1
  <2> QED BY <2>1, <2>3, <2>4 DEF UInv, ReportsWhatIsUsed, RequiredSuffices
<1>10. CASE UNCHANGED vars
  BY <1>10 DEF vars, UInv, ReportsWhatIsUsed, RequiredSuffices, Extensions, Savable
<1> QED BY <1>1, <1>2, <1>3, <1>4, <1>5, <1>6, <1>7, <1>8, <1>9, <1>10, Zenon DEF Next

(* Script.Extensions reports what was required and what the loaded commands *)
(* were let in on, and nothing else.                                        *)
THEOREM Reports == Spec => []ReportsWhatIsUsed
<1>1. UInv => ReportsWhatIsUsed
  BY DEF UInv
<1> QED BY <1>1, Initially, Inductive, UInitially, UInductive, PTL DEF Spec

(* A script fails the checks of a running command only over what a guard    *)
(* alone granted or over a variable its loader has not checked.             *)
THEOREM Suffices == Spec => []RequiredSuffices
<1>1. UInv => RequiredSuffices
  BY DEF UInv
<1> QED BY <1>1, Initially, Inductive, UInitially, UInductive, PTL DEF Spec

(* A restored script reports and has the extensions of the saved one, and   *)
(* its commands pass the checks they passed: what was saved holds no ihave, *)
(* so nothing was let in on a guard.                                        *)
THEOREM Restores == Spec => RestoredAsSaved
<1> DEFINE Same == phase = "saved" /\ phase' = "restored" =>
      /\ Extensions' = Extensions /\ Have' = Have
      /\ \A c \in loaded : Runs(c) => \E d \in loaded' : d.name = c.name /\ Runs(d)'
<1>1. IInv /\ UInv /\ [Next]_vars => [Same]_vars
  <2> SUFFICES ASSUME IInv, UInv, Next, phase = "saved", phase' = "restored"
               PROVE  /\ Extensions' = Extensions /\ Have' = Have
                      /\ \A c \in loaded : Runs(c) => \E d \in loaded' : d.name = c.name /\ Runs(d)'
    BY Zenon
  <2>1. RestoreFrom
    BY DEF Next, Require, LoadIfIhave, LoadCall, LoadIfNotIhave, LoadBlock, EndBlock, LoadScript,
           Execute, SaveTo, Loading
  <2>2. guardedUsed = {}
    BY NotSaved DEF UInv, Savable
  <2>3. Have = extensions
    BY Outside DEF IInv
  <2>4. /\ extensions' = extensions /\ guardedUsed' = {}
        /\ guarded' = [e \in DOMAIN guarded |-> 0]
        /\ loaded' = {Restored(c) : c \in loaded}
    BY <2>1, <2>2 DEF RestoreFrom, Extensions
  <2>5. Have' = extensions'
    BY <2>4 DEF Have
  <2>6. ASSUME NEW c \in loaded, Runs(c)
        PROVE  \E d \in loaded' : d.name = c.name /\ Runs(d)'
    <3>1. PICK d : d = Restored(c)
      OBVIOUS
    <3>2. d \in loaded'
      BY <2>4, <3>1
    <3>3. d.name = c.name /\ d.runs = c.runs /\ d.names = c.names /\ d.texts = c.texts /\ d.keys = {}
      BY <3>1 DEF Restored
    <3>4. Have' = Have
      BY <2>3, <2>4, <2>5
    <3>5. Runs(d)'
      BY <2>6, <3>3, <3>4 DEF Runs, Refers
    <3> QED BY <3>2, <3>3, <3>5
  <2> QED BY <2>2, <2>3, <2>4, <2>5, <2>6 DEF Extensions
<1> QED BY <1>1, Initially, Inductive, UInitially, UInductive, PTL DEF Spec, RestoredAsSaved

(* LoadSpec takes the arguments the grammar allows and no others, for every *)
(* command and test of the tables and argument lists of any length.         *)
THEOREM TakesGrammar == Spec => []TakesWellFormed
<1>1. UInv => TakesWellFormed
  <2> SUFFICES ASSUME UInv, phase = "matching", NEW encoded \in BOOLEAN
               PROVE  MatchArgs(LoaderOf(call).tags, LoaderOf(call).pos, encoded, call.args).ok
                        <=> WellFormed(LoaderOf(call).tags, LoaderOf(call).pos, encoded, call.args)
    BY DEF TakesWellFormed
  <2>1. LoaderOf(call).pos \in Seq(Place) /\ call.args \in Arguments /\ TagsNamed(call.args)
    BY Known DEF UInv, Sound
  <2> QED BY <2>1, LoadSpecTakes
<1> QED BY <1>1, Initially, Inductive, UInitially, UInductive, PTL DEF Spec
=============================================================================

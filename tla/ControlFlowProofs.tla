----------------------- MODULE ControlFlowProofs ---------------------------
(***************************************************************************)
(* For every message, every set of scripts and every depth of includes:    *)
(* the part stack and the include stack are those of the call stack, an    *)
(* else is decided by its own chain, and :once holds.                      *)
(*                                                                         *)
(* Every step replaces the top frame, pushes one or pops one. The lemma    *)
(* Shapes sorts the actions into eight kinds of steps, and each conjunct   *)
(* of the inductive invariant is carried over by one case per kind.        *)
(***************************************************************************)
EXTENDS ControlFlow, Integers, TLAPS

-----------------------------------------------------------------------------
(* Sequences used as stacks.                                               *)

\* The lengths of sequences.
LEMMA Lengths ==
    ASSUME NEW S
    PROVE  <<>> \in Seq(S) /\ Len(<<>>) = 0 /\ \A s \in Seq(S) : s # <<>> => Len(s) \in Nat \ {0}
OBVIOUS

\* What a concatenation holds.
LEMMA Joined ==
    ASSUME NEW S, NEW s \in Seq(S), NEW t \in Seq(S)
    PROVE  /\ s \o t \in Seq(S)
           /\ Len(s \o t) = Len(s) + Len(t)
           /\ \A i \in 1 .. Len(s) + Len(t) : (s \o t)[i] = IF i <= Len(s) THEN s[i] ELSE t[i - Len(s)]
OBVIOUS

\* What is left without the first element.
LEMMA Rest ==
    ASSUME NEW S, NEW s \in Seq(S), s # <<>>
    PROVE  /\ Head(s) \in S
           /\ Tail(s) \in Seq(S)
           /\ Len(Tail(s)) = Len(s) - 1
           /\ \A i \in 1 .. Len(Tail(s)) : Tail(s)[i] = s[i + 1]
OBVIOUS

\* Putting f in the place of the first element.
LEMMA ReplaceFirst ==
    ASSUME NEW S, NEW s \in Seq(S), s # <<>>, NEW f \in S
    PROVE  /\ <<f>> \o Tail(s) \in Seq(S)
           /\ Len(<<f>> \o Tail(s)) = Len(s)
           /\ \A i \in 1 .. Len(s) : (<<f>> \o Tail(s))[i] = IF i = 1 THEN f ELSE s[i]
<1>1. Len(s) \in Nat \ {0}
  BY Lengths
<1>2. /\ Tail(s) \in Seq(S)
      /\ Len(Tail(s)) = Len(s) - 1
      /\ \A i \in 1 .. Len(Tail(s)) : Tail(s)[i] = s[i + 1]
  BY Rest
<1>3. <<f>> \in Seq(S) /\ Len(<<f>>) = 1 /\ <<f>>[1] = f
  OBVIOUS
<1>4. /\ <<f>> \o Tail(s) \in Seq(S)
      /\ Len(<<f>> \o Tail(s)) = Len(<<f>>) + Len(Tail(s))
      /\ \A i \in 1 .. Len(<<f>>) + Len(Tail(s)) :
            (<<f>> \o Tail(s))[i] =
                IF i <= Len(<<f>>) THEN <<f>>[i] ELSE Tail(s)[i - Len(<<f>>)]
  BY <1>2, <1>3, Joined
<1>5. ASSUME NEW i \in 1 .. Len(s)
      PROVE  (<<f>> \o Tail(s))[i] = IF i = 1 THEN f ELSE s[i]
  <2>1. CASE i = 1
    BY <1>1, <1>2, <1>3, <1>4, <2>1
  <2>2. CASE i > 1
    <3>1. i - 1 \in 1 .. Len(Tail(s)) /\ (i - 1) + 1 = i
      BY <1>1, <1>2, <2>2
    <3>2. (<<f>> \o Tail(s))[i] = Tail(s)[i - 1]
      BY <1>1, <1>2, <1>3, <1>4, <2>2
    <3>3. QED
      BY <1>2, <2>2, <3>1, <3>2
  <2>3. QED
    BY <2>1, <2>2
<1>6. QED
  BY <1>1, <1>2, <1>3, <1>4, <1>5

\* Putting f in front.
LEMMA PutFirst ==
    ASSUME NEW S, NEW s \in Seq(S), NEW f \in S
    PROVE  /\ <<f>> \o s \in Seq(S)
           /\ Len(<<f>> \o s) = Len(s) + 1
           /\ \A i \in 1 .. Len(s) + 1 :
                 (<<f>> \o s)[i] = IF i = 1 THEN f ELSE s[i - 1]
<1>1. <<f>> \in Seq(S) /\ Len(<<f>>) = 1 /\ <<f>>[1] = f
  OBVIOUS
<1>2. Len(s) \in Nat
  OBVIOUS
<1>3. /\ <<f>> \o s \in Seq(S)
      /\ Len(<<f>> \o s) = Len(<<f>>) + Len(s)
      /\ \A i \in 1 .. Len(<<f>>) + Len(s) :
            (<<f>> \o s)[i] = IF i <= Len(<<f>>) THEN <<f>>[i] ELSE s[i - Len(<<f>>)]
  BY <1>1, Joined
<1>4. ASSUME NEW i \in 1 .. Len(s) + 1
      PROVE  (<<f>> \o s)[i] = IF i = 1 THEN f ELSE s[i - 1]
  BY <1>1, <1>2, <1>3
<1>5. QED
  BY <1>1, <1>2, <1>3, <1>4

\* Putting g in the place of the first element and f in front.
LEMMA PutOnFirst ==
    ASSUME NEW S, NEW s \in Seq(S), s # <<>>, NEW f \in S, NEW g \in S
    PROVE  /\ <<f, g>> \o Tail(s) \in Seq(S)
           /\ Len(<<f, g>> \o Tail(s)) = Len(s) + 1
           /\ \A i \in 1 .. Len(s) + 1 :
                 (<<f, g>> \o Tail(s))[i] =
                     IF i = 1 THEN f ELSE IF i = 2 THEN g ELSE s[i - 1]
<1>1. Len(s) \in Nat \ {0}
  BY Lengths
<1>2. /\ Tail(s) \in Seq(S)
      /\ Len(Tail(s)) = Len(s) - 1
      /\ \A i \in 1 .. Len(Tail(s)) : Tail(s)[i] = s[i + 1]
  BY Rest
<1>3. <<f, g>> \in Seq(S) /\ Len(<<f, g>>) = 2 /\ <<f, g>>[1] = f /\ <<f, g>>[2] = g
  OBVIOUS
<1>4. /\ <<f, g>> \o Tail(s) \in Seq(S)
      /\ Len(<<f, g>> \o Tail(s)) = Len(<<f, g>>) + Len(Tail(s))
      /\ \A i \in 1 .. Len(<<f, g>>) + Len(Tail(s)) :
            (<<f, g>> \o Tail(s))[i] =
                IF i <= Len(<<f, g>>) THEN <<f, g>>[i] ELSE Tail(s)[i - Len(<<f, g>>)]
  BY <1>2, <1>3, Joined
<1>5. ASSUME NEW i \in 1 .. Len(s) + 1
      PROVE  (<<f, g>> \o Tail(s))[i] =
                 IF i = 1 THEN f ELSE IF i = 2 THEN g ELSE s[i - 1]
  <2>1. CASE i \in {1, 2}
    BY <1>1, <1>2, <1>3, <1>4, <2>1
  <2>2. CASE i > 2
    <3>1. i - 2 \in 1 .. Len(Tail(s)) /\ (i - 2) + 1 = i - 1
      BY <1>1, <1>2, <2>2
    <3>2. (<<f, g>> \o Tail(s))[i] = Tail(s)[i - 2]
      BY <1>1, <1>2, <1>3, <1>4, <2>2
    <3>3. QED
      BY <1>2, <2>2, <3>1, <3>2
  <2>3. QED
    BY <2>1, <2>2
<1>6. QED
  BY <1>1, <1>2, <1>3, <1>4, <1>5

-----------------------------------------------------------------------------
(* Positions of the frames of a kind, as frames come and go above them.    *)

\* The stack t has d frames more than the stack s of m frames, none of them of
\* the kind; it has one more on top, of the kind; or one less.
Shifted(s, t, m, d, kind) ==
    /\ DOMAIN s = 1 .. m /\ DOMAIN t = 1 .. m + d
    /\ \A i \in 1 .. m : s[i].kind = kind =>
          i + d \in 1 .. m + d /\ t[i + d].kind = kind
    /\ \A j \in 1 .. m + d : t[j].kind = kind =>
          j - d \in 1 .. m /\ s[j - d].kind = kind

OneMore(s, t, m, kind) ==
    /\ DOMAIN s = 1 .. m /\ DOMAIN t = 1 .. m + 1
    /\ t[1].kind = kind
    /\ \A i \in 1 .. m : t[i + 1].kind = s[i].kind

OneLess(s, t, m, kind) ==
    /\ DOMAIN s = 1 .. m /\ DOMAIN t = 1 .. m - 1
    /\ s[1].kind = kind
    /\ \A i \in 1 .. m - 1 : t[i].kind = s[i + 1].kind

\* Frames of the kind keep their order when others come and go.
LEMMA PositionsShift ==
    ASSUME NEW s, NEW t, NEW m \in Nat, NEW n \in Nat, NEW d \in Int, NEW kind,
           Shifted(s, t, m, d, kind), NEW at \in Positions(s, n, kind)
    PROVE  [k \in 1 .. n |-> at[k] + d] \in Positions(t, n, kind)
<1> USE DEF Shifted
<1> DEFINE ta == [k \in 1 .. n |-> at[k] + d]
<1>1. /\ at \in [1 .. n -> 1 .. m]
      /\ \A j, k \in 1 .. n : j < k => at[j] < at[k]
      /\ \A i \in 1 .. m : s[i].kind = kind <=> \E k \in 1 .. n : at[k] = i
  BY Zenon DEF Positions
<1>2. \A k \in 1 .. n : s[at[k]].kind = kind /\ at[k] \in 1 .. m
  BY <1>1
<1>3. ta \in [1 .. n -> 1 .. m + d]
  BY <1>2
<1>4. \A j, k \in 1 .. n : j < k => ta[j] < ta[k]
  BY <1>1, <1>2
<1>5. ASSUME NEW j \in 1 .. m + d, t[j].kind = kind
      PROVE  \E k \in 1 .. n : ta[k] = j
  <2>1. PICK k \in 1 .. n : at[k] = j - d
    BY <1>1, <1>5
  <2>2. ta[k] = j
    BY <2>1
  <2>3. QED
    BY <2>2
<1>6. ASSUME NEW j \in 1 .. m + d, NEW k \in 1 .. n, ta[k] = j
      PROVE  t[j].kind = kind
  BY <1>2, <1>6
<1>7. QED
  BY <1>3, <1>4, <1>5, <1>6, Zenon DEF Positions

\* A frame of the kind comes on top; its position is the first.
LEMMA PositionsPush ==
    ASSUME NEW s, NEW t, NEW m \in Nat, NEW n \in Nat, NEW kind,
           OneMore(s, t, m, kind), NEW at \in Positions(s, n, kind)
    PROVE  [k \in 1 .. n + 1 |-> IF k = 1 THEN 1 ELSE at[k - 1] + 1]
               \in Positions(t, n + 1, kind)
<1> USE DEF OneMore
<1> DEFINE ta == [k \in 1 .. n + 1 |-> IF k = 1 THEN 1 ELSE at[k - 1] + 1]
<1>1. /\ at \in [1 .. n -> 1 .. m]
      /\ \A j, k \in 1 .. n : j < k => at[j] < at[k]
      /\ \A i \in 1 .. m : s[i].kind = kind <=> \E k \in 1 .. n : at[k] = i
  BY Zenon DEF Positions
<1>2. \A k \in 1 .. n : s[at[k]].kind = kind /\ at[k] \in 1 .. m
  BY <1>1
<1>3. \A k \in 1 .. n + 1 : k # 1 => k - 1 \in 1 .. n
  OBVIOUS
<1>4. ta \in [1 .. n + 1 -> 1 .. m + 1]
  BY <1>2, <1>3
<1>5. \A j, k \in 1 .. n + 1 : j < k => ta[j] < ta[k]
  <2> SUFFICES ASSUME NEW j \in 1 .. n + 1, NEW k \in 1 .. n + 1, j < k
               PROVE  ta[j] < ta[k]
    OBVIOUS
  <2>1. CASE j = 1
    BY <1>2, <1>3, <2>1
  <2>2. CASE j # 1
    <3>1. j - 1 \in 1 .. n /\ k - 1 \in 1 .. n /\ j - 1 < k - 1
      BY <2>2
    <3>2. at[j - 1] < at[k - 1] /\ at[j - 1] \in 1 .. m /\ at[k - 1] \in 1 .. m
      BY <1>1, <3>1
    <3>3. QED
      BY <2>2, <3>2
  <2>3. QED
    BY <2>1, <2>2
<1>6. ASSUME NEW j \in 1 .. m + 1, t[j].kind = kind
      PROVE  \E k \in 1 .. n + 1 : ta[k] = j
  <2>1. CASE j = 1
    <3>1. 1 \in 1 .. n + 1 /\ ta[1] = j
      BY <2>1
    <3>2. QED
      BY <3>1, Zenon
  <2>2. CASE j # 1
    <3>1. j - 1 \in 1 .. m /\ t[(j - 1) + 1].kind = s[j - 1].kind /\ (j - 1) + 1 = j
      BY <2>2
    <3>2. PICK k \in 1 .. n : at[k] = j - 1
      BY <1>1, <1>6, <3>1
    <3>3. k + 1 \in 1 .. n + 1 /\ (k + 1) - 1 = k /\ k + 1 # 1
      OBVIOUS
    <3>4. ta[k + 1] = at[k] + 1
      BY <3>3
    <3>5. ta[k + 1] = j
      BY <3>2, <3>4
    <3>6. QED
      BY <3>3, <3>5, Zenon
  <2>3. QED
    BY <2>1, <2>2
<1>7. ASSUME NEW j \in 1 .. m + 1, NEW k \in 1 .. n + 1, ta[k] = j
      PROVE  t[j].kind = kind
  <2>1. CASE k = 1
    BY <1>7, <2>1
  <2>2. CASE k # 1
    BY <1>2, <1>3, <1>7, <2>2, Zenon
  <2>3. QED
    BY <2>1, <2>2
<1>8. QED
  BY <1>4, <1>5, <1>6, <1>7, Zenon DEF Positions

\* The top frame is of the kind: its position is the first.
LEMMA PositionsTop ==
    ASSUME NEW s, NEW m \in Nat \ {0}, NEW n \in Nat, NEW kind,
           DOMAIN s = 1 .. m, s[1].kind = kind, NEW at \in Positions(s, n, kind)
    PROVE  n > 0 /\ at[1] = 1
<1>1. /\ at \in [1 .. n -> 1 .. m]
      /\ \A j, k \in 1 .. n : j < k => at[j] < at[k]
      /\ \E k \in 1 .. n : at[k] = 1
  BY DEF Positions
<1>2. PICK k \in 1 .. n : at[k] = 1
  BY <1>1
<1>3. 1 \in 1 .. n /\ at[1] \in 1 .. m
  BY <1>1, <1>2
<1>4. CASE k # 1
  BY <1>1, <1>2, <1>3, <1>4
<1>5. QED
  BY <1>2, <1>3, <1>4

\* The top frame, of the kind, is taken off.
LEMMA PositionsPop ==
    ASSUME NEW s, NEW t, NEW m \in Nat \ {0}, NEW n \in Nat, NEW kind,
           OneLess(s, t, m, kind), NEW at \in Positions(s, n, kind)
    PROVE  [k \in 1 .. n - 1 |-> at[k + 1] - 1] \in Positions(t, n - 1, kind)
<1> USE DEF OneLess
<1> DEFINE ta == [k \in 1 .. n - 1 |-> at[k + 1] - 1]
<1>1. /\ at \in [1 .. n -> 1 .. m]
      /\ \A j, k \in 1 .. n : j < k => at[j] < at[k]
      /\ \A i \in 1 .. m : s[i].kind = kind <=> \E k \in 1 .. n : at[k] = i
  BY Zenon DEF Positions
<1>2. n > 0 /\ at[1] = 1
  BY PositionsTop
<1>3. \A k \in 1 .. n - 1 : k + 1 \in 1 .. n /\ at[k + 1] \in 1 .. m /\ at[k + 1] > 1
  <2> SUFFICES ASSUME NEW k \in 1 .. n - 1
               PROVE  k + 1 \in 1 .. n /\ at[k + 1] \in 1 .. m /\ at[k + 1] > 1
    OBVIOUS
  <2>1. 1 \in 1 .. n /\ k + 1 \in 1 .. n /\ 1 < k + 1
    BY <1>2
  <2>2. QED
    BY <1>1, <1>2, <2>1
<1>4. ta \in [1 .. n - 1 -> 1 .. m - 1]
  BY <1>3
<1>5. \A j, k \in 1 .. n - 1 : j < k => ta[j] < ta[k]
  <2> SUFFICES ASSUME NEW j \in 1 .. n - 1, NEW k \in 1 .. n - 1, j < k
               PROVE  ta[j] < ta[k]
    OBVIOUS
  <2>1. j + 1 \in 1 .. n /\ k + 1 \in 1 .. n /\ j + 1 < k + 1
    BY <1>3
  <2>2. at[j + 1] < at[k + 1] /\ at[j + 1] \in 1 .. m /\ at[k + 1] \in 1 .. m
    BY <1>1, <2>1
  <2>3. QED
    BY <2>2
<1>6. ASSUME NEW j \in 1 .. m - 1, t[j].kind = kind
      PROVE  \E k \in 1 .. n - 1 : ta[k] = j
  <2>1. PICK k \in 1 .. n : at[k] = j + 1
    BY <1>1, <1>6
  <2>2. k # 1
    BY <1>2, <2>1
  <2>3. k - 1 \in 1 .. n - 1 /\ (k - 1) + 1 = k
    BY <2>2
  <2>4. ta[k - 1] = j
    BY <2>1, <2>3
  <2>5. QED
    BY <2>3, <2>4, Zenon
<1>7. ASSUME NEW j \in 1 .. m - 1, NEW k \in 1 .. n - 1, ta[k] = j
      PROVE  t[j].kind = kind
  <2>1. at[k + 1] = j + 1 /\ k + 1 \in 1 .. n /\ j + 1 \in 1 .. m
    BY <1>3, <1>7
  <2>2. QED
    BY <1>1, <2>1, Zenon
<1>8. QED
  BY <1>4, <1>5, <1>6, <1>7, Zenon DEF Positions

-----------------------------------------------------------------------------
(* The inductive invariant.                                                *)

\* d is among the descendants of p.
Below(d, p) == \E j \in DOMAIN Descendants[p] : Descendants[p][j] = d

\* The chain of a block with another on top of it: the block above is the
\* chain's own, and was run.
Chains ==
    /\ ChainDecides
    /\ \A i \in DOMAIN stack :
          i > 1 /\ stack[i].chain => stack[i - 1].kind = "if" /\ stack[i].taken

\* The loops' parts, with what the loops have still to do, are below the part
\* of the loop around them.
LoopsAt(at) ==
    \A k \in DOMAIN partStack :
        /\ partStack[k] = stack[at[k]].part
        /\ k < Len(partStack) =>
              /\ Below(partStack[k], partStack[k + 1])
              /\ \A j \in DOMAIN stack[at[k]].todo :
                    Below(stack[at[k]].todo[j], partStack[k + 1])

Loops == \E at \in Positions(stack, Len(partStack), "loop") : LoopsAt(at)

\* What an included script has saved is the scope of the script around it.
IncludesAt(at) ==
    \A k \in DOMAIN incStack :
        /\ incStack[k] = stack[at[k]].key
        /\ stack[at[k]].saved = IF k = Len(incStack) THEN Main ELSE incStack[k + 1]

Includes ==
    /\ \E at \in Positions(stack, Len(incStack), "include") : IncludesAt(at)
    /\ scope = IF incStack = <<>> THEN Main ELSE Head(incStack)

\* A script that include :once has run is remembered, or still running.
Remembered ==
    \A k \in Keys :
        /\ onceRuns[k] # "again"
        /\ onceRuns[k] = "once" =>
              \/ k \in once
              \/ \E i \in DOMAIN stack : /\ stack[i].kind = "include"
                                         /\ stack[i].viaOnce
                                         /\ stack[i].key = k

-----------------------------------------------------------------------------
(* The kinds of steps.                                                     *)

\* g is f but for its budget and its chain.
Agrees(g, f) ==
    /\ g.kind = f.kind
    /\ g.key = f.key
    /\ g.viaOnce = f.viaOnce
    /\ g.saved = f.saved
    /\ g.part = f.part
    /\ g.todo = f.todo

Replaced(g) ==
    /\ stack' \in Seq(Frames)
    /\ Len(stack') = Len(stack)
    /\ \A i \in 1 .. Len(stack) : stack'[i] = IF i = 1 THEN g ELSE stack[i]

Pushed(f, g) ==
    /\ stack' \in Seq(Frames)
    /\ Len(stack') = Len(stack) + 1
    /\ \A i \in 1 .. Len(stack) + 1 :
          stack'[i] = IF i = 1 THEN f ELSE IF i = 2 THEN g ELSE stack[i - 1]

Popped ==
    /\ stack' \in Seq(Frames)
    /\ Len(stack') = Len(stack) - 1
    /\ \A i \in 1 .. Len(stack) - 1 : stack'[i] = stack[i + 1]

\* The variables the two stacks and :once are about stay, or once grows.
KeepsParts == UNCHANGED partStack
KeepsIncludes == UNCHANGED <<incStack, scope, onceRuns>> /\ once \subseteq once'

\* A command that opens no block.
StepAdvance ==
    \E g \in Frames :
        /\ Replaced(g) /\ Agrees(g, Top)
        /\ KeepsParts /\ KeepsIncludes
        /\ signal' = None /\ g.chain => ifResult' = g.taken

\* The block of an if, elsif or else is entered.
StepBlock ==
    \E f, g \in Frames :
        /\ Pushed(f, g) /\ Agrees(g, Top)
        /\ f.kind \in {"if", "else"} /\ ~f.chain
        /\ g.chain => f.kind = "if" /\ g.taken
        /\ KeepsParts /\ KeepsIncludes

\* A loop is entered.
StepLoop ==
    \E f, g \in Frames :
        /\ Pushed(f, g) /\ Agrees(g, Top)
        /\ f.kind = "loop" /\ ~f.chain /\ ~g.chain
        /\ LoopSet # <<>> /\ f.part = Head(LoopSet) /\ f.todo = Tail(LoopSet)
        /\ partStack' = <<Head(LoopSet)>> \o partStack
        /\ KeepsIncludes

\* An included script is entered.
StepInclude ==
    \E f, g \in Frames, k \in Keys, viaOnce \in BOOLEAN :
        /\ Pushed(f, g) /\ Agrees(g, Top)
        /\ f.kind = "include" /\ ~f.chain /\ ~g.chain
        /\ f.key = k /\ (f.viaOnce <=> viaOnce) /\ f.saved = scope
        /\ ~(viaOnce /\ k \in once) /\ ~Pending(k)
        /\ Len(incStack) < includeMaxDepth
        /\ EnterInclude(k, viaOnce)
        /\ KeepsParts

\* A block of an if, elsif or else, or the script, is left.
StepLeave ==
    /\ Popped
    /\ Top.kind \in {"if", "else", "script"}
    /\ signal' = None /\ Top.kind = "if" => ifResult' = TRUE
    /\ KeepsParts /\ KeepsIncludes

\* A loop gets on to its next part.
StepNextPart ==
    \E g \in Frames :
        /\ Replaced(g)
        /\ Top.kind = "loop" /\ g.kind = "loop" /\ ~g.chain
        /\ Top.todo # <<>> /\ g.part = Head(Top.todo) /\ g.todo = Tail(Top.todo)
        /\ partStack' = <<Head(Top.todo)>> \o Tail(partStack)
        /\ KeepsIncludes

\* A loop is left.
StepLeaveLoop ==
    /\ Popped
    /\ Top.kind = "loop"
    /\ partStack' = Tail(partStack)
    /\ KeepsIncludes

\* An included script is left.
StepLeaveInclude ==
    /\ Popped
    /\ Top.kind = "include"
    /\ incStack' = Tail(incStack)
    /\ once' = IF Top.viaOnce THEN once \cup {Top.key} ELSE once
    /\ scope' = Top.saved
    /\ onceRuns' = onceRuns
    /\ KeepsParts

StepKinds ==
    \/ StepAdvance \/ StepBlock \/ StepLoop \/ StepInclude
    \/ StepLeave \/ StepNextPart \/ StepLeaveLoop \/ StepLeaveInclude

Signals == [kind : {"none", "stop", "return", "error", "break"}, name : Names]

\* The top frame of a stack that is not empty.
LEMMA TopFrame ==
    ASSUME TypeOK, stack # <<>>
    PROVE  /\ Len(stack) \in Nat \ {0}
           /\ Top = stack[1]
           /\ Top \in Frames
           /\ 1 \in DOMAIN stack
  BY Lengths DEF TypeOK, Top

\* Frames and what commands make of them have their types.
LEMMA FrameTypes ==
    ASSUME TypeOK
    PROVE  /\ \A kind \in {"script", "if", "else", "loop", "include"} :
                 /\ Frame(kind) \in Frames
                 /\ Frame(kind).kind = kind
                 /\ Frame(kind).chain = FALSE
           /\ \A ch, tk \in BOOLEAN : Running =>
                 /\ Command(ch, tk) \in Frames
                 /\ Agrees(Command(ch, tk), Top)
                 /\ Command(ch, tk).chain = ch
                 /\ Command(ch, tk).taken = tk
<1>1. \A kind \in {"script", "if", "else", "loop", "include"} :
          /\ Frame(kind) \in Frames
          /\ Frame(kind).kind = kind
          /\ Frame(kind).chain = FALSE
  BY ControlAssumption DEF Frame, Frames, Names
<1>2. ASSUME NEW ch \in BOOLEAN, NEW tk \in BOOLEAN, Running
      PROVE  /\ Command(ch, tk) \in Frames
             /\ Agrees(Command(ch, tk), Top)
             /\ Command(ch, tk).chain = ch
             /\ Command(ch, tk).taken = tk
  <2>1. Top \in Frames /\ Top.left > 0
    BY <1>2, TopFrame DEF Running
  <2> DEFINE c == Command(ch, tk)
  <2>2. Top.left \in Nat /\ Top.left - 1 \in Nat
    BY <2>1 DEF Frames
  <2>3. /\ c.kind = Top.kind /\ c.key = Top.key /\ c.viaOnce = Top.viaOnce
        /\ c.saved = Top.saved /\ c.part = Top.part /\ c.todo = Top.todo
        /\ c.chain = ch /\ c.taken = tk
    BY <2>1 DEF Command, Frames
  <2>4. c \in Frames
    <3>1. [Top EXCEPT !.left = Top.left - 1] \in Frames
      BY <2>1, <2>2 DEF Frames
    <3>2. [[Top EXCEPT !.left = Top.left - 1] EXCEPT !.chain = ch, !.taken = tk] \in Frames
      BY <3>1, Zenon DEF Frames
    <3>3. c = [[Top EXCEPT !.left = Top.left - 1] EXCEPT !.chain = ch, !.taken = tk]
      BY DEF Command
    <3>4. QED
      BY <3>2, <3>3
  <2>5. QED
    BY <2>3, <2>4 DEF Agrees
<1>3. QED
  BY <1>1, <1>2

\* A command that opens no block replaces the top frame.
LEMMA Advances ==
    ASSUME TypeOK, Running, NEW ch \in BOOLEAN, NEW tk \in BOOLEAN, Advance(ch, tk)
    PROVE  Replaced(Command(ch, tk))
<1>1. stack \in Seq(Frames) /\ stack # <<>> /\ Command(ch, tk) \in Frames
  BY FrameTypes, Zenon DEF TypeOK, Running
<1>2. stack' = <<Command(ch, tk)>> \o Tail(stack)
  BY DEF Advance
<1>3. QED
  BY <1>1, <1>2, ReplaceFirst DEF Replaced

\* A command that opens a block pushes its frame.
LEMMA Pushes ==
    ASSUME TypeOK, Running, NEW ch \in BOOLEAN, NEW tk \in BOOLEAN,
           NEW f \in Frames, Push(f, ch, tk)
    PROVE  Pushed(f, Command(ch, tk))
<1>1. stack \in Seq(Frames) /\ stack # <<>> /\ Command(ch, tk) \in Frames
  BY FrameTypes, Zenon DEF TypeOK, Running
<1>2. stack' = <<f, Command(ch, tk)>> \o Tail(stack)
  BY DEF Push
<1>3. QED
  BY <1>1, <1>2, PutOnFirst DEF Pushed

\* Leaving a block pops its frame.
LEMMA Pops ==
    ASSUME TypeOK, stack # <<>>, stack' = Tail(stack)
    PROVE  Popped
<1>1. /\ Tail(stack) \in Seq(Frames)
      /\ Len(Tail(stack)) = Len(stack) - 1
      /\ \A i \in 1 .. Len(Tail(stack)) : Tail(stack)[i] = stack[i + 1]
  BY Rest DEF TypeOK
<1>2. QED
  BY <1>1 DEF Popped

\* The parts a loop goes through.
LEMMA LoopSetType == TypeOK => LoopSet \in Seq(Parts)
<1> SUFFICES ASSUME TypeOK PROVE LoopSet \in Seq(Parts)
  OBVIOUS
<1>1. CASE partStack # <<>>
  <2>1. Head(partStack) \in Parts
    BY <1>1, Rest DEF TypeOK
  <2>2. QED
    BY <1>1, <2>1, TreeAssumption DEF LoopSet
<1>2. CASE partStack = <<>>
  BY <1>2, TreeAssumption, ControlAssumption DEF LoopSet
<1>3. QED
  BY <1>1, <1>2

\* The frame of a loop.
LEMMA LoopFrame ==
    ASSUME TypeOK, NEW n \in Names, LoopSet # <<>>
    PROVE  LET f == [Frame("loop") EXCEPT !.name = n, !.part = Head(LoopSet),
                                          !.todo = Tail(LoopSet)]
           IN  /\ f \in Frames
               /\ f.kind = "loop" /\ f.chain = FALSE
               /\ f.part = Head(LoopSet) /\ f.todo = Tail(LoopSet)
<1>1. Head(LoopSet) \in Parts /\ Tail(LoopSet) \in Seq(Parts)
  BY LoopSetType, Rest
<1>2. QED
  BY <1>1, ControlAssumption, Zenon DEF Frame, Frames

\* The frame of an included script.
LEMMA IncludeFrameType ==
    ASSUME TypeOK, NEW k \in Keys, NEW viaOnce \in BOOLEAN
    PROVE  /\ IncludeFrame(k, viaOnce) \in Frames
           /\ IncludeFrame(k, viaOnce).kind = "include"
           /\ IncludeFrame(k, viaOnce).chain = FALSE
           /\ IncludeFrame(k, viaOnce).key = k
           /\ IncludeFrame(k, viaOnce).viaOnce <=> viaOnce
           /\ IncludeFrame(k, viaOnce).saved = scope
<1>1. scope \in Keys \cup {Main}
  BY DEF TypeOK
<1> DEFINE e == Frame("include")
           f == [e EXCEPT !.key = k, !.viaOnce = viaOnce, !.saved = scope]
<1>2. e \in Frames /\ e.kind = "include" /\ e.chain = FALSE
  BY FrameTypes, Zenon
<1> HIDE DEF e
<1>3. f \in Frames
  BY <1>1, <1>2, Zenon DEF Frames
<1>4. f.kind = "include" /\ f.chain = FALSE /\ f.key = k /\ f.saved = scope
  BY <1>2 DEF Frames
<1>5. f.viaOnce <=> viaOnce
  BY <1>2 DEF Frames
<1>6. QED
  BY <1>3, <1>4, <1>5, Zenon DEF e, IncludeFrame

\* A command that opens no block, and leaves the stacks and the scope alone.
LEMMA AdvanceShape ==
    ASSUME TypeOK, Running, NEW ch \in BOOLEAN, NEW tk \in BOOLEAN, Advance(ch, tk),
           KeepsParts, KeepsIncludes, signal' = None /\ ch => ifResult' = tk
    PROVE  StepAdvance
  BY Advances, FrameTypes DEF StepAdvance

\* Every command is a step of one of four kinds.
LEMMA CommandShapes == TypeOK /\ Chains /\ Commands => StepKinds
<1> SUFFICES ASSUME TypeOK, Chains, Commands PROVE StepKinds
  OBVIOUS
<1> USE DEF shared, KeepsParts, KeepsIncludes
<1>1. CASE Simple
  BY <1>1, AdvanceShape, Zenon DEF Simple, StepKinds
<1>2. CASE Leave
  BY <1>2, AdvanceShape, Zenon DEF Leave, Raise, StepKinds
<1>t. ASSUME Running
      PROVE  /\ Top.chain \in BOOLEAN /\ Top.taken \in BOOLEAN
             /\ Top.chain => ifResult = Top.taken
  BY <1>t, TopFrame DEF Running, Frames, Chains, ChainDecides
<1>3. ASSUME NEW res \in BOOLEAN, CmdIf(res) PROVE StepKinds
  <2>1. CASE res
    <3>1. Pushed(Frame("if"), Command(TRUE, TRUE))
      BY <1>3, <2>1, Pushes, FrameTypes, Zenon DEF CmdIf
    <3>2. StepBlock
      BY <1>3, <2>1, <3>1, FrameTypes, Zenon DEF CmdIf, StepBlock
    <3>3. QED
      BY <3>2 DEF StepKinds
  <2>2. CASE ~res
    BY <1>3, <2>2, AdvanceShape, Zenon DEF CmdIf, StepKinds
  <2>3. QED
    BY <2>1, <2>2
<1>4. ASSUME NEW res \in BOOLEAN, CmdElsif(res) PROVE StepKinds
  <2>1. CASE ~ifResult /\ res
    <3>1. Pushed(Frame("if"), Command(Top.chain, TRUE))
      BY <1>4, <1>t, <2>1, Pushes, FrameTypes, Zenon DEF CmdElsif
    <3>2. StepBlock
      BY <1>4, <1>t, <2>1, <3>1, FrameTypes, Zenon DEF CmdElsif, StepBlock
    <3>3. QED
      BY <3>2 DEF StepKinds
  <2>2. CASE ifResult \/ ~res
    <3>1. /\ Running /\ Advance(Top.chain, Top.taken)
          /\ UNCHANGED <<signal, partStack, incStack, once, scope, onceRuns>>
          /\ ifResult' = ifResult
      BY <1>4, <2>2, Zenon DEF CmdElsif, TypeOK
    <3>2. StepAdvance
      BY <1>t, <3>1, AdvanceShape
    <3>3. QED
      BY <3>2 DEF StepKinds
  <2>3. QED
    BY <2>1, <2>2
<1>5. CASE CmdElse
  <2>1. CASE ifResult
    BY <1>5, <2>1, AdvanceShape, Zenon DEF CmdElse, StepKinds
  <2>2. CASE ~ifResult
    <3>1. Pushed(Frame("else"), Command(FALSE, FALSE))
      BY <1>5, <2>2, Pushes, FrameTypes, Zenon DEF CmdElse
    <3>2. StepBlock
      BY <1>5, <2>2, <3>1, FrameTypes, Zenon DEF CmdElse, StepBlock
    <3>3. QED
      BY <3>2 DEF StepKinds
  <2>3. QED
    BY <2>1, <2>2
<1>6. ASSUME NEW n \in Names, CmdForEveryPart(n) PROVE StepKinds
  <2>1. CASE LoopSet = <<>>
    BY <1>6, <2>1, AdvanceShape, Zenon DEF CmdForEveryPart, StepKinds
  <2>2. CASE LoopSet # <<>>
    <3> DEFINE f == [Frame("loop") EXCEPT !.name = n, !.part = Head(LoopSet),
                                          !.todo = Tail(LoopSet)]
    <3>1. /\ f \in Frames /\ f.kind = "loop" /\ f.chain = FALSE
          /\ f.part = Head(LoopSet) /\ f.todo = Tail(LoopSet)
      BY <2>2, LoopFrame, Zenon
    <3>2. Running /\ Push(f, FALSE, FALSE)
      BY <1>6, <2>2, Zenon DEF CmdForEveryPart
    <3> HIDE DEF f
    <3>3. Pushed(f, Command(FALSE, FALSE))
      BY <3>1, <3>2, Pushes, Zenon
    <3>4. StepLoop
      BY <1>6, <2>2, <3>1, <3>2, <3>3, FrameTypes, Zenon DEF CmdForEveryPart, StepLoop
    <3>5. QED
      BY <3>4 DEF StepKinds
  <2>3. QED
    BY <2>1, <2>2
<1>7. ASSUME NEW k \in Keys, NEW viaOnce \in BOOLEAN, NEW optional \in BOOLEAN,
             IncludeSkip(k, viaOnce, optional)
      PROVE  StepKinds
  BY <1>7, AdvanceShape, Zenon DEF IncludeSkip, StepKinds
<1>8. ASSUME NEW k \in Keys, NEW viaOnce \in BOOLEAN, NEW optional \in BOOLEAN,
             IncludeFails(k, viaOnce, optional)
      PROVE  StepKinds
  BY <1>8, AdvanceShape, Zenon DEF IncludeFails, Raise, StepKinds
<1>9. ASSUME NEW k \in Keys, NEW viaOnce \in BOOLEAN, CmdInclude(k, viaOnce)
      PROVE  StepKinds
  <2> DEFINE f == IncludeFrame(k, viaOnce)
  <2>1. /\ f \in Frames /\ f.kind = "include" /\ f.chain = FALSE
        /\ f.key = k /\ (f.viaOnce <=> viaOnce) /\ f.saved = scope
    BY IncludeFrameType, Zenon
  <2>2. Running /\ Push(f, FALSE, FALSE)
    BY <1>9, Zenon DEF CmdInclude, EnterInclude
  <2> HIDE DEF f
  <2>3. Pushed(f, Command(FALSE, FALSE))
    BY <2>1, <2>2, Pushes, Zenon
  <2>4. partStack' = partStack
    BY <1>9 DEF CmdInclude, EnterInclude
  <2>5. /\ Command(FALSE, FALSE) \in Frames
        /\ Agrees(Command(FALSE, FALSE), Top)
        /\ ~Command(FALSE, FALSE).chain
    BY <2>2, FrameTypes, Zenon
  <2>6. StepInclude
    BY <1>9, <2>1, <2>3, <2>4, <2>5, Zenon DEF CmdInclude, StepInclude
  <2>7. QED
    BY <2>6 DEF StepKinds
<1>10. QED
  BY <1>1, <1>2, <1>3, <1>4, <1>5, <1>6, <1>7, <1>8, <1>9, Zenon DEF Commands

\* Ends of blocks and signals on their way up are steps of the other kinds.
LEMMA EndShapes == TypeOK /\ (Ends \/ Unwind) => StepKinds
<1> SUFFICES ASSUME TypeOK, Ends \/ Unwind PROVE StepKinds
  OBVIOUS
<1> USE DEF shared, KeepsParts, KeepsIncludes
<1>1. ASSUME EndIf \/ EndElse \/ EndScript \/ UnwindBlock \/ UnwindScript
      PROVE  StepLeave
  <2>1. Popped /\ Top.kind \in {"if", "else", "script"}
    BY <1>1, Pops DEF EndIf, EndElse, EndScript, UnwindBlock, UnwindScript,
                      Ending, Unwinding
  <2>2. signal' = None /\ Top.kind = "if" => ifResult' = TRUE
    BY <1>1 DEF EndIf, EndElse, EndScript, UnwindBlock, UnwindScript,
                Ending, Unwinding
  <2>3. KeepsParts /\ KeepsIncludes
    BY <1>1 DEF EndIf, EndElse, EndScript, UnwindBlock, UnwindScript
  <2>4. QED
    BY <2>1, <2>2, <2>3 DEF StepLeave
<1>2. ASSUME EndLoop \/ UnwindLoop PROVE StepLeaveLoop
  BY <1>2, Pops DEF EndLoop, UnwindLoop, Ending, Unwinding, StepLeaveLoop
<1>3. ASSUME EndInclude \/ UnwindInclude PROVE StepLeaveInclude
  BY <1>3, Pops DEF EndInclude, UnwindInclude, LeaveInclude, Ending, Unwinding,
                    StepLeaveInclude
<1>4. ASSUME NextPart PROVE StepNextPart
  <2> DEFINE g == [Top EXCEPT !.part = Head(Top.todo), !.todo = Tail(Top.todo),
                              !.left = Budget, !.chain = FALSE, !.taken = FALSE]
  <2>1. /\ stack # <<>> /\ Top.kind = "loop" /\ Top.todo # <<>>
        /\ stack' = <<g>> \o Tail(stack)
        /\ partStack' = <<Head(Top.todo)>> \o Tail(partStack)
        /\ UNCHANGED <<incStack, once, scope, onceRuns>>
    BY <1>4 DEF NextPart, Ending
  <2>2. Top \in Frames /\ Top.todo \in Seq(Parts)
    BY <2>1, TopFrame DEF Frames
  <2>3. Head(Top.todo) \in Parts /\ Tail(Top.todo) \in Seq(Parts)
    BY <2>1, <2>2, Rest
  <2>4. /\ g.kind = "loop" /\ g.chain = FALSE
        /\ g.part = Head(Top.todo) /\ g.todo = Tail(Top.todo)
    BY <2>1, <2>2 DEF Frames
  <2>5. g \in Frames
    <3>1. [Top EXCEPT !.part = Head(Top.todo), !.todo = Tail(Top.todo)] \in Frames
      BY <2>2, <2>3, Zenon DEF Frames
    <3>2. [[Top EXCEPT !.part = Head(Top.todo), !.todo = Tail(Top.todo)]
               EXCEPT !.left = Budget, !.chain = FALSE, !.taken = FALSE] \in Frames
      BY <3>1, ControlAssumption, Zenon DEF Frames
    <3>3. QED
      BY <3>2
  <2> HIDE DEF g
  <2>6. Replaced(g)
    <3>1. stack \in Seq(Frames)
      BY DEF TypeOK
    <3>2. QED
      BY <2>1, <2>5, <3>1, ReplaceFirst DEF Replaced
  <2>7. QED
    BY <2>1, <2>4, <2>5, <2>6 DEF StepNextPart
<1>5. QED
  BY <1>1, <1>2, <1>3, <1>4 DEF Ends, Unwind, StepKinds

\* Every step is of one of the eight kinds.
LEMMA Shapes == TypeOK /\ Chains /\ Next => StepKinds
  BY CommandShapes, EndShapes DEF Next

-----------------------------------------------------------------------------
(* Chains.                                                                 *)

\* An else is decided by its own chain.
LEMMA ChainsStep == TypeOK /\ Chains /\ StepKinds /\ stack # <<>> => Chains'
<1> SUFFICES ASSUME TypeOK, Chains, StepKinds, stack # <<>> PROVE Chains'
  OBVIOUS
<1>1. /\ Len(stack) \in Nat \ {0}
      /\ Top = stack[1]
      /\ DOMAIN stack = 1 .. Len(stack)
      /\ stack \in Seq(Frames)
  BY TopFrame DEF TypeOK
<1>2. \A i \in 1 .. Len(stack) :
          i > 1 /\ stack[i].chain => stack[i - 1].kind = "if" /\ stack[i].taken
  BY <1>1 DEF Chains
<1>3. ASSUME StepAdvance \/ StepNextPart PROVE Chains'
  <2>1. PICK g \in Frames :
            /\ Replaced(g) /\ g.kind = Top.kind
            /\ signal' = None /\ g.chain => ifResult' = g.taken
    BY <1>3 DEF StepAdvance, StepNextPart, Agrees
  <2>2. /\ Len(stack') = Len(stack) /\ DOMAIN stack' = 1 .. Len(stack)
        /\ stack'[1] = g
        /\ \A i \in 1 .. Len(stack) : i > 1 => stack'[i] = stack[i]
    BY <1>1, <2>1 DEF Replaced
  <2>3. ChainDecides'
    BY <1>1, <2>1, <2>2 DEF ChainDecides, Top
  <2>4. ASSUME NEW i \in 1 .. Len(stack), i > 1, stack'[i].chain
        PROVE  stack'[i - 1].kind = "if" /\ stack'[i].taken
    <3>1. stack[i - 1].kind = "if" /\ stack[i].taken
      BY <1>2, <2>2, <2>4
    <3>2. i - 1 \in 1 .. Len(stack) /\ stack'[i - 1].kind = stack[i - 1].kind
      BY <1>1, <2>1, <2>2, <2>4
    <3>3. QED
      BY <2>2, <2>4, <3>1, <3>2
  <2>5. QED
    BY <2>2, <2>3, <2>4 DEF Chains
<1>4. ASSUME StepBlock \/ StepLoop \/ StepInclude PROVE Chains'
  <2>1. PICK f \in Frames, g \in Frames :
            /\ Pushed(f, g) /\ g.kind = Top.kind
            /\ ~f.chain
            /\ g.chain => f.kind = "if" /\ g.taken
    BY <1>4 DEF StepBlock, StepLoop, StepInclude, Agrees
  <2>2. /\ Len(stack') = Len(stack) + 1 /\ DOMAIN stack' = 1 .. Len(stack) + 1
        /\ stack'[1] = f /\ stack'[2] = g
        /\ \A i \in 1 .. Len(stack) + 1 : i > 2 => stack'[i] = stack[i - 1]
    BY <1>1, <2>1 DEF Pushed
  <2>3. ChainDecides'
    BY <1>1, <2>1, <2>2 DEF ChainDecides, Top
  <2>4. ASSUME NEW i \in 1 .. Len(stack) + 1, i > 1, stack'[i].chain
        PROVE  stack'[i - 1].kind = "if" /\ stack'[i].taken
    <3>1. CASE i = 2
      BY <2>1, <2>2, <2>4, <3>1
    <3>2. CASE i > 2
      <4>1. i - 1 \in 1 .. Len(stack) /\ i - 1 > 1
        BY <1>1, <3>2
      <4>2. stack[(i - 1) - 1].kind = "if" /\ stack[i - 1].taken
        BY <1>2, <2>2, <2>4, <3>2, <4>1
      <4>3. stack'[i - 1].kind = stack[(i - 1) - 1].kind
        BY <1>1, <2>1, <2>2, <3>2
      <4>4. QED
        BY <2>2, <3>2, <4>2, <4>3
    <3>3. QED
      BY <2>4, <3>1, <3>2
  <2>5. QED
    BY <2>2, <2>3, <2>4 DEF Chains
<1>5. ASSUME StepLeave \/ StepLeaveLoop \/ StepLeaveInclude PROVE Chains'
  <2>1. /\ Popped
        /\ signal' = None /\ Top.kind = "if" => ifResult' = TRUE
    BY <1>5 DEF StepLeave, StepLeaveLoop, StepLeaveInclude
  <2>2. /\ Len(stack') = Len(stack) - 1 /\ DOMAIN stack' = 1 .. Len(stack) - 1
        /\ \A i \in 1 .. Len(stack) - 1 : stack'[i] = stack[i + 1]
        /\ stack' \in Seq(Frames)
    BY <1>1, <2>1 DEF Popped
  <2>3. ChainDecides'
    <3> SUFFICES ASSUME stack' # <<>>, signal' = None, Top'.chain
                 PROVE  ifResult' = Top'.taken
      BY DEF ChainDecides
    <3>1. 1 \in 1 .. Len(stack) - 1 /\ Top' = stack[2] /\ stack[2] \in Frames
      BY <1>1, <2>2, Lengths DEF Top
    <3>2. stack[1].kind = "if" /\ stack[2].taken
      BY <1>1, <1>2, <3>1
    <3>3. QED
      BY <1>1, <2>1, <3>1, <3>2 DEF Frames
  <2>4. ASSUME NEW i \in 1 .. Len(stack) - 1, i > 1, stack'[i].chain
        PROVE  stack'[i - 1].kind = "if" /\ stack'[i].taken
    <3>1. i + 1 \in 1 .. Len(stack) /\ i + 1 > 1 /\ (i + 1) - 1 = i
      BY <1>1
    <3>2. stack[i].kind = "if" /\ stack[i + 1].taken
      BY <1>2, <2>2, <2>4, <3>1
    <3>3. i - 1 \in 1 .. Len(stack) - 1 /\ (i - 1) + 1 = i
      BY <1>1, <2>4
    <3>4. QED
      BY <2>2, <3>2, <3>3
  <2>5. QED
    BY <2>2, <2>3, <2>4 DEF Chains
<1>6. QED
  BY <1>3, <1>4, <1>5 DEF StepKinds

-----------------------------------------------------------------------------
(* Parts and loops.                                                        *)

\* The step changes the stack by d frames and leaves the frames of the kind.
Keeps(kind, d) ==
    /\ DOMAIN stack' = 1 .. Len(stack) + d
    /\ \A i \in 1 .. Len(stack) : stack[i].kind = kind =>
          i + d \in 1 .. Len(stack) + d /\ Agrees(stack'[i + d], stack[i])
    /\ \A j \in 1 .. Len(stack) + d : stack'[j].kind = kind =>
          j - d \in 1 .. Len(stack) /\ stack[j - d].kind = kind

\* Replacing the top frame leaves the frames of a kind.
LEMMA ReplacedKeeps ==
    ASSUME TypeOK, stack # <<>>, NEW kind, NEW g \in Frames, Replaced(g),
           g.kind = Top.kind, Agrees(g, Top) \/ kind # Top.kind
    PROVE  Keeps(kind, 0)
<1>1. Len(stack) \in Nat \ {0} /\ Top = stack[1]
  BY TopFrame
<1>2. /\ DOMAIN stack' = 1 .. Len(stack)
      /\ stack'[1] = g
      /\ \A i \in 1 .. Len(stack) : i # 1 => stack'[i] = stack[i]
  BY <1>1 DEF Replaced
<1>3. QED
  BY <1>1, <1>2 DEF Keeps, Agrees

\* Pushing a frame of another kind leaves the frames of a kind.
LEMMA PushedKeeps ==
    ASSUME TypeOK, stack # <<>>, NEW kind, NEW f \in Frames, NEW g \in Frames,
           Pushed(f, g), Agrees(g, Top), f.kind # kind
    PROVE  Keeps(kind, 1)
<1>1. Len(stack) \in Nat \ {0} /\ Top = stack[1]
  BY TopFrame
<1>2. /\ DOMAIN stack' = 1 .. Len(stack) + 1
      /\ stack'[1] = f /\ stack'[2] = g
      /\ \A i \in 1 .. Len(stack) + 1 : i > 2 => stack'[i] = stack[i - 1]
  BY <1>1 DEF Pushed
<1>3. \A i \in 1 .. Len(stack) : Agrees(stack'[i + 1], stack[i])
  <2> SUFFICES ASSUME NEW i \in 1 .. Len(stack) PROVE Agrees(stack'[i + 1], stack[i])
    OBVIOUS
  <2>1. CASE i = 1
    BY <1>1, <1>2, <2>1
  <2>2. CASE i > 1
    <3>1. stack'[i + 1] = stack[i]
      BY <1>1, <1>2, <2>2
    <3>2. QED
      BY <3>1 DEF Agrees
  <2>3. QED
    BY <2>1, <2>2
<1>4. ASSUME NEW j \in 1 .. Len(stack) + 1, stack'[j].kind = kind
      PROVE  j - 1 \in 1 .. Len(stack) /\ stack[j - 1].kind = kind
  <2>1. j # 1
    BY <1>2, <1>4
  <2>2. j - 1 \in 1 .. Len(stack) /\ (j - 1) + 1 = j
    BY <1>1, <2>1
  <2>3. QED
    BY <1>3, <1>4, <2>2 DEF Agrees
<1>5. QED
  BY <1>1, <1>2, <1>3, <1>4 DEF Keeps

\* Popping a frame of another kind leaves the frames of a kind.
LEMMA PoppedKeeps ==
    ASSUME TypeOK, stack # <<>>, NEW kind, Popped, Top.kind # kind
    PROVE  Keeps(kind, -1)
<1>1. Len(stack) \in Nat \ {0} /\ Top = stack[1]
  BY TopFrame
<1>2. /\ DOMAIN stack' = 1 .. Len(stack) + (-1)
      /\ \A i \in 1 .. Len(stack) + (-1) : stack'[i] = stack[i + 1]
  BY <1>1 DEF Popped
<1>3. ASSUME NEW i \in 1 .. Len(stack), stack[i].kind = kind
      PROVE  i + (-1) \in 1 .. Len(stack) + (-1) /\ Agrees(stack'[i + (-1)], stack[i])
  <2>1. i # 1
    BY <1>1, <1>3
  <2>2. i + (-1) \in 1 .. Len(stack) + (-1) /\ (i + (-1)) + 1 = i
    BY <1>1, <2>1
  <2>3. QED
    BY <1>2, <2>2 DEF Agrees
<1>4. ASSUME NEW j \in 1 .. Len(stack) + (-1), stack'[j].kind = kind
      PROVE  j - (-1) \in 1 .. Len(stack) /\ stack[j - (-1)].kind = kind
  <2>1. j - (-1) = j + 1 /\ j + 1 \in 1 .. Len(stack)
    BY <1>1
  <2>2. QED
    BY <1>2, <1>4, <2>1
<1>5. QED
  BY <1>2, <1>3, <1>4 DEF Keeps

\* A step that leaves the loops and the part stack keeps them in agreement.
LEMMA LoopsKept ==
    ASSUME TypeOK, Loops, NEW d \in Int, Keeps("loop", d), KeepsParts
    PROVE  Loops'
<1>1. /\ Len(stack) \in Nat /\ DOMAIN stack = 1 .. Len(stack)
      /\ Len(partStack) \in Nat /\ DOMAIN partStack = 1 .. Len(partStack)
      /\ partStack' = partStack
  BY DEF TypeOK, KeepsParts
<1>2. PICK at \in Positions(stack, Len(partStack), "loop") : LoopsAt(at)
  BY DEF Loops
<1>t. PICK ta : ta = [k \in 1 .. Len(partStack) |-> at[k] + d]
  BY Zenon
<1>3. ta \in Positions(stack', Len(partStack), "loop")
  <2>1. Shifted(stack, stack', Len(stack), d, "loop")
    BY <1>1 DEF Keeps, Agrees, Shifted
  <2>2. QED
    BY <1>1, <1>t, <2>1, PositionsShift
<1>4. \A k \in 1 .. Len(partStack) :
          stack'[ta[k]].part = stack[at[k]].part /\ stack'[ta[k]].todo = stack[at[k]].todo
  <2> SUFFICES ASSUME NEW k \in 1 .. Len(partStack)
               PROVE  Agrees(stack'[ta[k]], stack[at[k]])
    BY DEF Agrees
  <2>1. at[k] \in 1 .. Len(stack) /\ stack[at[k]].kind = "loop"
    BY <1>1 DEF Positions
  <2>2. QED
    BY <1>t, <2>1 DEF Keeps
<1>5. LoopsAt(ta)'
  BY <1>1, <1>2, <1>4, Zenon DEF LoopsAt
<1>6. QED
  BY <1>1, <1>3, <1>5 DEF Loops

\* A loop is entered: its parts are below the part of the loop around it.
LEMMA LoopsPush ==
    ASSUME TypeOK, Loops, stack # <<>>, StepLoop
    PROVE  Loops'
<1> DEFINE n == Len(partStack)
<1>1. /\ Len(stack) \in Nat \ {0} /\ DOMAIN stack = 1 .. Len(stack) /\ Top = stack[1]
      /\ partStack \in Seq(Parts) /\ n \in Nat /\ DOMAIN partStack = 1 .. n
  BY TopFrame DEF TypeOK
<1>2. PICK at \in Positions(stack, n, "loop") : LoopsAt(at)
  BY DEF Loops
<1>3. PICK f \in Frames, g \in Frames :
          /\ Pushed(f, g) /\ Agrees(g, Top) /\ f.kind = "loop"
          /\ LoopSet # <<>> /\ f.part = Head(LoopSet) /\ f.todo = Tail(LoopSet)
          /\ partStack' = <<Head(LoopSet)>> \o partStack
  BY DEF StepLoop
<1>4. PICK ta : ta = [k \in 1 .. n + 1 |-> IF k = 1 THEN 1 ELSE at[k - 1] + 1]
  BY Zenon
<1>5. /\ DOMAIN stack' = 1 .. Len(stack) + 1
      /\ stack'[1] = f
      /\ \A i \in 1 .. Len(stack) : Agrees(stack'[i + 1], stack[i])
  <2>1. /\ DOMAIN stack' = 1 .. Len(stack) + 1
        /\ stack'[1] = f /\ stack'[2] = g
        /\ \A i \in 1 .. Len(stack) : i > 1 => stack'[i + 1] = stack[i]
    BY <1>1, <1>3 DEF Pushed
  <2>2. QED
    BY <1>1, <1>3, <2>1 DEF Agrees
<1>6. ta \in Positions(stack', n + 1, "loop")
  <2>1. OneMore(stack, stack', Len(stack), "loop")
    BY <1>1, <1>3, <1>5 DEF OneMore, Agrees
  <2>2. QED
    BY <1>1, <1>4, <2>1, PositionsPush
<1>7. LoopSet \in Seq(Parts) /\ Head(LoopSet) \in Parts /\ Len(LoopSet) \in Nat \ {0}
  BY <1>3, LoopSetType, Rest, Lengths
<1>8. /\ partStack' \in Seq(Parts)
      /\ Len(partStack') = n + 1
      /\ DOMAIN partStack' = 1 .. n + 1
      /\ \A k \in 1 .. n + 1 :
            partStack'[k] = IF k = 1 THEN Head(LoopSet) ELSE partStack[k - 1]
  BY <1>1, <1>3, <1>7, PutFirst
<1>9. ASSUME n > 0
      PROVE  /\ Below(Head(LoopSet), partStack[1])
             /\ \A j \in DOMAIN Tail(LoopSet) : Below(Tail(LoopSet)[j], partStack[1])
  <2>1. partStack # <<>> /\ Head(partStack) = partStack[1]
    BY <1>1, <1>9
  <2>2. LoopSet = Descendants[partStack[1]]
    BY <2>1 DEF LoopSet
  <2>3. /\ Len(Tail(LoopSet)) = Len(LoopSet) - 1
        /\ DOMAIN Tail(LoopSet) = 1 .. Len(LoopSet) - 1
        /\ \A j \in 1 .. Len(LoopSet) - 1 : Tail(LoopSet)[j] = LoopSet[j + 1]
        /\ DOMAIN LoopSet = 1 .. Len(LoopSet)
        /\ Head(LoopSet) = LoopSet[1]
    BY <1>3, <1>7, Rest
  <2>4. \A i \in 1 .. Len(LoopSet) : Below(LoopSet[i], partStack[1])
    BY <2>2, <2>3 DEF Below
  <2>5. \A j \in 1 .. Len(LoopSet) - 1 : j + 1 \in 1 .. Len(LoopSet)
    BY <1>7
  <2>6. QED
    BY <1>7, <2>3, <2>4, <2>5
<1>10. ASSUME NEW k \in 1 .. n + 1
       PROVE  /\ partStack'[k] = stack'[ta[k]].part
              /\ k < n + 1 =>
                    /\ Below(partStack'[k], partStack'[k + 1])
                    /\ \A j \in DOMAIN stack'[ta[k]].todo :
                          Below(stack'[ta[k]].todo[j], partStack'[k + 1])
  <2>1. CASE k = 1
    <3>1. stack'[ta[k]] = f /\ partStack'[k] = Head(LoopSet)
      BY <1>1, <1>4, <1>5, <1>8, <2>1
    <3>2. k < n + 1 => n > 0 /\ partStack'[k + 1] = partStack[1]
      BY <1>1, <1>8, <2>1
    <3>3. QED
      BY <1>3, <1>9, <3>1, <3>2, Zenon
  <2>2. CASE k # 1
    <3>1. k - 1 \in 1 .. n /\ ta[k] = at[k - 1] + 1 /\ at[k - 1] \in 1 .. Len(stack)
      <4>1. at \in [1 .. n -> 1 .. Len(stack)]
        BY <1>1, <1>2 DEF Positions
      <4>2. k - 1 \in 1 .. n
        BY <1>1, <2>2
      <4>3. QED
        BY <1>4, <2>2, <4>1, <4>2
    <3>2. /\ stack'[ta[k]].part = stack[at[k - 1]].part
          /\ stack'[ta[k]].todo = stack[at[k - 1]].todo
      BY <1>5, <3>1 DEF Agrees
    <3>3. partStack'[k] = partStack[k - 1]
      BY <1>8, <2>2
    <3>4. k < n + 1 => /\ k - 1 < n /\ (k - 1) + 1 = k
                       /\ k + 1 \in 1 .. n + 1 /\ k + 1 # 1 /\ (k + 1) - 1 = k
                       /\ partStack'[k + 1] = partStack[k]
      BY <1>1, <1>8, <2>2
    <3>5. /\ partStack[k - 1] = stack[at[k - 1]].part
          /\ k - 1 < n =>
                /\ Below(partStack[k - 1], partStack[(k - 1) + 1])
                /\ \A j \in DOMAIN stack[at[k - 1]].todo :
                      Below(stack[at[k - 1]].todo[j], partStack[(k - 1) + 1])
      BY <1>1, <1>2, <3>1 DEF LoopsAt
    <3>6. QED
      BY <3>2, <3>3, <3>4, <3>5
  <2>3. QED
    BY <2>1, <2>2
<1>11. LoopsAt(ta)'
  BY <1>8, <1>10, Zenon DEF LoopsAt
<1>12. QED
  BY <1>6, <1>8, <1>11 DEF Loops

\* A loop gets on: its next part, like the one before, is below the part of the
\* loop around it.
LEMMA LoopsNext ==
    ASSUME TypeOK, Loops, stack # <<>>, StepNextPart
    PROVE  Loops'
<1> DEFINE n == Len(partStack)
<1>1. /\ Len(stack) \in Nat \ {0} /\ DOMAIN stack = 1 .. Len(stack)
      /\ Top = stack[1] /\ Top \in Frames
      /\ partStack \in Seq(Parts) /\ n \in Nat /\ DOMAIN partStack = 1 .. n
  BY TopFrame DEF TypeOK
<1>2. PICK at \in Positions(stack, n, "loop") : LoopsAt(at)
  BY DEF Loops
<1>3. PICK g \in Frames :
          /\ Replaced(g) /\ Top.kind = "loop" /\ g.kind = "loop"
          /\ Top.todo # <<>> /\ g.part = Head(Top.todo) /\ g.todo = Tail(Top.todo)
          /\ partStack' = <<Head(Top.todo)>> \o Tail(partStack)
  BY DEF StepNextPart
<1>4. /\ DOMAIN stack' = 1 .. Len(stack)
      /\ stack'[1] = g
      /\ \A i \in 1 .. Len(stack) : i # 1 => stack'[i] = stack[i]
  BY <1>1, <1>3 DEF Replaced
<1>5. at \in Positions(stack', n, "loop")
  BY <1>1, <1>2, <1>3, <1>4 DEF Positions
<1>6. n > 0 /\ at[1] = 1 /\ at \in [1 .. n -> 1 .. Len(stack)]
      /\ \A k \in 1 .. n : k # 1 => at[k] # 1
  <2>1. n > 0 /\ at[1] = 1
    BY <1>1, <1>2, <1>3, PositionsTop, Zenon
  <2>2. QED
    BY <1>1, <1>2, <2>1 DEF Positions
<1>7. /\ Top.todo \in Seq(Parts)
      /\ Head(Top.todo) \in Parts /\ Head(Top.todo) = Top.todo[1]
      /\ Len(Top.todo) \in Nat \ {0} /\ DOMAIN Top.todo = 1 .. Len(Top.todo)
      /\ DOMAIN Tail(Top.todo) = 1 .. Len(Top.todo) - 1
      /\ \A j \in 1 .. Len(Top.todo) - 1 : Tail(Top.todo)[j] = Top.todo[j + 1]
  <2>1. Top.todo \in Seq(Parts) /\ Top.todo # <<>>
    BY <1>1, <1>3 DEF Frames
  <2>2. QED
    BY <2>1, Rest, Lengths
<1>8. /\ Len(partStack') = n
      /\ DOMAIN partStack' = 1 .. n
      /\ \A k \in 1 .. n :
            partStack'[k] = IF k = 1 THEN Head(Top.todo) ELSE partStack[k]
  <2>1. partStack # <<>>
    BY <1>6
  <2>2. QED
    BY <1>1, <1>3, <1>7, <2>1, ReplaceFirst
<1>9. \A k \in 1 .. n :
          /\ partStack[k] = stack[at[k]].part
          /\ k < n =>
                /\ Below(partStack[k], partStack[k + 1])
                /\ \A j \in DOMAIN stack[at[k]].todo :
                      Below(stack[at[k]].todo[j], partStack[k + 1])
  BY <1>1, <1>2 DEF LoopsAt
<1>10. ASSUME NEW k \in 1 .. n
       PROVE  /\ partStack'[k] = stack'[at[k]].part
              /\ k < n =>
                    /\ Below(partStack'[k], partStack'[k + 1])
                    /\ \A j \in DOMAIN stack'[at[k]].todo :
                          Below(stack'[at[k]].todo[j], partStack'[k + 1])
  <2>1. k < n => partStack'[k + 1] = partStack[k + 1]
    BY <1>1, <1>8
  <2>2. CASE k = 1
    <3>1. stack'[at[k]] = g /\ stack[at[k]] = Top /\ partStack'[k] = Head(Top.todo)
      BY <1>1, <1>4, <1>6, <1>8, <2>2
    <3>2. k < n => \A j \in 1 .. Len(Top.todo) : Below(Top.todo[j], partStack[k + 1])
      BY <1>7, <1>9, <3>1, Zenon
    <3>3. \A j \in 1 .. Len(Top.todo) - 1 : j + 1 \in 1 .. Len(Top.todo)
      BY <1>7
    <3>4. partStack'[k] = stack'[at[k]].part
      BY <1>3, <3>1
    <3>5. ASSUME k < n PROVE Below(partStack'[k], partStack'[k + 1])
      BY <1>7, <2>1, <3>1, <3>2, <3>5
    <3>6. ASSUME k < n, NEW j \in DOMAIN stack'[at[k]].todo
          PROVE  Below(stack'[at[k]].todo[j], partStack'[k + 1])
      <4>1. j \in 1 .. Len(Top.todo) - 1 /\ stack'[at[k]].todo[j] = Top.todo[j + 1]
        BY <1>3, <1>7, <3>1, <3>6, Zenon
      <4>2. QED
        BY <2>1, <3>2, <3>3, <3>6, <4>1, Zenon
    <3>7. QED
      BY <3>4, <3>5, <3>6
  <2>3. CASE k # 1
    <3>1. stack'[at[k]] = stack[at[k]] /\ partStack'[k] = partStack[k]
      BY <1>4, <1>6, <1>8, <2>3
    <3>2. QED
      BY <1>9, <2>1, <3>1
  <2>4. QED
    BY <2>2, <2>3
<1>11. LoopsAt(at)'
  BY <1>8, <1>10, Zenon DEF LoopsAt
<1>12. QED
  BY <1>5, <1>8, <1>11 DEF Loops

\* A loop is left: the part stack is that of the loops around it.
LEMMA LoopsPop ==
    ASSUME TypeOK, Loops, stack # <<>>, StepLeaveLoop
    PROVE  Loops'
<1> DEFINE n == Len(partStack)
<1>1. /\ Len(stack) \in Nat \ {0} /\ DOMAIN stack = 1 .. Len(stack) /\ Top = stack[1]
      /\ partStack \in Seq(Parts) /\ n \in Nat /\ DOMAIN partStack = 1 .. n
  BY TopFrame DEF TypeOK
<1>2. PICK at \in Positions(stack, n, "loop") : LoopsAt(at)
  BY DEF Loops
<1>3. /\ Popped /\ Top.kind = "loop"
      /\ partStack' = Tail(partStack)
  BY DEF StepLeaveLoop
<1>4. PICK ta : ta = [k \in 1 .. n - 1 |-> at[k + 1] - 1]
  BY Zenon
<1>5. /\ DOMAIN stack' = 1 .. Len(stack) - 1
      /\ \A i \in 1 .. Len(stack) - 1 : stack'[i] = stack[i + 1]
  BY <1>1, <1>3 DEF Popped
<1>6. n > 0 /\ at[1] = 1 /\ ta \in Positions(stack', n - 1, "loop")
  <2>1. OneLess(stack, stack', Len(stack), "loop")
    BY <1>1, <1>3, <1>5 DEF OneLess
  <2>2. n > 0 /\ at[1] = 1
    BY <1>1, <1>2, <1>3, PositionsTop
  <2>3. QED
    BY <1>1, <1>4, <2>1, <2>2, PositionsPop
<1>7. /\ Len(partStack') = n - 1
      /\ DOMAIN partStack' = 1 .. n - 1
      /\ \A k \in 1 .. n - 1 : partStack'[k] = partStack[k + 1]
  <2>1. partStack # <<>>
    BY <1>6
  <2>2. QED
    BY <1>1, <1>3, <2>1, Rest
<1>8. \A k \in 1 .. n :
          /\ partStack[k] = stack[at[k]].part
          /\ k < n =>
                /\ Below(partStack[k], partStack[k + 1])
                /\ \A j \in DOMAIN stack[at[k]].todo :
                      Below(stack[at[k]].todo[j], partStack[k + 1])
  BY <1>1, <1>2 DEF LoopsAt
<1>9. ASSUME NEW k \in 1 .. n - 1
      PROVE  /\ partStack'[k] = stack'[ta[k]].part
             /\ k < n - 1 =>
                   /\ Below(partStack'[k], partStack'[k + 1])
                   /\ \A j \in DOMAIN stack'[ta[k]].todo :
                         Below(stack'[ta[k]].todo[j], partStack'[k + 1])
  <2>1. k + 1 \in 1 .. n
    BY <1>1
  <2>2. ta[k] \in 1 .. Len(stack) - 1 /\ ta[k] = at[k + 1] - 1
    BY <1>4, <1>5, <1>6 DEF Positions
  <2>3. at[k + 1] \in Int
    BY <1>1, <1>2, <2>1 DEF Positions
  <2>4. stack'[ta[k]] = stack[at[k + 1]]
    BY <1>5, <2>2, <2>3
  <2>5. partStack'[k] = partStack[k + 1]
    BY <1>7
  <2>6. ASSUME k < n - 1
        PROVE  k + 1 < n /\ partStack'[k + 1] = partStack[(k + 1) + 1]
    BY <1>1, <1>7, <2>6
  <2>7. QED
    BY <1>8, <2>1, <2>4, <2>5, <2>6
<1>10. LoopsAt(ta)'
  BY <1>7, <1>9, Zenon DEF LoopsAt
<1>11. QED
  BY <1>6, <1>7, <1>10 DEF Loops

\* Every step keeps the part stack in agreement with the loops.
LEMMA LoopsStep == TypeOK /\ Loops /\ StepKinds /\ stack # <<>> => Loops'
<1> SUFFICES ASSUME TypeOK, Loops, StepKinds, stack # <<>> PROVE Loops'
  OBVIOUS
<1>1. ASSUME StepAdvance PROVE Loops'
  <2>1. Keeps("loop", 0)
    BY <1>1, ReplacedKeeps DEF StepAdvance, Agrees
  <2>2. QED
    BY <1>1, <2>1, LoopsKept DEF StepAdvance
<1>2. ASSUME StepBlock \/ StepInclude PROVE Loops'
  <2>1. Keeps("loop", 1) /\ KeepsParts
    BY <1>2, PushedKeeps DEF StepBlock, StepInclude
  <2>2. QED
    BY <2>1, LoopsKept
<1>3. ASSUME StepLeave \/ StepLeaveInclude PROVE Loops'
  <2>1. Keeps("loop", -1) /\ KeepsParts
    BY <1>3, PoppedKeeps DEF StepLeave, StepLeaveInclude
  <2>2. QED
    BY <2>1, LoopsKept
<1>4. QED
  BY <1>1, <1>2, <1>3, LoopsPush, LoopsNext, LoopsPop DEF StepKinds


\* The inductive invariant.
IInv == TypeOK /\ Chains /\ Loops /\ Includes /\ IncludesBounded /\ Remembered

-----------------------------------------------------------------------------
(* Included scripts.                                                       *)

\* A step that leaves the included scripts keeps them in agreement.
LEMMA IncludesKept ==
    ASSUME TypeOK, Includes, NEW d \in Int, Keeps("include", d), KeepsIncludes
    PROVE  Includes'
<1>1. /\ Len(stack) \in Nat /\ DOMAIN stack = 1 .. Len(stack)
      /\ Len(incStack) \in Nat /\ DOMAIN incStack = 1 .. Len(incStack)
      /\ incStack' = incStack /\ scope' = scope
  BY DEF TypeOK, KeepsIncludes
<1>2. PICK at \in Positions(stack, Len(incStack), "include") : IncludesAt(at)
  BY DEF Includes
<1>3. PICK ta : ta = [k \in 1 .. Len(incStack) |-> at[k] + d]
  BY Zenon
<1>4. ta \in Positions(stack', Len(incStack), "include")
  <2>1. Shifted(stack, stack', Len(stack), d, "include")
    BY <1>1 DEF Keeps, Agrees, Shifted
  <2>2. QED
    BY <1>1, <1>3, <2>1, PositionsShift
<1>5. \A k \in 1 .. Len(incStack) :
          stack'[ta[k]].key = stack[at[k]].key /\ stack'[ta[k]].saved = stack[at[k]].saved
  <2> SUFFICES ASSUME NEW k \in 1 .. Len(incStack)
               PROVE  Agrees(stack'[ta[k]], stack[at[k]])
    BY DEF Agrees
  <2>1. at[k] \in 1 .. Len(stack) /\ stack[at[k]].kind = "include"
    BY <1>1 DEF Positions
  <2>2. QED
    BY <1>3, <2>1 DEF Keeps
<1>6. IncludesAt(ta)'
  BY <1>1, <1>2, <1>5 DEF IncludesAt
<1>7. QED
  BY <1>1, <1>4, <1>6 DEF Includes

\* A script is included: it saves the scope of the script around it.
LEMMA IncludesPush ==
    ASSUME TypeOK, Includes, stack # <<>>, StepInclude
    PROVE  Includes'
<1> DEFINE n == Len(incStack)
<1>1. /\ Len(stack) \in Nat \ {0} /\ DOMAIN stack = 1 .. Len(stack) /\ Top = stack[1]
      /\ incStack \in Seq(Keys) /\ n \in Nat /\ DOMAIN incStack = 1 .. n
  BY TopFrame DEF TypeOK
<1>2. PICK at \in Positions(stack, n, "include") : IncludesAt(at)
  BY DEF Includes
<1>3. PICK f \in Frames, g \in Frames, key \in Keys :
          /\ Pushed(f, g) /\ Agrees(g, Top) /\ f.kind = "include"
          /\ f.key = key /\ f.saved = scope
          /\ incStack' = <<key>> \o incStack /\ scope' = key
  BY DEF StepInclude, EnterInclude
<1>4. PICK ta : ta = [k \in 1 .. n + 1 |-> IF k = 1 THEN 1 ELSE at[k - 1] + 1]
  BY Zenon
<1>5. /\ DOMAIN stack' = 1 .. Len(stack) + 1
      /\ stack'[1] = f
      /\ \A i \in 1 .. Len(stack) : Agrees(stack'[i + 1], stack[i])
  <2>1. /\ DOMAIN stack' = 1 .. Len(stack) + 1
        /\ stack'[1] = f /\ stack'[2] = g
        /\ \A i \in 1 .. Len(stack) : i > 1 => stack'[i + 1] = stack[i]
    BY <1>1, <1>3 DEF Pushed
  <2>2. QED
    BY <1>1, <1>3, <2>1 DEF Agrees
<1>6. ta \in Positions(stack', n + 1, "include")
  <2>1. OneMore(stack, stack', Len(stack), "include")
    BY <1>1, <1>3, <1>5 DEF OneMore, Agrees
  <2>2. QED
    BY <1>1, <1>4, <2>1, PositionsPush
<1>7. /\ incStack' \in Seq(Keys)
      /\ Len(incStack') = n + 1
      /\ DOMAIN incStack' = 1 .. n + 1
      /\ \A k \in 1 .. n + 1 : incStack'[k] = IF k = 1 THEN key ELSE incStack[k - 1]
  BY <1>1, <1>3, PutFirst
<1>8. scope = IF n = 0 THEN Main ELSE incStack[1]
  BY <1>1, Lengths DEF Includes
<1>9. ASSUME NEW k \in 1 .. n + 1
      PROVE  /\ incStack'[k] = stack'[ta[k]].key
             /\ stack'[ta[k]].saved = IF k = n + 1 THEN Main ELSE incStack'[k + 1]
  <2>1. CASE k = 1
    <3>1. stack'[ta[k]] = f /\ incStack'[k] = key
      BY <1>1, <1>4, <1>5, <1>7, <2>1
    <3>2. k # n + 1 => n # 0 /\ incStack'[k + 1] = incStack[1]
      BY <1>1, <1>7, <2>1
    <3>3. k = n + 1 => n = 0
      BY <1>1, <2>1
    <3>4. QED
      BY <1>3, <1>8, <3>1, <3>2, <3>3
  <2>2. CASE k # 1
    <3>1. at \in [1 .. n -> 1 .. Len(stack)]
      BY <1>1, <1>2 DEF Positions
    <3>2. k - 1 \in 1 .. n /\ (k - 1) + 1 = k
      BY <1>1, <2>2
    <3>3. ta[k] = at[k - 1] + 1 /\ at[k - 1] \in 1 .. Len(stack)
      BY <1>4, <2>2, <3>1, <3>2
    <3>4. /\ stack'[ta[k]].key = stack[at[k - 1]].key
          /\ stack'[ta[k]].saved = stack[at[k - 1]].saved
      BY <1>5, <3>3 DEF Agrees
    <3>5. /\ incStack[k - 1] = stack[at[k - 1]].key
          /\ stack[at[k - 1]].saved = IF k - 1 = n THEN Main ELSE incStack[k]
      BY <1>1, <1>2, <3>2 DEF IncludesAt
    <3>6. /\ incStack'[k] = incStack[k - 1]
          /\ k # n + 1 => incStack'[k + 1] = incStack[k]
          /\ k - 1 = n <=> k = n + 1
      BY <1>1, <1>7, <2>2
    <3>7. QED
      BY <3>4, <3>5, <3>6
  <2>3. QED
    BY <2>1, <2>2
<1>10. IncludesAt(ta)'
  BY <1>7, <1>9 DEF IncludesAt
<1>11. scope' = IF incStack' = <<>> THEN Main ELSE Head(incStack')
  BY <1>1, <1>3, <1>7
<1>12. QED
  BY <1>6, <1>7, <1>10, <1>11 DEF Includes

\* An included script is left: the scope is that of the script around it again.
LEMMA IncludesPop ==
    ASSUME TypeOK, Includes, stack # <<>>, StepLeaveInclude
    PROVE  Includes'
<1> DEFINE n == Len(incStack)
<1>1. /\ Len(stack) \in Nat \ {0} /\ DOMAIN stack = 1 .. Len(stack) /\ Top = stack[1]
      /\ incStack \in Seq(Keys) /\ n \in Nat /\ DOMAIN incStack = 1 .. n
  BY TopFrame DEF TypeOK
<1>2. PICK at \in Positions(stack, n, "include") : IncludesAt(at)
  BY DEF Includes
<1>3. /\ Popped /\ Top.kind = "include"
      /\ incStack' = Tail(incStack) /\ scope' = Top.saved
  BY DEF StepLeaveInclude
<1>4. PICK ta : ta = [k \in 1 .. n - 1 |-> at[k + 1] - 1]
  BY Zenon
<1>5. /\ DOMAIN stack' = 1 .. Len(stack) - 1
      /\ \A i \in 1 .. Len(stack) - 1 : stack'[i] = stack[i + 1]
  BY <1>1, <1>3 DEF Popped
<1>6. n > 0 /\ at[1] = 1 /\ ta \in Positions(stack', n - 1, "include")
  <2>1. OneLess(stack, stack', Len(stack), "include")
    BY <1>1, <1>3, <1>5 DEF OneLess
  <2>2. n > 0 /\ at[1] = 1
    BY <1>1, <1>2, <1>3, PositionsTop, Zenon
  <2>3. QED
    BY <1>1, <1>4, <2>1, <2>2, PositionsPop
<1>7. /\ incStack' \in Seq(Keys)
      /\ Len(incStack') = n - 1
      /\ DOMAIN incStack' = 1 .. n - 1
      /\ \A k \in 1 .. n - 1 : incStack'[k] = incStack[k + 1]
  <2>1. incStack # <<>>
    BY <1>6
  <2>2. QED
    BY <1>1, <1>3, <2>1, Rest
<1>8. \A k \in 1 .. n :
          /\ incStack[k] = stack[at[k]].key
          /\ stack[at[k]].saved = IF k = n THEN Main ELSE incStack[k + 1]
  BY <1>1, <1>2, Zenon DEF IncludesAt
<1>9. ASSUME NEW k \in 1 .. n - 1
      PROVE  /\ incStack'[k] = stack'[ta[k]].key
             /\ stack'[ta[k]].saved = IF k = n - 1 THEN Main ELSE incStack'[k + 1]
  <2>1. k + 1 \in 1 .. n
    BY <1>1
  <2>2. ta[k] \in 1 .. Len(stack) - 1 /\ ta[k] = at[k + 1] - 1
    <3>1. ta[k] = at[k + 1] - 1
      BY <1>4, Zenon
    <3>2. ta[k] \in DOMAIN stack'
      BY <1>6, Zenon DEF Positions
    <3> QED BY <1>5, <3>1, <3>2, Zenon
  <2>3. at[k + 1] \in Int
    BY <1>1, <1>2, <2>1 DEF Positions
  <2>4. stack'[ta[k]] = stack[at[k + 1]]
    BY <1>5, <2>2, <2>3
  <2>5. /\ incStack'[k] = incStack[k + 1]
        /\ k # n - 1 => incStack'[k + 1] = incStack[(k + 1) + 1]
        /\ k + 1 = n <=> k = n - 1
    <3>1. incStack'[k] = incStack[k + 1]
      BY <1>7
    <3>2. k # n - 1 => k + 1 \in 1 .. n - 1
      <4>1. \A m \in Nat : \A i \in 1 .. m - 1 : i # m - 1 => i + 1 \in 1 .. m - 1
        OBVIOUS
      <4>2. QED
        BY <1>1, <4>1, Zenon
    <3>3. ASSUME k # n - 1 PROVE incStack'[k + 1] = incStack[(k + 1) + 1]
      <4>1. PICK i \in 1 .. n - 1 : i = k + 1
        BY <3>2, <3>3
      <4>2. QED
        BY <1>7, <4>1
    <3>4. k + 1 = n <=> k = n - 1
      BY <1>1
    <3>5. QED
      BY <3>1, <3>3, <3>4
  <2>6. QED
    BY <1>8, <2>1, <2>4, <2>5
<1>10. IncludesAt(ta)'
  BY <1>7, <1>9 DEF IncludesAt
<1>11. scope' = IF incStack' = <<>> THEN Main ELSE Head(incStack')
  <2>1. Top.saved = IF n = 1 THEN Main ELSE incStack[2]
    <3>1. 1 \in 1 .. n /\ stack[at[1]] = Top
      BY <1>1, <1>6
    <3>2. stack[at[1]].saved = IF 1 = n THEN Main ELSE incStack[1 + 1]
      BY <1>8, <3>1, Zenon
    <3>3. 1 + 1 = 2
      OBVIOUS
    <3>4. QED
      BY <3>1, <3>2, <3>3
  <2>2. incStack' = <<>> <=> n = 1
    BY <1>1, <1>6, <1>7, Lengths
  <2>3. n # 1 => Head(incStack') = incStack[2]
    BY <1>1, <1>6, <1>7
  <2>4. QED
    BY <1>3, <2>1, <2>2, <2>3
<1>12. QED
  BY <1>6, <1>7, <1>10, <1>11 DEF Includes

\* Every step keeps the include stack and the scope in agreement with the
\* included scripts that are running.
LEMMA IncludesStep == TypeOK /\ Includes /\ StepKinds /\ stack # <<>> => Includes'
<1> SUFFICES ASSUME TypeOK, Includes, StepKinds, stack # <<>> PROVE Includes'
  OBVIOUS
<1>1. ASSUME StepAdvance \/ StepNextPart PROVE Includes'
  <2>1. Keeps("include", 0) /\ KeepsIncludes
    BY <1>1, ReplacedKeeps DEF StepAdvance, StepNextPart, Agrees
  <2>2. QED
    BY <2>1, IncludesKept
<1>2. ASSUME StepBlock \/ StepLoop PROVE Includes'
  <2>1. Keeps("include", 1) /\ KeepsIncludes
    BY <1>2, PushedKeeps DEF StepBlock, StepLoop
  <2>2. QED
    BY <2>1, IncludesKept
<1>3. ASSUME StepLeave \/ StepLeaveLoop PROVE Includes'
  <2>1. Keeps("include", -1) /\ KeepsIncludes
    BY <1>3, PoppedKeeps DEF StepLeave, StepLeaveLoop
  <2>2. QED
    BY <2>1, IncludesKept
<1>4. QED
  BY <1>1, <1>2, <1>3, IncludesPush, IncludesPop DEF StepKinds

\* A loop or an included script on top has its entry in the part stack or in the
\* include stack, and a running included script is pending.
LEMMA StacksFilled ==
    ASSUME TypeOK, Loops, Includes, stack # <<>>
    PROVE  /\ Top.kind = "loop" => partStack # <<>>
           /\ Top.kind = "include" => incStack # <<>>
           /\ \A i \in DOMAIN stack : stack[i].kind = "include" => Pending(stack[i].key)
<1>1. /\ Len(stack) \in Nat \ {0} /\ DOMAIN stack = 1 .. Len(stack) /\ Top = stack[1]
      /\ Len(partStack) \in Nat
      /\ Len(incStack) \in Nat /\ DOMAIN incStack = 1 .. Len(incStack)
  BY TopFrame DEF TypeOK
<1>2. Top.kind = "loop" => Len(partStack) > 0
  BY <1>1, PositionsTop DEF Loops
<1>3. Top.kind = "include" => Len(incStack) > 0
  BY <1>1, PositionsTop DEF Includes
<1>4. ASSUME NEW i \in DOMAIN stack, stack[i].kind = "include"
      PROVE  Pending(stack[i].key)
  <2>1. PICK at \in Positions(stack, Len(incStack), "include") : IncludesAt(at)
    BY DEF Includes
  <2>2. PICK k \in 1 .. Len(incStack) : at[k] = i
    BY <1>4, <2>1 DEF Positions
  <2>3. incStack[k] = stack[i].key
    BY <1>1, <2>1, <2>2 DEF IncludesAt
  <2>4. QED
    BY <1>1, <2>3 DEF Pending
<1>5. QED
  BY <1>2, <1>3, <1>4

\* Includes stay within their depth and apart.
LEMMA BoundedStep ==
    ASSUME TypeOK, Loops, Includes, IncludesBounded, StepKinds, stack # <<>>
    PROVE  IncludesBounded'
<1>1. /\ incStack \in Seq(Keys) /\ Len(incStack) \in Nat
      /\ DOMAIN incStack = 1 .. Len(incStack) /\ includeMaxDepth \in Nat
  BY ControlAssumption DEF TypeOK
<1>2. ASSUME KeepsIncludes PROVE IncludesBounded'
  BY <1>2 DEF KeepsIncludes, IncludesBounded
<1>3. ASSUME StepInclude PROVE IncludesBounded'
  <2>1. PICK k \in Keys : /\ ~Pending(k) /\ Len(incStack) < includeMaxDepth
                          /\ incStack' = <<k>> \o incStack
    BY <1>3 DEF StepInclude, EnterInclude
  <2>2. /\ Len(incStack') = Len(incStack) + 1
        /\ DOMAIN incStack' = 1 .. Len(incStack) + 1
        /\ \A i \in 1 .. Len(incStack) + 1 :
              incStack'[i] = IF i = 1 THEN k ELSE incStack[i - 1]
    BY <1>1, <2>1, PutFirst
  <2>3. \A i \in 1 .. Len(incStack) : incStack[i] # k
    BY <1>1, <2>1, Zenon DEF Pending
  <2>4. ASSUME NEW i \in 1 .. Len(incStack) + 1, NEW j \in 1 .. Len(incStack) + 1,
               incStack'[i] = incStack'[j]
        PROVE  i = j
    <3>1. CASE i = 1 /\ j # 1
      BY <1>1, <2>2, <2>3, <2>4, <3>1
    <3>2. CASE i # 1 /\ j = 1
      BY <1>1, <2>2, <2>3, <2>4, <3>2
    <3>3. CASE i # 1 /\ j # 1
      <4>1. /\ i - 1 \in 1 .. Len(incStack) /\ j - 1 \in 1 .. Len(incStack)
            /\ incStack[i - 1] = incStack[j - 1]
        BY <1>1, <2>2, <2>4, <3>3
      <4>2. i - 1 = j - 1
        BY <1>1, <4>1 DEF IncludesBounded
      <4>3. QED
        BY <4>2
    <3>4. QED
      BY <3>1, <3>2, <3>3
  <2>5. QED
    BY <1>1, <2>1, <2>2, <2>4 DEF IncludesBounded
<1>4. ASSUME StepLeaveInclude PROVE IncludesBounded'
  <2>1. incStack # <<>> /\ incStack' = Tail(incStack)
    BY <1>4, StacksFilled DEF StepLeaveInclude
  <2>2. /\ Len(incStack') = Len(incStack) - 1
        /\ DOMAIN incStack' = 1 .. Len(incStack) - 1
        /\ \A i \in 1 .. Len(incStack) - 1 : incStack'[i] = incStack[i + 1]
    BY <1>1, <2>1, Rest
  <2>3. ASSUME NEW i \in 1 .. Len(incStack) - 1, NEW j \in 1 .. Len(incStack) - 1,
               incStack'[i] = incStack'[j]
        PROVE  i = j
    <3>1. i + 1 \in 1 .. Len(incStack) /\ j + 1 \in 1 .. Len(incStack)
      BY <1>1
    <3>2. i + 1 = j + 1
      BY <1>1, <2>2, <2>3, <3>1 DEF IncludesBounded
    <3>3. QED
      BY <3>2
  <2>4. QED
    BY <1>1, <2>2, <2>3 DEF IncludesBounded
<1>5. QED
  BY <1>2, <1>3, <1>4 DEF StepKinds, StepAdvance, StepBlock, StepLoop, StepLeave,
                          StepNextPart, StepLeaveLoop

\* What include :once has run is remembered when the included script is left.
LEMMA RememberedStep ==
    ASSUME TypeOK, Loops, Includes, Remembered, StepKinds, stack # <<>>
    PROVE  Remembered'
<1>1. /\ Len(stack) \in Nat \ {0} /\ DOMAIN stack = 1 .. Len(stack) /\ Top = stack[1]
      /\ onceRuns \in [Keys -> {"never", "once", "again"}]
  BY TopFrame DEF TypeOK
<1>2. ASSUME NEW d \in Int, Keeps("include", d), KeepsIncludes PROVE Remembered'
  <2>1. onceRuns' = onceRuns /\ once \subseteq once'
    BY <1>2 DEF KeepsIncludes
  <2>2. ASSUME NEW k \in Keys, NEW i \in DOMAIN stack, stack[i].kind = "include",
               stack[i].viaOnce, stack[i].key = k
        PROVE  \E j \in DOMAIN stack' : /\ stack'[j].kind = "include"
                                        /\ stack'[j].viaOnce
                                        /\ stack'[j].key = k
    <3>1. i + d \in DOMAIN stack' /\ Agrees(stack'[i + d], stack[i])
      BY <1>1, <1>2, <2>2 DEF Keeps
    <3>2. QED
      BY <2>2, <3>1, Zenon DEF Agrees
  <2>3. QED
    BY <2>1, <2>2 DEF Remembered
<1>3. ASSUME StepInclude PROVE Remembered'
  <2>1. PICK f \in Frames, g \in Frames, k \in Keys, viaOnce \in BOOLEAN :
            /\ Pushed(f, g) /\ Agrees(g, Top)
            /\ f.kind = "include" /\ f.key = k /\ (f.viaOnce <=> viaOnce)
            /\ ~(viaOnce /\ k \in once) /\ ~Pending(k)
            /\ EnterInclude(k, viaOnce)
    BY <1>3 DEF StepInclude
  <2>2. /\ onceRuns' = IF viaOnce
                       THEN [onceRuns EXCEPT ![k] = IF @ = "never" THEN "once" ELSE "again"]
                       ELSE onceRuns
        /\ once' = once
    BY <2>1 DEF EnterInclude
  <2>3. /\ 1 \in DOMAIN stack' /\ stack'[1] = f
        /\ \A i \in DOMAIN stack : /\ i + 1 \in DOMAIN stack'
                                   /\ Agrees(stack'[i + 1], stack[i])
    <3>1. /\ DOMAIN stack' = 1 .. Len(stack) + 1
          /\ stack'[1] = f /\ stack'[2] = g
          /\ \A i \in 1 .. Len(stack) : i > 1 => stack'[i + 1] = stack[i]
      BY <1>1, <2>1 DEF Pushed
    <3>2. QED
      BY <1>1, <2>1, <3>1 DEF Agrees
  <2>4. viaOnce => onceRuns[k] = "never"
    <3>1. ASSUME viaOnce, onceRuns[k] # "never" PROVE FALSE
      <4>1. PICK i \in DOMAIN stack : stack[i].kind = "include" /\ stack[i].key = k
        BY <1>1, <2>1, <3>1 DEF Remembered
      <4>2. QED
        BY <2>1, <4>1, StacksFilled
    <3>2. QED
      BY <3>1
  <2>5. ASSUME NEW q \in Keys
        PROVE  /\ onceRuns'[q] # "again"
               /\ onceRuns'[q] = "once" =>
                    \/ q \in once
                    \/ \E i \in DOMAIN stack' : /\ stack'[i].kind = "include"
                                                /\ stack'[i].viaOnce
                                                /\ stack'[i].key = q
    <3>1. CASE viaOnce /\ q = k
      <4>1. onceRuns'[q] = "once"
        BY <1>1, <2>2, <2>4, <3>1
      <4>2. QED
        BY <2>1, <2>3, <3>1, <4>1
    <3>2. CASE ~(viaOnce /\ q = k)
      <4>1. onceRuns'[q] = onceRuns[q]
        BY <1>1, <2>2, <3>2
      <4>2. QED
        BY <2>3, <4>1 DEF Remembered, Agrees
    <3>3. QED
      BY <3>1, <3>2
  <2>6. QED
    BY <2>2, <2>5 DEF Remembered
<1>4. ASSUME StepLeaveInclude PROVE Remembered'
  <2>1. /\ Popped
        /\ once' = IF Top.viaOnce THEN once \cup {Top.key} ELSE once
        /\ onceRuns' = onceRuns
    BY <1>4 DEF StepLeaveInclude
  <2>2. /\ DOMAIN stack' = 1 .. Len(stack) - 1
        /\ \A i \in 1 .. Len(stack) - 1 : stack'[i] = stack[i + 1]
    BY <1>1, <2>1 DEF Popped
  <2>3. ASSUME NEW k \in Keys, NEW i \in DOMAIN stack, stack[i].kind = "include",
               stack[i].viaOnce, stack[i].key = k
        PROVE  \/ k \in once'
               \/ \E j \in DOMAIN stack' : /\ stack'[j].kind = "include"
                                           /\ stack'[j].viaOnce
                                           /\ stack'[j].key = k
    <3>1. CASE i = 1
      BY <1>1, <2>1, <2>3, <3>1
    <3>2. CASE i # 1
      <4>1. i - 1 \in 1 .. Len(stack) - 1 /\ (i - 1) + 1 = i
        BY <1>1, <3>2
      <4>2. QED
        BY <2>2, <2>3, <4>1
    <3>3. QED
      BY <3>1, <3>2
  <2>4. once \subseteq once'
    BY <2>1
  <2>5. QED
    BY <2>1, <2>3, <2>4 DEF Remembered
<1>5. ASSUME StepAdvance \/ StepNextPart PROVE Remembered'
  <2>1. Keeps("include", 0) /\ KeepsIncludes
    BY <1>5, ReplacedKeeps DEF StepAdvance, StepNextPart, Agrees
  <2>2. QED
    BY <1>2, <2>1
<1>6. ASSUME StepBlock \/ StepLoop PROVE Remembered'
  <2>1. Keeps("include", 1) /\ KeepsIncludes
    BY <1>6, PushedKeeps DEF StepBlock, StepLoop
  <2>2. QED
    BY <1>2, <2>1
<1>7. ASSUME StepLeave \/ StepLeaveLoop PROVE Remembered'
  <2>1. Keeps("include", -1) /\ KeepsIncludes
    BY <1>7, PoppedKeeps DEF StepLeave, StepLeaveLoop
  <2>2. QED
    BY <1>2, <2>1
<1>8. QED
  BY <1>3, <1>4, <1>5, <1>6, <1>7 DEF StepKinds

-----------------------------------------------------------------------------
(* Types.                                                                  *)

\* Signals and the result of the last test keep their types.
LEMMA FlagTypes ==
    ASSUME TypeOK, Next
    PROVE  /\ signal' \in Signals
           /\ ifResult' \in BOOLEAN
<1> USE DEF TypeOK, Signals, shared
<1>1. None \in Signals
  BY DEF None, Names
<1>2. \A k \in {"stop", "return", "error"} : Signal(k) \in Signals
  BY DEF Signal, Names
<1>3. \A n \in Names : [kind |-> "break", name |-> n] \in Signals
  OBVIOUS
<1>4. CASE Commands
  <2>1. signal' \in Signals
    BY <1>2, <1>3, <1>4, Zenon DEF Commands, Simple, Leave, Raise, CmdIf, CmdElsif, CmdElse,
        CmdForEveryPart, IncludeSkip, IncludeFails, CmdInclude, EnterInclude
  <2>2. ifResult' \in BOOLEAN
    BY <1>4, Zenon DEF Commands, Simple, Leave, CmdIf, CmdElsif, CmdElse,
        CmdForEveryPart, IncludeSkip, IncludeFails, CmdInclude, EnterInclude
  <2>3. QED
    BY <2>1, <2>2
<1>5. CASE Ends
  BY <1>5, Zenon DEF Ends, EndIf, EndElse, NextPart, EndLoop, EndInclude, EndScript, LeaveInclude
<1>6. CASE Unwind
  BY <1>1, <1>6 DEF Unwind, UnwindBlock, UnwindLoop, UnwindInclude, UnwindScript, LeaveInclude
<1>7. QED
  BY <1>4, <1>5, <1>6 DEF Next

\* The frames keep their types, and the outermost, and no other, is the script's.
LEMMA StackTypes ==
    ASSUME TypeOK, StepKinds, stack # <<>>
    PROVE  /\ stack' \in Seq(Frames)
           /\ \A i \in DOMAIN stack' : stack'[i].kind = "script" <=> i = Len(stack')
<1>1. /\ Len(stack) \in Nat \ {0} /\ DOMAIN stack = 1 .. Len(stack) /\ Top = stack[1]
  BY TopFrame DEF TypeOK
<1>s. \A i \in 1 .. Len(stack) : stack[i].kind = "script" <=> i = Len(stack)
  BY <1>1, Zenon DEF TypeOK
<1>2. ASSUME StepAdvance \/ StepNextPart
      PROVE  /\ stack' \in Seq(Frames)
             /\ \A i \in DOMAIN stack' : stack'[i].kind = "script" <=> i = Len(stack')
  <2>1. PICK g \in Frames : Replaced(g) /\ g.kind = Top.kind
    BY <1>2 DEF StepAdvance, StepNextPart, Agrees
  <2>2. /\ stack' \in Seq(Frames) /\ Len(stack') = Len(stack)
        /\ DOMAIN stack' = 1 .. Len(stack)
        /\ \A i \in 1 .. Len(stack) : stack'[i].kind = stack[i].kind
    BY <1>1, <2>1 DEF Replaced
  <2>3. QED
    BY <1>s, <2>2, Zenon
<1>3. ASSUME StepBlock \/ StepLoop \/ StepInclude
      PROVE  /\ stack' \in Seq(Frames)
             /\ \A i \in DOMAIN stack' : stack'[i].kind = "script" <=> i = Len(stack')
  <2>1. PICK f \in Frames, g \in Frames :
            Pushed(f, g) /\ g.kind = Top.kind /\ f.kind # "script"
    BY <1>3 DEF StepBlock, StepLoop, StepInclude, Agrees
  <2>2. /\ stack' \in Seq(Frames) /\ Len(stack') = Len(stack) + 1
        /\ DOMAIN stack' = 1 .. Len(stack) + 1
        /\ stack'[1] = f /\ stack'[2] = g
        /\ \A i \in 1 .. Len(stack) + 1 : i > 2 => stack'[i] = stack[i - 1]
    BY <1>1, <2>1 DEF Pushed
  <2>3. ASSUME NEW i \in 1 .. Len(stack) + 1
        PROVE  stack'[i].kind = "script" <=> i = Len(stack) + 1
    <3>1. CASE i = 1
      BY <1>1, <2>1, <2>2, <3>1
    <3>2. CASE i # 1
      <4>1. i - 1 \in 1 .. Len(stack) /\ stack'[i].kind = stack[i - 1].kind
        BY <1>1, <2>1, <2>2, <3>2
      <4>2. stack[i - 1].kind = "script" <=> i - 1 = Len(stack)
        BY <1>s, <4>1
      <4>3. i - 1 = Len(stack) <=> i = Len(stack) + 1
        BY <1>1
      <4>4. QED
        BY <4>1, <4>2, <4>3
    <3>3. QED
      BY <3>1, <3>2
  <2>4. QED
    BY <2>2, <2>3
<1>4. ASSUME Popped
      PROVE  /\ stack' \in Seq(Frames)
             /\ \A i \in DOMAIN stack' : stack'[i].kind = "script" <=> i = Len(stack')
  <2>1. /\ stack' \in Seq(Frames) /\ Len(stack') = Len(stack) - 1
        /\ DOMAIN stack' = 1 .. Len(stack) - 1
        /\ \A i \in 1 .. Len(stack) - 1 : stack'[i] = stack[i + 1]
    BY <1>1, <1>4 DEF Popped
  <2>2. ASSUME NEW i \in 1 .. Len(stack) - 1
        PROVE  stack'[i].kind = "script" <=> i = Len(stack) - 1
    <3>1. i + 1 \in 1 .. Len(stack) /\ (i + 1 = Len(stack) <=> i = Len(stack) - 1)
      BY <1>1
    <3>2. QED
      BY <1>s, <2>1, <3>1
  <2>3. QED
    BY <2>1, <2>2
<1>5. QED
  BY <1>2, <1>3, <1>4 DEF StepKinds, StepLeave, StepLeaveLoop, StepLeaveInclude

\* The part stack keeps its type.
LEMMA PartTypes ==
    ASSUME TypeOK, Loops, Includes, StepKinds, stack # <<>>
    PROVE  partStack' \in Seq(Parts)
<1>1. partStack \in Seq(Parts) /\ Top \in Frames
  BY TopFrame DEF TypeOK
<1>2. ASSUME KeepsParts PROVE partStack' \in Seq(Parts)
  BY <1>1, <1>2 DEF KeepsParts
<1>3. ASSUME StepLoop PROVE partStack' \in Seq(Parts)
  <2>1. LoopSet # <<>> /\ partStack' = <<Head(LoopSet)>> \o partStack
    BY <1>3 DEF StepLoop
  <2>2. Head(LoopSet) \in Parts
    BY <2>1, LoopSetType, Rest
  <2>3. QED
    BY <1>1, <2>1, <2>2, PutFirst
<1>4. ASSUME StepNextPart PROVE partStack' \in Seq(Parts)
  <2>1. /\ Top.kind = "loop" /\ Top.todo # <<>>
        /\ partStack' = <<Head(Top.todo)>> \o Tail(partStack)
    BY <1>4 DEF StepNextPart
  <2>2. partStack # <<>>
    BY <2>1, StacksFilled
  <2>3. Top.todo \in Seq(Parts)
    BY <1>1 DEF Frames
  <2>4. Head(Top.todo) \in Parts
    BY <2>1, <2>3, Rest
  <2>5. QED
    BY <1>1, <2>1, <2>2, <2>4, ReplaceFirst
<1>5. ASSUME StepLeaveLoop PROVE partStack' \in Seq(Parts)
  <2>1. partStack # <<>> /\ partStack' = Tail(partStack)
    BY <1>5, StacksFilled DEF StepLeaveLoop
  <2>2. QED
    BY <1>1, <2>1, Rest
<1>6. QED
  BY <1>2, <1>3, <1>4, <1>5
  DEF StepKinds, StepAdvance, StepBlock, StepInclude, StepLeave, StepLeaveInclude

\* What belongs to included scripts keeps its type.
LEMMA IncludeTypes ==
    ASSUME TypeOK, Loops, Includes, StepKinds, stack # <<>>
    PROVE  /\ incStack' \in Seq(Keys)
           /\ scope' \in Keys \cup {Main}
           /\ onceRuns' \in [Keys -> {"never", "once", "again"}]
<1>1. /\ incStack \in Seq(Keys) /\ Top \in Frames
      /\ scope \in Keys \cup {Main}
      /\ onceRuns \in [Keys -> {"never", "once", "again"}]
  BY TopFrame DEF TypeOK
<1>2. ASSUME KeepsIncludes
      PROVE  /\ incStack' \in Seq(Keys)
             /\ scope' \in Keys \cup {Main}
             /\ onceRuns' \in [Keys -> {"never", "once", "again"}]
  BY <1>1, <1>2 DEF KeepsIncludes
<1>3. ASSUME StepInclude
      PROVE  /\ incStack' \in Seq(Keys)
             /\ scope' \in Keys \cup {Main}
             /\ onceRuns' \in [Keys -> {"never", "once", "again"}]
  <2>1. PICK k \in Keys, viaOnce \in BOOLEAN : EnterInclude(k, viaOnce)
    BY <1>3 DEF StepInclude
  <2>2. incStack' = <<k>> \o incStack /\ scope' = k
    BY <2>1 DEF EnterInclude
  <2>3. onceRuns' \in [Keys -> {"never", "once", "again"}]
    BY <1>1, <2>1 DEF EnterInclude
  <2>4. QED
    BY <1>1, <2>2, <2>3, PutFirst
<1>4. ASSUME StepLeaveInclude
      PROVE  /\ incStack' \in Seq(Keys)
             /\ scope' \in Keys \cup {Main}
             /\ onceRuns' \in [Keys -> {"never", "once", "again"}]
  <2>1. /\ incStack # <<>> /\ incStack' = Tail(incStack)
        /\ scope' = Top.saved /\ onceRuns' = onceRuns
    BY <1>4, StacksFilled DEF StepLeaveInclude
  <2>2. incStack' \in Seq(Keys)
    BY <1>1, <2>1, Rest
  <2>3. Top.saved \in Keys \cup {Main}
    BY <1>1 DEF Frames
  <2>4. QED
    BY <1>1, <2>1, <2>2, <2>3
<1>5. QED
  BY <1>2, <1>3, <1>4 DEF StepKinds, StepAdvance, StepBlock, StepLoop, StepLeave,
                          StepNextPart, StepLeaveLoop

\* Only keys are remembered.
LEMMA OnceTypes ==
    ASSUME TypeOK, Loops, Includes, Next
    PROVE  once' \subseteq Keys
<1>1. once \subseteq Keys /\ incStack \in Seq(Keys)
  BY DEF TypeOK
<1>2. ASSUME stack # <<>>, Top.kind = "include" PROVE Top.key \in Keys
  <2>1. Pending(Top.key)
    BY <1>2, StacksFilled, TopFrame
  <2>2. QED
    BY <1>1, <2>1 DEF Pending
<1>3. ASSUME EndInclude \/ UnwindInclude PROVE once' \subseteq Keys
  BY <1>1, <1>2, <1>3
  DEF EndInclude, UnwindInclude, LeaveInclude, Ending, Unwinding
<1>4. CASE Commands
  BY <1>1, <1>4, Zenon DEF Commands, Simple, Leave, CmdIf, CmdElsif, CmdElse,
      CmdForEveryPart, IncludeSkip, IncludeFails, CmdInclude, EnterInclude, shared
<1>5. CASE Ends
  BY <1>1, <1>3, <1>5 DEF Ends, EndIf, EndElse, NextPart, EndLoop, EndScript, shared
<1>6. CASE Unwind
  BY <1>1, <1>3, <1>6 DEF Unwind, UnwindBlock, UnwindLoop, UnwindScript, shared
<1>7. QED
  BY <1>4, <1>5, <1>6 DEF Next

-----------------------------------------------------------------------------
(* The theorems.                                                           *)

\* The invariant holds where a script begins.
LEMMA InitIInv == Init => IInv
<1> SUFFICES ASSUME Init PROVE IInv
  OBVIOUS
<1> DEFINE f == Frame("script")
<1>1. f \in Frames /\ f.kind = "script" /\ f.chain = FALSE
  BY ControlAssumption DEF Frame, Frames, Names
<1> HIDE DEF f
<1>2. /\ stack = <<f>> /\ signal = None /\ ifResult = FALSE
      /\ partStack = <<>> /\ incStack = <<>> /\ once = {} /\ scope = Main
      /\ onceRuns = [k \in Keys |-> "never"]
  BY DEF Init, f
<1>3. /\ stack \in Seq(Frames) /\ Len(stack) = 1 /\ DOMAIN stack = 1 .. 1
      /\ stack[1] = f /\ Top = f
  BY <1>1, <1>2 DEF Top
<1>4. None \in Signals
  BY DEF None, Signals, Names
<1>5. TypeOK
  <2>1. \A i \in DOMAIN stack : stack[i].kind = "script" <=> i = Len(stack)
    BY <1>1, <1>3
  <2>2. /\ partStack \in Seq(Parts) /\ incStack \in Seq(Keys)
        /\ once \subseteq Keys /\ scope \in Keys \cup {Main}
    BY <1>2
  <2>3. onceRuns \in [Keys -> {"never", "once", "again"}]
    BY <1>2
  <2>4. QED
    BY <1>2, <1>3, <1>4, <2>1, <2>2, <2>3, Zenon DEF TypeOK, Signals
<1>6. Chains
  BY <1>1, <1>3 DEF Chains, ChainDecides
<1>7. \A kind \in {"loop", "include"} : \E at : at \in Positions(stack, 0, kind)
  <2> SUFFICES ASSUME NEW kind \in {"loop", "include"}
               PROVE  [k \in 1 .. 0 |-> 1] \in Positions(stack, 0, kind)
    OBVIOUS
  <2>1. [k \in 1 .. 0 |-> 1] \in [1 .. 0 -> DOMAIN stack]
    BY <1>3
  <2>2. \A i \in DOMAIN stack : stack[i].kind # kind
    BY <1>1, <1>3
  <2>3. QED
    BY <2>1, <2>2 DEF Positions
<1>8. Loops
  BY <1>2, <1>7 DEF Loops, LoopsAt
<1>9. Includes
  BY <1>2, <1>7 DEF Includes, IncludesAt
<1>10. IncludesBounded
  BY <1>2, ControlAssumption DEF IncludesBounded
<1>11. Remembered
  BY <1>2 DEF Remembered
<1>12. QED
  BY <1>5, <1>6, <1>8, <1>9, <1>10, <1>11 DEF IInv

\* Every step keeps the invariant.
LEMMA NextIInv == IInv /\ [Next]_vars => IInv'
<1> SUFFICES ASSUME IInv, [Next]_vars PROVE IInv'
  OBVIOUS
<1>1. CASE Next
  <2>1. TypeOK /\ Chains /\ Loops /\ Includes /\ IncludesBounded /\ Remembered
    BY DEF IInv
  <2>2. stack # <<>>
    BY <1>1, Zenon DEF Next, Commands, Ends, Unwind, Simple, Leave, CmdIf, CmdElsif, CmdElse,
        CmdForEveryPart, IncludeSkip, IncludeFails, CmdInclude, Running,
        EndIf, EndElse, NextPart, EndLoop, EndInclude, EndScript, Ending,
        UnwindBlock, UnwindLoop, UnwindInclude, UnwindScript, Unwinding
  <2>3. StepKinds
    BY <1>1, <2>1, Shapes
  <2>4. TypeOK'
    <3>1. /\ stack' \in Seq(Frames)
          /\ \A i \in DOMAIN stack' : stack'[i].kind = "script" <=> i = Len(stack')
      BY <2>1, <2>2, <2>3, StackTypes
    <3>2. partStack' \in Seq(Parts)
      BY <2>1, <2>2, <2>3, PartTypes
    <3>3. /\ incStack' \in Seq(Keys)
          /\ scope' \in Keys \cup {Main}
          /\ onceRuns' \in [Keys -> {"never", "once", "again"}]
      BY <2>1, <2>2, <2>3, IncludeTypes
    <3>4. /\ signal' \in Signals /\ ifResult' \in BOOLEAN
          /\ once' \subseteq Keys
      BY <1>1, <2>1, FlagTypes, OnceTypes
    <3>5. QED
      BY <3>1, <3>2, <3>3, <3>4 DEF TypeOK, Signals
  <2>5. Chains' /\ Loops' /\ Includes'
    BY <2>1, <2>2, <2>3, ChainsStep, LoopsStep, IncludesStep
  <2>6. IncludesBounded' /\ Remembered'
    BY <2>1, <2>2, <2>3, BoundedStep, RememberedStep
  <2>7. QED
    BY <2>4, <2>5, <2>6 DEF IInv
<1>2. CASE UNCHANGED vars
  <2>1. /\ stack' = stack /\ signal' = signal /\ ifResult' = ifResult
        /\ partStack' = partStack /\ incStack' = incStack /\ once' = once
        /\ scope' = scope /\ onceRuns' = onceRuns
    BY <1>2 DEF vars, shared
  <2>2. TypeOK' /\ Chains' /\ IncludesBounded' /\ Remembered'
    BY <2>1 DEF IInv, TypeOK, Chains, ChainDecides, Top, IncludesBounded, Remembered
  <2>3. Loops'
    <3>1. PICK at \in Positions(stack, Len(partStack), "loop") : LoopsAt(at)
      BY DEF IInv, Loops
    <3>2. at \in Positions(stack', Len(partStack'), "loop")
      BY <2>1
    <3>3. LoopsAt(at)'
      BY <2>1, <3>1, Zenon DEF LoopsAt
    <3>4. QED
      BY <3>2, <3>3 DEF Loops
  <2>4. Includes'
    BY <2>1 DEF IInv, Includes, IncludesAt
  <2>5. QED
    BY <2>2, <2>3, <2>4 DEF IInv
<1>3. QED
  BY <1>1, <1>2

\* The inductive invariant holds throughout every run of a script.
THEOREM Invariance == Spec => []IInv
  BY InitIInv, NextIInv, PTL DEF Spec

\* The interpreter's state keeps its types, and Script.Execute has the outermost
\* frame, and no other.
THEOREM TypeCorrect == Spec => []TypeOK
  BY Invariance, PTL DEF IInv

\* An elsif or else is decided by its own chain, whatever blocks, loops and
\* included scripts were run in between.
THEOREM ElseOfItsChain == Spec => []ChainDecides
  BY Invariance, PTL DEF IInv, Chains

\* The part stack holds the parts of exactly the loops that are running.
THEOREM PartsOfLoops == Spec => []PartStackMatchesLoops
<1>1. IInv => PartStackMatchesLoops
  BY DEF IInv, Loops, LoopsAt, PartStackMatchesLoops
<1>2. QED
  BY <1>1, Invariance, PTL

\* A nested loop goes through descendants of the enclosing loop's part.
THEOREM LoopsNest == Spec => []NestedParts
<1>1. ASSUME IInv PROVE NestedParts
  <2>1. Len(partStack) \in Nat /\ DOMAIN partStack = 1 .. Len(partStack)
    BY <1>1 DEF IInv, TypeOK
  <2>2. PICK at : LoopsAt(at)
    BY <1>1 DEF IInv, Loops
  <2>3. ASSUME NEW i \in 1 .. Len(partStack) - 1
        PROVE  Below(partStack[i], partStack[i + 1])
    <3>1. i \in DOMAIN partStack /\ i < Len(partStack)
      BY <2>1
    <3>2. QED
      BY <2>2, <3>1 DEF LoopsAt
  <2>4. QED
    BY <2>3, Zenon DEF Below, NestedParts
<1>2. QED
  BY <1>1, Invariance, PTL

\* Includes are never nested deeper than includeMaxDepth, and no script is
\* included while it runs.
THEOREM IncludeDepth == Spec => []IncludesBounded
  BY Invariance, PTL DEF IInv

\* The scope is that of the innermost script, whatever left the scripts it
\* included.
THEOREM Scopes == Spec => []ScopeIsInnermost
<1>1. IInv => ScopeIsInnermost
  BY DEF IInv, Includes, IncludesAt, ScopeIsInnermost
<1>2. QED
  BY <1>1, Invariance, PTL

\* include :once runs no script twice.
THEOREM OnceOnly == Spec => []OnceRunsOnce
<1>1. IInv => OnceRunsOnce
  BY DEF IInv, Remembered, OnceRunsOnce
<1>2. QED
  BY <1>1, Invariance, PTL
=============================================================================

----------------------------- MODULE ControlFlow -----------------------------
(***************************************************************************)
(* The control structure of a running script: if/elsif/else                *)
(* (interp/control.go), foreverypart and break (interp/mime.go), include   *)
(* and return (interp/include.go), and the two ways a script's commands    *)
(* are run, Script.Execute and executeIncluded (interp/script.go).         *)
(*                                                                         *)
(* Go's call stack is the variable stack, innermost frame first. What the  *)
(* frames share is in RuntimeData: one ifResult for all chains, the stack  *)
(* of current MIME parts, the stack of included scripts. stop, return,     *)
(* break and errors travel up as the Go error signal, one frame a step.    *)
(*                                                                         *)
(* The program is chosen as it runs. The loader does not tie elsif and     *)
(* else to an if, nor break to a loop, so they may stand anywhere.         *)
(***************************************************************************)
EXTENDS Naturals, Sequences

CONSTANTS
    Parts, Root,       \* the message's MIME parts and its top-level part
    Children,          \* mimePart.children
    IsMultipart,       \* of the top-level part
    Scripts,           \* keys (location and name) the ScriptLoader can load
    Missing,           \* keys it does not find
    Broken,            \* keys whose text does not parse or load
    Main,              \* the top-level script
    LoopNames, NoName, \* values of :name on foreverypart and break
    includeMaxDepth,   \* 4 in the code
    Budget,            \* bound of the model: commands run in one block
    MaxFrames          \* bound of the model: nesting of blocks and includes

Keys == Scripts \cup Missing \cup Broken
Names == LoopNames \cup {NoName}

ASSUME ControlAssumption ==
    /\ Root \in Parts
    /\ Children \in [Parts -> Seq(Parts)]
    /\ IsMultipart \in BOOLEAN
    /\ Main \notin Keys
    /\ includeMaxDepth \in Nat
    /\ Budget \in Nat /\ MaxFrames \in Nat

VARIABLES
    stack,      \* the blocks being run, innermost first
    signal,     \* the Go error on its way up, or none
    ifResult,   \* RuntimeData.ifResult
    partStack,  \* RuntimeData.partStack, innermost first
    incStack,   \* IncludeState.stack, innermost first
    once,       \* IncludeState.once
    scope,      \* RuntimeData.Script, Variables, globalVarDecls, MatchVariables
    onceRuns    \* history: keys run by include :once, and those run twice so

shared == <<ifResult, partStack, incStack, once, scope, onceRuns>>
vars == <<stack, signal, shared>>

None == [kind |-> "none", name |-> NoName]
Signal(k) == [kind |-> k, name |-> NoName]

\* mimePart.descendants: each child, followed by its own descendants.
Descendants[p \in Parts] ==
    LET from[i \in 1 .. Len(Children[p]) + 1] ==
            IF i > Len(Children[p]) THEN <<>>
            ELSE <<Children[p][i]>> \o Descendants[Children[p][i]] \o from[i + 1]
    IN  from[1]

\* The message's parts form a finite tree, so that each has its descendants.
ASSUME TreeAssumption == Descendants \in [Parts -> Seq(Parts)]

-----------------------------------------------------------------------------
(* Frames. chain and taken are history: chain says that the block's last   *)
(* command was an if, or an elsif of its chain, and taken that a block of  *)
(* that chain was run.                                                     *)

Frame(k) ==
    [kind |-> k, key |-> Main, viaOnce |-> FALSE, saved |-> Main,
     name |-> NoName, part |-> Root, todo |-> <<>>,
     left |-> Budget, chain |-> FALSE, taken |-> FALSE]

Top == Head(stack)

\* The top block's next command is run; ch and tk are its chain afterwards.
Command(ch, tk) ==
    [Top EXCEPT !.left = @ - 1, !.chain = ch, !.taken = tk]

Running ==
    /\ stack # <<>>
    /\ signal = None
    /\ Top.left > 0

Advance(ch, tk) == stack' = <<Command(ch, tk)>> \o Tail(stack)

Push(f, ch, tk) ==
    /\ Len(stack) < MaxFrames
    /\ stack' = <<f, Command(ch, tk)>> \o Tail(stack)

Raise(s) ==
    /\ signal' = s
    /\ Advance(FALSE, FALSE)

-----------------------------------------------------------------------------
(* Commands.                                                               *)

\* Any command without control flow: an action, a test that is no branch.
Simple ==
    /\ Running
    /\ Advance(FALSE, FALSE)
    /\ UNCHANGED <<signal, shared>>

\* CmdStop, CmdReturn, CmdBreak, or a command or test that fails.
Leave ==
    /\ Running
    /\ \/ \E k \in {"stop", "return", "error"} : Raise(Signal(k))
       \/ \E n \in Names : Raise([kind |-> "break", name |-> n])
    /\ UNCHANGED shared

\* CmdIf.Execute up to its block. ifResult is set after the block was run.
CmdIf(res) ==
    /\ Running
    /\ \/ /\ res
          /\ Push(Frame("if"), TRUE, TRUE)
          /\ UNCHANGED ifResult
       \/ /\ ~res
          /\ Advance(TRUE, FALSE)
          /\ ifResult' = FALSE
    /\ UNCHANGED <<signal, partStack, incStack, once, scope, onceRuns>>

\* CmdElsif.Execute: skipped when ifResult, otherwise like CmdIf.
CmdElsif(res) ==
    /\ Running
    /\ \/ /\ ifResult
          /\ Advance(Top.chain, Top.taken)
          /\ UNCHANGED ifResult
       \/ /\ ~ifResult /\ res
          /\ Push(Frame("if"), Top.chain, TRUE)
          /\ UNCHANGED ifResult
       \/ /\ ~ifResult /\ ~res
          /\ Advance(Top.chain, Top.taken)
          /\ ifResult' = FALSE
    /\ UNCHANGED <<signal, partStack, incStack, once, scope, onceRuns>>

\* CmdElse.Execute.
CmdElse ==
    /\ Running
    /\ \/ ifResult /\ Advance(FALSE, FALSE)
       \/ ~ifResult /\ Push(Frame("else"), FALSE, FALSE)
    /\ UNCHANGED <<signal, shared>>

\* Mutant: a nested loop goes through the whole message.
LoopSetOfMessage == IF IsMultipart THEN Descendants[Root] ELSE <<Root>>

\* The parts a foreverypart goes through.
LoopSet ==
    IF partStack # <<>> THEN Descendants[Head(partStack)]
    ELSE IF IsMultipart THEN Descendants[Root] ELSE <<Root>>

\* CmdForEveryPart.Execute up to the first iteration's block.
CmdForEveryPart(n) ==
    /\ Running
    /\ \/ /\ LoopSet = <<>>
          /\ Advance(FALSE, FALSE)
          /\ UNCHANGED partStack
       \/ /\ LoopSet # <<>>
          /\ Push([Frame("loop") EXCEPT !.name = n, !.part = Head(LoopSet),
                                        !.todo = Tail(LoopSet)], FALSE, FALSE)
          /\ partStack' = <<Head(LoopSet)>> \o partStack
    /\ UNCHANGED <<signal, ifResult, incStack, once, scope, onceRuns>>

Pending(k) == \E i \in DOMAIN incStack : incStack[i] = k

\* CmdInclude.Execute where it runs nothing and returns nil: already included
\* by :once, :once on a script that is running, or :optional and not found.
IncludeSkip(k, viaOnce, optional) ==
    /\ Running
    /\ \/ viaOnce /\ (k \in once \/ Pending(k))
       \/ /\ ~Pending(k)
          /\ Len(incStack) < includeMaxDepth
          /\ optional /\ k \in Missing
    /\ once' = IF viaOnce /\ Pending(k) THEN once \cup {k} ELSE once
    /\ Advance(FALSE, FALSE)
    /\ UNCHANGED <<signal, ifResult, partStack, incStack, scope, onceRuns>>

\* CmdInclude.Execute where it fails: recursion, depth, a script that is not
\* found or cannot be loaded.
IncludeFails(k, viaOnce, optional) ==
    /\ Running
    /\ ~(viaOnce /\ (k \in once \/ Pending(k)))
    /\ \/ Pending(k)
       \/ Len(incStack) >= includeMaxDepth
       \/ k \in Missing /\ ~optional
       \/ k \in Broken
    /\ Raise(Signal("error"))
    /\ UNCHANGED shared

\* The frame of an included script, with what CmdInclude.Execute saves.
IncludeFrame(k, viaOnce) ==
    [Frame("include") EXCEPT !.key = k, !.viaOnce = viaOnce, !.saved = scope]

\* The push of CmdInclude.Execute, and the history of :once.
EnterInclude(k, viaOnce) ==
    /\ Push(IncludeFrame(k, viaOnce), FALSE, FALSE)
    /\ incStack' = <<k>> \o incStack
    /\ scope' = k
    /\ onceRuns' = IF viaOnce
                   THEN [onceRuns EXCEPT ![k] = IF @ = "never" THEN "once" ELSE "again"]
                   ELSE onceRuns
    /\ UNCHANGED <<signal, ifResult, partStack, once>>

\* Mutant: the depth is checked one too late.
IncludeDeeper(k, viaOnce) ==
    /\ Running
    /\ ~(viaOnce /\ k \in once)
    /\ ~Pending(k)
    /\ Len(incStack) <= includeMaxDepth
    /\ k \in Scripts
    /\ EnterInclude(k, viaOnce)

\* CmdInclude.Execute up to the included script's first command.
CmdInclude(k, viaOnce) ==
    /\ Running
    /\ ~(viaOnce /\ k \in once)
    /\ ~Pending(k)
    /\ Len(incStack) < includeMaxDepth
    /\ k \in Scripts
    /\ EnterInclude(k, viaOnce)

-----------------------------------------------------------------------------
(* Ends of blocks. A block's text may end after any command.               *)

Ending(kind) ==
    /\ stack # <<>>
    /\ signal = None
    /\ Top.kind = kind

\* Mutant: ifResult stays as the block's own commands left it.
EndIfUnset ==
    /\ Ending("if")
    /\ stack' = Tail(stack)
    /\ UNCHANGED <<signal, shared>>

\* The end of the block of CmdIf or CmdElsif, whose test was true.
EndIf ==
    /\ Ending("if")
    /\ stack' = Tail(stack)
    /\ ifResult' = TRUE
    /\ UNCHANGED <<signal, partStack, incStack, once, scope, onceRuns>>

EndElse ==
    /\ Ending("else")
    /\ stack' = Tail(stack)
    /\ UNCHANGED <<signal, shared>>

\* Mutant: the loop does not get on to the next part.
NextPartStuck ==
    /\ Ending("loop")
    /\ Top.todo # <<>>
    /\ stack' = <<[Top EXCEPT !.left = Budget, !.chain = FALSE, !.taken = FALSE]>> \o Tail(stack)
    /\ UNCHANGED <<signal, shared>>

\* The end of an iteration that is not the last.
NextPart ==
    /\ Ending("loop")
    /\ Top.todo # <<>>
    /\ stack' = <<[Top EXCEPT !.part = Head(Top.todo), !.todo = Tail(Top.todo),
                              !.left = Budget, !.chain = FALSE, !.taken = FALSE]>>
                \o Tail(stack)
    /\ partStack' = <<Head(Top.todo)>> \o Tail(partStack)
    /\ UNCHANGED <<signal, ifResult, incStack, once, scope, onceRuns>>

EndLoop ==
    /\ Ending("loop")
    /\ Top.todo = <<>>
    /\ stack' = Tail(stack)
    /\ partStack' = Tail(partStack)
    /\ UNCHANGED <<signal, ifResult, incStack, once, scope, onceRuns>>

\* Mutant: :once is forgotten.
LeaveIncludeForgets ==
    /\ stack' = Tail(stack)
    /\ incStack' = Tail(incStack)
    /\ scope' = Top.saved
    /\ UNCHANGED <<once, ifResult, partStack, onceRuns>>

\* The rest of CmdInclude.Execute, whatever the included script returned.
LeaveInclude ==
    /\ stack' = Tail(stack)
    /\ incStack' = Tail(incStack)
    /\ once' = IF Top.viaOnce THEN once \cup {Top.key} ELSE once
    /\ scope' = Top.saved
    /\ UNCHANGED <<ifResult, partStack, onceRuns>>

EndInclude ==
    /\ Ending("include")
    /\ LeaveInclude
    /\ UNCHANGED signal

EndScript ==
    /\ Ending("script")
    /\ stack' = Tail(stack)
    /\ UNCHANGED <<signal, shared>>

-----------------------------------------------------------------------------
(* A signal on its way up.                                                 *)

Unwinding(kind) ==
    /\ stack # <<>>
    /\ signal # None
    /\ Top.kind = kind

\* The block of an if, elsif or else is left; ifResult is not set.
UnwindBlock ==
    /\ Unwinding("if") \/ Unwinding("else")
    /\ stack' = Tail(stack)
    /\ UNCHANGED <<signal, shared>>

CaughtByLoop ==
    /\ signal.kind = "break"
    /\ signal.name \in {NoName, Top.name}

\* Mutant: a break returns before the part is taken off the stack.
UnwindLoopKeepsPart ==
    /\ Unwinding("loop")
    /\ stack' = Tail(stack)
    /\ partStack' = IF CaughtByLoop THEN partStack ELSE Tail(partStack)
    /\ signal' = IF CaughtByLoop THEN None ELSE signal
    /\ UNCHANGED <<ifResult, incStack, once, scope, onceRuns>>

\* CmdForEveryPart catches its breaks.
UnwindLoop ==
    /\ Unwinding("loop")
    /\ stack' = Tail(stack)
    /\ partStack' = Tail(partStack)
    /\ signal' = IF CaughtByLoop THEN None ELSE signal
    /\ UNCHANGED <<ifResult, incStack, once, scope, onceRuns>>

\* Mutant: an included script that is left by a signal keeps its scope.
UnwindIncludeKeepsScope ==
    /\ Unwinding("include")
    /\ stack' = Tail(stack)
    /\ incStack' = Tail(incStack)
    /\ once' = IF Top.viaOnce THEN once \cup {Top.key} ELSE once
    /\ signal' = IF signal.kind = "return" THEN None ELSE signal
    /\ UNCHANGED <<scope, ifResult, partStack, onceRuns>>

\* executeIncluded catches return; CmdInclude then restores in any case.
UnwindInclude ==
    /\ Unwinding("include")
    /\ LeaveInclude
    /\ signal' = IF signal.kind = "return" THEN None ELSE signal

\* Script.Execute returns nil for stop and return and the error otherwise.
UnwindScript ==
    /\ Unwinding("script")
    /\ stack' = Tail(stack)
    /\ signal' = IF signal.kind \in {"stop", "return"} THEN None ELSE signal
    /\ UNCHANGED shared

-----------------------------------------------------------------------------
Init ==
    /\ stack = <<Frame("script")>>
    /\ signal = None
    /\ ifResult = FALSE
    /\ partStack = <<>>
    /\ incStack = <<>>
    /\ once = {}
    /\ scope = Main
    /\ onceRuns = [k \in Keys |-> "never"]

Commands ==
    \/ Simple
    \/ Leave
    \/ \E res \in BOOLEAN : CmdIf(res) \/ CmdElsif(res)
    \/ CmdElse
    \/ \E n \in Names : CmdForEveryPart(n)
    \/ \E k \in Keys, viaOnce \in BOOLEAN :
          \/ \E optional \in BOOLEAN :
                IncludeSkip(k, viaOnce, optional) \/ IncludeFails(k, viaOnce, optional)
          \/ CmdInclude(k, viaOnce)

Ends == EndIf \/ EndElse \/ NextPart \/ EndLoop \/ EndInclude \/ EndScript

Unwind == UnwindBlock \/ UnwindLoop \/ UnwindInclude \/ UnwindScript

Next == Commands \/ Ends \/ Unwind

Spec == Init /\ [][Next]_vars

\* The interpreter is one goroutine that runs until the script is left.
FairSpec == Spec /\ WF_vars(Next)

-----------------------------------------------------------------------------
Frames ==
    [kind : {"script", "if", "else", "loop", "include"},
     key : Keys \cup {Main}, viaOnce : BOOLEAN, saved : Keys \cup {Main},
     name : Names, part : Parts, todo : Seq(Parts),
     left : Nat, chain : BOOLEAN, taken : BOOLEAN]

\* The variables keep their types, and the outermost frame, and no other, is
\* that of Script.Execute.
TypeOK ==
    /\ stack \in Seq(Frames)
    /\ \A i \in DOMAIN stack : stack[i].kind = "script" <=> i = Len(stack)
    /\ signal \in [kind : {"none", "stop", "return", "error", "break"}, name : Names]
    /\ ifResult \in BOOLEAN
    /\ partStack \in Seq(Parts)
    /\ incStack \in Seq(Keys)
    /\ once \subseteq Keys
    /\ scope \in Keys \cup {Main}
    /\ onceRuns \in [Keys -> {"never", "once", "again"}]

\* An elsif or else is decided by its own chain: when the running block's last
\* command was an if or an elsif of its chain, the one ifResult that all blocks
\* and included scripts share says whether a block of that chain was run,
\* whatever ifs were run inside those blocks.
ChainDecides ==
    stack # <<>> /\ signal = None /\ Top.chain => ifResult = Top.taken

\* The frames of a kind, innermost first, as increasing positions in stack.
Positions(s, n, kind) ==
    {at \in [1 .. n -> DOMAIN s] :
        /\ \A j, k \in 1 .. n : j < k => at[j] < at[k]
        /\ \A i \in DOMAIN s : s[i].kind = kind <=> \E k \in 1 .. n : at[k] = i}

\* The part stack holds the current parts of exactly the loops being run,
\* however loops were left, also across included scripts.
PartStackMatchesLoops ==
    \E at \in Positions(stack, Len(partStack), "loop") :
        \A k \in DOMAIN partStack : partStack[k] = stack[at[k]].part

\* A nested foreverypart goes through descendants of the enclosing loop's
\* current part, also where an included script holds the inner loop.
NestedParts ==
    \A i \in 1 .. Len(partStack) - 1 :
        \E j \in DOMAIN Descendants[partStack[i + 1]] :
            Descendants[partStack[i + 1]][j] = partStack[i]

\* No script is included while it runs, and includes are never nested deeper
\* than includeMaxDepth.
IncludesBounded ==
    /\ Len(incStack) <= includeMaxDepth
    /\ \A i, j \in DOMAIN incStack : incStack[i] = incStack[j] => i = j

\* The script, its variables and its match variables in RuntimeData are those
\* of the innermost script being run, after every return, stop, break and error
\* that left included scripts.
ScopeIsInnermost ==
    \E at \in Positions(stack, Len(incStack), "include") :
        /\ \A k \in DOMAIN incStack : incStack[k] = stack[at[k]].key
        /\ scope = IF incStack = <<>> THEN Main ELSE Head(incStack)

\* include :once runs a script at most once among the includes with :once, also
\* when the script includes itself through another one.
OnceRunsOnce == \A k \in Keys : onceRuns[k] # "again"

\* Every script ends.
Terminates == <>(stack = <<>>)
=============================================================================

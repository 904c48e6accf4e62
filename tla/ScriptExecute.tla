---------------------------- MODULE ScriptExecute ----------------------------
(***************************************************************************)
(* One run of Script.Execute (interp/script.go) over a RuntimeData         *)
(* (interp/runtime.go): the log of applied actions, the limit on it, the   *)
(* implicit keep, and the bookkeeping each action command keeps beside the *)
(* log.                                                                    *)
(*                                                                         *)
(* The script is not fixed: at every step of a running execution any       *)
(* command may come next, which covers every script, whatever its tests,   *)
(* blocks and includes decide (those are the subject of ControlFlow).      *)
(* Addresses, reasons, flags and message texts are left out; a command's   *)
(* target is the mailbox or program it names after variable expansion.     *)
(***************************************************************************)
EXTENDS Naturals, Sequences

CONSTANTS
    Mailboxes,   \* names fileinto may resolve to
    Programs,    \* valid program names pipe may name
    MaxActions,  \* Options.MaxActions; 0 means unlimited
    LogBound     \* bound of the model: commands run while the log is shorter

ASSUME MaxActionsAssumption == MaxActions \in Nat
ASSUME LogBoundAssumption == LogBound \in Nat

VARIABLES
    status,          \* running, ended, stopped (stop or return), failed
    appliedActions,  \* RuntimeData.AppliedActions
    implicitKeep,    \* RuntimeData.ImplicitKeep
    keep,            \* RuntimeData.Keep
    mailboxes,       \* RuntimeData.Mailboxes, searched as a set
    redirectAddr,    \* length of RuntimeData.RedirectAddr
    pipedPrograms,   \* RuntimeData.PipedPrograms
    filtered         \* RuntimeData.FilteredMessage is set

vars == <<status, appliedActions, implicitKeep, keep, mailboxes,
          redirectAddr, pipedPrograms, filtered>>

\* What the script says beside the log; an emitted action alone leaves it be.
views == <<implicitKeep, keep, mailboxes, redirectAddr, pipedPrograms, filtered>>

NoTarget == "none"

Kinds == {"keep", "implicitKeep", "discard", "fileinto", "redirect",
          "redirectList", "reject", "ereject", "pipe", "notify", "report",
          "filter"}

Actions == [kind   : Kinds,
            target : Mailboxes \cup Programs \cup {NoTarget},
            copy   : BOOLEAN,
            try    : BOOLEAN]

Action(kind, target, copy, try) ==
    [kind |-> kind, target |-> target, copy |-> copy, try |-> try]

Plain(kind) == Action(kind, NoTarget, FALSE, FALSE)

-----------------------------------------------------------------------------
(* The action types' cancelsImplicitKeep methods. *)

\* Mutant: a :try pipe would cancel the implicit keep before it has run.
CancelsEagerly(a) ==
    CASE a.kind \in {"notify", "report", "filter"} -> FALSE
      [] a.kind \in {"fileinto", "redirect", "redirectList", "pipe"} -> ~a.copy
      [] OTHER -> TRUE

CancelsImplicitKeep(a) ==
    CASE a.kind \in {"notify", "report", "filter"} -> FALSE
      [] a.kind \in {"fileinto", "redirect", "redirectList"} -> ~a.copy
      [] a.kind = "pipe" -> ~a.copy /\ ~a.try
      [] OTHER -> TRUE

-----------------------------------------------------------------------------
(* DefaultOnAction: the action is appended first, then the limit is looked *)
(* at, so that the action that exceeds it is in the log too.               *)

LimitExceeded(log) == MaxActions > 0 /\ Len(log) > MaxActions

\* A command that hands DefaultOnAction's error on ends the run with it.
OnAction(a) ==
    /\ appliedActions' = Append(appliedActions, a)
    /\ status' = IF LimitExceeded(appliedActions') THEN "failed" ELSE "running"

\* OnAction returned nil in this step.
Accepted == status' = "running"

\* The script has a next command to run.
Running == status = "running" /\ Len(appliedActions) < LogBound

-----------------------------------------------------------------------------
(* The action commands.                                                    *)

\* Mutant: the mailbox is not looked up among those already filed into.
CmdFileIntoAgain(m, copy) ==
    /\ Running
    /\ OnAction(Action("fileinto", m, copy, FALSE))
    /\ mailboxes' = IF Accepted THEN mailboxes \cup {m} ELSE mailboxes
    /\ implicitKeep' = (implicitKeep /\ (copy \/ ~Accepted))
    /\ UNCHANGED <<keep, redirectAddr, pipedPrograms, filtered>>

\* Mutant: the mailbox is not remembered once the action is emitted.
CmdFileIntoUnrecorded(m, copy) ==
    /\ Running
    /\ m \notin mailboxes
    /\ OnAction(Action("fileinto", m, copy, FALSE))
    /\ implicitKeep' = (implicitKeep /\ (copy \/ ~Accepted))
    /\ UNCHANGED <<keep, mailboxes, redirectAddr, pipedPrograms, filtered>>

\* m is the mailbox that :mailboxid, :specialuse or the argument resolved to.
CmdFileInto(m, copy) ==
    /\ Running
    /\ m \notin mailboxes
    /\ OnAction(Action("fileinto", m, copy, FALSE))
    /\ mailboxes' = IF Accepted THEN mailboxes \cup {m} ELSE mailboxes
    /\ implicitKeep' = (implicitKeep /\ (copy \/ ~Accepted))
    /\ UNCHANGED <<keep, redirectAddr, pipedPrograms, filtered>>

\* Reached when the policy allows the redirect; a refusal is a skipped command.
CmdRedirect(list, copy) ==
    /\ Running
    /\ OnAction(Action(IF list THEN "redirectList" ELSE "redirect",
                       NoTarget, copy, FALSE))
    /\ redirectAddr' = IF Accepted /\ ~list THEN redirectAddr + 1 ELSE redirectAddr
    /\ implicitKeep' = (implicitKeep /\ (copy \/ ~Accepted))
    /\ UNCHANGED <<keep, mailboxes, pipedPrograms, filtered>>

CmdKeep ==
    /\ Running
    /\ OnAction(Plain("keep"))
    /\ keep' = (keep \/ Accepted)
    /\ UNCHANGED <<implicitKeep, mailboxes, redirectAddr, pipedPrograms, filtered>>

\* discard, reject and ereject: the message goes nowhere else.
Dispose(kind) ==
    /\ Running
    /\ OnAction(Plain(kind))
    /\ implicitKeep' = (implicitKeep /\ ~Accepted)
    /\ UNCHANGED <<keep, mailboxes, redirectAddr, pipedPrograms, filtered>>

CmdDiscard == Dispose("discard")
CmdReject  == Dispose("reject")
CmdEReject == Dispose("ereject")

CmdNotify == Running /\ OnAction(Plain("notify")) /\ UNCHANGED views
CmdReport == Running /\ OnAction(Plain("report")) /\ UNCHANGED views

\* runFilter stores the program's output, or clears an earlier one when there
\* is none, before the action is emitted. The test form does the same.
CmdFilter(output) ==
    /\ Running
    /\ filtered' = output
    /\ OnAction(Plain("filter"))
    /\ UNCHANGED <<implicitKeep, keep, mailboxes, redirectAddr, pipedPrograms>>

\* Mutant: every emitted pipe is forgotten again.
CmdPipeForgets(p, copy, try) ==
    /\ Running
    /\ p \notin pipedPrograms
    /\ appliedActions' = Append(appliedActions, Action("pipe", p, copy, try))
    /\ status' = IF LimitExceeded(appliedActions') /\ ~try THEN "failed" ELSE "running"
    /\ pipedPrograms' = pipedPrograms
    /\ implicitKeep' = (implicitKeep /\ (copy \/ try \/ ~Accepted))
    /\ UNCHANGED <<keep, mailboxes, redirectAddr, filtered>>

\* With :try an error of OnAction is swallowed and the program forgotten, but
\* the action stays in the log. A second pipe to a program is skipped with
\* :try and ends the run without it (CmdFails).
CmdPipe(p, copy, try) ==
    /\ Running
    /\ p \notin pipedPrograms
    /\ appliedActions' = Append(appliedActions, Action("pipe", p, copy, try))
    /\ status' = IF LimitExceeded(appliedActions') /\ ~try THEN "failed" ELSE "running"
    /\ pipedPrograms' = IF LimitExceeded(appliedActions') /\ try
                        THEN pipedPrograms
                        ELSE pipedPrograms \cup {p}
    /\ implicitKeep' = (implicitKeep /\ (copy \/ try \/ ~Accepted))
    /\ UNCHANGED <<keep, mailboxes, redirectAddr, filtered>>

\* A command that ends the run before it emits anything: a duplicate pipe, a
\* policy or program error, a vacation without a sender, a missing include.
CmdFails ==
    /\ Running
    /\ status' = "failed"
    /\ UNCHANGED <<appliedActions, views>>

\* stop, or return in the top-level script: Execute returns nil at once.
CmdStop ==
    /\ Running
    /\ status' = "stopped"
    /\ UNCHANGED <<appliedActions, views>>

-----------------------------------------------------------------------------
(* The tail of Script.Execute, after the last command.                     *)

KeepsImplicitly ==
    implicitKeep /\ \A i \in DOMAIN appliedActions :
                        ~CancelsImplicitKeep(appliedActions[i])

\* Mutant: only the eager flag decides.
EndOnFlagOnly ==
    /\ status = "running"
    /\ IF implicitKeep
       THEN /\ appliedActions' = Append(appliedActions, Plain("implicitKeep"))
            /\ status' = IF LimitExceeded(appliedActions') THEN "failed" ELSE "ended"
       ELSE status' = "ended" /\ UNCHANGED appliedActions
    /\ UNCHANGED views

End ==
    /\ status = "running"
    /\ IF KeepsImplicitly
       THEN /\ appliedActions' = Append(appliedActions, Plain("implicitKeep"))
            /\ status' = IF LimitExceeded(appliedActions') THEN "failed" ELSE "ended"
       ELSE status' = "ended" /\ UNCHANGED appliedActions
    /\ UNCHANGED views

\* NewRuntimeData.
Init ==
    /\ status = "running"
    /\ appliedActions = <<>>
    /\ implicitKeep = TRUE
    /\ keep = FALSE
    /\ mailboxes = {}
    /\ redirectAddr = 0
    /\ pipedPrograms = {}
    /\ filtered = FALSE

Next ==
    \/ \E m \in Mailboxes, copy \in BOOLEAN : CmdFileInto(m, copy)
    \/ \E list, copy \in BOOLEAN : CmdRedirect(list, copy)
    \/ CmdKeep
    \/ CmdDiscard
    \/ CmdReject
    \/ CmdEReject
    \/ CmdNotify
    \/ CmdReport
    \/ \E output \in BOOLEAN : CmdFilter(output)
    \/ \E p \in Programs, copy, try \in BOOLEAN : CmdPipe(p, copy, try)
    \/ CmdFails
    \/ CmdStop
    \/ End

Spec == Init /\ [][Next]_vars

-----------------------------------------------------------------------------
(* Properties.                                                             *)

\* Every variable keeps to the values the fields of RuntimeData can have.
TypeOK ==
    /\ status \in {"running", "ended", "stopped", "failed"}
    /\ appliedActions \in Seq(Actions)
    /\ implicitKeep \in BOOLEAN
    /\ keep \in BOOLEAN
    /\ mailboxes \subseteq Mailboxes
    /\ redirectAddr \in Nat
    /\ pipedPrograms \subseteq Programs
    /\ filtered \in BOOLEAN

Logged(i, kind) == i \in DOMAIN appliedActions /\ appliedActions[i].kind = kind

\* The two ways the code has of cancelling the implicit keep agree: unless the
\* run failed, the ImplicitKeep flag is down exactly when the log holds an
\* action other than a keep whose cancelsImplicitKeep says so.
FlagAgreesWithLog ==
    status # "failed" =>
        (~implicitKeep <=>
            \E i \in DOMAIN appliedActions :
                /\ appliedActions[i].kind \notin {"keep", "implicitKeep"}
                /\ CancelsImplicitKeep(appliedActions[i]))

\* The deprecated fields of RuntimeData say what AppliedActions says, as their
\* comments promise, as long as the run did not fail: Mailboxes lists the
\* mailboxes filed into, Keep is set exactly when the script kept.
DeprecatedViewsAgree ==
    status # "failed" =>
        /\ keep <=> \E i \in DOMAIN appliedActions : Logged(i, "keep")
        /\ \A m \in Mailboxes :
               m \in mailboxes <=>
                   \E i \in DOMAIN appliedActions :
                       Logged(i, "fileinto") /\ appliedActions[i].target = m

\* A run that reaches the end of its script leaves the message with exactly
\* one reason to be delivered or dropped: either the implicit keep, and no
\* other action that cancels it, or at least one explicit such action.
OneDisposition ==
    status = "ended" =>
        LET Cancelling == {i \in DOMAIN appliedActions :
                               CancelsImplicitKeep(appliedActions[i])}
        IN  /\ Cancelling # {}
            /\ \A i \in Cancelling : Logged(i, "implicitKeep") => Cancelling = {i}

\* No message is filed into the same mailbox twice, however often the script
\* asks for it and whatever it resolved the name from.
FiledOnce ==
    \A i, j \in DOMAIN appliedActions :
        /\ Logged(i, "fileinto")
        /\ Logged(j, "fileinto")
        /\ appliedActions[i].target = appliedActions[j].target
        => i = j

\* Among the actions within the limit no program is piped to twice.
PipedOnceWithinLimit ==
    \A i, j \in DOMAIN appliedActions :
        /\ Logged(i, "pipe")
        /\ Logged(j, "pipe")
        /\ appliedActions[i].target = appliedActions[j].target
        /\ i < j
        => MaxActions > 0 /\ j > MaxActions

\* script.go on MaxActions: "execution aborts as soon as the limit is
\* exceeded". A run whose log is past the limit has failed.
AbortsOverLimit == LimitExceeded(appliedActions) => status = "failed"
=============================================================================

--------------------------- MODULE ExecutionProofs ---------------------------
(***************************************************************************)
(* What an execution leaves behind, proved for every set of mailboxes and  *)
(* programs, every message, every limit and every length of the log: the   *)
(* invariants of the applied actions (ScriptExecute), and that recorded    *)
(* edits of the header replay as edits in place (HeaderEdits).             *)
(***************************************************************************)
EXTENDS ScriptExecute, HeaderEdits, WellFoundedInduction, TLAPS


(***************************************************************************)
(* The inductive invariant. Two facts join the checked invariants: the     *)
(* implicit keep is emitted by the last step of a run only, and a program  *)
(* piped to within the limit is remembered.                                *)
(***************************************************************************)
ImplicitKeepLast ==
    status = "running" =>
        \A i \in DOMAIN appliedActions : ~Logged(i, "implicitKeep")

PipesRemembered ==
    status = "running" =>
        \A i \in DOMAIN appliedActions :
            /\ Logged(i, "pipe")
            /\ MaxActions = 0 \/ i <= MaxActions
            => appliedActions[i].target \in pipedPrograms

IInv ==
    /\ TypeOK
    /\ ImplicitKeepLast
    /\ PipesRemembered
    /\ FlagAgreesWithLog
    /\ DeprecatedViewsAgree
    /\ OneDisposition
    /\ FiledOnce
    /\ PipedOnceWithinLimit

-----------------------------------------------------------------------------
\* What appending an action to the log does to its length and its elements.
LEMMA AppendFacts ==
    ASSUME NEW log \in Seq(Actions), NEW a \in Actions
    PROVE  /\ Append(log, a) \in Seq(Actions)
           /\ Len(log) \in Nat
           /\ Len(Append(log, a)) = Len(log) + 1
           /\ DOMAIN log = 1 .. Len(log)
           /\ DOMAIN Append(log, a) = 1 .. (Len(log) + 1)
           /\ \A i \in 1 .. Len(log) : Append(log, a)[i] = log[i]
           /\ Append(log, a)[Len(log) + 1] = a
  OBVIOUS

\* Some element of the longer log is in S if one of the shorter log is, or a.
LEMMA AppendExists ==
    ASSUME NEW log \in Seq(Actions), NEW a \in Actions, NEW S
    PROVE  (\E i \in DOMAIN Append(log, a) : Append(log, a)[i] \in S) <=>
               (\E i \in DOMAIN log : log[i] \in S) \/ a \in S
  BY AppendFacts

\* An action built by the commands is one of Actions.
LEMMA ActionType ==
    ASSUME NEW kind \in Kinds, NEW copy \in BOOLEAN, NEW try \in BOOLEAN,
           NEW target \in Mailboxes \cup Programs \cup {NoTarget}
    PROVE  /\ Action(kind, target, copy, try) \in Actions
           /\ Action(kind, target, copy, try).kind = kind
           /\ Action(kind, target, copy, try).target = target
           /\ Action(kind, target, copy, try).copy = copy
           /\ Action(kind, target, copy, try).try = try
  BY DEF Action, Actions

\* An action without a target.
LEMMA PlainType ==
    ASSUME NEW kind \in Kinds
    PROVE  /\ Plain(kind) \in Actions
           /\ Plain(kind).kind = kind
           /\ Plain(kind).copy = FALSE
           /\ Plain(kind).try = FALSE
  BY DEF Plain, Action, Actions

-----------------------------------------------------------------------------
(* What an emitting step of a running script does to each conjunct: a is   *)
(* the action it appends to the log.                                       *)

\* The flag follows the log when the step lowers it exactly for an accepted
\* action that cancels the implicit keep and is no keep.
LEMMA EmitFlag ==
    ASSUME IInv, status = "running",
           NEW a \in Actions,
           appliedActions' = Append(appliedActions, a),
           status' # "failed" =>
               (~implicitKeep' <=>
                   \/ ~implicitKeep
                   \/ a.kind \notin {"keep", "implicitKeep"} /\ CancelsImplicitKeep(a))
    PROVE  FlagAgreesWithLog'
<1> DEFINE C(b) == b.kind \notin {"keep", "implicitKeep"} /\ CancelsImplicitKeep(b)
           S == {b \in Actions : C(b)}
<1> SUFFICES ASSUME status' # "failed"
             PROVE  ~implicitKeep' <=>
                        \E i \in DOMAIN appliedActions' : C(appliedActions'[i])
  BY DEF FlagAgreesWithLog
<1>1. ~implicitKeep <=> \E i \in DOMAIN appliedActions : C(appliedActions[i])
  BY DEF IInv, FlagAgreesWithLog
<1>2. ~implicitKeep' <=> ~implicitKeep \/ C(a)
  OBVIOUS
<1>3. /\ appliedActions \in Seq(Actions)
      /\ appliedActions' \in Seq(Actions)
  BY AppendFacts DEF IInv, TypeOK
<1>4. /\ \A i \in DOMAIN appliedActions : appliedActions[i] \in Actions
      /\ \A i \in DOMAIN appliedActions' : appliedActions'[i] \in Actions
  BY <1>3
<1>5. (\E i \in DOMAIN appliedActions' : appliedActions'[i] \in S) <=>
          (\E i \in DOMAIN appliedActions : appliedActions[i] \in S) \/ a \in S
  <2> HIDE DEF S
  <2> QED BY <1>3, AppendExists
<1>6. QED
  BY <1>1, <1>2, <1>4, <1>5, Zenon

\* The deprecated fields follow the log when the step updates them for a.
LEMMA EmitViews ==
    ASSUME IInv, status = "running",
           NEW a \in Actions,
           appliedActions' = Append(appliedActions, a),
           status' # "failed" =>
               /\ keep' <=> (keep \/ a.kind = "keep")
               /\ \A m \in Mailboxes :
                      m \in mailboxes' <=>
                          m \in mailboxes \/ (a.kind = "fileinto" /\ a.target = m)
    PROVE  DeprecatedViewsAgree'
<1> SUFFICES ASSUME status' # "failed"
             PROVE  DeprecatedViewsAgree'
  BY DEF DeprecatedViewsAgree
<1>1. appliedActions \in Seq(Actions)
  BY DEF IInv, TypeOK
<1>2. keep' <=> \E i \in DOMAIN appliedActions' : Logged(i, "keep")'
  <2>1. keep <=> \E i \in DOMAIN appliedActions : Logged(i, "keep")
    BY DEF IInv, DeprecatedViewsAgree
  <2>2. (\E i \in DOMAIN appliedActions' : Logged(i, "keep")') <=>
            (\E i \in DOMAIN appliedActions : Logged(i, "keep")) \/ a.kind = "keep"
    BY <1>1, AppendFacts DEF Logged
  <2>3. QED
    BY <2>1, <2>2
<1>3. ASSUME NEW m \in Mailboxes
      PROVE  m \in mailboxes' <=>
                 \E i \in DOMAIN appliedActions' :
                     Logged(i, "fileinto")' /\ appliedActions'[i].target = m
  <2>1. m \in mailboxes <=>
            \E i \in DOMAIN appliedActions :
                Logged(i, "fileinto") /\ appliedActions[i].target = m
    BY DEF IInv, DeprecatedViewsAgree
  <2>2. (\E i \in DOMAIN appliedActions' :
            Logged(i, "fileinto")' /\ appliedActions'[i].target = m) <=>
            \/ \E i \in DOMAIN appliedActions :
                   Logged(i, "fileinto") /\ appliedActions[i].target = m
            \/ a.kind = "fileinto" /\ a.target = m
    BY <1>1, AppendFacts DEF Logged
  <2>3. QED
    BY <2>1, <2>2
<1>4. QED
  BY <1>2, <1>3 DEF DeprecatedViewsAgree

\* No second fileinto of a mailbox: the new one names a mailbox the
\* Mailboxes field, and so the log, does not hold.
LEMMA EmitFiled ==
    ASSUME IInv, status = "running",
           NEW a \in Actions,
           appliedActions' = Append(appliedActions, a),
           a.kind = "fileinto" => a.target \in Mailboxes \ mailboxes
    PROVE  FiledOnce'
<1>1. a.kind = "fileinto" =>
          \A i \in DOMAIN appliedActions :
              Logged(i, "fileinto") => appliedActions[i].target # a.target
  BY DEF IInv, DeprecatedViewsAgree
<1>2. appliedActions \in Seq(Actions)
  BY DEF IInv, TypeOK
<1>3. QED
  BY <1>1, <1>2, AppendFacts DEF IInv, FiledOnce, Logged

\* Within the limit no program is piped to twice: the new pipe names a program
\* that is not remembered, and pipes within the limit are.
LEMMA EmitPipe ==
    ASSUME IInv, status = "running",
           NEW a \in Actions,
           appliedActions' = Append(appliedActions, a),
           pipedPrograms \subseteq pipedPrograms',
           a.kind = "pipe" =>
               /\ a.target \notin pipedPrograms
               /\ status' = "running" =>
                      a.target \in pipedPrograms' \/ LimitExceeded(appliedActions')
    PROVE  PipedOnceWithinLimit' /\ PipesRemembered'
<1>1. appliedActions \in Seq(Actions)
  BY DEF IInv, TypeOK
<1>2. a.kind = "pipe" =>
          \A i \in DOMAIN appliedActions :
              /\ Logged(i, "pipe")
              /\ appliedActions[i].target = a.target
              => MaxActions > 0 /\ i > MaxActions
  BY <1>1, AppendFacts, MaxActionsAssumption DEF IInv, PipesRemembered
<1>3. PipedOnceWithinLimit'
  BY <1>1, <1>2, AppendFacts, MaxActionsAssumption
     DEF IInv, PipedOnceWithinLimit, Logged
<1>4. PipesRemembered'
  BY <1>1, AppendFacts, MaxActionsAssumption
     DEF IInv, PipesRemembered, Logged, LimitExceeded
<1>5. QED
  BY <1>3, <1>4

\* While the script goes on the implicit keep has not been emitted.
LEMMA EmitImplicit ==
    ASSUME IInv, status = "running",
           NEW a \in Actions,
           appliedActions' = Append(appliedActions, a),
           status' = "running" => a.kind # "implicitKeep"
    PROVE  ImplicitKeepLast'
<1>1. appliedActions \in Seq(Actions)
  BY DEF IInv, TypeOK
<1>2. SUFFICES ASSUME status' = "running",
                      NEW i \in DOMAIN appliedActions'
               PROVE  appliedActions'[i].kind # "implicitKeep"
  BY DEF ImplicitKeepLast, Logged
<1>3. \A k \in DOMAIN appliedActions : appliedActions[k].kind # "implicitKeep"
  BY DEF IInv, ImplicitKeepLast, Logged
<1>4. QED
  BY <1>1, <1>2, <1>3, AppendFacts

-----------------------------------------------------------------------------
\* A run starts with an empty log.
LEMMA InitIInv == Init => IInv
<1> SUFFICES ASSUME Init PROVE IInv
  OBVIOUS
<1>1. appliedActions = <<>> /\ DOMAIN appliedActions = {}
  BY DEF Init
<1>2. TypeOK
  <2>1. appliedActions \in Seq(Actions) /\ redirectAddr \in Nat
    BY DEF Init
  <2>2. QED
    BY <2>1, Zenon DEF Init, TypeOK
<1>3. FlagAgreesWithLog /\ DeprecatedViewsAgree
  BY <1>1 DEF Init, FlagAgreesWithLog, DeprecatedViewsAgree
<1>4. /\ ImplicitKeepLast
      /\ PipesRemembered
      /\ OneDisposition
      /\ FiledOnce
      /\ PipedOnceWithinLimit
  BY <1>1 DEF Init, ImplicitKeepLast, PipesRemembered, OneDisposition,
              FiledOnce, PipedOnceWithinLimit
<1>5. QED
  BY <1>2, <1>3, <1>4 DEF IInv

\* A command that emits a and hands the error of OnAction on preserves the
\* invariant when it keeps the flag and the deprecated fields in step with a.
LEMMA EmitIInv ==
    ASSUME IInv, Running,
           NEW a \in Actions,
           a.kind \notin {"pipe", "implicitKeep"},
           OnAction(a),
           implicitKeep' \in BOOLEAN, keep' \in BOOLEAN, filtered' \in BOOLEAN,
           mailboxes' \subseteq Mailboxes, redirectAddr' \in Nat,
           pipedPrograms' = pipedPrograms,
           a.kind = "fileinto" => a.target \in Mailboxes \ mailboxes,
           Accepted =>
               /\ ~implicitKeep' <=>
                      ~implicitKeep \/ (a.kind # "keep" /\ CancelsImplicitKeep(a))
               /\ keep' <=> (keep \/ a.kind = "keep")
               /\ \A m \in Mailboxes :
                      m \in mailboxes' <=>
                          m \in mailboxes \/ (a.kind = "fileinto" /\ a.target = m)
    PROVE  IInv'
<1>1. /\ status = "running"
      /\ appliedActions' = Append(appliedActions, a)
      /\ status' \in {"running", "failed"}
      /\ LimitExceeded(appliedActions') => status' = "failed"
  BY DEF Running, OnAction
<1>2. TypeOK'
  BY <1>1, AppendFacts DEF IInv, TypeOK
<1>3. ImplicitKeepLast'
  BY <1>1, EmitImplicit
<1>4. PipesRemembered' /\ PipedOnceWithinLimit'
  BY <1>1, EmitPipe
<1>5. FlagAgreesWithLog'
  BY <1>1, EmitFlag DEF Accepted
<1>6. DeprecatedViewsAgree'
  BY <1>1, EmitViews DEF Accepted
<1>7. OneDisposition'
  BY <1>1 DEF OneDisposition
<1>8. FiledOnce'
  BY <1>1, EmitFiled
<1>9. QED
  BY <1>2, <1>3, <1>4, <1>5, <1>6, <1>7, <1>8 DEF IInv

\* Every step of Script.Execute preserves the invariant.
LEMMA NextIInv == IInv /\ [Next]_vars => IInv'
<1> SUFFICES ASSUME IInv, [Next]_vars PROVE IInv'
  OBVIOUS
<1>t. TypeOK
  BY DEF IInv
<1>1. ASSUME NEW m \in Mailboxes, NEW copy \in BOOLEAN, CmdFileInto(m, copy)
      PROVE  IInv'
  <2> DEFINE a == Action("fileinto", m, copy, FALSE)
  <2>1. /\ a \in Actions
        /\ a.kind = "fileinto"
        /\ a.target = m
        /\ a.copy = copy
    BY DEF Action, Actions, Kinds
  <2>2. CancelsImplicitKeep(a) <=> ~copy
    BY <2>1, Zenon DEF CancelsImplicitKeep
  <2>3. Running /\ m \notin mailboxes /\ OnAction(a)
    BY <1>1, Zenon DEF CmdFileInto
  <2>4. /\ implicitKeep' \in BOOLEAN
        /\ keep' \in BOOLEAN
        /\ filtered' \in BOOLEAN
        /\ mailboxes' \subseteq Mailboxes
        /\ redirectAddr' \in Nat
        /\ pipedPrograms' = pipedPrograms
    BY <1>1, <1>t DEF CmdFileInto, TypeOK
  <2>5. ASSUME Accepted
        PROVE  /\ ~implicitKeep' <=> ~implicitKeep \/ ~copy
               /\ keep' <=> keep
               /\ mailboxes' = mailboxes \cup {m}
    BY <1>1, <1>t, <2>5 DEF CmdFileInto, TypeOK
  <2> HIDE DEF a
  <2>6. QED
    BY <2>1, <2>2, <2>3, <2>4, <2>5, EmitIInv
<1>2. ASSUME NEW list \in BOOLEAN, NEW copy \in BOOLEAN, CmdRedirect(list, copy)
      PROVE  IInv'
  <2> DEFINE kind == IF list THEN "redirectList" ELSE "redirect"
             a == Action(kind, NoTarget, copy, FALSE)
  <2>1. /\ a \in Actions
        /\ a.kind \in {"redirect", "redirectList"}
        /\ a.copy = copy
    <3>1. kind \in {"redirect", "redirectList"}
      OBVIOUS
    <3>2. QED
      BY <3>1 DEF Action, Actions, Kinds
  <2>2. CancelsImplicitKeep(a) <=> ~copy
    BY <2>1, Zenon DEF CancelsImplicitKeep
  <2>3. Running /\ OnAction(a)
    BY <1>2, Zenon DEF CmdRedirect
  <2>4. /\ implicitKeep' \in BOOLEAN
        /\ keep' \in BOOLEAN
        /\ filtered' \in BOOLEAN
        /\ mailboxes' \subseteq Mailboxes
        /\ redirectAddr' \in Nat
        /\ pipedPrograms' = pipedPrograms
    BY <1>2, <1>t DEF CmdRedirect, TypeOK
  <2>5. ASSUME Accepted
        PROVE  /\ ~implicitKeep' <=> ~implicitKeep \/ ~copy
               /\ keep' <=> keep
               /\ mailboxes' = mailboxes
    BY <1>2, <1>t, <2>5 DEF CmdRedirect, TypeOK
  <2> HIDE DEF a
  <2>6. QED
    BY <2>1, <2>2, <2>3, <2>4, <2>5, EmitIInv
<1>3. ASSUME CmdKeep PROVE IInv'
  <2>1. Plain("keep") \in Actions /\ Plain("keep").kind = "keep"
    BY PlainType DEF Kinds
  <2>2. Running /\ OnAction(Plain("keep"))
    BY <1>3 DEF CmdKeep
  <2>3. /\ implicitKeep' = implicitKeep
        /\ keep' \in BOOLEAN
        /\ Accepted => (keep' <=> TRUE)
        /\ filtered' = filtered
        /\ mailboxes' = mailboxes
        /\ redirectAddr' = redirectAddr
        /\ pipedPrograms' = pipedPrograms
    BY <1>3, <1>t, Zenon DEF CmdKeep, TypeOK
  <2>4. QED
    BY <1>t, <2>1, <2>2, <2>3, EmitIInv DEF TypeOK
<1>4. ASSUME NEW kind \in {"discard", "reject", "ereject"}, Dispose(kind)
      PROVE  IInv'
  <2>1. Plain(kind) \in Actions /\ Plain(kind).kind = kind
    BY PlainType DEF Kinds
  <2>2. CancelsImplicitKeep(Plain(kind))
    BY <2>1 DEF CancelsImplicitKeep
  <2>3. Running /\ OnAction(Plain(kind))
    BY <1>4 DEF Dispose
  <2>4. /\ implicitKeep' \in BOOLEAN
        /\ Accepted => (implicitKeep' <=> FALSE)
        /\ keep' = keep
        /\ filtered' = filtered
        /\ mailboxes' = mailboxes
        /\ redirectAddr' = redirectAddr
        /\ pipedPrograms' = pipedPrograms
    BY <1>4, <1>t, Zenon DEF Dispose, TypeOK
  <2>5. QED
    BY <1>t, <2>1, <2>2, <2>3, <2>4, EmitIInv DEF TypeOK
<1>5. ASSUME NEW kind \in {"notify", "report", "filter"},
             Running, OnAction(Plain(kind)), filtered' \in BOOLEAN,
             UNCHANGED <<implicitKeep, keep, mailboxes, redirectAddr, pipedPrograms>>
      PROVE  IInv'
  <2>1. Plain(kind) \in Actions /\ Plain(kind).kind = kind
    BY PlainType DEF Kinds
  <2>2. ~CancelsImplicitKeep(Plain(kind))
    BY <2>1 DEF CancelsImplicitKeep
  <2>3. QED
    BY <1>5, <1>t, <2>1, <2>2, EmitIInv DEF TypeOK
<1>6. ASSUME NEW p \in Programs, NEW copy \in BOOLEAN, NEW try \in BOOLEAN,
             CmdPipe(p, copy, try)
      PROVE  IInv'
  <2> DEFINE a == Action("pipe", p, copy, try)
  <2>1. /\ a \in Actions
        /\ a.kind = "pipe"
        /\ a.target = p
        /\ a.copy = copy
        /\ a.try = try
    BY ActionType DEF Kinds
  <2>2. CancelsImplicitKeep(a) <=> ~copy /\ ~try
    BY <2>1 DEF CancelsImplicitKeep
  <2>3. /\ status = "running"
        /\ p \notin pipedPrograms
        /\ appliedActions' = Append(appliedActions, a)
        /\ status' \in {"running", "failed"}
        /\ LimitExceeded(appliedActions') => status' = "failed" \/ try
        /\ pipedPrograms \subseteq pipedPrograms'
        /\ pipedPrograms' \subseteq Programs
        /\ p \in pipedPrograms' \/ LimitExceeded(appliedActions')
        /\ UNCHANGED <<keep, mailboxes, redirectAddr, filtered>>
    BY <1>6, <1>t DEF CmdPipe, Running, TypeOK
  <2>4. implicitKeep' = (implicitKeep /\ (copy \/ try \/ ~Accepted))
    BY <1>6 DEF CmdPipe
  <2>5. status' # "failed" => (~implicitKeep' <=> ~implicitKeep \/ (~copy /\ ~try))
    BY <1>t, <2>3, <2>4 DEF Accepted, TypeOK
  <2> HIDE DEF a
  <2>6. TypeOK'
    <3>1. appliedActions' \in Seq(Actions)
      BY <1>t, <2>1, <2>3, AppendFacts DEF TypeOK
    <3>2. implicitKeep' \in BOOLEAN
      BY <2>4
    <3>3. QED
      BY <1>t, <2>3, <3>1, <3>2 DEF TypeOK
  <2>7. ImplicitKeepLast'
    BY <2>1, <2>3, EmitImplicit
  <2>8. PipesRemembered' /\ PipedOnceWithinLimit'
    BY <2>1, <2>3, EmitPipe
  <2>9. FlagAgreesWithLog'
    BY <2>1, <2>2, <2>3, <2>5, EmitFlag
  <2>10. DeprecatedViewsAgree'
    BY <2>1, <2>3, EmitViews
  <2>11. OneDisposition'
    BY <2>3 DEF OneDisposition
  <2>12. FiledOnce'
    BY <2>1, <2>3, EmitFiled
  <2>13. QED
    BY <2>6, <2>7, <2>8, <2>9, <2>10, <2>11, <2>12 DEF IInv
<1>7. ASSUME status = "running", status' \in {"failed", "stopped"},
             UNCHANGED <<appliedActions, views>>
      PROVE  IInv'
  <2>1. TypeOK' /\ ImplicitKeepLast' /\ PipesRemembered' /\ OneDisposition'
    BY <1>7, <1>t DEF views, TypeOK, ImplicitKeepLast, PipesRemembered, OneDisposition
  <2>2. FlagAgreesWithLog' /\ DeprecatedViewsAgree'
    BY <1>7 DEF views, IInv, FlagAgreesWithLog, DeprecatedViewsAgree, Logged
  <2>3. FiledOnce' /\ PipedOnceWithinLimit'
    BY <1>7 DEF IInv, FiledOnce, PipedOnceWithinLimit, Logged
  <2>4. QED
    BY <2>1, <2>2, <2>3 DEF IInv
<1>8. ASSUME End, KeepsImplicitly PROVE IInv'
  <2> DEFINE a == Plain("implicitKeep")
  <2>1. a \in Actions /\ a.kind = "implicitKeep"
    BY PlainType DEF Kinds
  <2>2. CancelsImplicitKeep(a)
    BY <2>1 DEF CancelsImplicitKeep
  <2>3. /\ status = "running"
        /\ appliedActions' = Append(appliedActions, a)
        /\ status' \in {"ended", "failed"}
        /\ LimitExceeded(appliedActions') => status' = "failed"
        /\ UNCHANGED views
    BY <1>8 DEF End
  <2> HIDE DEF a
  <2>4. UNCHANGED <<implicitKeep, keep, mailboxes, redirectAddr, pipedPrograms, filtered>>
    BY <2>3 DEF views
  <2>5. TypeOK'
    BY <1>t, <2>1, <2>3, <2>4, AppendFacts DEF TypeOK
  <2>6. ImplicitKeepLast'
    BY <2>1, <2>3, EmitImplicit
  <2>7. PipesRemembered' /\ PipedOnceWithinLimit'
    BY <2>1, <2>3, <2>4, EmitPipe
  <2>8. FlagAgreesWithLog'
    BY <2>1, <2>3, <2>4, EmitFlag
  <2>9. DeprecatedViewsAgree'
    BY <2>1, <2>3, <2>4, EmitViews
  <2>10. OneDisposition'
    <3>1. appliedActions \in Seq(Actions)
      BY <1>t DEF TypeOK
    <3>2. \A i \in DOMAIN appliedActions : ~CancelsImplicitKeep(appliedActions[i])
      BY <1>8 DEF KeepsImplicitly
    <3>3. /\ DOMAIN appliedActions' = 1 .. (Len(appliedActions) + 1)
          /\ DOMAIN appliedActions = 1 .. Len(appliedActions)
          /\ Len(appliedActions) \in Nat
          /\ appliedActions'[Len(appliedActions) + 1] = a
          /\ \A i \in 1 .. Len(appliedActions) :
                 appliedActions'[i] = appliedActions[i]
      BY <2>1, <2>3, <3>1, AppendFacts
    <3>4. \A i \in DOMAIN appliedActions' :
              CancelsImplicitKeep(appliedActions'[i]) => i = Len(appliedActions) + 1
      BY <3>2, <3>3 DEF CancelsImplicitKeep
    <3>5. {i \in DOMAIN appliedActions' : CancelsImplicitKeep(appliedActions'[i])}
              = {Len(appliedActions) + 1}
      BY <2>2, <3>3, <3>4
    <3>6. QED
      BY <3>5 DEF OneDisposition
  <2>11. FiledOnce'
    BY <2>1, <2>3, EmitFiled
  <2>12. QED
    BY <2>5, <2>6, <2>7, <2>8, <2>9, <2>10, <2>11 DEF IInv
<1>9. ASSUME End, ~KeepsImplicitly PROVE IInv'
  <2>1. /\ status = "running"
        /\ status' = "ended"
        /\ UNCHANGED <<appliedActions, views>>
    BY <1>9 DEF End
  <2>2. TypeOK' /\ ImplicitKeepLast' /\ PipesRemembered'
    BY <1>t, <2>1 DEF views, TypeOK, ImplicitKeepLast, PipesRemembered
  <2>3. FlagAgreesWithLog' /\ DeprecatedViewsAgree'
    BY <2>1 DEF views, IInv, FlagAgreesWithLog, DeprecatedViewsAgree, Logged
  <2>4. FiledOnce' /\ PipedOnceWithinLimit'
    BY <2>1 DEF IInv, FiledOnce, PipedOnceWithinLimit, Logged
  <2>5. OneDisposition'
    <3>1. \E i \in DOMAIN appliedActions : CancelsImplicitKeep(appliedActions[i])
      BY <1>9, <2>1 DEF KeepsImplicitly, IInv, FlagAgreesWithLog
    <3>2. \A i \in DOMAIN appliedActions : ~Logged(i, "implicitKeep")
      BY <2>1 DEF IInv, ImplicitKeepLast
    <3>3. QED
      BY <2>1, <3>1, <3>2, Zenon DEF OneDisposition, Logged
  <2>6. QED
    BY <2>2, <2>3, <2>4, <2>5 DEF IInv
<1>10. ASSUME UNCHANGED vars PROVE IInv'
  <2>1. TypeOK' /\ DeprecatedViewsAgree'
    BY <1>10 DEF vars, IInv, TypeOK, DeprecatedViewsAgree, Logged
  <2>2. ImplicitKeepLast' /\ PipesRemembered' /\ PipedOnceWithinLimit'
    BY <1>10 DEF vars, IInv, ImplicitKeepLast, PipesRemembered, PipedOnceWithinLimit, Logged
  <2>3. FlagAgreesWithLog' /\ OneDisposition'
    BY <1>10 DEF vars, IInv, FlagAgreesWithLog, OneDisposition, Logged
  <2>4. FiledOnce'
    BY <1>10 DEF vars, IInv, FiledOnce, Logged
  <2>5. QED
    BY <2>1, <2>2, <2>3, <2>4 DEF IInv
<1>11. ASSUME NEW output \in BOOLEAN, CmdFilter(output) PROVE IInv'
  BY <1>5, <1>11 DEF CmdFilter
<1>12. CmdNotify \/ CmdReport => IInv'
  BY <1>5, <1>t DEF CmdNotify, CmdReport, views, TypeOK
<1>13. CmdDiscard \/ CmdReject \/ CmdEReject => IInv'
  BY <1>4 DEF CmdDiscard, CmdReject, CmdEReject
<1>14. CmdFails \/ CmdStop => IInv'
  BY <1>7 DEF CmdFails, CmdStop, Running
<1>15. QED
  BY <1>1, <1>2, <1>3, <1>6, <1>8, <1>9, <1>10, <1>11, <1>12, <1>13, <1>14 DEF Next

-----------------------------------------------------------------------------
\* The invariant holds in every state of every run.
THEOREM Invariance == Spec => []IInv
  BY InitIInv, NextIInv, PTL DEF Spec

\* Every field of RuntimeData the model keeps stays within its type.
THEOREM TypeCorrect == Spec => []TypeOK
<1>1. IInv => TypeOK
  BY DEF IInv
<1>2. QED
  BY <1>1, Invariance, PTL

\* A script that runs to its end disposes of the message in exactly one way:
\* the implicit keep is emitted if, and only if, nothing else cancels it.
THEOREM Disposition == Spec => []OneDisposition
<1>1. IInv => OneDisposition
  BY DEF IInv
<1>2. QED
  BY <1>1, Invariance, PTL

\* The eager ImplicitKeep flag and the log never disagree in a run that has
\* not failed.
THEOREM FlagAndLog == Spec => []FlagAgreesWithLog
<1>1. IInv => FlagAgreesWithLog
  BY DEF IInv
<1>2. QED
  BY <1>1, Invariance, PTL

\* The deprecated fields mirror the log in a run that has not failed.
THEOREM ViewsAndLog == Spec => []DeprecatedViewsAgree
<1>1. IInv => DeprecatedViewsAgree
  BY DEF IInv
<1>2. QED
  BY <1>1, Invariance, PTL

\* No mailbox is filed into twice in a run.
THEOREM Filing == Spec => []FiledOnce
<1>1. IInv => FiledOnce
  BY DEF IInv
<1>2. QED
  BY <1>1, Invariance, PTL

\* Within the limit on actions no program is piped to twice.
THEOREM Piping == Spec => []PipedOnceWithinLimit
<1>1. IInv => PipedOnceWithinLimit
  BY DEF IInv
<1>2. QED
  BY <1>1, Invariance, PTL

-----------------------------------------------------------------------------

(* Recording edits of header fields and replaying them over the message is  *)
(* editing the fields in place, for any message, any edits and any          *)
(* patterns. What a replay gives after one more edit follows by induction   *)
(* over the edits; what the deletions of one deleteheader do to the values  *)
(* they were recorded for, by induction over these values.                  *)


(* A part of a sequence.                                                    *)
LEMMA Part ==
  ASSUME NEW S, NEW s \in Seq(S), NEW a \in 1..(Len(s) + 1), NEW b \in (a - 1)..Len(s)
  PROVE  /\ SubSeq(s, a, b) \in Seq(S)
         /\ Len(SubSeq(s, a, b)) = b - a + 1
         /\ \A j \in 1..(b - a + 1) : SubSeq(s, a, b)[j] = s[a + j - 1]
OBVIOUS

(* Two sequences put together.                                              *)
LEMMA Joined ==
  ASSUME NEW S, NEW s \in Seq(S), NEW t \in Seq(S)
  PROVE  /\ s \o t \in Seq(S)
         /\ Len(s \o t) = Len(s) + Len(t)
         /\ \A j \in 1..(Len(s) + Len(t)) : (s \o t)[j] = IF j <= Len(s) THEN s[j] ELSE t[j - Len(s)]
OBVIOUS

(* What is left without the i-th value.                                     *)
LEMMA WithoutIs ==
  ASSUME NEW S, NEW vs \in Seq(S), NEW i \in 1..Len(vs)
  PROVE  /\ Without(vs, i) \in Seq(S)
         /\ Len(Without(vs, i)) = Len(vs) - 1
         /\ \A j \in 1..(Len(vs) - 1) : Without(vs, i)[j] = vs[IF j < i THEN j ELSE j + 1]
<1>1. PICK a, b : a = SubSeq(vs, 1, i - 1) /\ b = SubSeq(vs, i + 1, Len(vs))
  BY Zenon
<1>0. Len(vs) \in Nat
  OBVIOUS
<1>2. a \in Seq(S) /\ Len(a) = i - 1 /\ \A j \in 1..(i - 1) : a[j] = vs[j]
  BY <1>1, <1>0, Part
<1>3. b \in Seq(S) /\ Len(b) = Len(vs) - i /\ \A j \in 1..(Len(vs) - i) : b[j] = vs[i + j]
  <2>1. i + 1 \in 1..(Len(vs) + 1) /\ Len(vs) \in (i + 1 - 1)..Len(vs)
    BY <1>0
  <2>2. /\ b \in Seq(S) /\ Len(b) = Len(vs) - (i + 1) + 1
        /\ \A j \in 1..(Len(vs) - (i + 1) + 1) : b[j] = vs[i + 1 + j - 1]
    BY <1>1, <2>1, Part
  <2> QED BY <1>0, <2>2
<1>4. Without(vs, i) = a \o b
  BY <1>1 DEF Without
<1>5. /\ a \o b \in Seq(S) /\ Len(a \o b) = Len(vs) - 1
      /\ \A j \in 1..(Len(vs) - 1) : (a \o b)[j] = IF j <= i - 1 THEN a[j] ELSE b[j - (i - 1)]
  <2>1. /\ a \o b \in Seq(S) /\ Len(a \o b) = Len(a) + Len(b)
        /\ \A j \in 1..(Len(a) + Len(b)) : (a \o b)[j] = IF j <= Len(a) THEN a[j] ELSE b[j - Len(a)]
    BY <1>2, <1>3, Joined, Zenon
  <2>2. Len(a) + Len(b) = Len(vs) - 1
    BY <1>0, <1>2, <1>3
  <2> QED BY <1>2, <2>1, <2>2, Zenon
<1>6. ASSUME NEW j \in 1..(Len(vs) - 1) PROVE (a \o b)[j] = vs[IF j < i THEN j ELSE j + 1]
  <2>1. CASE j < i
    BY <1>0, <1>2, <1>5, <2>1
  <2>2. CASE j >= i
    <3>1. j - (i - 1) \in 1..(Len(vs) - i) /\ i + (j - (i - 1)) = j + 1
      BY <1>0, <2>2
    <3>2. b[j - (i - 1)] = vs[j + 1]
      BY <1>3, <3>1
    <3> QED BY <1>5, <2>2, <3>2
  <2>3. j < i \/ j >= i
    BY <1>0
  <2> QED BY <2>1, <2>2, <2>3, Zenon
<1> QED BY <1>4, <1>5, <1>6

(* Sequences with the same values are equal.                                *)
LEMMA Same ==
  ASSUME NEW S, NEW s \in Seq(S), NEW t \in Seq(S), Len(s) = Len(t),
         \A i \in 1..Len(s) : s[i] = t[i]
  PROVE  s = t
OBVIOUS

(* Taking a value out from between two sequences.                           *)
LEMMA Middle ==
  ASSUME NEW S, NEW s \in Seq(S), NEW t \in Seq(S), NEW v \in S
  PROVE  Without(s \o (<<v>> \o t), Len(s) + 1) = s \o t
<1>0. Len(s) \in Nat /\ Len(t) \in Nat
  OBVIOUS
<1>1. PICK w, u : w = s \o (<<v>> \o t) /\ u = s \o t
  BY Zenon
<1>2. /\ w \in Seq(S) /\ Len(w) = Len(s) + 1 + Len(t)
      /\ \A i \in 1..Len(w) : w[i] = IF i <= Len(s) THEN s[i]
                                    ELSE IF i = Len(s) + 1 THEN v ELSE t[i - Len(s) - 1]
  <2>1. PICK x : x = <<v>> \o t
    BY Zenon
  <2>2. x \in Seq(S) /\ Len(x) = 1 + Len(t) /\ x[1] = v /\ \A i \in 2..(1 + Len(t)) : x[i] = t[i - 1]
    BY <2>1
  <2>3. /\ w \in Seq(S) /\ Len(w) = Len(s) + Len(x)
        /\ \A i \in 1..(Len(s) + Len(x)) : w[i] = IF i <= Len(s) THEN s[i] ELSE x[i - Len(s)]
    BY <1>1, <2>1, <2>2, Joined, Zenon
  <2>4. ASSUME NEW i \in 1..Len(w), i > Len(s) + 1 PROVE w[i] = t[i - Len(s) - 1]
    <3>1. i - Len(s) \in 2..(1 + Len(t)) /\ i \in 1..(Len(s) + Len(x)) /\ ~(i <= Len(s))
      BY <1>0, <2>2, <2>3, <2>4
    <3>2. w[i] = x[i - Len(s)]
      BY <2>3, <3>1
    <3> QED BY <2>2, <3>1, <3>2
  <2>5. ASSUME NEW i \in 1..Len(w), i <= Len(s) PROVE w[i] = s[i]
    BY <1>0, <2>2, <2>3, <2>5
  <2>6. w[Len(s) + 1] = v
    BY <1>0, <2>2, <2>3
  <2> QED BY <1>0, <2>2, <2>3, <2>4, <2>5, <2>6
<1>3. /\ u \in Seq(S) /\ Len(u) = Len(s) + Len(t)
      /\ \A i \in 1..Len(u) : u[i] = IF i <= Len(s) THEN s[i] ELSE t[i - Len(s)]
  BY <1>1
<1>4. PICK x : x = Without(w, Len(s) + 1)
  OBVIOUS
<1>5. /\ x \in Seq(S)
      /\ Len(x) = Len(w) - 1
      /\ \A j \in 1..(Len(w) - 1) : x[j] = w[IF j < Len(s) + 1 THEN j ELSE j + 1]
  <2>1. Len(s) + 1 \in 1..Len(w)
    BY <1>0, <1>2
  <2> QED BY <1>2, <1>4, <2>1, WithoutIs, Zenon
<1>6. ASSUME NEW j \in 1..Len(u) PROVE x[j] = u[j]
  <2>1. CASE j <= Len(s)
    <3>1. j \in 1..(Len(w) - 1) /\ j \in 1..Len(w) /\ j < Len(s) + 1
      BY <1>0, <1>2, <1>3, <2>1
    <3>2. x[j] = w[j]
      BY <1>5, <3>1, Zenon
    <3> QED BY <1>2, <1>3, <2>1, <3>1, <3>2
  <2>2. CASE j > Len(s)
    <3>1. /\ j + 1 \in 1..Len(w) /\ (j + 1) - Len(s) - 1 = j - Len(s)
          /\ j \in 1..(Len(w) - 1) /\ ~(j < Len(s) + 1)
      BY <1>0, <1>2, <1>3, <2>2
    <3>2. x[j] = w[j + 1]
      BY <1>5, <3>1, Zenon
    <3>3. w[j + 1] = t[j - Len(s)]
      BY <1>0, <1>2, <3>1, <2>2
    <3> QED BY <1>3, <2>2, <3>2, <3>3
  <2> QED BY <1>0, <1>3, <2>1, <2>2
<1>7. x = u
  BY <1>0, <1>2, <1>3, <1>5, <1>6, Same
<1> QED BY <1>1, <1>4, <1>7, Zenon
(* A set of natural numbers has a least one.                                *)
LEMMA Least ==
  ASSUME NEW T, T \subseteq Nat, T # {}
  PROVE  \E n \in T : \A m \in T : n <= m
<1>1. PICK x \in T : \A y \in T : ~(<<y, x>> \in OpToRel(<, Nat))
  BY NatLessThanWellFounded, WFMin, Zenon
<1>2. ASSUME NEW y \in Nat, NEW z \in Nat, y < z PROVE <<y, z>> \in OpToRel(<, Nat)
  BY <1>2 DEF OpToRel
<1>3. \A y \in T : x \in Nat /\ y \in Nat /\ ~(y < x)
  BY <1>1, <1>2, Zenon
<1> QED BY <1>3

(* Induction over the natural numbers, for a set instead of a predicate.    *)
LEMMA Induct ==
  ASSUME NEW S, 0 \in S, \A n \in Nat : n \in S => n + 1 \in S
  PROVE  Nat \subseteq S
<1> SUFFICES ASSUME Nat \ S # {} PROVE FALSE
  OBVIOUS
<1>1. PICK n \in Nat \ S : \A m \in Nat \ S : n <= m
  BY Least, Zenon
<1>2. n # 0 /\ n - 1 \in Nat /\ n - 1 \in S
  BY <1>1
<1> QED BY <1>1, <1>2

(* A loop of N turns over values of V.                                      *)
Loops(f, N, V, start, step) ==
  f \in [0..N -> V] /\ f[0] = start /\ \A i \in 1..N : f[i] = step[i][f[i - 1]]
(* There is one.                                                            *)
LEMMA Recursion ==
  ASSUME NEW N \in Nat, NEW V, NEW start \in V, NEW step \in [1..N -> [V -> V]]
  PROVE  \E f : Loops(f, N, V, start, step)
<1> DEFINE Runs(f, k) == f[0] = start /\ \A i \in 1..k : f[i] = step[i][f[i - 1]]
           S == {k \in Nat : k <= N => \E f \in [0..k -> V] : Runs(f, k)}
<1>1. 0 \in S
  <2>1. [i \in 0..0 |-> start] \in [0..0 -> V] /\ Runs([i \in 0..0 |-> start], 0)
    OBVIOUS
  <2> QED BY <2>1, Zenon
<1>2. ASSUME NEW k \in Nat, k \in S PROVE k + 1 \in S
  <2> SUFFICES ASSUME k + 1 <= N PROVE \E f \in [0..(k + 1) -> V] : Runs(f, k + 1)
    OBVIOUS
  <2>1. PICK f \in [0..k -> V] : Runs(f, k)
    BY <1>2
  <2>2. PICK g : g = [i \in 0..(k + 1) |-> IF i = k + 1 THEN step[k + 1][f[k]] ELSE f[i]]
    BY Zenon
  <2>3. g \in [0..(k + 1) -> V]
    <3>1. k + 1 \in 1..N /\ step[k + 1] \in [V -> V] /\ f[k] \in V
      BY <2>1
    <3>2. step[k + 1][f[k]] \in V
      BY <3>1
    <3>3. \A i \in 0..(k + 1) : i # k + 1 => f[i] \in V
      BY <2>1
    <3> QED BY <2>2, <3>2, <3>3
  <2>4. ASSUME NEW i \in 1..(k + 1) PROVE g[i] = step[i][g[i - 1]]
    <3>1. g[i - 1] = f[i - 1]
      BY <2>2
    <3>2. CASE i = k + 1
      BY <2>2, <3>1, <3>2
    <3>3. CASE i # k + 1
      <4>1. g[i] = f[i] /\ i \in 1..k
        BY <2>2, <3>3
      <4> QED BY <2>1, <3>1, <4>1
    <3> QED BY <3>2, <3>3
  <2>5. g[0] = start
    BY <2>1, <2>2
  <2> QED BY <2>3, <2>4, <2>5
<1>3. N \in S
  <2> HIDE DEF S
  <2> QED BY <1>1, <1>2, Induct, Zenon
<1>4. PICK f \in [0..N -> V] : Runs(f, N)
  BY <1>3
<1>5. Loops(f, N, V, start, step)
  BY <1>4 DEF Loops
<1> QED BY <1>5

-----------------------------------------------------------------------------
(* What an edit does to the values of its field.                            *)
(* The edits the commands record.                                           *)
LEMMA EditIs ==
  ASSUME NEW add \in BOOLEAN, NEW n \in FieldNames, NEW v \in FieldValues, NEW last \in BOOLEAN,
         NEW i \in Nat
  PROVE  Edit(add, n, v, last, i) \in Edits
BY DEF Edit, Edits

Applied(vs, e) ==
  IF e.add THEN IF e.last THEN Append(vs, e.value) ELSE <<e.value>> \o vs
  ELSE IF e.index > 0 THEN IF At(vs, e.index, e.last) \in DOMAIN vs
                           THEN Without(vs, At(vs, e.index, e.last)) ELSE vs
  ELSE IF e.value # "" THEN IF \E i \in DOMAIN vs : vs[i] = e.value
                            THEN Without(vs, First(vs, e.value)) ELSE vs
  ELSE <<>>

(* An edit on values.                                                       *)
LEMMA ApplyIs ==
  ASSUME NEW vs \in Seq(FieldValues), NEW e \in Edits
  PROVE  Apply(e)[vs] = Applied(vs, e)
BY DEF Apply, Applied

(* The first of the values equal to v.                                      *)
LEMMA FirstIs ==
  ASSUME NEW S, NEW vs \in Seq(S), NEW v, NEW k \in DOMAIN vs, vs[k] = v
  PROVE  /\ First(vs, v) \in DOMAIN vs /\ vs[First(vs, v)] = v
         /\ \A j \in 1..(First(vs, v) - 1) : vs[j] # v
<1> DEFINE T == {i \in DOMAIN vs : vs[i] = v}
<1>1. Len(vs) \in Nat /\ DOMAIN vs = 1..Len(vs) /\ T \subseteq Nat /\ k \in T
  OBVIOUS
<1>2. PICK i \in T : \A m \in T : i <= m
  <2> HIDE DEF T
  <2> QED BY <1>1, Least, Zenon
<1>3. i \in DOMAIN vs /\ vs[i] = v /\ \A j \in 1..(i - 1) : vs[j] # v
  BY <1>1, <1>2
<1> QED BY <1>3, Zenon DEF First

(* An edit leaves values.                                                   *)
LEMMA ApplyType ==
  ASSUME NEW vs \in Seq(FieldValues), NEW e \in Edits
  PROVE  Apply(e)[vs] \in Seq(FieldValues)
<1>1. e.add \in BOOLEAN /\ e.value \in FieldValues
  BY DEF Edits
<1>2. /\ Append(vs, e.value) \in Seq(FieldValues) /\ <<e.value>> \o vs \in Seq(FieldValues)
      /\ <<>> \in Seq(FieldValues)
  BY <1>1
<1>3. DOMAIN vs = 1..Len(vs)
  OBVIOUS
<1>4. At(vs, e.index, e.last) \in DOMAIN vs => Without(vs, At(vs, e.index, e.last)) \in Seq(FieldValues)
  BY <1>3, WithoutIs, Zenon
<1>5. ASSUME NEW i \in DOMAIN vs, vs[i] = e.value PROVE Without(vs, First(vs, e.value)) \in Seq(FieldValues)
  <2>1. First(vs, e.value) \in 1..Len(vs)
    BY <1>3, <1>5, FirstIs, Zenon
  <2> QED BY <2>1, WithoutIs, Zenon
<1>6. Applied(vs, e) \in Seq(FieldValues)
  BY <1>2, <1>4, <1>5, Zenon DEF Applied
<1> QED BY <1>6, ApplyIs, Zenon

-----------------------------------------------------------------------------
(* The loop of applyHeaderEditsToValues.                                    *)
Turns(es, n) ==
  CHOOSE f : f = [i \in 0..Len(es) |->
                    IF i = 0 THEN Original[n]
                    ELSE IF es[i].name # n THEN f[i - 1] ELSE Apply(es[i])[f[i - 1]]]

(* It runs through edits of any number.                                     *)
LEMMA Turning ==
  ASSUME NEW es \in Seq(Edits), NEW n \in FieldNames
  PROVE  /\ Turns(es, n) \in [0..Len(es) -> Seq(FieldValues)]
         /\ Turns(es, n)[0] = Original[n]
         /\ \A i \in 1..Len(es) :
              Turns(es, n)[i] = IF es[i].name # n THEN Turns(es, n)[i - 1]
                                ELSE Apply(es[i])[Turns(es, n)[i - 1]]
<1> DEFINE V == Seq(FieldValues)
           Step(i, vs) == IF es[i].name # n THEN vs ELSE Apply(es[i])[vs]
           step == [i \in 1..Len(es) |-> [vs \in V |-> Step(i, vs)]]
           Body(f) == [i \in 0..Len(es) |-> IF i = 0 THEN Original[n] ELSE Step(i, f[i - 1])]
<1>1. Len(es) \in Nat /\ Original[n] \in V /\ \A i \in 1..Len(es) : es[i] \in Edits
  <2>1. Original[n] \in V
    BY FieldsAssumption, Zenon
  <2>2. Len(es) \in Nat /\ \A i \in 1..Len(es) : es[i] \in Edits
    OBVIOUS
  <2> QED BY <2>1, <2>2, Zenon
<1>2. ASSUME NEW i \in 1..Len(es), NEW vs \in V PROVE Step(i, vs) \in V
  BY <1>1, ApplyType, Zenon
<1>3. step \in [1..Len(es) -> [V -> V]]
  <2> HIDE DEF V, Step
  <2> QED BY <1>2
<1>4. PICK f \in [0..Len(es) -> V] : f[0] = Original[n] /\ \A i \in 1..Len(es) : f[i] = step[i][f[i - 1]]
  <2> HIDE DEF step, V
  <2>1. Len(es) \in Nat /\ Original[n] \in V
    BY <1>1
  <2>2. \E f : Loops(f, Len(es), V, Original[n], step)
    BY <1>3, <2>1, Recursion, Zenon
  <2> QED BY <2>2, Zenon DEF Loops
<1>5. ASSUME NEW i \in 1..Len(es) PROVE f[i - 1] \in V /\ f[i] = Step(i, f[i - 1])
  <2> HIDE DEF V, Step
  <2>1. f[i - 1] \in V
    BY <1>1
  <2> QED BY <1>4, <2>1, Zenon
<1>6. f = Body(f)
  <2> HIDE DEF V, Step
  <2> QED BY <1>1, <1>4, <1>5
<1>7. Turns(es, n) = Body(Turns(es, n))
  BY <1>6, Zenon DEF Turns
<1> HIDE DEF V, Step
<1>8. PICK g : g = Turns(es, n)
  OBVIOUS
<1>9. g = Body(g)
  BY <1>7, <1>8, Zenon
<1>10. g[0] = Original[n] /\ \A i \in 1..Len(es) : g[i] = Step(i, g[i - 1])
  BY <1>1, <1>9
<1>11. g \in [0..Len(es) -> V]
  <2> DEFINE S == {k \in Nat : k <= Len(es) => g[k] \in V}
  <2>1. 0 \in S
    BY <1>1, <1>10
  <2>2. ASSUME NEW k \in Nat, k \in S PROVE k + 1 \in S
    <3> SUFFICES ASSUME k + 1 <= Len(es) PROVE g[k + 1] \in V
      OBVIOUS
    <3>1. g[k] \in V /\ k + 1 \in 1..Len(es) /\ (k + 1) - 1 = k
      BY <1>1, <2>2
    <3>2. g[k + 1] = Step(k + 1, g[k])
      BY <1>10, <3>1
    <3> QED BY <1>2, <3>1, <3>2
  <2>3. Nat \subseteq S
    <3> HIDE DEF S
    <3> QED BY <2>1, <2>2, Induct, Zenon
  <2>4. \A k \in 0..Len(es) : g[k] \in V
    BY <1>1, <2>3
  <2> QED BY <1>9, <2>4
<1> QED BY <1>8, <1>10, <1>11 DEF V, Step

(* Its result.                                                              *)
LEMMA Replaying ==
  ASSUME NEW es \in Seq(Edits), NEW n \in FieldNames
  PROVE  /\ applyHeaderEdits(es, n) = Turns(es, n)[Len(es)]
         /\ applyHeaderEdits(es, n) \in Seq(FieldValues)
<1>1. applyHeaderEdits(es, n) = Turns(es, n)[Len(es)]
  BY Zenon DEF applyHeaderEdits, Turns
<1>2. Len(es) \in 0..Len(es)
  OBVIOUS
<1> QED BY <1>1, <1>2, Turning

(* One more edit.                                                           *)
LEMMA OneMore ==
  ASSUME NEW es \in Seq(Edits), NEW n \in FieldNames, NEW e \in Edits
  PROVE  /\ Append(es, e) \in Seq(Edits)
         /\ applyHeaderEdits(Append(es, e), n) =
              IF e.name # n THEN applyHeaderEdits(es, n) ELSE Apply(e)[applyHeaderEdits(es, n)]
<1>1. PICK es1, f, g : es1 = Append(es, e) /\ f = Turns(es, n) /\ g = Turns(es1, n)
  BY Zenon
<1>2. /\ es1 \in Seq(Edits) /\ Len(es) \in Nat /\ Len(es1) = Len(es) + 1
      /\ es1[Len(es) + 1] = e /\ \A i \in 1..Len(es) : es1[i] = es[i]
  BY <1>1
<1>3. /\ f[0] = Original[n]
      /\ \A i \in 1..Len(es) : f[i] = IF es[i].name # n THEN f[i - 1] ELSE Apply(es[i])[f[i - 1]]
  <2>1. \A i \in 1..Len(es) : Turns(es, n)[i] = IF es[i].name # n THEN Turns(es, n)[i - 1]
                                                ELSE Apply(es[i])[Turns(es, n)[i - 1]]
    BY Turning, Zenon
  <2>2. Turns(es, n)[0] = Original[n]
    BY Turning, Zenon
  <2> QED BY <1>1, <2>1, <2>2, Zenon
<1>4. /\ g[0] = Original[n]
      /\ \A i \in 1..Len(es1) : g[i] = IF es1[i].name # n THEN g[i - 1] ELSE Apply(es1[i])[g[i - 1]]
  <2>1. es1 \in Seq(Edits)
    BY <1>2
  <2>2. /\ Turns(es1, n)[0] = Original[n]
        /\ \A i \in 1..Len(es1) :
             Turns(es1, n)[i] = IF es1[i].name # n THEN Turns(es1, n)[i - 1]
                                ELSE Apply(es1[i])[Turns(es1, n)[i - 1]]
    BY <2>1, Turning, Zenon
  <2> QED BY <1>1, <2>2, Zenon
<1>5. g[Len(es)] = f[Len(es)]
  <2> DEFINE S == {k \in Nat : k <= Len(es) => g[k] = f[k]}
  <2>1. 0 \in S
    BY <1>3, <1>4
  <2>2. ASSUME NEW k \in Nat, k \in S PROVE k + 1 \in S
    <3> SUFFICES ASSUME k + 1 <= Len(es) PROVE g[k + 1] = f[k + 1]
      OBVIOUS
    <3>1. g[k] = f[k] /\ k + 1 \in 1..Len(es) /\ (k + 1) - 1 = k /\ k + 1 \in 1..Len(es1)
      BY <1>2, <2>2
    <3>2. es1[k + 1] = es[k + 1]
      BY <1>2, <3>1
    <3>3. g[k + 1] = IF es1[k + 1].name # n THEN g[k] ELSE Apply(es1[k + 1])[g[k]]
      BY <1>4, <3>1
    <3>4. f[k + 1] = IF es[k + 1].name # n THEN f[k] ELSE Apply(es[k + 1])[f[k]]
      BY <1>3, <3>1
    <3> QED BY <3>1, <3>2, <3>3, <3>4, Zenon
  <2>3. Nat \subseteq S
    <3> HIDE DEF S
    <3> QED BY <2>1, <2>2, Induct, Zenon
  <2> QED BY <1>2, <2>3
<1>6. g[Len(es) + 1] = IF e.name # n THEN g[Len(es)] ELSE Apply(e)[g[Len(es)]]
  <2>1. Len(es) + 1 \in 1..Len(es1) /\ (Len(es) + 1) - 1 = Len(es)
    BY <1>2
  <2> QED BY <1>2, <1>4, <2>1
<1>7. applyHeaderEdits(es, n) = f[Len(es)]
  BY <1>1, Replaying, Zenon
<1>8. applyHeaderEdits(es1, n) = g[Len(es) + 1]
  BY <1>1, <1>2, Replaying, Zenon
<1>9. applyHeaderEdits(es1, n) =
        IF e.name # n THEN applyHeaderEdits(es, n) ELSE Apply(e)[applyHeaderEdits(es, n)]
  BY <1>5, <1>6, <1>7, <1>8, Zenon
<1> QED BY <1>1, <1>2, <1>9, Zenon

(* The values deleteheader leaves, value by value.                          *)
Keeping(vs, pattern) ==
  CHOOSE f : f = [i \in 0..Len(vs) |->
                    IF i = 0 THEN <<>>
                    ELSE IF Trim[vs[i]] \in pattern THEN f[i - 1] ELSE Append(f[i - 1], vs[i])]

Keeps(K, vs, pattern) ==
  /\ K \in [0..Len(vs) -> Seq(FieldValues)]
  /\ K[0] = <<>>
  /\ \A i \in 1..Len(vs) : K[i] = IF Trim[vs[i]] \in pattern THEN K[i - 1] ELSE Append(K[i - 1], vs[i])

(* The loop runs through values of any number.                              *)
LEMMA KeepingRuns ==
  ASSUME NEW vs \in Seq(FieldValues), NEW pattern
  PROVE  Keeps(Keeping(vs, pattern), vs, pattern)
<1> DEFINE V == Seq(FieldValues)
           Step(i, x) == IF Trim[vs[i]] \in pattern THEN x ELSE Append(x, vs[i])
           step == [i \in 1..Len(vs) |-> [x \in V |-> Step(i, x)]]
           Body(f) == [i \in 0..Len(vs) |-> IF i = 0 THEN <<>> ELSE Step(i, f[i - 1])]
<1>1. Len(vs) \in Nat /\ <<>> \in V
  OBVIOUS
<1>2. ASSUME NEW i \in 1..Len(vs), NEW x \in V PROVE Step(i, x) \in V
  OBVIOUS
<1>3. step \in [1..Len(vs) -> [V -> V]]
  <2> HIDE DEF V, Step
  <2> QED BY <1>2
<1>4. PICK f \in [0..Len(vs) -> V] : f[0] = <<>> /\ \A i \in 1..Len(vs) : f[i] = step[i][f[i - 1]]
  <2> HIDE DEF step, V
  <2>1. \E f : Loops(f, Len(vs), V, <<>>, step)
    BY <1>1, <1>3, Recursion, Zenon
  <2> QED BY <2>1, Zenon DEF Loops
<1>5. ASSUME NEW i \in 1..Len(vs) PROVE f[i - 1] \in V /\ f[i] = Step(i, f[i - 1])
  <2> HIDE DEF V, Step
  <2>1. f[i - 1] \in V
    BY <1>1
  <2> QED BY <1>4, <2>1
<1>6. f = Body(f)
  <2> HIDE DEF V, Step
  <2> QED BY <1>1, <1>4, <1>5
<1>7. Keeping(vs, pattern) = Body(Keeping(vs, pattern))
  BY <1>6, Zenon DEF Keeping
<1> HIDE DEF V, Step
<1>8. PICK g : g = Keeping(vs, pattern)
  OBVIOUS
<1>9. g = Body(g)
  BY <1>7, <1>8, Zenon
<1>10. g[0] = <<>> /\ \A i \in 1..Len(vs) : g[i] = Step(i, g[i - 1])
  BY <1>1, <1>9
<1>11. g \in [0..Len(vs) -> V]
  <2> DEFINE S == {k \in Nat : k <= Len(vs) => g[k] \in V}
  <2>1. 0 \in S
    BY <1>1, <1>10
  <2>2. ASSUME NEW k \in Nat, k \in S PROVE k + 1 \in S
    <3> SUFFICES ASSUME k + 1 <= Len(vs) PROVE g[k + 1] \in V
      OBVIOUS
    <3>1. g[k] \in V /\ k + 1 \in 1..Len(vs) /\ (k + 1) - 1 = k
      BY <1>1, <2>2
    <3>2. g[k + 1] = Step(k + 1, g[k])
      BY <1>10, <3>1
    <3> QED BY <1>2, <3>1, <3>2
  <2>3. Nat \subseteq S
    <3> HIDE DEF S
    <3> QED BY <2>1, <2>2, Induct, Zenon
  <2>4. \A k \in 0..Len(vs) : g[k] \in V
    BY <1>1, <2>3
  <2> QED BY <1>9, <2>4
<1> QED BY <1>8, <1>10, <1>11, Zenon DEF V, Step, Keeps

(* The deletions it records, value by value.                                *)
Recording(es, n, vs, pattern) ==
  CHOOSE f : f = [i \in 0..Len(vs) |->
                    IF i = 0 THEN es
                    ELSE IF Trim[vs[i]] \notin pattern THEN f[i - 1]
                    ELSE Append(f[i - 1], Edit(FALSE, n, vs[i], FALSE, 0))]

Records(R, es, n, vs, pattern) ==
  /\ R \in [0..Len(vs) -> Seq(Edits)]
  /\ R[0] = es
  /\ \A i \in 1..Len(vs) : R[i] = IF Trim[vs[i]] \notin pattern THEN R[i - 1]
                                 ELSE Append(R[i - 1], Edit(FALSE, n, vs[i], FALSE, 0))

(* That loop, too.                                                          *)
LEMMA RecordingRuns ==
  ASSUME NEW es \in Seq(Edits), NEW n \in FieldNames, NEW vs \in Seq(FieldValues), NEW pattern
  PROVE  Records(Recording(es, n, vs, pattern), es, n, vs, pattern)
<1> DEFINE V == Seq(Edits)
           Step(i, x) == IF Trim[vs[i]] \notin pattern THEN x ELSE Append(x, Edit(FALSE, n, vs[i], FALSE, 0))
           step == [i \in 1..Len(vs) |-> [x \in V |-> Step(i, x)]]
           Body(f) == [i \in 0..Len(vs) |-> IF i = 0 THEN es ELSE Step(i, f[i - 1])]
<1>1. Len(vs) \in Nat /\ es \in V
  OBVIOUS
<1>2. ASSUME NEW i \in 1..Len(vs), NEW x \in V PROVE Step(i, x) \in V
  <2>1. vs[i] \in FieldValues
    OBVIOUS
  <2>2. Edit(FALSE, n, vs[i], FALSE, 0) \in Edits
    BY <2>1, EditIs, Zenon
  <2>3. \A e \in Edits : Append(x, e) \in Seq(Edits)
    OBVIOUS
  <2> QED BY <2>2, <2>3, Zenon
<1>3. step \in [1..Len(vs) -> [V -> V]]
  <2> HIDE DEF V, Step
  <2> QED BY <1>2
<1>4. PICK f \in [0..Len(vs) -> V] : f[0] = es /\ \A i \in 1..Len(vs) : f[i] = step[i][f[i - 1]]
  <2> HIDE DEF step, V
  <2>1. \E f : Loops(f, Len(vs), V, es, step)
    BY <1>1, <1>3, Recursion, Zenon
  <2> QED BY <2>1, Zenon DEF Loops
<1>5. ASSUME NEW i \in 1..Len(vs) PROVE f[i - 1] \in V /\ f[i] = Step(i, f[i - 1])
  <2> HIDE DEF V, Step
  <2>1. f[i - 1] \in V
    BY <1>1
  <2> QED BY <1>4, <2>1, Zenon
<1>6. f = Body(f)
  <2> HIDE DEF V, Step
  <2> QED BY <1>1, <1>4, <1>5
<1>7. Recording(es, n, vs, pattern) = Body(Recording(es, n, vs, pattern))
  BY <1>6, Zenon DEF Recording
<1> HIDE DEF V, Step
<1>8. PICK g : g = Recording(es, n, vs, pattern)
  OBVIOUS
<1>9. g = Body(g)
  BY <1>7, <1>8, Zenon
<1>10. g[0] = es /\ \A i \in 1..Len(vs) : g[i] = Step(i, g[i - 1])
  <2>1. 0 \in 0..Len(vs) /\ \A i \in 1..Len(vs) : i \in 0..Len(vs) /\ i # 0
    BY <1>1
  <2> QED BY <1>9, <2>1, Zenon
<1>11. g \in [0..Len(vs) -> V]
  <2> DEFINE S == {k \in Nat : k <= Len(vs) => g[k] \in V}
  <2>1. 0 \in S
    BY <1>1, <1>10
  <2>2. ASSUME NEW k \in Nat, k \in S PROVE k + 1 \in S
    <3> SUFFICES ASSUME k + 1 <= Len(vs) PROVE g[k + 1] \in V
      OBVIOUS
    <3>1. g[k] \in V /\ k + 1 \in 1..Len(vs) /\ (k + 1) - 1 = k
      BY <1>1, <2>2
    <3>2. g[k + 1] = Step(k + 1, g[k])
      BY <1>10, <3>1
    <3> QED BY <1>2, <3>1, <3>2
  <2>3. Nat \subseteq S
    <3> HIDE DEF S
    <3> QED BY <2>1, <2>2, Induct, Zenon
  <2>4. \A k \in 0..Len(vs) : g[k] \in V
    BY <1>1, <2>3
  <2> QED BY <1>9, <2>4
<1> QED BY <1>8, <1>10, <1>11, Zenon DEF V, Step, Records

-----------------------------------------------------------------------------
(* Putting a value between two sequences.                                   *)
LEMMA Inserted ==
  ASSUME NEW S, NEW s \in Seq(S), NEW t \in Seq(S), NEW v \in S
  PROVE  \A w : w = s \o (<<v>> \o t) =>
           /\ w \in Seq(S) /\ Len(w) = Len(s) + 1 + Len(t)
           /\ w[Len(s) + 1] = v /\ \A i \in 1..Len(s) : w[i] = s[i]
<1>0. Len(s) \in Nat /\ Len(t) \in Nat
  OBVIOUS
<1>1. PICK x : x = <<v>> \o t
  BY Zenon
<1>2. x \in Seq(S) /\ Len(x) = 1 + Len(t) /\ x[1] = v
  BY <1>1
<1>3. /\ s \o x \in Seq(S) /\ Len(s \o x) = Len(s) + Len(x)
      /\ \A i \in 1..(Len(s) + Len(x)) : (s \o x)[i] = IF i <= Len(s) THEN s[i] ELSE x[i - Len(s)]
  <2>1. x \in Seq(S)
    BY <1>2
  <2> QED BY <2>1, Joined, Zenon
<1>4. (s \o x)[Len(s) + 1] = v /\ \A i \in 1..Len(s) : (s \o x)[i] = s[i]
  BY <1>0, <1>2, <1>3
<1>5. Len(s \o x) = Len(s) + 1 + Len(t)
  BY <1>0, <1>2, <1>3
<1> QED BY <1>1, <1>3, <1>4, <1>5, Zenon

(* Without the first v, w is u.                                             *)
RemovesFirst(w, v, u) == (\E i \in DOMAIN w : w[i] = v) /\ Without(w, First(w, v)) = u

(* A value that none before it equals is the first to go.                   *)
LEMMA Removed ==
  ASSUME NEW S, NEW s \in Seq(S), NEW t \in Seq(S), NEW v \in S, \A j \in 1..Len(s) : s[j] # v
  PROVE  RemovesFirst(s \o (<<v>> \o t), v, s \o t)
<1>0. Len(s) \in Nat /\ Len(t) \in Nat
  OBVIOUS
<1>1. PICK w : w = s \o (<<v>> \o t)
  BY Zenon
<1>2. w \in Seq(S) /\ Len(w) = Len(s) + 1 + Len(t) /\ w[Len(s) + 1] = v /\ \A i \in 1..Len(s) : w[i] = s[i]
  <2>1. \A x : x = s \o (<<v>> \o t) =>
           /\ x \in Seq(S) /\ Len(x) = Len(s) + 1 + Len(t)
           /\ x[Len(s) + 1] = v /\ \A i \in 1..Len(s) : x[i] = s[i]
    BY Inserted
  <2> QED BY <1>1, <2>1
<1>3. DOMAIN w = 1..Len(w) /\ Len(s) + 1 \in DOMAIN w
  BY <1>0, <1>2
<1>4. PICK k : k = First(w, v)
  OBVIOUS
<1>5. k \in 1..Len(w) /\ w[k] = v /\ \A j \in 1..(k - 1) : w[j] # v
  BY <1>2, <1>3, <1>4, FirstIs, Zenon
<1>6. k = Len(s) + 1
  <2>1. ~(k <= Len(s))
    BY <1>0, <1>2, <1>5
  <2>2. ~(Len(s) + 1 < k)
    BY <1>0, <1>2, <1>5
  <2> QED BY <1>0, <1>2, <1>5, <2>1, <2>2
<1>7. Without(w, Len(s) + 1) = s \o t
  BY <1>1, Middle, Zenon
<1> QED BY <1>1, <1>2, <1>3, <1>4, <1>6, <1>7, Zenon DEF RemovesFirst

(* The values from the one at p + 1 on.                                     *)
LEMMA Onward ==
  ASSUME NEW S, NEW vs \in Seq(S), NEW p \in Nat, p + 1 <= Len(vs)
  PROVE  /\ SubSeq(vs, p + 2, Len(vs)) \in Seq(S)
         /\ SubSeq(vs, p + 1, Len(vs)) = <<vs[p + 1]>> \o SubSeq(vs, p + 2, Len(vs))
<1>0. Len(vs) \in Nat /\ vs[p + 1] \in S
  OBVIOUS
<1>1. PICK a, b : a = SubSeq(vs, p + 1, Len(vs)) /\ b = SubSeq(vs, p + 2, Len(vs))
  BY Zenon
<1>2. a \in Seq(S) /\ Len(a) = Len(vs) - p /\ \A j \in 1..(Len(vs) - p) : a[j] = vs[p + j]
  <2>1. p + 1 \in 1..(Len(vs) + 1) /\ Len(vs) \in (p + 1 - 1)..Len(vs)
    BY <1>0
  <2>2. /\ a \in Seq(S) /\ Len(a) = Len(vs) - (p + 1) + 1
        /\ \A j \in 1..(Len(vs) - (p + 1) + 1) : a[j] = vs[p + 1 + j - 1]
    BY <1>1, <2>1, Part
  <2> QED BY <1>0, <2>2
<1>3. b \in Seq(S) /\ Len(b) = Len(vs) - p - 1 /\ \A j \in 1..(Len(vs) - p - 1) : b[j] = vs[p + 1 + j]
  <2>1. p + 2 \in 1..(Len(vs) + 1) /\ Len(vs) \in (p + 2 - 1)..Len(vs)
    BY <1>0
  <2>2. /\ b \in Seq(S) /\ Len(b) = Len(vs) - (p + 2) + 1
        /\ \A j \in 1..(Len(vs) - (p + 2) + 1) : b[j] = vs[p + 2 + j - 1]
    BY <1>1, <2>1, Part
  <2>3. Len(vs) - (p + 2) + 1 = Len(vs) - p - 1 /\ \A j \in 1..(Len(vs) - p - 1) : p + 2 + j - 1 = p + 1 + j
    BY <1>0
  <2> QED BY <2>2, <2>3
<1>4. PICK c : c = <<vs[p + 1]>> \o b
  BY Zenon
<1>5. c \in Seq(S) /\ Len(c) = 1 + Len(b) /\ c[1] = vs[p + 1] /\ \A j \in 2..(1 + Len(b)) : c[j] = b[j - 1]
  BY <1>0, <1>3, <1>4
<1>6. ASSUME NEW j \in 1..Len(a) PROVE a[j] = c[j]
  <2>1. CASE j = 1
    BY <1>0, <1>2, <1>5, <2>1
  <2>2. CASE j # 1
    <3>1. /\ j \in 2..(1 + Len(b)) /\ j - 1 \in 1..(Len(vs) - p - 1)
          /\ p + 1 + (j - 1) = p + j /\ j \in 1..(Len(vs) - p)
      BY <1>0, <1>2, <1>3, <2>2
    <3>2. c[j] = b[j - 1] /\ b[j - 1] = vs[p + j] /\ a[j] = vs[p + j]
      BY <1>2, <1>3, <1>5, <3>1
    <3> QED BY <3>2
  <2> QED BY <2>1, <2>2
<1>7. Len(a) = Len(c)
  BY <1>0, <1>2, <1>3, <1>5
<1>8. a = c
  BY <1>2, <1>5, <1>6, <1>7, Same
<1> QED BY <1>1, <1>3, <1>4, <1>8, Zenon

(* Moving a value over.                                                     *)
LEMMA Moved ==
  ASSUME NEW S, NEW s \in Seq(S), NEW t \in Seq(S), NEW v \in S
  PROVE  s \o (<<v>> \o t) = Append(s, v) \o t
<1>0. Len(s) \in Nat /\ Len(t) \in Nat
  OBVIOUS
<1>1. PICK x, y : x = <<v>> \o t /\ y = Append(s, v)
  BY Zenon
<1>2. x \in Seq(S) /\ Len(x) = 1 + Len(t) /\ x[1] = v /\ \A j \in 2..(1 + Len(t)) : x[j] = t[j - 1]
  BY <1>1
<1>3. y \in Seq(S) /\ Len(y) = Len(s) + 1 /\ y[Len(s) + 1] = v /\ \A j \in 1..Len(s) : y[j] = s[j]
  BY <1>1
<1>4. PICK a, b : a = s \o x /\ b = y \o t
  BY Zenon
<1>5. /\ a \in Seq(S) /\ Len(a) = Len(s) + Len(x)
      /\ \A j \in 1..(Len(s) + Len(x)) : a[j] = IF j <= Len(s) THEN s[j] ELSE x[j - Len(s)]
  BY <1>2, <1>4, Joined, Zenon
<1>6. /\ b \in Seq(S) /\ Len(b) = Len(y) + Len(t)
      /\ \A j \in 1..(Len(y) + Len(t)) : b[j] = IF j <= Len(y) THEN y[j] ELSE t[j - Len(y)]
  <2>1. y \in Seq(S)
    BY <1>3
  <2>2. /\ y \o t \in Seq(S) /\ Len(y \o t) = Len(y) + Len(t)
        /\ \A j \in 1..(Len(y) + Len(t)) : (y \o t)[j] = IF j <= Len(y) THEN y[j] ELSE t[j - Len(y)]
    BY <2>1, Joined, Zenon
  <2> QED BY <1>4, <2>2, Zenon
<1>7. Len(a) = Len(b) /\ Len(a) = Len(s) + 1 + Len(t)
  BY <1>0, <1>2, <1>3, <1>5, <1>6
<1>8. ASSUME NEW j \in 1..Len(a) PROVE a[j] = b[j]
  <2>0. j \in 1..(Len(s) + Len(x)) /\ j \in 1..(Len(y) + Len(t))
    BY <1>0, <1>2, <1>3, <1>7
  <2>1. CASE j <= Len(s)
    <3>1. a[j] = s[j] /\ j \in 1..Len(s) /\ j <= Len(y)
      BY <1>0, <1>3, <1>5, <2>0, <2>1
    <3> QED BY <1>3, <1>6, <2>0, <3>1
  <2>2. CASE j = Len(s) + 1
    <3>1. ~(j <= Len(s)) /\ j <= Len(y) /\ j - Len(s) = 1
      BY <1>0, <1>3, <2>2
    <3> QED BY <1>2, <1>3, <1>5, <1>6, <2>0, <2>2, <3>1
  <2>3. CASE j > Len(s) + 1
    <3>1. ~(j <= Len(s)) /\ ~(j <= Len(y)) /\ j - Len(s) \in 2..(1 + Len(t)) /\ j - Len(s) - 1 = j - Len(y)
      BY <1>0, <1>3, <1>7, <2>3
    <3>2. a[j] = x[j - Len(s)] /\ b[j] = t[j - Len(y)]
      BY <1>5, <1>6, <2>0, <3>1, Zenon
    <3>3. x[j - Len(s)] = t[j - Len(s) - 1]
      BY <1>2, <3>1
    <3> QED BY <3>1, <3>2, <3>3
  <2>4. j <= Len(s) \/ j = Len(s) + 1 \/ j > Len(s) + 1
    BY <1>0
  <2> QED BY <2>1, <2>2, <2>3, <2>4, Zenon
<1>9. a = b
  BY <1>5, <1>6, <1>7, <1>8, Same, Zenon
<1> QED BY <1>1, <1>4, <1>9, Zenon

-----------------------------------------------------------------------------
(* A value that is empty and matches is among the first p.                  *)
Blank == ""
Emptied(vs, pattern, p) == \E j \in 1..p : vs[j] = Blank /\ Trim[vs[j]] \in pattern

(* What the deletions of the first p values do to the fields.               *)
Deleted(es, n, vs, pattern, p) ==
  LET rs == Recording(es, n, vs, pattern)[p]
      ks == Keeping(vs, pattern)[p]
  IN  /\ \A m \in FieldNames : m # n => applyHeaderEdits(rs, m) = applyHeaderEdits(es, m)
      /\ applyHeaderEdits(rs, n) =
           IF Emptied(vs, pattern, p) THEN <<>> ELSE ks \o SubSeq(vs, p + 1, Len(vs))
      /\ \A j \in 1..Len(ks) : Trim[ks[j]] \notin pattern

(* Deleting one value that matches.                                         *)
LEMMA DeleteOne ==
  ASSUME NEW n \in FieldNames, NEW v \in FieldValues, NEW cur \in Seq(FieldValues)
  PROVE  LET e == Edit(FALSE, n, v, FALSE, 0)
         IN  /\ e \in Edits /\ e.name = n
             /\ Apply(e)[cur] = IF v # Blank THEN IF \E i \in DOMAIN cur : cur[i] = v
                                              THEN Without(cur, First(cur, v)) ELSE cur
                                ELSE <<>>
<1>1. PICK e : e = Edit(FALSE, n, v, FALSE, 0)
  BY Zenon
<1>2. e \in Edits
  BY <1>1, EditIs, Zenon
<1>3. e.add = FALSE /\ e.name = n /\ e.value = v /\ e.index = 0
  BY <1>1 DEF Edit
<1>4. ~(e.index > 0)
  BY <1>3
<1>5. Apply(e)[cur] = Applied(cur, e)
  BY <1>2, ApplyIs, Zenon
<1>6. Applied(cur, e) = IF v # Blank THEN IF \E i \in DOMAIN cur : cur[i] = v
                                      THEN Without(cur, First(cur, v)) ELSE cur
                       ELSE <<>>
  BY <1>3, <1>4, Zenon DEF Applied, Blank
<1> QED BY <1>1, <1>2, <1>3, <1>5, <1>6, Zenon

(* One more of the values.                                                  *)
LEMMA Deleting ==
  ASSUME NEW es \in Seq(Edits), NEW n \in FieldNames, NEW vs \in Seq(FieldValues), NEW pattern,
         NEW p \in Nat, p + 1 <= Len(vs), Deleted(es, n, vs, pattern, p)
  PROVE  Deleted(es, n, vs, pattern, p + 1)
<1>1. vs \in Seq(FieldValues)
  OBVIOUS
<1>2. PICK R, K : R = Recording(es, n, vs, pattern) /\ K = Keeping(vs, pattern)
  OBVIOUS
<1>3. PICK v, rest : v = vs[p + 1] /\ rest = SubSeq(vs, p + 2, Len(vs))
  BY Zenon
<1>4. Len(vs) \in Nat /\ p \in 0..Len(vs) /\ p + 1 \in 1..Len(vs) /\ (p + 1) - 1 = p /\ (p + 1) + 1 = p + 2
  BY <1>1
<1>5. v \in FieldValues
  BY <1>1, <1>3, <1>4
<1>6. rest \in Seq(FieldValues) /\ SubSeq(vs, p + 1, Len(vs)) = <<v>> \o rest
  BY <1>1, <1>3, Onward, Zenon
<1>7. Records(R, es, n, vs, pattern)
  BY <1>1, <1>2, RecordingRuns, Zenon
<1>8. Keeps(K, vs, pattern)
  BY <1>1, <1>2, KeepingRuns, Zenon
<1>9. PICK r, k : r = R[p] /\ k = K[p]
  OBVIOUS
<1>10. r \in Seq(Edits) /\ k \in Seq(FieldValues)
  BY <1>4, <1>7, <1>8, <1>9, Zenon DEF Records, Keeps
<1>11. R[p + 1] = IF Trim[v] \notin pattern THEN r ELSE Append(r, Edit(FALSE, n, v, FALSE, 0))
  BY <1>3, <1>4, <1>7, <1>9, Zenon DEF Records
<1>12. K[p + 1] = IF Trim[v] \in pattern THEN k ELSE Append(k, v)
  BY <1>3, <1>4, <1>8, <1>9 DEF Keeps
<1>13. /\ \A m \in FieldNames : m # n => applyHeaderEdits(r, m) = applyHeaderEdits(es, m)
       /\ applyHeaderEdits(r, n) = IF Emptied(vs, pattern, p) THEN <<>> ELSE k \o (<<v>> \o rest)
       /\ \A j \in 1..Len(k) : Trim[k[j]] \notin pattern
  BY <1>2, <1>6, <1>9, Zenon DEF Deleted
<1>14. /\ Emptied(vs, pattern, p) \/ (v = Blank /\ Trim[v] \in pattern) => Emptied(vs, pattern, p + 1)
       /\ Emptied(vs, pattern, p + 1) => Emptied(vs, pattern, p) \/ (v = Blank /\ Trim[v] \in pattern)
  <2>1. \A j : j \in 1..(p + 1) => j \in 1..p \/ j = p + 1
    BY <1>4
  <2>2. \A j : j \in 1..p \/ j = p + 1 => j \in 1..(p + 1)
    BY <1>4
  <2> QED BY <1>3, <2>1, <2>2, Zenon DEF Emptied
<1> SUFFICES /\ \A m \in FieldNames : m # n => applyHeaderEdits(R[p + 1], m) = applyHeaderEdits(es, m)
             /\ applyHeaderEdits(R[p + 1], n) =
                  IF Emptied(vs, pattern, p + 1) THEN <<>> ELSE K[p + 1] \o rest
             /\ \A j \in 1..Len(K[p + 1]) : Trim[K[p + 1][j]] \notin pattern
  BY <1>2, <1>3, <1>4, Zenon DEF Deleted
<1>15. CASE Trim[v] \notin pattern
  <2>1. R[p + 1] = r /\ K[p + 1] = Append(k, v) /\ (Emptied(vs, pattern, p + 1) <=> Emptied(vs, pattern, p))
    BY <1>11, <1>12, <1>14, <1>15, Zenon DEF Emptied
  <2>2. k \o (<<v>> \o rest) = Append(k, v) \o rest
    <3>1. rest \in Seq(FieldValues) /\ k \in Seq(FieldValues)
      BY <1>6, <1>10
    <3> QED BY <1>5, <3>1, Moved
  <2>3. \A j \in 1..Len(Append(k, v)) : Append(k, v)[j] = IF j \in 1..Len(k) THEN k[j] ELSE v
    BY <1>10
  <2>4. \A j \in 1..Len(Append(k, v)) : Trim[Append(k, v)[j]] \notin pattern
    BY <1>13, <1>15, <2>3, Zenon
  <2> QED BY <1>13, <2>1, <2>2, <2>4, Zenon
<1>16. CASE Trim[v] \in pattern
  <2>1. PICK e : e = Edit(FALSE, n, v, FALSE, 0)
    BY Zenon
  <2>2. PICK cur : cur = applyHeaderEdits(r, n)
    OBVIOUS
  <2>3. cur \in Seq(FieldValues)
    BY <1>10, <2>2, Replaying, Zenon
  <2>4. e \in Edits /\ e.name = n
        /\ Apply(e)[cur] = IF v # Blank THEN IF \E i \in DOMAIN cur : cur[i] = v
                                         THEN Without(cur, First(cur, v)) ELSE cur
                           ELSE <<>>
    BY <1>5, <2>1, <2>3, DeleteOne, Zenon
  <2>5. R[p + 1] = Append(r, e) /\ K[p + 1] = k
    BY <1>11, <1>12, <1>16, <2>1, Zenon
  <2>6. \A m \in FieldNames : m # n => applyHeaderEdits(R[p + 1], m) = applyHeaderEdits(r, m)
    <3>1. \A m \in FieldNames : applyHeaderEdits(Append(r, e), m) =
             IF e.name # m THEN applyHeaderEdits(r, m) ELSE Apply(e)[applyHeaderEdits(r, m)]
      <4>1. r \in Seq(Edits) /\ e \in Edits
        BY <1>10, <2>4
      <4> QED BY <4>1, OneMore, Zenon
    <3>2. e.name = n
      BY <2>4
    <3> QED BY <2>5, <3>1, <3>2, Zenon
  <2>7. applyHeaderEdits(R[p + 1], n) = Apply(e)[cur]
    <3>1. r \in Seq(Edits) /\ e \in Edits /\ e.name = n
      BY <1>10, <2>4
    <3>2. applyHeaderEdits(Append(r, e), n) =
            IF e.name # n THEN applyHeaderEdits(r, n) ELSE Apply(e)[applyHeaderEdits(r, n)]
      BY <3>1, OneMore, Zenon
    <3> QED BY <2>2, <2>5, <3>1, <3>2, Zenon
  <2>8. Apply(e)[cur] = IF Emptied(vs, pattern, p + 1) THEN <<>> ELSE k \o rest
    <3>1. CASE v = Blank
      BY <1>14, <1>16, <2>4, <3>1, Zenon
    <3>2. CASE v # Blank /\ Emptied(vs, pattern, p)
      <4>1. cur = <<>>
        BY <1>13, <2>2, <3>2, Zenon
      <4>2. ~ \E i \in DOMAIN cur : cur[i] = v
        BY <4>1
      <4>3. Apply(e)[cur] = <<>>
        BY <2>4, <3>2, <4>1, <4>2
      <4>4. Emptied(vs, pattern, p + 1)
        BY <1>14, <3>2, Zenon
      <4> QED BY <4>3, <4>4
    <3>3. CASE v # Blank /\ ~Emptied(vs, pattern, p)
      <4>1. cur = k \o (<<v>> \o rest)
        BY <1>13, <2>2, <3>3, Zenon
      <4>2. \A j \in 1..Len(k) : k[j] # v
        BY <1>13, <1>16, Zenon
      <4>3. (\E i \in DOMAIN cur : cur[i] = v) /\ Without(cur, First(cur, v)) = k \o rest
        <5>1. rest \in Seq(FieldValues) /\ k \in Seq(FieldValues)
          BY <1>6, <1>10
        <5>2. RemovesFirst(k \o (<<v>> \o rest), v, k \o rest)
          BY <1>5, <4>2, <5>1, Removed, Zenon
        <5> QED BY <4>1, <5>2, Zenon DEF RemovesFirst
      <4> QED BY <1>14, <2>4, <3>3, <4>3, Zenon
    <3> QED BY <3>1, <3>2, <3>3, Zenon
  <2> QED BY <1>13, <2>5, <2>6, <2>7, <2>8, Zenon
<1> QED BY <1>15, <1>16, Zenon

(* What the deletions of all values do.                                     *)
DeletesAll(ds, es, n, vs, pattern) ==
  /\ ds \in Seq(Edits)
  /\ \A m \in FieldNames : m # n => applyHeaderEdits(ds, m) = applyHeaderEdits(es, m)
  /\ applyHeaderEdits(ds, n) = IF Emptied(vs, pattern, Len(vs)) THEN <<>>
                               ELSE Keeping(vs, pattern)[Len(vs)]

(* The deletions of one command delete what it matched.                     *)
LEMMA Deletes ==
  ASSUME NEW es \in Seq(Edits), NEW n \in FieldNames, NEW vs, vs = applyHeaderEdits(es, n), NEW pattern
  PROVE  DeletesAll(Deletions(es, n, vs, pattern), es, n, vs, pattern)
<1>1. vs \in Seq(FieldValues)
  BY Replaying, Zenon
<1>2. Len(vs) \in Nat
  BY <1>1
<1>3. PICK R, K : R = Recording(es, n, vs, pattern) /\ K = Keeping(vs, pattern)
  OBVIOUS
<1>4. Records(R, es, n, vs, pattern)
  BY <1>1, <1>3, RecordingRuns, Zenon
<1>5. Keeps(K, vs, pattern)
  BY <1>1, <1>3, KeepingRuns, Zenon
<1>6. Deleted(es, n, vs, pattern, 0)
  <2>1. R[0] = es /\ K[0] = <<>>
    BY <1>4, <1>5, Zenon DEF Records, Keeps
  <2>2. ~Emptied(vs, pattern, 0)
    <3>1. ~ \E j : j \in 1..0
      OBVIOUS
    <3> QED BY <3>1, Zenon DEF Emptied
  <2>3. <<>> \o SubSeq(vs, 0 + 1, Len(vs)) = vs
    BY <1>1
  <2>4. \A j \in 1..Len(<<>>) : Trim[<<>>[j]] \notin pattern
    OBVIOUS
  <2> QED BY <1>3, <2>1, <2>2, <2>3, <2>4, Zenon DEF Deleted
<1>7. Deleted(es, n, vs, pattern, Len(vs))
  <2> DEFINE S == {p \in Nat : p <= Len(vs) => Deleted(es, n, vs, pattern, p)}
  <2>1. 0 \in S
    BY <1>6
  <2>2. ASSUME NEW p \in Nat, p \in S PROVE p + 1 \in S
    <3> SUFFICES ASSUME p + 1 <= Len(vs) PROVE Deleted(es, n, vs, pattern, p + 1)
      OBVIOUS
    <3>1. Deleted(es, n, vs, pattern, p)
      BY <1>2, <2>2
    <3> QED BY <1>1, <3>1, Deleting, Zenon
  <2>3. Nat \subseteq S
    <3> HIDE DEF S
    <3> QED BY <2>1, <2>2, Induct, Zenon
  <2> QED BY <1>2, <2>3
<1>8. Deletions(es, n, vs, pattern) = R[Len(vs)]
  BY <1>3, Zenon DEF Deletions, Recording
<1>9. R[Len(vs)] \in Seq(Edits) /\ K[Len(vs)] \in Seq(FieldValues)
  BY <1>2, <1>4, <1>5 DEF Records, Keeps
<1>10. K[Len(vs)] \o SubSeq(vs, Len(vs) + 1, Len(vs)) = K[Len(vs)]
  <2>1. SubSeq(vs, Len(vs) + 1, Len(vs)) = <<>>
    BY <1>1, <1>2
  <2>2. \A k \in Seq(FieldValues) : k \o <<>> = k
    OBVIOUS
  <2> QED BY <1>9, <2>1, <2>2, Zenon
<1>11. /\ \A m \in FieldNames : m # n => applyHeaderEdits(R[Len(vs)], m) = applyHeaderEdits(es, m)
       /\ applyHeaderEdits(R[Len(vs)], n) =
            IF Emptied(vs, pattern, Len(vs)) THEN <<>> ELSE K[Len(vs)] \o SubSeq(vs, Len(vs) + 1, Len(vs))
  BY <1>3, <1>7, Zenon DEF Deleted
<1> QED BY <1>3, <1>8, <1>9, <1>10, <1>11, Zenon DEF DeletesAll

-----------------------------------------------------------------------------
(* The fields as the edits leave them.                                      *)
FieldsOf(es) == [n \in FieldNames |-> applyHeaderEdits(es, n)]

(* One more edit changes the field it names.                                *)
LEMMA PuttingOne ==
  ASSUME NEW es \in Seq(Edits), NEW e \in Edits
  PROVE  /\ Append(es, e) \in Seq(Edits)
         /\ FieldsOf(Append(es, e)) = [FieldsOf(es) EXCEPT ![e.name] = Apply(e)[applyHeaderEdits(es, e.name)]]
<1>1. e.name \in FieldNames
  BY DEF Edits
<1>2. \A m \in FieldNames : m # e.name => applyHeaderEdits(Append(es, e), m) = applyHeaderEdits(es, m)
  BY OneMore, Zenon
<1>3. applyHeaderEdits(Append(es, e), e.name) = Apply(e)[applyHeaderEdits(es, e.name)]
  BY <1>1, OneMore, Zenon
<1>4. Append(es, e) \in Seq(Edits)
  OBVIOUS
<1> QED BY <1>1, <1>2, <1>3, <1>4, Zenon DEF FieldsOf

(* The edits are edits.                                                     *)
EditsOK == edits \in Seq(Edits)

(* addheader.                                                               *)
LEMMA Adding ==
  ASSUME EditsOK, NEW n \in FieldNames, NEW v \in FieldValues, NEW last \in BOOLEAN, CmdAddHeader(n, v, last)
  PROVE  EditsOK' /\ Fields!Add(n, v, last)
<1>1. PICK e : e = Edit(TRUE, n, v, last, 0)
  BY Zenon
<1>2. e \in Edits
  BY <1>1, EditIs, Zenon
<1>3. e.add = TRUE /\ e.name = n /\ e.value = v /\ e.last = last
  BY <1>1 DEF Edit
<1>4. edits \in Seq(Edits) /\ edits' = Append(edits, e)
  BY <1>1, Zenon DEF EditsOK, CmdAddHeader
<1>5. /\ Append(edits, e) \in Seq(Edits)
      /\ FieldsOf(Append(edits, e)) =
           [FieldsOf(edits) EXCEPT ![e.name] = Apply(e)[applyHeaderEdits(edits, e.name)]]
  BY <1>2, <1>4, PuttingOne, Zenon
<1>6. PICK vs : vs = applyHeaderEdits(edits, n)
  OBVIOUS
<1>7. vs \in Seq(FieldValues) /\ FieldsOf(edits)[n] = vs
  BY <1>4, <1>6, Replaying, Zenon DEF FieldsOf
<1>8. Apply(e)[vs] = IF last THEN Append(vs, v) ELSE <<v>> \o vs
  BY <1>2, <1>3, <1>7, ApplyIs, Zenon DEF Applied
<1>9. FieldsOf(edits') = [FieldsOf(edits) EXCEPT ![n] = IF last THEN Append(FieldsOf(edits)[n], v)
                                                       ELSE <<v>> \o FieldsOf(edits)[n]]
  BY <1>3, <1>4, <1>5, <1>6, <1>7, <1>8, Zenon
<1>10. EditsOK'
  BY <1>4, <1>5, Zenon DEF EditsOK
<1> QED BY <1>9, <1>10, Zenon DEF Fields!Add, Fields!Put, FieldsOf

(* An index that names a value.                                             *)
LEMMA AtIs ==
  ASSUME NEW S, NEW vs \in Seq(S), NEW i \in Nat, NEW last \in BOOLEAN, i > 0, At(vs, i, last) \in DOMAIN vs
  PROVE  i \in 1..Len(vs)
BY DEF At

(* A deletion by index.                                                     *)
LEMMA DeletingAt ==
  ASSUME EditsOK, NEW n \in FieldNames, NEW i \in Nat, NEW last \in BOOLEAN, n \notin Protected,
         edits' = Append(edits, Edit(FALSE, n, "", last, i)), last => i > 0
  PROVE  /\ EditsOK'
         /\ \/ FieldsOf(edits') = FieldsOf(edits)
            \/ Fields!DeleteAll(n)
            \/ \E k \in 1..Len(FieldsOf(edits)[n]), l \in BOOLEAN : Fields!DeleteAt(n, k, l)
<1>1. PICK e : e = Edit(FALSE, n, "", last, i)
  BY Zenon
<1>2. e \in Edits
  <2>1. "" \in FieldValues
    BY FieldsAssumption, Zenon
  <2> QED BY <1>1, <2>1, EditIs, Zenon
<1>3. e.add = FALSE /\ e.name = n /\ e.value = "" /\ e.last = last /\ e.index = i
  BY <1>1, Zenon DEF Edit
<1>4. edits \in Seq(Edits) /\ edits' = Append(edits, e)
  BY <1>1, Zenon DEF EditsOK
<1>5. /\ Append(edits, e) \in Seq(Edits)
      /\ FieldsOf(Append(edits, e)) =
           [FieldsOf(edits) EXCEPT ![e.name] = Apply(e)[applyHeaderEdits(edits, e.name)]]
  BY <1>2, <1>4, PuttingOne, Zenon
<1>6. PICK vs : vs = applyHeaderEdits(edits, n)
  BY Zenon
<1>7. vs \in Seq(FieldValues) /\ FieldsOf(edits)[n] = vs
  BY <1>4, <1>6, Replaying, Zenon DEF FieldsOf
<1>8. Apply(e)[vs] = IF i > 0 THEN IF At(vs, i, last) \in DOMAIN vs THEN Without(vs, At(vs, i, last)) ELSE vs
                    ELSE <<>>
  BY <1>2, <1>3, <1>7, ApplyIs, Zenon DEF Applied
<1>9. FieldsOf(edits') = [FieldsOf(edits) EXCEPT ![n] = Apply(e)[vs]]
  BY <1>3, <1>4, <1>5, <1>6, Zenon
<1>10. EditsOK'
  BY <1>4, <1>5, Zenon DEF EditsOK
<1>11. CASE ~(i > 0)
  <2>1. FieldsOf(edits') = [FieldsOf(edits) EXCEPT ![n] = <<>>]
    BY <1>8, <1>9, <1>11, Zenon
  <2>2. Fields!DeleteAll(n)
    BY <2>1, Zenon DEF Fields!DeleteAll, Fields!Put, FieldsOf
  <2> QED BY <1>10, <2>2, Zenon
<1>12. CASE i > 0 /\ At(vs, i, last) \in DOMAIN vs
  <2>1. FieldsOf(edits') =
          [FieldsOf(edits) EXCEPT ![n] = Without(FieldsOf(edits)[n], At(FieldsOf(edits)[n], i, last))]
    BY <1>7, <1>8, <1>9, <1>12, Zenon
  <2>2. Fields!DeleteAt(n, i, last)
    BY <2>1, Zenon DEF Fields!DeleteAt, Fields!Place, Fields!Put, FieldsOf, Without, At
  <2>3. i \in 1..Len(vs)
    BY <1>7, <1>12, AtIs, Zenon
  <2> QED BY <1>7, <1>10, <2>2, <2>3, Zenon
<1>13. CASE i > 0 /\ At(vs, i, last) \notin DOMAIN vs
  <2>1. FieldsOf(edits') = [FieldsOf(edits) EXCEPT ![n] = FieldsOf(edits)[n]]
    BY <1>7, <1>8, <1>9, <1>13, Zenon
  <2>2. [FieldsOf(edits) EXCEPT ![n] = FieldsOf(edits)[n]] = FieldsOf(edits)
    BY Zenon DEF FieldsOf
  <2> QED BY <1>10, <2>1, <2>2, Zenon
<1> QED BY <1>11, <1>12, <1>13, Zenon

(* A deletion by value.                                                     *)
LEMMA DeletingMatching ==
  ASSUME EditsOK, NEW n \in FieldNames, NEW pattern, CmdDeleteHeaderMatching(n, pattern)
  PROVE  EditsOK' /\ Fields!DeleteMatching(n, pattern)
<1>1. PICK vs : vs = applyHeaderEdits(edits, n) /\ edits' = Deletions(edits, n, vs, pattern)
  BY Zenon DEF CmdDeleteHeaderMatching
<1>2. edits \in Seq(Edits)
  BY DEF EditsOK
<1>3. vs \in Seq(FieldValues) /\ FieldsOf(edits)[n] = vs
  BY <1>1, <1>2, Replaying, Zenon DEF FieldsOf
<1>4. PICK us : us = IF Emptied(vs, pattern, Len(vs)) THEN <<>> ELSE Keeping(vs, pattern)[Len(vs)]
  OBVIOUS
<1>5. /\ edits' \in Seq(Edits)
      /\ \A m \in FieldNames : m # n => applyHeaderEdits(edits', m) = applyHeaderEdits(edits, m)
      /\ applyHeaderEdits(edits', n) = us
  <2>1. DeletesAll(edits', edits, n, vs, pattern)
    BY <1>1, <1>2, Deletes, Zenon
  <2> QED BY <1>4, <2>1, Zenon DEF DeletesAll
<1>6. FieldsOf(edits') = [FieldsOf(edits) EXCEPT ![n] = us]
  BY <1>5, Zenon DEF FieldsOf
<1>7. Emptied(vs, pattern, Len(vs)) <=> ("" \in pattern /\ \E i \in DOMAIN vs : vs[i] = "")
  <2>1. DOMAIN vs = 1..Len(vs)
    BY <1>3
  <2>2. Trim[""] = ""
    BY FieldsAssumption, Zenon
  <2> QED BY <2>1, <2>2, Zenon DEF Emptied, Blank
<1>8. Fields!Kept(vs, pattern) = Keeping(vs, pattern)[Len(vs)]
  BY Zenon DEF Fields!Kept, Keeping
<1>9. us = IF "" \in pattern /\ \E i \in DOMAIN vs : vs[i] = "" THEN <<>> ELSE Fields!Kept(vs, pattern)
  BY <1>4, <1>7, <1>8, Zenon DEF Emptied
<1>10. FieldsOf(edits') =
         [FieldsOf(edits) EXCEPT ![n] =
            IF "" \in pattern /\ \E i \in DOMAIN FieldsOf(edits)[n] : FieldsOf(edits)[n][i] = "" THEN <<>>
            ELSE Fields!Kept(FieldsOf(edits)[n], pattern)]
  BY <1>3, <1>6, <1>9, Zenon
<1>11. Fields!DeleteMatching(n, pattern)
  BY <1>10, Zenon DEF Fields!DeleteMatching, Fields!Put, FieldsOf
<1> QED BY <1>5, <1>11, Zenon DEF EditsOK

(* Recording edits and replaying them is editing in place.                  *)
THEOREM Replays == EditsSpec => ReplaysAsEdited
<1>1. ASSUME EditsInit PROVE EditsOK /\ Fields!FieldsInit
  <2>1. edits = <<>> /\ edits \in Seq(Edits) /\ Len(edits) = 0
    BY <1>1 DEF EditsInit
  <2>2. \A n \in FieldNames : applyHeaderEdits(edits, n) = Original[n]
    <3> TAKE n \in FieldNames
    <3>1. edits \in Seq(Edits)
      BY <2>1
    <3>2. applyHeaderEdits(edits, n) = Turns(edits, n)[Len(edits)]
      BY <3>1, Replaying, Zenon
    <3>3. Turns(edits, n)[0] = Original[n]
      BY <3>1, Turning, Zenon
    <3> QED BY <2>1, <3>2, <3>3
  <2>3. Original \in [FieldNames -> Seq(FieldValues)]
    BY FieldsAssumption, Zenon
  <2>4. FieldsOf(edits) = Original
    BY <2>2, <2>3 DEF FieldsOf
  <2> QED BY <2>1, <2>4, Zenon DEF EditsOK, Fields!FieldsInit, FieldsOf
<1>2. ASSUME EditsOK, [EditsNext]_edits
      PROVE  EditsOK' /\ (Fields!FieldsNext \/ FieldsOf(edits') = FieldsOf(edits))
  <2>1. CASE UNCHANGED edits
    BY <1>2, <2>1, Zenon DEF EditsOK
  <2>2. ASSUME NEW n \in FieldNames, NEW last \in BOOLEAN, NEW v \in FieldValues, CmdAddHeader(n, v, last)
        PROVE  EditsOK' /\ Fields!FieldsNext
    BY <1>2, <2>2, Adding, Zenon DEF Fields!FieldsNext
  <2>3. ASSUME NEW n \in FieldNames, NEW last \in BOOLEAN, NEW i \in Nat, last => i > 0, n \notin Protected,
               edits' = Append(edits, Edit(FALSE, n, "", last, i))
        PROVE  EditsOK' /\ (Fields!FieldsNext \/ FieldsOf(edits') = FieldsOf(edits))
    <3>1. /\ EditsOK'
          /\ \/ FieldsOf(edits') = FieldsOf(edits)
             \/ Fields!DeleteAll(n)
             \/ \E k \in 1..Len(FieldsOf(edits)[n]), l \in BOOLEAN : Fields!DeleteAt(n, k, l)
      BY <1>2, <2>3, DeletingAt, Zenon
    <3> QED BY <2>3, <3>1, Zenon DEF Fields!FieldsNext, FieldsOf
  <2>4. ASSUME NEW n \in FieldNames, NEW pattern \in Patterns, CmdDeleteHeaderMatching(n, pattern)
        PROVE  EditsOK' /\ Fields!FieldsNext
    <3>1. EditsOK' /\ Fields!DeleteMatching(n, pattern)
      BY <1>2, <2>4, DeletingMatching, Zenon
    <3>2. pattern \in SUBSET {Trim[v] : v \in FieldValues} /\ n \notin Protected
      BY <2>4, Zenon DEF Patterns, CmdDeleteHeaderMatching
    <3> QED BY <3>1, <3>2, Zenon DEF Fields!FieldsNext
  <2>5. \A i : i \in 0..MaxIndex \/ i \in 1..MaxIndex => i \in Nat
    OBVIOUS
  <2>6. \A i \in 1..MaxIndex : i > 0
    OBVIOUS
  <2>7. CASE EditsNext
    <3>1. PICK n \in FieldNames, last \in BOOLEAN :
            \/ \E v \in FieldValues : CmdAddHeader(n, v, last)
            \/ \E i \in 0..MaxIndex : (last => i > 0) /\ CmdDeleteHeader(n, i, last)
            \/ \E i \in 1..MaxIndex, pattern \in Patterns : CmdDeleteHeaderAt(n, i, last, pattern)
            \/ \E pattern \in Patterns : CmdDeleteHeaderMatching(n, pattern)
      BY <2>7, Zenon DEF EditsNext
    <3>2. CASE \E v \in FieldValues : CmdAddHeader(n, v, last)
      BY <2>2, <3>2, Zenon
    <3>3. CASE \E i \in 0..MaxIndex : (last => i > 0) /\ CmdDeleteHeader(n, i, last)
      BY <2>3, <2>5, <3>3, Zenon DEF CmdDeleteHeader
    <3>4. CASE \E i \in 1..MaxIndex, pattern \in Patterns : CmdDeleteHeaderAt(n, i, last, pattern)
      BY <2>3, <2>5, <2>6, <3>4, Zenon DEF CmdDeleteHeaderAt
    <3>5. CASE \E pattern \in Patterns : CmdDeleteHeaderMatching(n, pattern)
      BY <2>4, <3>5, Zenon
    <3> QED BY <3>1, <3>2, <3>3, <3>4, <3>5, Zenon
  <2> QED BY <1>2, <2>1, <2>7, Zenon
<1>3. ASSUME EditsOK, [EditsNext]_edits
      PROVE  EditsOK' /\ [Fields!FieldsNext]_([n \in FieldNames |-> applyHeaderEdits(edits, n)])
  BY <1>2, <1>3, Zenon DEF FieldsOf
<1> QED BY <1>1, <1>3, PTL DEF EditsSpec, ReplaysAsEdited, Fields!FieldsSpec
=============================================================================

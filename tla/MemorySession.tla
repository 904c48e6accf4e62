---------------------------- MODULE MemorySession ----------------------------
(***************************************************************************)
(* MemorySession (managesieve/server/memory.go), the server's in-memory    *)
(* Storage, used by several connections of one owner at once. A method     *)
(* runs under the session's mutex and is one step, except PutScript, which *)
(* checks the name, the size and the script itself before it takes the     *)
(* mutex: another client's methods run between the two.                    *)
(*                                                                         *)
(* ListScripts, GetScript, CheckScript and HaveSpace change nothing and    *)
(* have no action.                                                         *)
(***************************************************************************)
EXTENDS ScriptStore

CONSTANTS
    Clients,      \* connections that share the session
    BadNames,     \* names validateScriptName refuses
    BadContents,  \* texts over MaxScriptLen, or that do not load
    Nothing       \* the client has no PutScript under way

ASSUME SessionAssumption ==
    Nothing \notin [name : Names, script : Contents]

VARIABLE putting   \* what each client's PutScript is about to store

sessionVars == <<scripts, active, putting>>

\* validateScriptName(name, false).
ValidName(n) == n \in Names \ BadNames

Idle(c) == putting[c] = Nothing

\* The checks of PutScript that need no mutex.
PutScriptLoad(c, n, v) ==
    /\ Idle(c)
    /\ ValidName(n)
    /\ v \notin BadContents
    /\ putting' = [putting EXCEPT ![c] = [name |-> n, script |-> v]]
    /\ UNCHANGED <<scripts, active>>

\* Mutant: the number of scripts is not looked at again under the mutex.
StoreUnchecked(c) ==
    LET n == putting[c].name
    IN  /\ ~Idle(c)
        /\ scripts' = With(n, putting[c].script)
        /\ putting' = [putting EXCEPT ![c] = Nothing]
        /\ UNCHANGED active

\* Mutant: the script stored becomes the active one.
StoreActivates(c) ==
    LET n == putting[c].name
    IN  /\ ~Idle(c)
        /\ n \in DOMAIN scripts \/ ~Full
        /\ scripts' = With(n, putting[c].script)
        /\ putting' = [putting EXCEPT ![c] = Nothing]
        /\ active' = n

\* The rest of PutScript, under the mutex. A new name is refused when the
\* store is full; an existing one is overwritten.
PutScriptStore(c) ==
    LET n == putting[c].name
    IN  /\ ~Idle(c)
        /\ scripts' = IF n \in DOMAIN scripts \/ ~Full
                      THEN With(n, putting[c].script)
                      ELSE scripts
        /\ putting' = [putting EXCEPT ![c] = Nothing]
        /\ UNCHANGED active

SetActive(c, n) ==
    /\ Idle(c)
    /\ n = NoName \/ (ValidName(n) /\ n \in DOMAIN scripts)
    /\ active' = n
    /\ UNCHANGED <<scripts, putting>>

\* Mutant: the active script may be deleted.
DeleteActive(c, n) ==
    /\ Idle(c)
    /\ ValidName(n)
    /\ n \in DOMAIN scripts
    /\ scripts' = Without(n)
    /\ UNCHANGED <<active, putting>>

\* Mutant: deleting the active script only takes the mark away.
DeleteDeactivates(c, n) ==
    /\ Idle(c)
    /\ ValidName(n)
    /\ n \in DOMAIN scripts
    /\ scripts' = IF n = active THEN scripts ELSE Without(n)
    /\ active' = IF n = active THEN NoName ELSE active
    /\ UNCHANGED putting

DeleteScript(c, n) ==
    /\ Idle(c)
    /\ ValidName(n)
    /\ n # active
    /\ n \in DOMAIN scripts
    /\ scripts' = Without(n)
    /\ UNCHANGED <<active, putting>>

\* Mutant: the new name is not validated.
RenameUnvalidated(c, old, new) ==
    /\ Idle(c)
    /\ ValidName(old)
    /\ old \in DOMAIN scripts
    /\ new \notin DOMAIN scripts
    /\ scripts' = [m \in (DOMAIN scripts \ {old}) \cup {new} |->
                      IF m = new THEN scripts[old] ELSE scripts[m]]
    /\ active' = IF active = old THEN new ELSE active
    /\ UNCHANGED putting

RenameScript(c, old, new) ==
    /\ Idle(c)
    /\ ValidName(old) /\ ValidName(new)
    /\ old \in DOMAIN scripts
    /\ new \notin DOMAIN scripts
    /\ scripts' = [m \in (DOMAIN scripts \ {old}) \cup {new} |->
                      IF m = new THEN scripts[old] ELSE scripts[m]]
    /\ active' = IF active = old THEN new ELSE active
    /\ UNCHANGED putting

\* NewMemorySession.
SessionInit ==
    /\ StoreInit
    /\ putting = [c \in Clients |-> Nothing]

SessionNext ==
    \E c \in Clients :
        \/ \E n \in Names, v \in Contents : PutScriptLoad(c, n, v)
        \/ PutScriptStore(c)
        \/ \E n \in Names \cup {NoName} : SetActive(c, n)
        \/ \E n \in Names : DeleteScript(c, n)
        \/ \E old, new \in Names : RenameScript(c, old, new)

SessionSpec == SessionInit /\ [][SessionNext]_sessionVars

-----------------------------------------------------------------------------
\* Every client is idle or about to store a valid script under a valid name.
SessionTypeOK ==
    /\ StoreTypeOK
    /\ putting \in [Clients -> {Nothing} \cup
                        [name : Names \ BadNames, script : Contents \ BadContents]]

\* Only names and texts the session has checked are ever stored, however the
\* clients' methods interleave.
OnlyCheckedStored ==
    /\ DOMAIN scripts \cap BadNames = {}
    /\ \A n \in DOMAIN scripts : scripts[n] \notin BadContents

\* Deleting and renaming scripts never changes the text the mail filter runs:
\* DeleteScript refuses the active script, and RenameScript takes the active
\* mark along and refuses a name that is taken.
ActiveTextKept ==
    [][\A c \in Clients :
          (\/ \E n \in Names : DeleteScript(c, n)
           \/ \E old, new \in Names : RenameScript(c, old, new))
          => ActiveContent' = ActiveContent]_sessionVars

\* The abstract store, seen in the session's variables; putting is hidden.
Store == INSTANCE ScriptStore WITH scripts <- scripts, active <- active

\* The session implements the abstract store: every step of a client is a
\* step of the store or leaves it alone.
ImplementsStore == Store!StoreSpec
=============================================================================

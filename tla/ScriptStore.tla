----------------------------- MODULE ScriptStore -----------------------------
(***************************************************************************)
(* What a ManageSieve script store promises its owner, whoever else is     *)
(* using it at the same time: a set of named scripts of limited size, of   *)
(* which at most one is active, that changes by one indivisible step per   *)
(* command. MemorySession implements it.                                   *)
(***************************************************************************)
EXTENDS Naturals, FiniteSets

CONSTANTS
    Names,       \* script names
    Contents,    \* script texts
    NoName,      \* the empty name: no script is active
    MaxScripts   \* MemorySessionOptions.MaxScripts; 0 means unlimited

ASSUME StoreAssumption ==
    /\ NoName \notin Names
    /\ MaxScripts \in Nat

VARIABLES
    scripts,   \* the stored scripts: a function from their names to their texts
    active     \* the name of the active script, or NoName

storeVars == <<scripts, active>>

Full == MaxScripts > 0 /\ Cardinality(DOMAIN scripts) >= MaxScripts

\* The functions from some of the names to texts.
Stores == UNION {[N -> Contents] : N \in SUBSET Names}

\* scripts with the text v under the name n, and without the name n.
With(n, v) == [m \in DOMAIN scripts \cup {n} |-> IF m = n THEN v ELSE scripts[m]]
Without(n) == [m \in DOMAIN scripts \ {n} |-> scripts[m]]

StoreInit == scripts = [n \in {} |-> NoName] /\ active = NoName

Put(n, v) ==
    /\ n \in DOMAIN scripts \/ ~Full
    /\ scripts' = With(n, v)
    /\ UNCHANGED active

Delete(n) ==
    /\ n \in DOMAIN scripts
    /\ n # active
    /\ scripts' = Without(n)
    /\ UNCHANGED active

Rename(old, new) ==
    /\ old \in DOMAIN scripts
    /\ new \notin DOMAIN scripts
    /\ scripts' = [m \in (DOMAIN scripts \ {old}) \cup {new} |->
                      IF m = new THEN scripts[old] ELSE scripts[m]]
    /\ active' = IF active = old THEN new ELSE active

Activate(n) ==
    /\ n \in DOMAIN scripts \cup {NoName}
    /\ active' = n
    /\ UNCHANGED scripts

StoreNext ==
    \/ \E n \in Names, v \in Contents : Put(n, v)
    \/ \E n \in Names : Delete(n)
    \/ \E old, new \in Names : Rename(old, new)
    \/ \E n \in Names \cup {NoName} : Activate(n)

StoreSpec == StoreInit /\ [][StoreNext]_storeVars

\* The stored scripts have names and texts, and the active one, if any, is
\* named.
StoreTypeOK ==
    /\ scripts \in Stores
    /\ active \in Names \cup {NoName}

\* The active script is stored: no sequence of deletions, renamings and
\* activations leaves a name active that names nothing.
ActiveStored == active # NoName => active \in DOMAIN scripts

\* The number of scripts stays within MaxScripts.
QuotaRespected ==
    /\ IsFiniteSet(DOMAIN scripts)
    /\ MaxScripts > 0 => Cardinality(DOMAIN scripts) <= MaxScripts

\* The text the mail filter runs, and what stands for none.
ActiveContent == IF active = NoName THEN <<>> ELSE <<scripts[active]>>
=============================================================================

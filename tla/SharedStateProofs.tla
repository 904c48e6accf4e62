-------------------------- MODULE SharedStateProofs --------------------------
(***************************************************************************)
(* The two in-memory implementations that callers share under a mutex. For *)
(* every set of names, texts and clients and every limit, MemorySession    *)
(* keeps its invariants, leaves the active text alone where it must, and   *)
(* implements ScriptStore. For any number of deliveries, keys and times to *)
(* live, what MemoryDuplicateTracker answers is right although the clock   *)
(* is read before the mutex is taken. The two have no state in common.     *)
(***************************************************************************)
EXTENDS MemorySession, DuplicateTracker, FiniteSetTheorems, TLAPS

\* The inductive invariant is the conjunction of the checked invariants: the
\* size of the store needs no strengthening because the check and the store
\* of PutScript share the mutex.
SInv ==
    /\ SessionTypeOK
    /\ ActiveStored
    /\ QuotaRespected
    /\ OnlyCheckedStored

-----------------------------------------------------------------------------
\* Adding a text under a valid name to a store gives a store.
LEMMA WithType ==
    ASSUME scripts \in Stores, NEW n \in Names, NEW v \in Contents
    PROVE  /\ With(n, v) \in Stores
           /\ DOMAIN With(n, v) = DOMAIN scripts \cup {n}
           /\ With(n, v)[n] = v
           /\ \A m \in DOMAIN scripts \ {n} : With(n, v)[m] = scripts[m]
<1>1. PICK N \in SUBSET Names : scripts \in [N -> Contents]
  BY DEF Stores
<1>2. With(n, v) \in [N \cup {n} -> Contents]
  BY <1>1 DEF With
<1>3. N \cup {n} \in SUBSET Names
  BY <1>1
<1>4. QED
  BY <1>1, <1>2, <1>3, Zenon DEF With, Stores

\* Removing a name from a store gives a store.
LEMMA WithoutType ==
    ASSUME scripts \in Stores, NEW n \in Names
    PROVE  /\ Without(n) \in Stores
           /\ DOMAIN Without(n) = DOMAIN scripts \ {n}
           /\ \A m \in DOMAIN scripts \ {n} : Without(n)[m] = scripts[m]
<1>1. PICK N \in SUBSET Names : scripts \in [N -> Contents]
  BY DEF Stores
<1>2. Without(n) \in [N \ {n} -> Contents]
  BY <1>1 DEF Without
<1>3. N \ {n} \in SUBSET Names
  BY <1>1
<1>4. QED
  BY <1>1, <1>2, <1>3, Zenon DEF Without, Stores

\* Moving a text from one name to a free one gives a store.
LEMMA RenameType ==
    ASSUME scripts \in Stores,
           NEW old \in DOMAIN scripts, NEW new \in Names \ DOMAIN scripts,
           scripts' = [m \in (DOMAIN scripts \ {old}) \cup {new} |->
                          IF m = new THEN scripts[old] ELSE scripts[m]]
    PROVE  /\ scripts' \in Stores
           /\ DOMAIN scripts' = (DOMAIN scripts \ {old}) \cup {new}
           /\ scripts'[new] = scripts[old]
           /\ \A m \in DOMAIN scripts \ {old} : scripts'[m] = scripts[m]
<1>1. PICK N \in SUBSET Names : scripts \in [N -> Contents]
  BY DEF Stores
<1>2. scripts' \in [(N \ {old}) \cup {new} -> Contents]
  BY <1>1
<1>3. (N \ {old}) \cup {new} \in SUBSET Names
  BY <1>1
<1>4. QED
  BY <1>1, <1>2, <1>3 DEF Stores

-----------------------------------------------------------------------------
\* A session starts with no scripts and nothing to put.
LEMMA SInvInit == SessionInit => SInv
<1> SUFFICES ASSUME SessionInit PROVE SInv
  OBVIOUS
<1>1. /\ DOMAIN scripts = {}
      /\ active = NoName
      /\ putting = [c \in Clients |-> Nothing]
  BY DEF SessionInit, StoreInit
<1>2. scripts \in [{} -> Contents]
  BY DEF SessionInit, StoreInit
<1>3. scripts \in Stores
  BY <1>2, Zenon DEF Stores
<1>4. IsFiniteSet({}) /\ Cardinality({}) = 0
  BY FS_EmptySet
<1>5. QED
  BY <1>1, <1>3, <1>4, StoreAssumption
     DEF SInv, SessionTypeOK, StoreTypeOK, ActiveStored, QuotaRespected,
         OnlyCheckedStored

\* Every operation of a session keeps the invariant.
LEMMA SInvNext == SInv /\ [SessionNext]_sessionVars => SInv'
<1> SUFFICES ASSUME SInv, [SessionNext]_sessionVars PROVE SInv'
  OBVIOUS
<1>a. /\ scripts \in Stores
      /\ active \in Names \cup {NoName}
      /\ DOMAIN scripts \subseteq Names
      /\ IsFiniteSet(DOMAIN scripts)
      /\ Cardinality(DOMAIN scripts) \in Nat
  BY FS_CardinalityType DEF SInv, SessionTypeOK, StoreTypeOK, Stores, QuotaRespected
<1>1. ASSUME NEW c \in Clients, NEW n \in Names, NEW v \in Contents,
             PutScriptLoad(c, n, v)
      PROVE  SInv'
  BY <1>1 DEF PutScriptLoad, ValidName, SInv, SessionTypeOK, StoreTypeOK,
              ActiveStored, QuotaRespected, OnlyCheckedStored
<1>2. ASSUME NEW c \in Clients, PutScriptStore(c) PROVE SInv'
  <2>1. PICK n \in Names \ BadNames, v \in Contents \ BadContents :
            n = putting[c].name /\ v = putting[c].script
    BY <1>2 DEF PutScriptStore, Idle, SInv, SessionTypeOK
  <2>2. putting' = [putting EXCEPT ![c] = Nothing] /\ active' = active
    BY <1>2 DEF PutScriptStore
  <2>3. CASE n \notin DOMAIN scripts /\ Full
    <3>1. scripts' = scripts
      BY <1>2, <2>1, <2>3 DEF PutScriptStore
    <3>2. QED
      BY <2>2, <3>1 DEF SInv, SessionTypeOK, StoreTypeOK, ActiveStored,
                        QuotaRespected, OnlyCheckedStored
  <2>4. CASE n \in DOMAIN scripts \/ ~Full
    <3>1. scripts' = With(n, v)
      BY <1>2, <2>1, <2>4 DEF PutScriptStore
    <3>2. /\ scripts' \in Stores
          /\ DOMAIN scripts' = DOMAIN scripts \cup {n}
          /\ scripts'[n] = v
          /\ \A m \in DOMAIN scripts \ {n} : scripts'[m] = scripts[m]
      BY <1>a, <2>1, <3>1, WithType
    <3>3. SessionTypeOK'
      BY <2>2, <3>2 DEF SInv, SessionTypeOK, StoreTypeOK
    <3>4. ActiveStored'
      BY <2>2, <3>2 DEF SInv, ActiveStored
    <3>5. QuotaRespected'
      <4>1. CASE n \in DOMAIN scripts
        <5>1. DOMAIN scripts' = DOMAIN scripts
          BY <3>2, <4>1
        <5>2. QED
          BY <5>1 DEF SInv, QuotaRespected
      <4>2. CASE n \notin DOMAIN scripts
        <5>1. /\ IsFiniteSet(DOMAIN scripts')
              /\ Cardinality(DOMAIN scripts') = Cardinality(DOMAIN scripts) + 1
          BY <1>a, <3>2, <4>2, FS_AddElement
        <5>2. MaxScripts > 0 => Cardinality(DOMAIN scripts) < MaxScripts
          BY <1>a, <2>4, <4>2, StoreAssumption DEF Full
        <5>3. QED
          BY <1>a, <5>1, <5>2, StoreAssumption DEF QuotaRespected
      <4>3. QED
        BY <4>1, <4>2
    <3>6. OnlyCheckedStored'
      BY <2>1, <3>2 DEF SInv, OnlyCheckedStored
    <3>7. QED
      BY <3>3, <3>4, <3>5, <3>6 DEF SInv
  <2>5. QED
    BY <2>3, <2>4
<1>3. ASSUME NEW c \in Clients, NEW n \in Names \cup {NoName}, SetActive(c, n)
      PROVE  SInv'
  BY <1>3 DEF SetActive, SInv, SessionTypeOK, StoreTypeOK, ActiveStored,
              QuotaRespected, OnlyCheckedStored
<1>4. ASSUME NEW c \in Clients, NEW n \in Names, DeleteScript(c, n)
      PROVE  SInv'
  <2>1. /\ n # active
        /\ n \in DOMAIN scripts
        /\ scripts' = Without(n)
        /\ UNCHANGED <<active, putting>>
    BY <1>4 DEF DeleteScript
  <2>2. /\ scripts' \in Stores
        /\ DOMAIN scripts' = DOMAIN scripts \ {n}
        /\ \A m \in DOMAIN scripts \ {n} : scripts'[m] = scripts[m]
    BY <1>a, <2>1, WithoutType, Zenon
  <2>3. SessionTypeOK' /\ ActiveStored' /\ OnlyCheckedStored'
    BY <2>1, <2>2 DEF SInv, SessionTypeOK, StoreTypeOK, ActiveStored, OnlyCheckedStored
  <2>4. QuotaRespected'
    <3>1. /\ IsFiniteSet(DOMAIN scripts')
          /\ Cardinality(DOMAIN scripts') = Cardinality(DOMAIN scripts) - 1
      BY <1>a, <2>1, <2>2, FS_RemoveElement
    <3>2. QED
      BY <1>a, <3>1, StoreAssumption DEF SInv, QuotaRespected
  <2>5. QED
    BY <2>3, <2>4 DEF SInv
<1>5. ASSUME NEW c \in Clients, NEW old \in Names, NEW new \in Names,
             RenameScript(c, old, new)
      PROVE  SInv'
  <2>1. /\ ValidName(old) /\ ValidName(new)
        /\ old \in DOMAIN scripts
        /\ new \in Names \ DOMAIN scripts
        /\ scripts' = [m \in (DOMAIN scripts \ {old}) \cup {new} |->
                          IF m = new THEN scripts[old] ELSE scripts[m]]
        /\ active' = IF active = old THEN new ELSE active
        /\ UNCHANGED putting
    BY <1>5 DEF RenameScript
  <2>2. /\ scripts' \in Stores
        /\ DOMAIN scripts' = (DOMAIN scripts \ {old}) \cup {new}
        /\ scripts'[new] = scripts[old]
        /\ \A m \in DOMAIN scripts \ {old} : scripts'[m] = scripts[m]
    BY <1>a, <2>1, RenameType
  <2>3. SessionTypeOK' /\ ActiveStored' /\ OnlyCheckedStored'
    BY <2>1, <2>2 DEF SInv, SessionTypeOK, StoreTypeOK, ActiveStored,
                      OnlyCheckedStored, ValidName
  <2>4. /\ IsFiniteSet(DOMAIN scripts \ {old})
        /\ Cardinality(DOMAIN scripts \ {old}) = Cardinality(DOMAIN scripts) - 1
    BY <1>a, <2>1, FS_RemoveElement
  <2>5. /\ IsFiniteSet(DOMAIN scripts')
        /\ Cardinality(DOMAIN scripts') = Cardinality(DOMAIN scripts \ {old}) + 1
    BY <2>1, <2>2, <2>4, FS_AddElement, Zenon
  <2>6. QuotaRespected'
    BY <1>a, <2>4, <2>5, StoreAssumption DEF SInv, QuotaRespected
  <2>7. QED
    BY <2>3, <2>6 DEF SInv
<1>6. ASSUME UNCHANGED sessionVars PROVE SInv'
  BY <1>6 DEF sessionVars, SInv, SessionTypeOK, StoreTypeOK, ActiveStored,
              QuotaRespected, OnlyCheckedStored
<1>7. QED
  BY <1>1, <1>2, <1>3, <1>4, <1>5, <1>6 DEF SessionNext

\* The invariant holds in every state of every interleaving of the clients.
THEOREM SessionInvariance == SessionSpec => []SInv
  BY SInvInit, SInvNext, PTL DEF SessionSpec

\* Names, texts and requests under way stay within their types.
THEOREM SessionTypeCorrect == SessionSpec => []SessionTypeOK
<1>1. SInv => SessionTypeOK
  BY DEF SInv
<1>2. QED
  BY <1>1, SessionInvariance, PTL

\* The active script is always stored and the quota is never exceeded, for any
\* number of clients, names and texts.
THEOREM StoreSafe == SessionSpec => [](ActiveStored /\ QuotaRespected)
<1>1. SInv => ActiveStored /\ QuotaRespected
  BY DEF SInv
<1>2. QED
  BY <1>1, SessionInvariance, PTL

\* Only checked scripts are ever stored.
THEOREM Checked == SessionSpec => []OnlyCheckedStored
<1>1. SInv => OnlyCheckedStored
  BY DEF SInv
<1>2. QED
  BY <1>1, SessionInvariance, PTL

-----------------------------------------------------------------------------
\* Deleting and renaming leave the active text alone.
THEOREM ActiveText == SessionSpec => ActiveTextKept
<1>1. ASSUME SInv, NEW c \in Clients, NEW n \in Names, DeleteScript(c, n)
      PROVE  ActiveContent' = ActiveContent
  <2>1. /\ n # active
        /\ scripts' = Without(n)
        /\ active' = active
    BY <1>1 DEF DeleteScript
  <2>2. active # NoName => scripts'[active] = scripts[active]
    BY <1>1, <2>1, WithoutType, Zenon
       DEF SInv, SessionTypeOK, StoreTypeOK, ActiveStored
  <2>3. QED
    BY <2>1, <2>2 DEF ActiveContent
<1>2. ASSUME SInv, NEW c \in Clients, NEW old \in Names, NEW new \in Names,
             RenameScript(c, old, new)
      PROVE  ActiveContent' = ActiveContent
  <2>1. /\ old \in DOMAIN scripts
        /\ new \in Names \ DOMAIN scripts
        /\ scripts' = [m \in (DOMAIN scripts \ {old}) \cup {new} |->
                          IF m = new THEN scripts[old] ELSE scripts[m]]
        /\ active' = IF active = old THEN new ELSE active
    BY <1>2 DEF RenameScript
  <2>2. /\ scripts'[new] = scripts[old]
        /\ \A m \in DOMAIN scripts \ {old} : scripts'[m] = scripts[m]
    BY <1>2, <2>1, RenameType DEF SInv, SessionTypeOK, StoreTypeOK
  <2>3. new # NoName /\ old # NoName
    BY StoreAssumption
  <2>4. CASE active = old
    BY <2>1, <2>2, <2>3, <2>4 DEF ActiveContent
  <2>5. CASE active # old
    BY <1>2, <2>1, <2>2, <2>5 DEF ActiveContent, SInv, ActiveStored
  <2>6. QED
    BY <2>4, <2>5
<1> DEFINE Kept == \A c \in Clients :
                       (\/ \E n \in Names : DeleteScript(c, n)
                        \/ \E old, new \in Names : RenameScript(c, old, new))
                       => ActiveContent' = ActiveContent
<1>3. SInv => Kept
  BY <1>1, <1>2
<1>4. SInv /\ [SessionNext]_sessionVars => [Kept]_sessionVars
  BY <1>3
<1>5. QED
  BY <1>4, SessionInvariance, PTL DEF SessionSpec, ActiveTextKept

\* MemorySession implements ScriptStore: the two halves of PutScript appear to
\* the owner as one step, whatever other clients do between them.
THEOREM Refinement == SessionSpec => ImplementsStore
<1>1. SessionInit => StoreInit
  BY DEF SessionInit
<1>2. SInv /\ [SessionNext]_sessionVars => [StoreNext]_storeVars
  <2> SUFFICES ASSUME SInv, [SessionNext]_sessionVars PROVE [StoreNext]_storeVars
    OBVIOUS
  <2>1. ASSUME NEW c \in Clients, NEW n \in Names, NEW v \in Contents,
               PutScriptLoad(c, n, v)
        PROVE  UNCHANGED storeVars
    BY <2>1 DEF PutScriptLoad, storeVars
  <2>2. ASSUME NEW c \in Clients, PutScriptStore(c) PROVE [StoreNext]_storeVars
    <3>1. PICK n \in Names, v \in Contents :
              n = putting[c].name /\ v = putting[c].script
      BY <2>2 DEF PutScriptStore, Idle, SInv, SessionTypeOK
    <3>2. CASE n \in DOMAIN scripts \/ ~Full
      <4>1. Put(n, v)
        BY <2>2, <3>1, <3>2 DEF PutScriptStore, Put
      <4>2. QED
        BY <4>1 DEF StoreNext
    <3>3. CASE n \notin DOMAIN scripts /\ Full
      BY <2>2, <3>1, <3>3 DEF PutScriptStore, storeVars
    <3>4. QED
      BY <3>2, <3>3
  <2>3. ASSUME NEW c \in Clients, NEW n \in Names \cup {NoName}, SetActive(c, n)
        PROVE  Activate(n)
    BY <2>3 DEF SetActive, Activate
  <2>4. ASSUME NEW c \in Clients, NEW n \in Names, DeleteScript(c, n)
        PROVE  Delete(n)
    BY <2>4 DEF DeleteScript, Delete
  <2>5. ASSUME NEW c \in Clients, NEW old \in Names, NEW new \in Names,
               RenameScript(c, old, new)
        PROVE  Rename(old, new)
    BY <2>5 DEF RenameScript, Rename
  <2>6. CASE UNCHANGED sessionVars
    BY <2>6 DEF sessionVars, storeVars
  <2>7. QED
    BY <2>1, <2>2, <2>3, <2>4, <2>5, <2>6 DEF SessionNext, StoreNext
<1>3. StoreInit => Store!StoreInit
  BY DEF StoreInit, Store!StoreInit
<1>4. [StoreNext]_storeVars => [Store!StoreNext]_(Store!storeVars)
  <2>c. Cardinality(DOMAIN scripts) = Store!Cardinality(DOMAIN scripts)
    BY Zenon DEF Cardinality, Store!Cardinality, IsFiniteSet, Store!IsFiniteSet
  <2>1. /\ \A n, v : With(n, v) = Store!With(n, v)
        /\ \A n : Without(n) = Store!Without(n)
        /\ Full <=> Store!Full
    BY <2>c DEF With, Without, Full, Store!With, Store!Without, Store!Full
  <2>2. /\ \A n, v : Put(n, v) <=> Store!Put(n, v)
        /\ \A n : Delete(n) <=> Store!Delete(n)
    BY <2>1 DEF Put, Delete, Store!Put, Store!Delete
  <2>3. /\ \A old, new : Rename(old, new) <=> Store!Rename(old, new)
        /\ \A n : Activate(n) <=> Store!Activate(n)
    BY DEF Rename, Activate, Store!Rename, Store!Activate
  <2>4. QED
    BY <2>2, <2>3, Zenon DEF StoreNext, storeVars, Store!StoreNext, Store!storeVars
<1>5. QED
  BY <1>1, <1>2, <1>3, <1>4, SessionInvariance, PTL
  DEF SessionSpec, Store!StoreSpec, ImplementsStore

-----------------------------------------------------------------------------
\* The tracker: its types and what its two properties rest on.
IInv == TypeOK /\ EntriesKept

(* A delivery that asks about a key has passed Check with a real request.   *)
LEMMA UnaskedTyped ==
  Unasked \in [key : Keys \cup {NoKey}, now : Nat, ttl : TTLs \cup {0}, last : BOOLEAN]
  /\ Unasked.key \notin Keys /\ Unasked.now = 0
BY NoKeyOutside DEF Unasked

(* evict keeps the type of the entries, keeps those that are not over, and  *)
(* drops only those whose time is past the reading it is given.             *)
LEMMA Evicting ==
  ASSUME TypeOK, NEW now \in Nat
  PROVE  /\ evict(now) \in [Keys -> Nat \cup {Gone}]
         /\ \A k \in Keys : /\ evict(now)[k] # Gone => evict(now)[k] = entries[k] /\ entries[k] > now
                            /\ evict(now)[k] = Gone => entries[k] = Gone \/ entries[k] <= now
BY DEF TypeOK, evict, Gone

(* The tracker starts empty.                                                *)
LEMMA Initially == Init => IInv
<1> SUFFICES ASSUME Init PROVE IInv
  OBVIOUS
<1>1. TypeOK
  BY UnaskedTyped DEF Init, TypeOK, Gone
<1>2. EntriesKept
  BY UnaskedTyped DEF Init, EntriesKept, Gone
<1> QED BY <1>1, <1>2 DEF IInv

(* A request in the mutex keeps the invariant: its own entry is what it     *)
(* promises, and those it evicts were over at its reading, so they are now. *)
LEMMA Answering ==
  ASSUME IInv, NEW d \in Deliveries, IsDuplicate(d)
  PROVE  IInv'
<1> DEFINE a == asks[d]
<1>1. /\ a.now \in Nat /\ a.ttl \in Nat /\ a.key \in Keys /\ a.now <= clock
      /\ Expiry(a) \in Nat /\ clock \in Nat
  <2>1. a \in [key : Keys \cup {NoKey}, now : Nat, ttl : TTLs \cup {0}, last : BOOLEAN]
    BY DEF IInv, TypeOK
  <2>2. a.key # NoKey
    BY DEF IsDuplicate
  <2>3. a.now \in Nat /\ a.ttl \in TTLs \cup {0} /\ a.key \in Keys
    BY <2>1, <2>2
  <2>4. a.now <= clock /\ clock \in Nat
    BY DEF IInv, TypeOK, EntriesKept
  <2>5. a.ttl \in Nat
    <3>1. \A t \in TTLs \cup {0} : t \in Nat
      BY TTLsNatural
    <3> QED BY <2>3, <3>1
  <2>6. Expiry(a) \in Nat
    BY <2>3, <2>5 DEF Expiry
  <2> QED BY <2>3, <2>4, <2>5, <2>6
<1>2. /\ evict(a.now) \in [Keys -> Nat \cup {Gone}]
      /\ \A k \in Keys : /\ evict(a.now)[k] # Gone => evict(a.now)[k] = entries[k] /\ entries[k] > a.now
                         /\ evict(a.now)[k] = Gone => entries[k] = Gone \/ entries[k] <= a.now
  BY <1>1, Evicting DEF IInv
<1>3. TypeOK'
  <2>1. entries' \in [Keys -> Nat \cup {Gone}] /\ promised' \in [Keys -> Nat]
    BY <1>1, <1>2 DEF IInv, TypeOK, IsDuplicate
  <2>2. asks' \in [Deliveries -> [key : Keys \cup {NoKey}, now : Nat, ttl : TTLs \cup {0}, last : BOOLEAN]]
    BY UnaskedTyped DEF IInv, TypeOK, IsDuplicate
  <2>3. answer' \in [Deliveries -> {"none", "new", "duplicate"}] /\ original' \subseteq Keys /\ clock' \in Nat
    BY <1>1 DEF IInv, TypeOK, IsDuplicate
  <2> QED BY <2>1, <2>2, <2>3 DEF TypeOK
<1>4. \A e \in Deliveries : asks'[e].now <= clock'
  BY <1>1, UnaskedTyped DEF IInv, TypeOK, EntriesKept, IsDuplicate
<1>5. ASSUME NEW k \in Keys
      PROVE  /\ entries'[k] # Gone => entries'[k] = promised'[k] /\ k \in original'
             /\ entries'[k] = Gone => promised'[k] <= clock'
  <2>1. /\ entries[k] # Gone => entries[k] = promised[k] /\ k \in original
        /\ entries[k] = Gone => promised[k] <= clock
        /\ entries[k] \in Nat \cup {Gone} /\ promised[k] \in Nat
    BY DEF IInv, TypeOK, EntriesKept
  <2>2. /\ evict(a.now)[k] # Gone => evict(a.now)[k] = promised[k] /\ k \in original
        /\ evict(a.now)[k] = Gone => promised[k] <= clock
    BY <1>1, <1>2, <2>1
  <2>3. CASE k # a.key
    BY <1>2, <2>2, <2>3 DEF IInv, TypeOK, IsDuplicate
  <2>4. CASE k = a.key /\ Records(a)
    <3>1. entries'[k] = Expiry(a) /\ promised'[k] = Expiry(a)
      BY <1>2, <2>4 DEF IInv, TypeOK, IsDuplicate
    <3>2. k \in original'
      <4>1. CASE Seen(a)
        BY <4>1, <1>1, <1>2, <2>2, <2>4 DEF IsDuplicate, Seen, Gone
      <4>2. CASE ~Seen(a)
        BY <4>2, <2>4 DEF IsDuplicate
      <4> QED BY <4>1, <4>2
    <3> QED BY <3>1, <3>2, <1>1 DEF Gone
  <2>5. CASE k = a.key /\ ~Records(a)
    BY <1>2, <2>2, <2>5 DEF IInv, TypeOK, IsDuplicate, Records
  <2> QED BY <2>3, <2>4, <2>5
<1> QED BY <1>3, <1>4, <1>5 DEF IInv, EntriesKept

(* Every step keeps the invariant.                                          *)
LEMMA Inductive == IInv /\ [Next]_vars => IInv'
<1> SUFFICES ASSUME IInv, [Next]_vars PROVE IInv'
  OBVIOUS
<1>1. CASE Tick
  BY <1>1 DEF IInv, TypeOK, EntriesKept, Tick
<1>2. ASSUME NEW d \in Deliveries, CheckUnasked(d) PROVE IInv'
  BY <1>2 DEF IInv, TypeOK, EntriesKept, CheckUnasked
<1>3. ASSUME NEW d \in Deliveries, NEW k \in Keys, NEW ttl \in TTLs, NEW last \in BOOLEAN,
             Check(d, k, ttl, last)
      PROVE  IInv'
  BY <1>3 DEF IInv, TypeOK, EntriesKept, Check
<1>4. ASSUME NEW d \in Deliveries, IsDuplicate(d) PROVE IInv'
  BY <1>4, Answering
<1>5. CASE UNCHANGED vars
  BY <1>5 DEF IInv, TypeOK, EntriesKept, vars
<1> QED BY <1>1, <1>2, <1>3, <1>4, <1>5 DEF Next

(* The entries are what was last promised, or their time is over.           *)
THEOREM Invariance == Spec => []IInv
BY Initially, Inductive, PTL DEF Spec

(* Only the delivery's own call under the mutex answers it.                 *)
LEMMA AnsweredInMutex ==
  ASSUME IInv, [Next]_vars, NEW d \in Deliveries, NEW k \in Keys, NEW what, Answers(d, k, what)
  PROVE  IsDuplicate(d) /\ asks[d].key = k /\ asks[d].now \in Nat /\ asks[d].now <= clock
<1>1. asks[d].key = k /\ asks'[d] # asks[d] /\ asks[d] # Unasked
  BY UnaskedTyped DEF Answers
<1>2. asks[d].now \in Nat /\ asks[d].now <= clock
  <2>1. asks[d] \in [key : Keys \cup {NoKey}, now : Nat, ttl : TTLs \cup {0}, last : BOOLEAN]
    BY DEF IInv, TypeOK
  <2> QED BY <2>1 DEF IInv, EntriesKept
<1>3. ~Tick /\ ~UNCHANGED vars /\ \A e \in Deliveries : ~CheckUnasked(e)
  BY <1>1 DEF Tick, vars, CheckUnasked
<1>4. ASSUME NEW e \in Deliveries, NEW l \in Keys, NEW ttl \in TTLs, NEW last \in BOOLEAN,
             Check(e, l, ttl, last)
      PROVE  FALSE
  BY <1>1, <1>4 DEF Check, IInv, TypeOK
<1>5. PICK e \in Deliveries : IsDuplicate(e)
  BY <1>3, <1>4 DEF Next
<1>6. e = d
  BY <1>1, <1>5 DEF IsDuplicate, IInv, TypeOK
<1> QED BY <1>1, <1>2, <1>5, <1>6

(* No delivery is told that a message is new before the time recorded for   *)
(* it is over, however late each comes with its reading of the clock.       *)
THEOREM NewAfterExpiry == Spec => NewOnlyAfterExpiry
<1>1. ASSUME IInv, [Next]_vars, NEW d \in Deliveries, NEW k \in Keys, Answers(d, k, "new")
      PROVE  promised[k] <= clock
  <2>1. IsDuplicate(d) /\ asks[d].key = k /\ asks[d].now \in Nat /\ asks[d].now <= clock
    BY <1>1, AnsweredInMutex
  <2>2. ~Seen(asks[d])
    BY <1>1, <2>1 DEF IsDuplicate, Answers, IInv, TypeOK
  <2>3. /\ evict(asks[d].now)[k] \in Nat \cup {Gone}
        /\ evict(asks[d].now)[k] # Gone => evict(asks[d].now)[k] > asks[d].now
        /\ evict(asks[d].now)[k] = Gone => entries[k] = Gone \/ entries[k] <= asks[d].now
    BY <1>1, <2>1, Evicting DEF IInv
  <2>4. entries[k] = Gone \/ entries[k] <= asks[d].now
    BY <2>1, <2>2, <2>3 DEF Seen
  <2>5. /\ entries[k] # Gone => entries[k] = promised[k]
        /\ entries[k] = Gone => promised[k] <= clock
        /\ promised[k] \in Nat /\ clock \in Nat
    BY <1>1 DEF IInv, EntriesKept, TypeOK
  <2> QED BY <2>1, <2>4, <2>5
<1>2. IInv /\ [Next]_vars =>
        [\A d \in Deliveries, k \in Keys : Answers(d, k, "new") => promised[k] <= clock]_vars
  BY <1>1
<1> QED BY <1>2, Invariance, PTL DEF Spec, NewOnlyAfterExpiry

(* No delivery is told that a message is a duplicate unless one was told    *)
(* that it is new.                                                          *)
THEOREM OriginalFirst == Spec => DuplicateHasOriginal
<1>1. ASSUME IInv, [Next]_vars, NEW d \in Deliveries, NEW k \in Keys, Answers(d, k, "duplicate")
      PROVE  k \in original
  <2>1. IsDuplicate(d) /\ asks[d].key = k /\ asks[d].now \in Nat
    BY <1>1, AnsweredInMutex
  <2>2. Seen(asks[d])
    BY <1>1, <2>1 DEF IsDuplicate, Answers, IInv, TypeOK
  <2>3. evict(asks[d].now)[k] # Gone => evict(asks[d].now)[k] = entries[k]
    BY <1>1, <2>1, Evicting DEF IInv
  <2>4. entries[k] # Gone
    BY <2>1, <2>2, <2>3 DEF Seen, Gone
  <2> QED BY <1>1, <2>4 DEF IInv, EntriesKept
<1>2. IInv /\ [Next]_vars =>
        [\A d \in Deliveries, k \in Keys : Answers(d, k, "duplicate") => k \in original]_vars
  BY <1>1
<1> QED BY <1>2, Invariance, PTL DEF Spec, DuplicateHasOriginal
=============================================================================

-------------------------- MODULE DuplicateTracker --------------------------
(* The duplicate test of several deliveries that run at once over one       *)
(* MemoryDuplicateTracker. IsDuplicate reads the clock before it takes the  *)
(* mutex, so deliveries come to the entries with times that are out of      *)
(* order (interp/duplicate.go).                                             *)
EXTENDS Integers

CONSTANTS
  Deliveries,
  Keys,      \* handle and identifier
  TTLs,      \* :seconds
  MaxClock,
  NoKey      \* the message has no identifier

ASSUME TTLsNatural == TTLs \subseteq Nat
ASSUME NoKeyOutside == NoKey \notin Keys

VARIABLES
  clock,
  asks,      \* of each delivery, what it asks the tracker, once it has read the clock
  answer,    \* of each delivery, what its last duplicate test said
  entries,   \* MemoryDuplicateTracker.entries: the expiry of a key, Gone if it has none
  promised,  \* history: the expiry last recorded for a key, kept when the entry is evicted
  original   \* history: the keys some delivery was told to be new

vars == <<clock, asks, answer, entries, promised, original>>

Gone == -1
Unasked == [key |-> NoKey, now |-> 0, ttl |-> 0, last |-> FALSE]

TypeOK ==
  /\ clock \in Nat
  /\ asks \in [Deliveries -> [key : Keys \cup {NoKey}, now : Nat, ttl : TTLs \cup {0}, last : BOOLEAN]]
  /\ answer \in [Deliveries -> {"none", "new", "duplicate"}]
  /\ entries \in [Keys -> Nat \cup {Gone}]
  /\ promised \in [Keys -> Nat]
  /\ original \subseteq Keys

Init ==
  /\ clock = 0
  /\ asks = [d \in Deliveries |-> Unasked]
  /\ answer = [d \in Deliveries |-> "none"]
  /\ entries = [k \in Keys |-> Gone]
  /\ promised = [k \in Keys |-> 0]
  /\ original = {}

Tick ==
  /\ clock < MaxClock /\ clock' = clock + 1
  /\ UNCHANGED <<asks, answer, entries, promised, original>>

-----------------------------------------------------------------------------
(* TestDuplicate.Check without an identifier, or with :seconds 0: the       *)
(* tracker is not asked.                                                    *)
CheckUnasked(d) ==
  /\ asks[d] = Unasked
  /\ answer' = [answer EXCEPT ![d] = "new"]
  /\ UNCHANGED <<clock, asks, entries, promised, original>>

(* TestDuplicate.Check, IsDuplicate up to the mutex.                        *)
Check(d, k, ttl, last) ==
  /\ asks[d] = Unasked /\ ttl # 0
  /\ asks' = [asks EXCEPT ![d] = [key |-> k, now |-> clock, ttl |-> ttl, last |-> last]]
  /\ UNCHANGED <<clock, answer, entries, promised, original>>

(* Mutant: entries go that would have expired by the new expiry.            *)
evictEarly(now) == [k \in Keys |-> IF entries[k] <= now + 1 THEN Gone ELSE entries[k]]
(* MemoryDuplicateTracker.evict                                             *)
evict(now) == [k \in Keys |-> IF entries[k] <= now THEN Gone ELSE entries[k]]

(* IsDuplicate under the mutex.                                             *)
Expiry(a) == a.now + a.ttl
(* Mutant: the key is recorded before it is looked up.                      *)
SeenAsRecorded(a) == Expiry(a) > a.now
Seen(a) == evict(a.now)[a.key] > a.now
Records(a) == ~Seen(a) \/ a.last
IsDuplicate(d) ==
  LET a == asks[d]
  IN  /\ a.key # NoKey
      /\ entries' = [evict(a.now) EXCEPT ![a.key] = IF Records(a) THEN Expiry(a) ELSE @]
      /\ promised' = [promised EXCEPT ![a.key] = IF Records(a) THEN Expiry(a) ELSE @]
      /\ original' = IF Seen(a) THEN original ELSE original \cup {a.key}
      /\ answer' = [answer EXCEPT ![d] = IF Seen(a) THEN "duplicate" ELSE "new"]
      /\ asks' = [asks EXCEPT ![d] = Unasked]
      /\ UNCHANGED clock

Next ==
  \/ Tick
  \/ \E d \in Deliveries :
       \/ CheckUnasked(d)
       \/ \E k \in Keys, ttl \in TTLs, last \in BOOLEAN : Check(d, k, ttl, last)
       \/ IsDuplicate(d)

Spec == Init /\ [][Next]_vars

-----------------------------------------------------------------------------
(* The tracker answers a delivery that asked about k.                       *)
Answers(d, k, what) == asks[d].key = k /\ asks'[d] = Unasked /\ answer'[d] = what

(* A delivery is told that a message is new only when the time recorded for *)
(* it has passed: the entries another delivery evicts, with its own reading *)
(* of the clock, are really over, and of two that ask at once one is told.  *)
NewOnlyAfterExpiry ==
  [][\A d \in Deliveries, k \in Keys : Answers(d, k, "new") => promised[k] <= clock]_vars

(* A message is told to be a duplicate only if some delivery of it was told *)
(* that it is new: none is dropped as a copy of nothing.                    *)
DuplicateHasOriginal ==
  [][\A d \in Deliveries, k \in Keys : Answers(d, k, "duplicate") => k \in original]_vars

(* What the two rest on: readings of the clock are past, an entry is what   *)
(* was last promised for its key, and a key without one has no promise left.*)
EntriesKept ==
  /\ \A d \in Deliveries : asks[d].now <= clock
  /\ \A k \in Keys : /\ entries[k] # Gone => entries[k] = promised[k] /\ k \in original
                     /\ entries[k] = Gone => promised[k] <= clock
=============================================================================

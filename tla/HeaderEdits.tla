----------------------------- MODULE HeaderEdits ----------------------------
(* addheader and deleteheader record edits in RuntimeData.HeaderEdits; the  *)
(* message stays as it came. deleteheader replays the edits over a field's  *)
(* values; tests look at the message as it came, and the host that delivers *)
(* it is given the edits (interp/editheader.go).                            *)
EXTENDS Integers, Sequences

CONSTANTS FieldNames, Protected, FieldValues, Trim, Original,
          MaxIndex  \* :index of a deleteheader

ASSUME FieldsAssumption ==
  /\ Original \in [FieldNames -> Seq(FieldValues)]
  /\ "" \in FieldValues /\ Trim[""] = ""
  /\ MaxIndex \in Nat

VARIABLE edits  \* RuntimeData.HeaderEdits

(* HeaderEdit                                                               *)
Edits == [add : BOOLEAN, name : FieldNames, value : FieldValues, last : BOOLEAN, index : Nat]
Edit(add, n, v, last, i) == [add |-> add, name |-> n, value |-> v, last |-> last, index |-> i]

(* applyHeaderEditsToValues: one edit on the values of its field, and the   *)
(* edits es in turn.                                                        *)
At(vs, i, last) == IF last THEN Len(vs) - i + 1 ELSE i
Without(vs, i) == SubSeq(vs, 1, i - 1) \o SubSeq(vs, i + 1, Len(vs))
First(vs, v) == CHOOSE i \in DOMAIN vs : vs[i] = v /\ \A j \in 1..(i - 1) : vs[j] # v
Apply(e) == [vs \in Seq(FieldValues) |->
  IF e.add THEN IF e.last THEN Append(vs, e.value) ELSE <<e.value>> \o vs
  ELSE IF e.index > 0 THEN IF At(vs, e.index, e.last) \in DOMAIN vs
                           THEN Without(vs, At(vs, e.index, e.last)) ELSE vs
  ELSE IF e.value # "" THEN IF \E i \in DOMAIN vs : vs[i] = e.value
                            THEN Without(vs, First(vs, e.value)) ELSE vs
  ELSE <<>>]
applyHeaderEdits(es, n) ==
  LET replayed[i \in 0..Len(es)] ==
        IF i = 0 THEN Original[n]
        ELSE IF es[i].name # n THEN replayed[i - 1] ELSE Apply(es[i])[replayed[i - 1]]
  IN  replayed[Len(es)]

EditsInit == edits = <<>>

CmdAddHeader(n, v, last) == edits' = Append(edits, Edit(TRUE, n, v, last, 0))

(* Without patterns the deletion is recorded unseen.                        *)
CmdDeleteHeader(n, i, last) ==
  n \notin Protected /\ edits' = Append(edits, Edit(FALSE, n, "", last, i))

(* With a pattern and an index, if the value there matches.                 *)
CmdDeleteHeaderAt(n, i, last, pattern) ==
  /\ n \notin Protected
  /\ \E vs \in {applyHeaderEdits(edits, n)} :
       /\ At(vs, i, last) \in DOMAIN vs
       /\ Trim[vs[At(vs, i, last)]] \in pattern
       /\ edits' = Append(edits, Edit(FALSE, n, "", last, i))

(* The edits es and a deletion of each of the values vs that matches.       *)
(* Mutant: the deletion names the trimmed value that was matched.           *)
DeletionsTrimmed(es, n, vs, pattern) ==
  LET recorded[i \in 0..Len(vs)] ==
        IF i = 0 THEN es
        ELSE IF Trim[vs[i]] \notin pattern THEN recorded[i - 1]
        ELSE Append(recorded[i - 1], Edit(FALSE, n, Trim[vs[i]], FALSE, 0))
  IN  recorded[Len(vs)]
Deletions(es, n, vs, pattern) ==
  LET recorded[i \in 0..Len(vs)] ==
        IF i = 0 THEN es
        ELSE IF Trim[vs[i]] \notin pattern THEN recorded[i - 1]
        ELSE Append(recorded[i - 1], Edit(FALSE, n, vs[i], FALSE, 0))
  IN  recorded[Len(vs)]

(* With a pattern alone, one deletion for each value that matches.          *)
CmdDeleteHeaderMatching(n, pattern) ==
  /\ n \notin Protected
  /\ \E vs \in {applyHeaderEdits(edits, n)} : edits' = Deletions(edits, n, vs, pattern)

Patterns == SUBSET {Trim[v] : v \in FieldValues} \ {{}}

EditsNext ==
  \E n \in FieldNames, last \in BOOLEAN :
    \/ \E v \in FieldValues : CmdAddHeader(n, v, last)
    \/ \E i \in 0..MaxIndex : (last => i > 0) /\ CmdDeleteHeader(n, i, last)
    \/ \E i \in 1..MaxIndex, pattern \in Patterns : CmdDeleteHeaderAt(n, i, last, pattern)
    \/ \E pattern \in Patterns : CmdDeleteHeaderMatching(n, pattern)

EditsSpec == EditsInit /\ [][EditsNext]_edits

(* Recording and replaying edits is editing in place: the values a later    *)
(* deleteheader sees are those of a message edited at once, also where      *)
(* values repeat, indices count from the end, or the value matched was      *)
(* trimmed.                                                                 *)
Fields == INSTANCE HeaderFields WITH fields <- [n \in FieldNames |-> applyHeaderEdits(edits, n)]
ReplaysAsEdited == Fields!FieldsSpec
=============================================================================

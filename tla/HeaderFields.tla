---------------------------- MODULE HeaderFields ----------------------------
(* What addheader and deleteheader promise: the message's fields of each    *)
(* name, edited in place (RFC 5293 as interp/editheader.go has it).         *)
EXTENDS Integers, Sequences

CONSTANTS
  FieldNames,   \* case-folded
  Protected,    \* names deleteheader leaves alone
  FieldValues,  \* "" is one a field may have
  Trim,         \* the value without the space around it
  Original      \* the message's fields: [FieldNames -> Seq(FieldValues)]

VARIABLE fields

FieldsInit == fields = Original

Put(n, vs) == fields' = [fields EXCEPT ![n] = vs]

Add(n, v, last) == Put(n, IF last THEN Append(fields[n], v) ELSE <<v>> \o fields[n])

(* The i-th field of the name, counted from the end if last.                *)
Place(vs, i, last) == IF last THEN Len(vs) - i + 1 ELSE i
DeleteAt(n, i, last) ==
  LET p == Place(fields[n], i, last)
  IN  Put(n, SubSeq(fields[n], 1, p - 1) \o SubSeq(fields[n], p + 1, Len(fields[n])))

DeleteAll(n) == Put(n, <<>>)

(* The fields whose trimmed value is among those the pattern matches. An    *)
(* empty value takes every field of its name along: a recorded deletion     *)
(* that names no value and no index deletes all.                            *)
Kept(vs, pattern) ==
  LET kept[i \in 0..Len(vs)] ==
        IF i = 0 THEN <<>>
        ELSE IF Trim[vs[i]] \in pattern THEN kept[i - 1] ELSE Append(kept[i - 1], vs[i])
  IN  kept[Len(vs)]
DeleteMatching(n, pattern) ==
  Put(n, IF "" \in pattern /\ \E i \in DOMAIN fields[n] : fields[n][i] = "" THEN <<>>
         ELSE Kept(fields[n], pattern))

FieldsNext ==
  \E n \in FieldNames :
    \/ \E v \in FieldValues, last \in BOOLEAN : Add(n, v, last)
    \/ n \notin Protected /\ \/ DeleteAll(n)
                             \/ \E i \in 1..Len(fields[n]), last \in BOOLEAN : DeleteAt(n, i, last)
                             \/ \E pattern \in SUBSET {Trim[v] : v \in FieldValues} : DeleteMatching(n, pattern)

FieldsSpec == FieldsInit /\ [][FieldsNext]_fields
=============================================================================

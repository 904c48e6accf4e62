---------------------------- MODULE MessageEdits ----------------------------
(* The edits of one run. Those of header fields and those of MIME parts     *)
(* share no state, so a run makes edits of one kind.                        *)
EXTENDS HeaderEdits, MimeEdits

CONSTANTS MaxFieldCommands, MaxPartCommands

VARIABLES fieldCommands, partCommands

vars == <<edits, mimeVars, fieldCommands, partCommands>>

Init == EditsInit /\ MimeInit /\ fieldCommands = 0 /\ partCommands = 0

Next ==
  \/ /\ fieldCommands < MaxFieldCommands /\ partCommands = 0
     /\ EditsNext /\ fieldCommands' = fieldCommands + 1
     /\ UNCHANGED <<mimeVars, partCommands>>
  \/ /\ partCommands < MaxPartCommands /\ fieldCommands = 0
     /\ MimeNext /\ partCommands' = partCommands + 1
     /\ UNCHANGED <<edits, fieldCommands>>

Spec == Init /\ [][Next]_vars
=============================================================================

------------------------------ MODULE MimeEdits -----------------------------
(* replace and enclose change the MIME tree that foreverypart goes through, *)
(* and serialise it as the message to deliver; filter writes that message   *)
(* too (interp/mime.go, interp/mime_actions.go, interp/filter.go).          *)
(*                                                                          *)
(* Parts are pointers, so the tree is a heap of nodes that are overwritten  *)
(* in place. The content of a part stands for its header and body.          *)
EXTENDS Integers, SequencesExt

CONSTANTS
  ParsedHeap,  \* the nodes parseMIMETree makes of the message; the first is the root
  Texts,       \* texts a script may put in
  MaxNodes, MaxLoops

VARIABLES
  heap,          \* the parts ever made, attached or not
  root,          \* RuntimeData.mimeTreeCache
  loops,         \* the foreverypart loops being run: the parts they go through, and where they are
  filtered,      \* RuntimeData.FilteredMessage, <<>> if nil
  restructured   \* history: a running loop saw an enclose, or a replace of a part with children

mimeVars == <<heap, root, loops, filtered, restructured>>

(* mimePart                                                                 *)
Part(multi, text, kids) == [multi |-> multi, text |-> text, kids |-> kids]

(* mimePart.descendants, depth first                                        *)
RECURSIVE descendants(_, _)
descendants(h, p) == FlattenSeq([i \in DOMAIN h[p].kids |-> <<h[p].kids[i]>> \o descendants(h, h[p].kids[i])])

(* serializeMIME: children if there are any, and the body otherwise.        *)
RECURSIVE serializeMIME(_, _)
serializeMIME(h, p) ==
  <<IF h[p].multi THEN "multipart" ELSE "single">>
  \o (IF h[p].kids = <<>> THEN h[p].text
      ELSE FlattenSeq([i \in DOMAIN h[p].kids |-> serializeMIME(h, h[p].kids[i])]))
  \o <<"end">>

(* currentMIMEPart                                                          *)
Current == Last(loops).set[Last(loops).at]

-----------------------------------------------------------------------------
MimeInit ==
  /\ heap = ParsedHeap /\ root = 1
  /\ loops = <<>> /\ filtered = <<>> /\ restructured = FALSE

(* CmdForEveryPart.Execute: the parts are listed once, before the first     *)
(* turn.                                                                    *)
LoopSet ==
  IF loops # <<>> THEN descendants(heap, Current)
  ELSE IF heap[root].multi THEN descendants(heap, root)
  ELSE <<root>>
CmdForEveryPart ==
  /\ Len(loops) < MaxLoops /\ LoopSet # <<>>
  /\ loops' = Append(loops, [set |-> LoopSet, at |-> 1])
  /\ UNCHANGED <<heap, root, filtered, restructured>>

Leave == /\ loops' = Front(loops)
         /\ restructured' = (restructured /\ Len(loops) > 1)
NextPart ==
  /\ loops # <<>>
  /\ IF Last(loops).at < Len(Last(loops).set)
     THEN loops' = [loops EXCEPT ![Len(loops)].at = @ + 1] /\ UNCHANGED restructured
     ELSE Leave
  /\ UNCHANGED <<heap, root, filtered>>

CmdBreak ==
  /\ loops # <<>> /\ Leave
  /\ UNCHANGED <<heap, root, filtered>>

(* What parseReplacementEntity makes of a :mime replacement: a single part, *)
(* also if it cannot be parsed, or a multipart of two. at is its first      *)
(* child's place in the heap.                                               *)
Entity(text, multi, at) == IF multi THEN Part(TRUE, <<text>>, <<at, at + 1>>) ELSE Part(FALSE, <<text>>, <<>>)
Children(text, multi) == IF multi THEN <<Part(FALSE, <<text>>, <<>>), Part(FALSE, <<"b">>, <<>>)>> ELSE <<>>

(* CmdReplace.Execute: in a loop the current part is overwritten. Outside,  *)
(* :mime puts another root in place and a text overwrites the root. Without *)
(* :mime the replacement is a single part, as setPlainText makes it.        *)
Overwritten(p, text, multi) ==
  [heap EXCEPT ![p] = Entity(text, multi, Len(heap) + 1)] \o Children(text, multi)
(* Mutant: a loop's part is not looked at.                                  *)
ReplacedRoot(text, mime, multi) ==
  IF mime THEN Append(heap, Entity(text, multi, Len(heap) + 2)) \o Children(text, multi)
  ELSE Overwritten(root, text, FALSE)
Replaced(text, mime, multi) ==
  IF loops # <<>> THEN Overwritten(Current, text, multi)
  ELSE IF mime THEN Append(heap, Entity(text, multi, Len(heap) + 2)) \o Children(text, multi)
  ELSE Overwritten(root, text, FALSE)
(* Mutant: the message is serialised only outside loops.                    *)
ReplaceUnserved(text, mime, multi) ==
  /\ (multi => mime) /\ Len(heap) + 3 <= MaxNodes
  /\ \E h \in {Replaced(text, mime, multi)}, r \in {IF loops = <<>> /\ mime THEN Len(heap) + 1 ELSE root} :
       /\ heap' = h /\ root' = r
       /\ filtered' = IF loops = <<>> THEN serializeMIME(h, r) ELSE filtered
  /\ restructured' = (restructured \/ (loops # <<>> /\ heap[Current].kids # <<>>))
  /\ UNCHANGED loops
CmdReplace(text, mime, multi) ==
  /\ (multi => mime) /\ Len(heap) + 3 <= MaxNodes
  /\ \E h \in {Replaced(text, mime, multi)}, r \in {IF loops = <<>> /\ mime THEN Len(heap) + 1 ELSE root} :
       heap' = h /\ root' = r /\ filtered' = serializeMIME(h, r)
  /\ restructured' = (restructured \/ (loops # <<>> /\ heap[Current].kids # <<>>))
  /\ UNCHANGED loops

(* CmdEnclose.Execute: a new root over a cover and the serialised message.  *)
CmdEnclose(text) ==
  LET n == Len(heap)
      h == heap \o <<Part(FALSE, <<text>>, <<>>), Part(FALSE, serializeMIME(heap, root), <<>>),
                     Part(TRUE, <<>>, <<n + 1, n + 2>>)>>
  IN  /\ n + 3 <= MaxNodes
      /\ heap' = h /\ root' = n + 3
      /\ filtered' = serializeMIME(h, n + 3)
      /\ restructured' = (restructured \/ loops # <<>>)
      /\ UNCHANGED loops

(* runFilter: the program sees the message as it came, and its output, if   *)
(* there is any, replaces what was to be delivered.                         *)
CmdFilter(output) ==
  /\ filtered' = output
  /\ UNCHANGED <<heap, root, loops, restructured>>

MimeNext ==
  \/ CmdForEveryPart \/ NextPart \/ CmdBreak
  \/ \E text \in Texts, mime, multi \in BOOLEAN : CmdReplace(text, mime, multi)
  \/ \E text \in Texts : CmdEnclose(text)
  \/ \E output \in {<<>>, <<"program">>} : CmdFilter(output)

-----------------------------------------------------------------------------
Attached(p) == p = root \/ Contains(descendants(heap, root), p)

(* While a loop has replaced only parts without children, every part it is  *)
(* still to visit belongs to the message: replacing a part in place keeps   *)
(* it where it is, also by a multipart, also in nested loops.               *)
LeafEditsStayAttached ==
  ~restructured => \A i \in DOMAIN loops, j \in 1..MaxNodes :
                     j \in DOMAIN loops[i].set => Attached(loops[i].set[j])

(* A replace inside a loop changes the message to deliver if the current    *)
(* part still belongs to it. If an enclose or the replacement of an outer   *)
(* part has taken the part out, the edit is lost and the tree delivered as  *)
(* it was.                                                                  *)
ReplaceShownIfAttached ==
  [][loops # <<>> /\ serializeMIME(heap', Current) # serializeMIME(heap, Current)
       => (filtered' # serializeMIME(heap, root) <=> Attached(Current))]_mimeVars
=============================================================================

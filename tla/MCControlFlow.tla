---------------------------- MODULE MCControlFlow ----------------------------
(* ControlBlocks.cfg: branches and loops over a message of three parts below *)
(* the top-level one, two of them nested, with one script to include.        *)
(* ControlIncludes.cfg: three scripts of which only two may be nested, over  *)
(* a message without parts. The scripts are interchangeable.                 *)
EXTENDS ControlFlow, TLC

MCParts == {"root", "alt", "text", "pdf"}
MCChildren == [p \in MCParts |-> CASE p = "root" -> <<"alt", "pdf">>
                                   [] p = "alt"  -> <<"text">>
                                   [] OTHER      -> <<>>]
MCOnePart == {"root"}
MCNoChildren == [p \in MCOnePart |-> <<>>]
MCOneScript == {"a"}
MCSymmetry == Permutations(Scripts)
MCMissing == {"gone"}
MCBroken == {"bad"}
MCLoopNames == {"outer"}
MCNone == {}
=============================================================================

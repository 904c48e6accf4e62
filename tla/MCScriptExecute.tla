--------------------------- MODULE MCScriptExecute ---------------------------
(* Two mailboxes, two programs and a limit of two actions, with room in the *)
(* log for two more: what happens at the limit and past it is reached.      *)
EXTENDS ScriptExecute

MCMailboxes == {"Junk", "Lists"}
MCPrograms == {"scan", "archive"}
=============================================================================

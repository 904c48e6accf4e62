--------------------------- MODULE MCMemorySession ---------------------------
(* Two clients, four names of which one is invalid, three texts of which    *)
(* one does not load, and room for two scripts: the second client's         *)
(* PutScript meets the limit between the first one's checks and its store.  *)
EXTENDS MemorySession

MCNames == {"a", "b", "c", "bad"}
MCBadNames == {"bad"}
MCContents == {"x", "y", "broken"}
MCBadContents == {"broken"}
MCClients == {"c1", "c2"}
=============================================================================

--------------------------- MODULE MCStoredFiles ---------------------------
(* Instances of StoredFiles for TLC. *)
EXTENDS StoredFiles, TLC

Symmetric == Permutations(Requests) \cup Permutations(Chats)
=============================================================================

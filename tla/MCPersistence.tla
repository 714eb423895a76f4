--------------------------- MODULE MCPersistence ---------------------------
(* Values for TLC: an account of two digits, so that a torn number is that *)
(* of another account.                                                     *)
EXTENDS Persistence

OneUid == {12}

=============================================================================

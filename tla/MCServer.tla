------------------------------ MODULE MCServer ------------------------------
(* Values for TLC: two addresses, the first with more connections than its *)
(* limits admit. Client objects and tokens are interchangeable.            *)
EXTENDS Server

CONSTANTS kAway, home, away

MCRealClientIp ==
    [k \in Connection |-> IF k = kAway THEN away ELSE home]

Symmetry ==
    Permutations(Client) \cup Permutations(Token) \cup Permutations(Connection \ {kAway})

=============================================================================

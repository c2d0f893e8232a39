--------------------------- MODULE MCSeederPushes ---------------------------
(* Two rows of one account. *)
EXTENDS SeederPushes

OneAccount == [r \in 1..2 |-> "ann"]
TwoFolders == [r \in 1..2 |-> IF r = 1 THEN "A" ELSE "B"]
=============================================================================

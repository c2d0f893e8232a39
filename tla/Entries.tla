------------------------------- MODULE Entries -------------------------------
(***************************************************************************)
(* A dictionary is a function on its keys.                                 *)
(***************************************************************************)

\* f with the value e for the key x, which may be new.
Put(f, x, e) == [y \in DOMAIN f \cup {x} |-> IF y = x THEN e ELSE f[y]]

\* The same, but a value that is there stays.
PutNew(f, x, e) == [y \in DOMAIN f \cup {x} |-> IF y \in DOMAIN f THEN f[y] ELSE e]
=============================================================================

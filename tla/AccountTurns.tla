---------------------------- MODULE AccountTurns ----------------------------
(***************************************************************************)
(* What the reset queue, and the pushes of the seeder, promise about the   *)
(* Google accounts: a worker takes an account, changes it as it likes      *)
(* while it has it, and gives it back; no account is ever in two hands,    *)
(* and an account nobody has is not touched.  Queues, rows, locks and      *)
(* retries are not mentioned.                                              *)
(***************************************************************************)
CONSTANTS Workers, Accounts, Contents, Nobody

VARIABLES user, content

TurnsInit ==
    /\ user = [a \in Accounts |-> Nobody]
    /\ content \in [Accounts -> Contents]

Take(w, a) ==
    /\ user[a] = Nobody
    /\ user' = [user EXCEPT ![a] = w]
    /\ UNCHANGED content

Work(a) ==
    /\ user[a] # Nobody
    /\ \E c \in Contents : content' = [content EXCEPT ![a] = c]
    /\ UNCHANGED user

\* By one user or, when a process dies, by all of its threads at once.
GiveBack(A) ==
    /\ \A a \in A : user[a] # Nobody
    /\ user' = [a \in Accounts |-> IF a \in A THEN Nobody ELSE user[a]]
    /\ UNCHANGED content

TurnsNext ==
    \/ \E a \in Accounts, w \in Workers : Take(w, a)
    \/ \E a \in Accounts : Work(a)
    \/ \E A \in SUBSET Accounts : GiveBack(A)

TurnsSpec == TurnsInit /\ [][TurnsNext]_<<user, content>>
=============================================================================

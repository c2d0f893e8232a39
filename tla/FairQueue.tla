----------------------------- MODULE FairQueue ------------------------------
(***************************************************************************)
(* The round-robin queue of materialize/provision/queues.py: `order` is    *)
(* the deque of account keys, `bucket` the dictionary of their deques.     *)
(* Each operation runs under the queue's condition variable, so it is one  *)
(* operator here.                                                          *)
(***************************************************************************)
EXTENDS Sequences

\* A queue over the given account keys.
NewQueue(Keys) == [order |-> << >>, bucket |-> [k \in Keys |-> << >>]]

\* put: a key without a bucket gets one and joins the end of the order.
Put(q, key, item) ==
    [order  |-> IF q.bucket[key] = << >> THEN Append(q.order, key) ELSE q.order,
     bucket |-> [q.bucket EXCEPT ![key] = Append(@, item)]]

Waiting(q) == q.order # << >>

\* get: the oldest item of the first key; a key with items left goes to the back.
NextOf(q) == Head(q.bucket[Head(q.order)])
AfterGet(q) ==
    LET key  == Head(q.order)
        left == Tail(q.bucket[key])
    IN  [order  |-> IF left = << >> THEN Tail(q.order) ELSE Append(Tail(q.order), key),
         bucket |-> [q.bucket EXCEPT ![key] = left]]
=============================================================================

---------------------- MODULE ProvisionPipelineProofs -----------------------
(***************************************************************************)
(* Proofs about the provisioning pipeline, for any plan, any number of     *)
(* workers of each service, any number of failed calls, crashes, retries   *)
(* and pushes, one push at a time.                                         *)
(***************************************************************************)
EXTENDS ProvisionPipeline, TLAPS

-----------------------------------------------------------------------------
(* The round-robin queue *)

AQueue == [order : Seq(Accounts), bucket : [Accounts -> Seq(Entry)]]

\* A queue of a service has each key once in its order, no key without items, and
\* the items of an account in its bucket.
Good(q, s) ==
    /\ q \in AQueue
    /\ \A i, k \in 1..Len(q.order) : q.order[i] = q.order[k] => i = k
    /\ \A i \in 1..Len(q.order) : q.bucket[q.order[i]] # << >>
    /\ \A a \in Accounts : \A i \in 1..Len(q.bucket[a]) : Slot(q.bucket[a][i].job) = <<a, s>>

\* A job is in a queue; no job is twice in it.
InQueue(q, j) == \E a \in Accounts : \E i \in 1..Len(q.bucket[a]) : q.bucket[a][i].job = j
Distinct(q) ==
    \A a \in Accounts : \A i, k \in 1..Len(q.bucket[a]) :
        q.bucket[a][i].job = q.bucket[a][k].job => i = k

LEMMA EntryType == \A e \in Entry : /\ e.job \in Jobs /\ e.retry \in Retries
                                    /\ Plan[e.job].account \in Accounts
                                    /\ Plan[e.job].service \in Services
BY DEF Entry, Accounts, Services

\* The elements of a sequence that is one longer or one shorter.
LEMMA AtTheEnd ==
    ASSUME NEW T, NEW s \in Seq(T), NEW x \in T
    PROVE  /\ Append(s, x) \in Seq(T) /\ Len(Append(s, x)) = Len(s) + 1 /\ Len(s) \in Nat
           /\ \A i \in 1..Len(Append(s, x)) :
                 \/ i \in 1..Len(s) /\ Append(s, x)[i] = s[i] /\ s[i] \in T
                 \/ i = Len(s) + 1 /\ Append(s, x)[i] = x
           /\ \A i \in 1..Len(s) : i \in 1..Len(Append(s, x)) /\ Append(s, x)[i] = s[i]
           /\ Len(s) + 1 \in 1..Len(Append(s, x)) /\ Append(s, x)[Len(s) + 1] = x
           /\ Append(s, x) # << >>
<1>1. /\ Append(s, x) \in Seq(T) /\ Len(Append(s, x)) = Len(s) + 1 /\ Len(s) \in Nat
      /\ \A i \in 1..Len(s) : Append(s, x)[i] = s[i] /\ s[i] \in T
      /\ Append(s, x)[Len(s) + 1] = x /\ Append(s, x) # << >>
    OBVIOUS
<1> DEFINE t == Append(s, x)
           n == Len(s)
<1> HIDE DEF t, n
<1>2. 1..Len(t) = 1..(n + 1) /\ n \in Nat
    BY <1>1 DEF t, n
<1>3. \A i \in 1..Len(t) : i \in 1..n \/ i = n + 1
    BY <1>2
<1>4. n + 1 \in 1..Len(t) /\ \A i \in 1..n : i \in 1..Len(t)
    BY <1>2
<1>. QED BY <1>1, <1>3, <1>4 DEF t, n

LEMMA AtTheFront ==
    ASSUME NEW T, NEW s \in Seq(T), s # << >>
    PROVE  /\ Tail(s) \in Seq(T) /\ Len(Tail(s)) = Len(s) - 1 /\ Len(s) \in Nat /\ Len(s) > 0
           /\ Head(s) = s[1] /\ Head(s) \in T /\ 1 \in 1..Len(s)
           /\ \A i \in 1..Len(Tail(s)) : i + 1 \in 1..Len(s) /\ Tail(s)[i] = s[i + 1] /\ i + 1 # 1
           /\ \A i \in 1..Len(s) : i = 1 \/ (i - 1 \in 1..Len(Tail(s)) /\ Tail(s)[i - 1] = s[i])
           /\ Tail(s) = << >> <=> Len(s) = 1
<1> DEFINE t == Tail(s)
           n == Len(s)
<1>1. /\ t \in Seq(T) /\ n \in Nat /\ n > 0 /\ Len(t) = n - 1
      /\ Head(s) = s[1] /\ Head(s) \in T
    OBVIOUS
<1>2. \A i \in 1..(n - 1) : t[i] = s[i + 1]
    BY <1>1
<1>3. t = << >> <=> Len(t) = 0
    BY <1>1
<1> HIDE DEF t, n
<1>4. \A i \in 1..(n - 1) : i + 1 \in 1..n /\ i + 1 # 1
    BY <1>1
<1>5. \A i \in 1..n : i = 1 \/ (i - 1 \in 1..(n - 1) /\ (i - 1) + 1 = i)
    BY <1>1
<1>6. 1 \in 1..n /\ (Len(t) = 0 <=> n = 1)
    BY <1>1
<1>7. \A i \in 1..n : i = 1 \/ (i - 1 \in 1..(n - 1) /\ t[i - 1] = s[i])
    BY <1>2, <1>5
<1>. QED BY <1>1, <1>2, <1>3, <1>4, <1>6, <1>7 DEF t, n

LEMMA PutQueue ==
    ASSUME NEW s \in Services, NEW q, Good(q, s), NEW e \in Entry,
           NEW a \in Accounts, Slot(e.job) = <<a, s>>
    PROVE  /\ Good(Put(q, a, e), s)
           /\ Distinct(q) /\ ~InQueue(q, e.job) => Distinct(Put(q, a, e))
           /\ \A j : InQueue(Put(q, a, e), j) <=> InQueue(q, j) \/ j = e.job
<1> DEFINE r == Put(q, a, e)
           b == q.bucket[a]
           o == q.order
           c == Append(b, e)
<1>1. o \in Seq(Accounts) /\ q.bucket \in [Accounts -> Seq(Entry)] /\ b \in Seq(Entry)
    BY DEF Good, AQueue
<1>2. /\ r.bucket \in [Accounts -> Seq(Entry)] /\ r.bucket[a] = c
      /\ \A d \in Accounts \ {a} : r.bucket[d] = q.bucket[d]
      /\ r.order = IF b = << >> THEN Append(o, a) ELSE o
    BY <1>1 DEF Put
<1>3. /\ c \in Seq(Entry) /\ Len(c) = Len(b) + 1 /\ Len(b) \in Nat /\ c # << >>
      /\ \A i \in 1..Len(c) : \/ i \in 1..Len(b) /\ c[i] = b[i]
                              \/ i = Len(b) + 1 /\ c[i] = e
      /\ \A i \in 1..Len(b) : i \in 1..Len(c) /\ c[i] = b[i]
      /\ Len(b) + 1 \in 1..Len(c) /\ c[Len(b) + 1] = e
    BY <1>1, AtTheEnd
<1>4. r \in AQueue
    BY <1>1, <1>2 DEF Put, AQueue
<1>5. /\ \A i, k \in 1..Len(o) : o[i] = o[k] => i = k
      /\ \A i \in 1..Len(o) : q.bucket[o[i]] # << >> /\ o[i] \in Accounts
    BY <1>1 DEF Good
<1>6. /\ \A i, k \in 1..Len(r.order) : r.order[i] = r.order[k] => i = k
      /\ \A i \in 1..Len(r.order) : r.bucket[r.order[i]] # << >>
    <2>1. CASE b = << >>
        <3> DEFINE n == Append(o, a)
        <3>1. r.order = n
            BY <1>2, <2>1
        <3>2. /\ \A i \in 1..Len(n) : \/ i \in 1..Len(o) /\ n[i] = o[i]
                                      \/ i = Len(o) + 1 /\ n[i] = a
            BY <1>1, AtTheEnd
        <3>3. \A i \in 1..Len(o) : o[i] # a
            BY <1>5, <2>1
        <3> HIDE DEF n, c, r, b, o
        <3>4. \A i, k \in 1..Len(n) : n[i] = n[k] => i = k
            BY <1>5, <3>2, <3>3
        <3>5. \A i \in 1..Len(n) : r.bucket[n[i]] # << >>
            BY <1>2, <1>3, <1>5, <3>2
        <3>. QED BY <3>1, <3>4, <3>5
    <2>2. CASE b # << >>
        <3>1. r.order = o
            BY <1>2, <2>2
        <3> HIDE DEF c, r, b, o
        <3>. QED BY <1>2, <1>3, <1>5, <3>1
    <2>. QED BY <2>1, <2>2
<1>7. \A d \in Accounts : \A i \in 1..Len(r.bucket[d]) :
          \/ i \in 1..Len(q.bucket[d]) /\ r.bucket[d][i] = q.bucket[d][i]
          \/ d = a /\ i = Len(b) + 1 /\ r.bucket[d][i] = e
    <2> HIDE DEF c, r
    <2>. QED BY <1>2, <1>3
<1>8. /\ \A d \in Accounts : \A i \in 1..Len(q.bucket[d]) :
             i \in 1..Len(r.bucket[d]) /\ r.bucket[d][i] = q.bucket[d][i]
      /\ Len(b) + 1 \in 1..Len(r.bucket[a]) /\ r.bucket[a][Len(b) + 1] = e
    <2> HIDE DEF c, r
    <2>. QED BY <1>2, <1>3
<1> HIDE DEF r
<1>9. Good(r, s)
    BY <1>4, <1>6, <1>7 DEF Good
<1>10. ASSUME Distinct(q), ~InQueue(q, e.job) PROVE Distinct(r)
    <2> SUFFICES ASSUME NEW d \in Accounts, NEW i \in 1..Len(r.bucket[d]), NEW k \in 1..Len(r.bucket[d]),
                        r.bucket[d][i].job = r.bucket[d][k].job
                 PROVE  i = k
        BY DEF Distinct
    <2>1. \A n \in 1..Len(q.bucket[d]) : q.bucket[d][n].job # e.job
        BY <1>10 DEF InQueue
    <2>2. \A n, m \in 1..Len(q.bucket[d]) : q.bucket[d][n].job = q.bucket[d][m].job => n = m
        BY <1>10 DEF Distinct
    <2>3. \A n \in 1..Len(r.bucket[d]) :
             \/ n \in 1..Len(q.bucket[d]) /\ r.bucket[d][n] = q.bucket[d][n]
             \/ n = Len(b) + 1 /\ r.bucket[d][n] = e
        BY <1>7
    <2> HIDE DEF b
    <2>. QED BY <2>1, <2>2, <2>3
<1>11. ASSUME NEW j PROVE InQueue(r, j) <=> InQueue(q, j) \/ j = e.job
    <2>1. InQueue(r, j) => InQueue(q, j) \/ j = e.job
        BY <1>7 DEF InQueue
    <2>2. InQueue(q, j) \/ j = e.job => InQueue(r, j)
        BY <1>8 DEF InQueue
    <2>. QED BY <2>1, <2>2
<1>. QED BY <1>9, <1>10, <1>11 DEF r

LEMMA GetQueue ==
    ASSUME NEW s \in Services, NEW q, Good(q, s), Waiting(q)
    PROVE  /\ NextOf(q) \in Entry /\ Plan[NextOf(q).job].service = s
           /\ InQueue(q, NextOf(q).job)
           /\ Good(AfterGet(q), s)
           /\ Distinct(q) =>
                 /\ Distinct(AfterGet(q))
                 /\ \A j : InQueue(AfterGet(q), j) <=> InQueue(q, j) /\ j # NextOf(q).job
<1> DEFINE r == AfterGet(q)
           o == q.order
           a == Head(o)
           b == q.bucket[a]
           c == Tail(b)
           t == Tail(o)
<1>1. o \in Seq(Accounts) /\ q.bucket \in [Accounts -> Seq(Entry)] /\ o # << >>
    BY DEF Good, AQueue, Waiting
<1>2. /\ a \in Accounts /\ o[1] = a /\ 1 \in 1..Len(o) /\ t \in Seq(Accounts) /\ Len(o) \in Nat
      /\ Len(t) = Len(o) - 1
      /\ \A i \in 1..Len(t) : i + 1 \in 1..Len(o) /\ t[i] = o[i + 1] /\ i + 1 # 1
    BY <1>1, AtTheFront
<1>3. b \in Seq(Entry) /\ b # << >>
    BY <1>1, <1>2 DEF Good
<1>4. /\ c \in Seq(Entry) /\ Len(b) \in Nat /\ NextOf(q) = b[1] /\ b[1] \in Entry /\ 1 \in 1..Len(b)
      /\ \A i \in 1..Len(c) : i + 1 \in 1..Len(b) /\ c[i] = b[i + 1] /\ i + 1 # 1 /\ i \in Nat
      /\ \A i \in 1..Len(b) : i = 1 \/ (i - 1 \in 1..Len(c) /\ c[i - 1] = b[i])
    BY <1>3, AtTheFront DEF NextOf
<1>5. /\ r.bucket = [q.bucket EXCEPT ![a] = c]
      /\ r.order = IF c = << >> THEN t ELSE Append(t, a)
      /\ r = [order |-> r.order, bucket |-> r.bucket]
    BY DEF AfterGet
<1>6. /\ r.bucket \in [Accounts -> Seq(Entry)] /\ r.bucket[a] = c
      /\ \A d \in Accounts \ {a} : r.bucket[d] = q.bucket[d]
    BY <1>1, <1>2, <1>4, <1>5
<1>7. r.order \in Seq(Accounts)
    BY <1>2, <1>5
<1>8. r \in AQueue
    BY <1>5, <1>6, <1>7 DEF AQueue
<1>9. /\ \A i, k \in 1..Len(o) : o[i] = o[k] => i = k
      /\ \A i \in 1..Len(o) : q.bucket[o[i]] # << >>
    BY DEF Good
<1>10. /\ \A i, k \in 1..Len(t) : t[i] = t[k] => i = k
       /\ \A i \in 1..Len(t) : t[i] # a /\ t[i] \in Accounts /\ q.bucket[t[i]] # << >>
    <2>1. \A i, k \in 1..Len(t) : i + 1 = k + 1 => i = k
        OBVIOUS
    <2> HIDE DEF t, o, a
    <2>2. ASSUME NEW i \in 1..Len(t), NEW k \in 1..Len(t), t[i] = t[k] PROVE i = k
        <3>1. o[i + 1] = o[k + 1] /\ i + 1 \in 1..Len(o) /\ k + 1 \in 1..Len(o)
            BY <1>2, <2>2
        <3>2. i + 1 = k + 1
            BY <1>9, <3>1
        <3>. QED BY <2>1, <3>2
    <2>3. ASSUME NEW i \in 1..Len(t) PROVE t[i] # a /\ t[i] \in Accounts /\ q.bucket[t[i]] # << >>
        <3>1. o[i + 1] = t[i] /\ i + 1 \in 1..Len(o) /\ i + 1 # 1
            BY <1>2
        <3>2. o[i + 1] # o[1]
            BY <1>2, <1>9, <3>1
        <3>3. o[i + 1] \in Accounts
            BY <1>1, <3>1
        <3>. QED BY <1>2, <1>9, <3>1, <3>2, <3>3
    <2>. QED BY <2>2, <2>3
<1>11. /\ \A i, k \in 1..Len(r.order) : r.order[i] = r.order[k] => i = k
       /\ \A i \in 1..Len(r.order) : r.bucket[r.order[i]] # << >>
    <2>1. CASE c = << >>
        <3>1. r.order = t
            BY <1>5, <2>1
        <3> HIDE DEF r, t, a, c
        <3>. QED BY <1>6, <1>10, <3>1
    <2>2. CASE c # << >>
        <3> DEFINE n == Append(t, a)
        <3>1. r.order = n
            BY <1>5, <2>2
        <3>2. /\ \A i \in 1..Len(n) : \/ i \in 1..Len(t) /\ n[i] = t[i]
                                      \/ i = Len(t) + 1 /\ n[i] = a
            BY <1>2, AtTheEnd
        <3> HIDE DEF r, t, a, c, n
        <3>. QED BY <1>6, <1>10, <2>2, <3>1, <3>2
    <2>. QED BY <2>1, <2>2
<1>12. \A d \in Accounts : \A i \in 1..Len(r.bucket[d]) :
          \/ d # a /\ i \in 1..Len(q.bucket[d]) /\ r.bucket[d][i] = q.bucket[d][i]
          \/ d = a /\ i + 1 \in 1..Len(q.bucket[d]) /\ r.bucket[d][i] = q.bucket[d][i + 1] /\ i + 1 # 1
    <2> HIDE DEF r, c, a
    <2>. QED BY <1>4, <1>6
<1>13. \A d \in Accounts : \A i \in 1..Len(q.bucket[d]) :
          \/ d # a /\ i \in 1..Len(r.bucket[d]) /\ r.bucket[d][i] = q.bucket[d][i]
          \/ d = a /\ i = 1
          \/ d = a /\ i - 1 \in 1..Len(r.bucket[d]) /\ r.bucket[d][i - 1] = q.bucket[d][i]
    <2> HIDE DEF r, c, a
    <2>. QED BY <1>4, <1>6
<1> DEFINE e == NextOf(q)
<1>14. e \in Entry /\ Slot(e.job) = <<a, s>> /\ q.bucket[a][1] = e /\ 1 \in 1..Len(q.bucket[a])
    BY <1>2, <1>4 DEF Good
<1> HIDE DEF r, a, e
<1>15. Good(r, s)
    <2>1. \A d \in Accounts : \A i \in 1..Len(q.bucket[d]) : Slot(q.bucket[d][i].job) = <<d, s>>
        BY DEF Good
    <2>2. ASSUME NEW d \in Accounts, NEW i \in 1..Len(r.bucket[d])
          PROVE  Slot(r.bucket[d][i].job) = <<d, s>>
        <3>1. CASE d = a
            BY <1>12, <2>1, <3>1
        <3>2. CASE d # a
            BY <1>12, <2>1, <3>2
        <3>. QED BY <3>1, <3>2
    <2>. QED BY <1>8, <1>11, <2>2 DEF Good
<1>16. ASSUME Distinct(q) PROVE Distinct(r)
    <2> SUFFICES ASSUME NEW d \in Accounts, NEW i \in 1..Len(r.bucket[d]), NEW k \in 1..Len(r.bucket[d]),
                        r.bucket[d][i].job = r.bucket[d][k].job
                 PROVE  i = k
        BY DEF Distinct
    <2>1. i + 1 = k + 1 => i = k
        OBVIOUS
    <2>2. \A n, m \in 1..Len(q.bucket[d]) : q.bucket[d][n].job = q.bucket[d][m].job => n = m
        BY <1>16 DEF Distinct
    <2>3. \/ \A n \in 1..Len(r.bucket[d]) : n \in 1..Len(q.bucket[d]) /\ r.bucket[d][n] = q.bucket[d][n]
          \/ \A n \in 1..Len(r.bucket[d]) : n + 1 \in 1..Len(q.bucket[d]) /\ r.bucket[d][n] = q.bucket[d][n + 1]
        BY <1>12
    <2>4. CASE \A n \in 1..Len(r.bucket[d]) : n \in 1..Len(q.bucket[d]) /\ r.bucket[d][n] = q.bucket[d][n]
        BY <2>2, <2>4
    <2>5. CASE \A n \in 1..Len(r.bucket[d]) : n + 1 \in 1..Len(q.bucket[d]) /\ r.bucket[d][n] = q.bucket[d][n + 1]
        <3> DEFINE n == i + 1
                   m == k + 1
        <3>1. /\ n \in 1..Len(q.bucket[d]) /\ q.bucket[d][n] = r.bucket[d][i]
              /\ m \in 1..Len(q.bucket[d]) /\ q.bucket[d][m] = r.bucket[d][k]
            BY <2>5
        <3> HIDE DEF n, m
        <3>2. n = m
            BY <2>2, <3>1
        <3>. QED BY <2>1, <3>2 DEF n, m
    <2>. QED BY <2>3, <2>4, <2>5
<1>17. ASSUME Distinct(q), NEW j PROVE InQueue(r, j) <=> InQueue(q, j) /\ j # e.job
    <2>1. ASSUME InQueue(r, j) PROVE InQueue(q, j) /\ j # e.job
        <3>0. PICK d \in Accounts : \E i \in 1..Len(r.bucket[d]) : r.bucket[d][i].job = j
            BY <2>1 DEF InQueue
        <3>1. PICK i \in 1..Len(r.bucket[d]) : r.bucket[d][i].job = j
            BY <3>0
        <3>2. CASE d # a
            <4>1. i \in 1..Len(q.bucket[d]) /\ q.bucket[d][i].job = j
                BY <1>12, <3>1, <3>2
            <4>2. Slot(j) = <<d, s>>
                BY <4>1 DEF Good
            <4>3. j # e.job
                BY <1>14, <3>2, <4>2
            <4>. QED BY <4>1, <4>3 DEF InQueue
        <3>3. CASE d = a
            <4>1. i + 1 \in 1..Len(q.bucket[a]) /\ q.bucket[a][i + 1].job = j /\ i + 1 # 1
                BY <1>12, <3>1, <3>3
            <4>2. j # e.job
                BY <1>14, <1>17, <3>3, <4>1 DEF Distinct
            <4>. QED BY <3>3, <4>1, <4>2 DEF InQueue
        <3>. QED BY <3>2, <3>3
    <2>2. ASSUME InQueue(q, j), j # e.job PROVE InQueue(r, j)
        <3>0. PICK d \in Accounts : \E i \in 1..Len(q.bucket[d]) : q.bucket[d][i].job = j
            BY <2>2 DEF InQueue
        <3>1. PICK i \in 1..Len(q.bucket[d]) : q.bucket[d][i].job = j
            BY <3>0
        <3>. QED BY <1>13, <1>14, <2>2, <3>1 DEF InQueue
    <2>. QED BY <2>1, <2>2
<1>18. InQueue(q, e.job) /\ Plan[e.job].service = s
    BY <1>2, <1>14 DEF InQueue, Slot
<1>. QED BY <1>14, <1>15, <1>16, <1>17, <1>18 DEF r, e

-----------------------------------------------------------------------------
(* Types *)

StoreType ==
    /\ status \in [Jobs -> Statuses] /\ retry \in [Jobs -> Retries]
    /\ claim \in [Jobs -> {"none", "fresh", "stale"}]
    /\ deps \in [Jobs -> SUBSET Positions]
ControlType ==
    /\ phase \in [Pipes -> {"off", "planned", "filling", "up", "stopping"}]
    /\ wiping \in [Pipes -> BOOLEAN] /\ idle \in [Pipes -> 0..1]
    /\ result \in [Accounts -> {"none", "ok", "partial", "failed"}]
    /\ pushes \in [Pipes -> 0..MaxPushes]
QueuesTyped ==
    /\ queue \in [Pipes -> [Services -> AQueue]]
    /\ \A p \in Pipes, s \in Services : Good(queue[p][s], s)
TokenType ==
    /\ listed \in [Pipes -> SUBSET Entry] /\ sums \in [Pipes -> SUBSET Jobs]
    /\ heap \in [Pipes -> [Entry -> Nat]]
    /\ QueuesTyped
ThreadType ==
    /\ pc \in [Threads -> PCs] /\ cur \in [Threads -> Entry]
    /\ unread \in [Threads -> SUBSET Positions]
GoogleType ==
    /\ live \in [Jobs -> 0..MaxCopies] /\ dirty \cup spared \subseteq {Slot(j) : j \in Jobs}
    /\ stray \subseteq Jobs
BoundsType ==
    /\ faults \in 0..MaxFaults /\ crashes \in 0..MaxCrashes /\ tried \subseteq Jobs

TypeInv == StoreType /\ ControlType /\ TokenType /\ ThreadType /\ GoogleType /\ BoundsType

LEMMA TypeInvImpliesTypeOK == TypeInv => TypeOK
BY DEF TypeInv, TypeOK, StoreType, ControlType, TokenType, ThreadType, GoogleType, BoundsType, QueuesTyped, AQueue

LEMMA OfThread == \A w \in Threads : Pipe(w) \in Pipes /\ Service(w) \in Services
BY DEF Threads, Pipe, Service

LEMMA OfJob == \A j \in Jobs : Plan[j].account \in Accounts /\ Plan[j].service \in Services
BY DEF Accounts, Services

LEMMA OfDeps == \A j \in Jobs : /\ DOMAIN Plan[j].deps \subseteq Positions
                                /\ \A i \in DOMAIN Plan[j].deps : Plan[j].deps[i] \in Jobs
BY PipelineAssumption DEF Positions

LEMMA Numbers ==
    /\ MaxRetries \in Nat \ {0} /\ MaxFaults \in Nat /\ MaxCrashes \in Nat /\ MaxPushes \in Nat
    /\ MaxReclaims \in Nat /\ MaxCopies \in Nat \ {0} /\ Retries \subseteq Nat
    /\ 0 \in Retries /\ \A n \in Nat : n < MaxRetries => n \in Retries
BY PipelineAssumption DEF MaxCopies, Retries

\* A row of a store.
LEMMA Marked ==
    ASSUME StoreType, NEW j \in Jobs, NEW st \in Statuses, NEW cl \in {"none", "fresh", "stale"},
           Mark(j, st, cl), retry' \in [Jobs -> Retries]
    PROVE  StoreType'
BY DEF Mark, StoreType

LEMMA EmptyQueue == \A s \in Services : Good(NewQueue(Accounts), s) /\ ~Waiting(NewQueue(Accounts))
BY DEF Good, NewQueue, AQueue, Waiting

LEMMA TypeInit == Init => TypeInv
<1> SUFFICES ASSUME Init PROVE TypeInv
    OBVIOUS
<1>1. StoreType
    BY Numbers DEF Init, StoreType, Statuses
<1>2. ControlType
    BY Numbers DEF Init, ControlType
<1>3. TokenType
    <2>1. queue = [p \in Pipes |-> NoQueues] /\ listed = [p \in Pipes |-> {}] /\ sums = [p \in Pipes |-> {}]
          /\ heap = [p \in Pipes |-> NoHeap]
        BY DEF Init
    <2>2. NoHeap \in [Entry -> Nat]
        BY DEF NoHeap
    <2>3. \A s \in Services : NoQueues[s] = NewQueue(Accounts) /\ NewQueue(Accounts) \in AQueue
        BY EmptyQueue DEF NoQueues, Good
    <2>4. NoQueues \in [Services -> AQueue]
        BY <2>3 DEF NoQueues
    <2>. QED BY <2>1, <2>2, <2>3, <2>4, EmptyQueue DEF TokenType, QueuesTyped
<1>4. ThreadType
    <2>1. ASSUME NEW w \in Threads PROVE NoEntry \in Entry
        <3>1. Jobs # {}
            BY OfThread DEF Services
        <3>. QED BY <3>1, Numbers DEF NoEntry, Entry
    <2>. QED BY <2>1 DEF Init, ThreadType, PCs
<1>5. GoogleType /\ BoundsType
    BY Numbers DEF Init, GoogleType, BoundsType
<1>. QED BY <1>1, <1>2, <1>3, <1>4, <1>5 DEF TypeInv

-----------------------------------------------------------------------------
(* The queues of a pipe *)

Queued(p, j) == \E s \in Services : InQueue(queue[p][s], j)
QueuesDistinct(p) == \A s \in Services : Distinct(queue[p][s])

LEMMA OfQueue ==
    ASSUME NEW s \in Services, NEW q, Good(q, s), NEW j, InQueue(q, j)
    PROVE  Plan[j].service = s
BY DEF Good, InQueue, Slot

\* One place of a table of tables changes.
LEMMA TableStep ==
    ASSUME NEW A, NEW B, NEW C, NEW f \in [A -> [B -> C]], NEW a \in A, NEW b \in B, NEW v \in C,
           NEW g, g = [f EXCEPT ![a] = [f[a] EXCEPT ![b] = v]]
    PROVE  /\ g \in [A -> [B -> C]] /\ g[a][b] = v
           /\ \A d \in B : d # b => g[a][d] = f[a][d]
           /\ \A c \in A : c # a => g[c] = f[c]
<1> DEFINE h == [f[a] EXCEPT ![b] = v]
<1>1. h \in [B -> C] /\ h[b] = v /\ \A d \in B : d # b => h[d] = f[a][d]
    OBVIOUS
<1> HIDE DEF h
<1>2. g = [f EXCEPT ![a] = h]
    BY DEF h
<1>. QED BY <1>1, <1>2

LEMMA QueueStep ==
    ASSUME QueuesTyped, NEW p \in Pipes, NEW t \in Services, NEW r, Good(r, t),
           queue' = [queue EXCEPT ![p] = [queue[p] EXCEPT ![t] = r]]
    PROVE  /\ QueuesTyped' /\ queue'[p][t] = r
           /\ \A s \in Services : s # t => queue'[p][s] = queue[p][s]
<1>1. queue \in [Pipes -> [Services -> AQueue]] /\ r \in AQueue
    BY DEF QueuesTyped, Good
<1>2. /\ queue' \in [Pipes -> [Services -> AQueue]]
      /\ queue'[p][t] = r /\ \A s \in Services : s # t => queue'[p][s] = queue[p][s]
      /\ \A o \in Pipes : o # p => queue'[o] = queue[o]
    BY <1>1, TableStep
<1>3. ASSUME NEW o \in Pipes, NEW s \in Services PROVE Good(queue'[o][s], s)
    BY <1>2 DEF QueuesTyped
<1>. QED BY <1>2, <1>3 DEF QueuesTyped

LEMMA PutStep ==
    ASSUME QueuesTyped, NEW p \in Pipes, NEW e \in Entry,
           queue' = [queue EXCEPT ![p][Plan[e.job].service] = Put(@, Plan[e.job].account, e)]
    PROVE  /\ QueuesTyped'
           /\ \A j : Queued(p, j)' <=> Queued(p, j) \/ j = e.job
           /\ QueuesDistinct(p) /\ ~Queued(p, e.job) => QueuesDistinct(p)'
<1> DEFINE t == Plan[e.job].service
           a == Plan[e.job].account
           q == queue[p][t]
           r == Put(q, a, e)
<1>1. t \in Services /\ a \in Accounts /\ Slot(e.job) = <<a, t>> /\ Good(q, t) /\ r \in AQueue
    <2>1. t \in Services /\ a \in Accounts /\ Slot(e.job) = <<a, t>>
        BY EntryType DEF Slot
    <2>2. Good(q, t)
        BY <2>1 DEF QueuesTyped
    <2> HIDE DEF q, t, a
    <2>3. Good(r, t)
        BY <2>1, <2>2, PutQueue
    <2>. QED BY <2>1, <2>2, <2>3 DEF Good
<1> HIDE DEF t, a, q, r
<1>2. /\ Good(r, t)
      /\ Distinct(q) /\ ~InQueue(q, e.job) => Distinct(r)
      /\ \A j : InQueue(r, j) <=> InQueue(q, j) \/ j = e.job
    BY <1>1, PutQueue DEF r
<1>3. queue' = [queue EXCEPT ![p] = [queue[p] EXCEPT ![t] = r]]
    BY DEF t, a, q, r
<1>4. /\ QueuesTyped' /\ queue'[p][t] = r
      /\ \A s \in Services : s # t => queue'[p][s] = queue[p][s]
    BY <1>1, <1>2, <1>3, QueueStep
<1>6. ASSUME NEW j PROVE Queued(p, j)' <=> Queued(p, j) \/ j = e.job
    <2>1. \A s \in Services : InQueue(queue'[p][s], j) <=> InQueue(queue[p][s], j) \/ (s = t /\ j = e.job)
        BY <1>2, <1>4 DEF q
    <2>. QED BY <1>1, <2>1 DEF Queued
<1>7. QueuesDistinct(p) /\ ~Queued(p, e.job) => QueuesDistinct(p)'
    BY <1>1, <1>2, <1>4 DEF q, Queued, QueuesDistinct
<1>. QED BY <1>4, <1>6, <1>7

LEMMA GetStep ==
    ASSUME QueuesTyped, NEW p \in Pipes, NEW s \in Services, NEW q, q = queue[p][s], Waiting(q),
           queue' = [queue EXCEPT ![p][s] = AfterGet(q)]
    PROVE  /\ QueuesTyped' /\ NextOf(q) \in Entry /\ Queued(p, NextOf(q).job)
           /\ QueuesDistinct(p) =>
                 /\ QueuesDistinct(p)'
                 /\ \A j : Queued(p, j)' <=> Queued(p, j) /\ j # NextOf(q).job
<1> DEFINE r == AfterGet(q)
           e == NextOf(q)
<1>1. Good(q, s)
    BY DEF QueuesTyped
<1>2. /\ e \in Entry /\ Plan[e.job].service = s /\ InQueue(q, e.job) /\ Good(r, s) /\ r \in AQueue
      /\ Distinct(q) => Distinct(r) /\ \A j : InQueue(r, j) <=> InQueue(q, j) /\ j # e.job
    <2>1. Good(r, s)
        BY <1>1, GetQueue
    <2>. QED BY <1>1, <2>1, GetQueue DEF Good
<1> HIDE DEF r, e
<1>3. queue' = [queue EXCEPT ![p] = [queue[p] EXCEPT ![s] = r]]
    BY DEF r
<1>4. /\ QueuesTyped' /\ queue'[p][s] = r
      /\ \A t \in Services : t # s => queue'[p][t] = queue[p][t]
    <2>1. QueuesTyped /\ p \in Pipes /\ s \in Services /\ Good(r, s)
        BY <1>2
    <2>. QED BY <2>1, <1>3, QueueStep
<1>6. Queued(p, e.job)
    BY <1>2 DEF Queued
<1>7. ASSUME QueuesDistinct(p) PROVE QueuesDistinct(p)'
    BY <1>2, <1>4, <1>7 DEF QueuesDistinct
<1>8. ASSUME QueuesDistinct(p), NEW j PROVE Queued(p, j)' <=> Queued(p, j) /\ j # e.job
    <2>1. Distinct(q)
        BY <1>8 DEF QueuesDistinct
    <2>2. \A t \in Services : t # s => ~InQueue(queue[p][t], e.job)
        BY <1>2, OfQueue DEF QueuesTyped
    <2>3. \A t \in Services : InQueue(queue'[p][t], j) <=> InQueue(queue[p][t], j) /\ j # e.job
        BY <1>2, <1>4, <2>1, <2>2
    <2>. QED BY <2>3 DEF Queued
<1>. QED BY <1>2, <1>4, <1>6, <1>7, <1>8 DEF r, e

LEMMA NoQueuesStep ==
    ASSUME NEW p \in Pipes, queue'[p] = NoQueues
    PROVE  /\ QueuesDistinct(p)' /\ \A j : ~Queued(p, j)'
           /\ queue'[p] \in [Services -> AQueue]
           /\ \A s \in Services : Good(queue'[p][s], s)
<1>1. \A s \in Services : NoQueues[s] = NewQueue(Accounts)
    BY DEF NoQueues
<1>2. \A s \in Services : Good(NewQueue(Accounts), s)
    BY EmptyQueue
<1>3. Distinct(NewQueue(Accounts)) /\ \A j : ~InQueue(NewQueue(Accounts), j)
    BY DEF Distinct, InQueue, NewQueue
<1>4. NoQueues \in [Services -> AQueue]
    BY <1>1, <1>2 DEF NoQueues, Good
<1>. QED BY <1>1, <1>2, <1>3, <1>4 DEF QueuesDistinct, Queued

-----------------------------------------------------------------------------
(* The heap of a pipe *)

LEMMA HeapAdd ==
    ASSUME heap \in [Pipes -> [Entry -> Nat]], NEW p \in Pipes, NEW e \in Entry, PushRetry(p, e)
    PROVE  /\ heap' \in [Pipes -> [Entry -> Nat]] /\ heap'[p][e] = heap[p][e] + 1
           /\ \A f \in Entry : f # e => heap'[p][f] = heap[p][f]
<1> DEFINE n == heap[p][e] + 1
<1>1. heap' = [heap EXCEPT ![p] = [heap[p] EXCEPT ![e] = n]] /\ n \in Nat
    BY DEF PushRetry
<1> HIDE DEF n
<1>2. /\ heap' \in [Pipes -> [Entry -> Nat]] /\ heap'[p][e] = n
      /\ \A f \in Entry : f # e => heap'[p][f] = heap[p][f]
    BY <1>1, TableStep
<1>. QED BY <1>2 DEF n

LEMMA HeapTake ==
    ASSUME heap \in [Pipes -> [Entry -> Nat]], NEW p \in Pipes, NEW e \in Entry, heap[p][e] > 0,
           heap' = [heap EXCEPT ![p][e] = @ - 1]
    PROVE  /\ heap' \in [Pipes -> [Entry -> Nat]] /\ heap'[p][e] = heap[p][e] - 1
           /\ \A f \in Entry : f # e => heap'[p][f] = heap[p][f]
<1> DEFINE n == heap[p][e] - 1
<1>1. heap' = [heap EXCEPT ![p] = [heap[p] EXCEPT ![e] = n]] /\ n \in Nat
    OBVIOUS
<1> HIDE DEF n
<1>2. /\ heap' \in [Pipes -> [Entry -> Nat]] /\ heap'[p][e] = n
      /\ \A f \in Entry : f # e => heap'[p][f] = heap[p][f]
    BY <1>1, TableStep
<1>. QED BY <1>2 DEF n

-----------------------------------------------------------------------------
(* Every step keeps the types *)

LEMMA RowEntry == \A j \in Jobs, n \in Retries : [job |-> j, retry |-> n] \in Entry
BY DEF Entry

LEMMA ListingTypes ==
    ASSUME TypeInv, NEW p \in Pipes,
           ListRunnable(p) \/ Enqueue(p) \/ StartThreads(p) \/ Reaper(p) \/ Tick(p) \/ Report(p)
    PROVE  TypeInv'
<1> USE DEF TypeInv
<1>1. CASE ListRunnable(p)
    <2>1. TokenType'
        <3> DEFINE S == {[job |-> j, retry |-> retry[j]] : j \in {k \in Jobs : status[k] \in {"PENDING", "RETRY"}}}
        <3>1. S \subseteq Entry
            BY RowEntry DEF StoreType
        <3> HIDE DEF S
        <3>2. listed' = [listed EXCEPT ![p] = S]
            BY <1>1 DEF ListRunnable, S
        <3>. QED BY <1>1, <3>1, <3>2 DEF ListRunnable, TokenType, QueuesTyped
    <2>. QED BY <1>1, <2>1 DEF ListRunnable, StoreType, ControlType, ThreadType, GoogleType, BoundsType,
                              store, threads, google, bounds
<1>2. CASE Enqueue(p)
    <2>1. PICK e \in listed[p] :
              /\ listed' = [listed EXCEPT ![p] = @ \ {e}]
              /\ queue' = [queue EXCEPT ![p][Plan[e.job].service] = Put(@, Plan[e.job].account, e)]
        BY <1>2 DEF Enqueue
    <2>2. e \in Entry
        BY DEF TokenType
    <2>3. QueuesTyped'
        BY <2>1, <2>2, PutStep DEF TokenType
    <2>. QED BY <1>2, <2>1, <2>3 DEF Enqueue, StoreType, ControlType, TokenType, ThreadType, GoogleType,
                              BoundsType, store, control, threads, google, bounds
<1>3. CASE StartThreads(p) \/ Tick(p)
    <2>1. phase' \in [Pipes -> {"off", "planned", "filling", "up", "stopping"}]
        BY <1>3 DEF StartThreads, Tick, ControlType
    <2>2. idle' \in [Pipes -> 0..1]
        BY <1>3 DEF StartThreads, Tick, ControlType
    <2>3. UNCHANGED <<store, wiping, tokens, threads, google, result, faults, bounds, tried>>
        BY <1>3 DEF StartThreads, Tick
    <2>. QED BY <2>1, <2>2, <2>3 DEF StoreType, ControlType, TokenType, ThreadType, GoogleType,
                BoundsType, QueuesTyped, store, tokens, threads, google, bounds
<1>4. CASE Reaper(p)
    <2> DEFINE old == {j \in Jobs : status[j] = "PROCESSING" /\ claim[j] = "stale"}
               S == {[job |-> j, retry |-> retry[j] + 1] : j \in old}
    <2>1. \A j \in old : retry[j] + 1 \in Retries /\ j \in Jobs
        BY <1>4 DEF Reaper, Reclaim
    <2>2. S \subseteq Entry
        BY <2>1, RowEntry
    <2>3. /\ status' = [j \in Jobs |-> IF j \in old THEN "RETRY" ELSE status[j]]
          /\ claim' = [j \in Jobs |-> IF j \in old THEN "none" ELSE claim[j]]
          /\ retry' = [j \in Jobs |-> IF j \in old THEN retry[j] + 1 ELSE retry[j]]
          /\ listed' = [listed EXCEPT ![p] = S]
        BY <1>4 DEF Reaper, Reclaim
    <2> HIDE DEF old, S
    <2>4. StoreType'
        BY <1>4, <2>1, <2>3 DEF Reaper, Reclaim, StoreType, Statuses
    <2>. QED BY <1>4, <2>2, <2>3, <2>4 DEF Reaper, Reclaim, ControlType, TokenType, ThreadType, GoogleType,
                              BoundsType, QueuesTyped, control, threads, google, bounds
<1>5. CASE Report(p)
    <2>1. ControlType'
        BY <1>5 DEF Report, ControlType, ResultOf, bounds
    <2>2. TokenType'
        <3>1. queue'[p] = NoQueues /\ \A o \in Pipes : o # p => queue'[o] = queue[o]
            BY <1>5 DEF Report, TokenType, QueuesTyped
        <3>2. queue'[p] \in [Services -> AQueue] /\ \A s \in Services : Good(queue'[p][s], s)
            BY <3>1, NoQueuesStep
        <3>3. queue' \in [Pipes -> [Services -> AQueue]]
            BY <1>5, <3>1, <3>2 DEF Report, TokenType, QueuesTyped
        <3>4. QueuesTyped'
            BY <3>1, <3>2, <3>3 DEF TokenType, QueuesTyped
        <3>. QED BY <1>5, <3>4 DEF Report, TokenType, NoHeap
    <2>3. ThreadType'
        BY <1>5 DEF Report, ThreadType, PCs
    <2>. QED BY <1>5, <2>1, <2>2, <2>3 DEF Report, StoreType, GoogleType, BoundsType, store, google, bounds
<1>. QED BY <1>1, <1>2, <1>3, <1>4, <1>5

LEMMA PlanTypes ==
    ASSUME TypeInv, NEW p \in Pipes, NEW wipe \in Wiping, PlanJobs(p, wipe)
    PROVE  TypeInv'
<1> USE DEF TypeInv
<1>1. StoreType'
    <2>1. \A S : \A j \in Jobs : DepsOf(j, S) \subseteq Positions
        BY OfDeps DEF DepsOf
    <2>2. \A j \in Jobs : status'[j] \in Statuses /\ deps'[j] \in SUBSET Positions
        BY <2>1 DEF PlanJobs, StoreType, Statuses
    <2>. QED BY <2>2 DEF PlanJobs, StoreType
<1>2. ControlType'
    <2>1. wipe \in BOOLEAN /\ pushes[p] + 1 \in 0..MaxPushes
        BY PipelineAssumption, Numbers DEF PlanJobs, ControlType
    <2>. QED BY <2>1 DEF PlanJobs, ControlType
<1>. QED BY <1>1, <1>2 DEF PlanJobs, TokenType, QueuesTyped, ThreadType, GoogleType, BoundsType,
                           tokens, threads, google

LEMMA ThreadTypes ==
    ASSUME TypeInv, NEW p \in Pipes,
           \/ \E e \in Entry : Pump(p, e)
           \/ \E j \in Jobs : Checksum(p, j)
    PROVE  TypeInv'
<1> USE DEF TypeInv
<1>1. CASE \E e \in Entry : Pump(p, e)
    <2>1. PICK e \in Entry : Pump(p, e)
        BY <1>1
    <2>2. heap' \in [Pipes -> [Entry -> Nat]]
        BY <2>1, HeapTake DEF Pump, PopReady, TokenType
    <2>3. QueuesTyped'
        BY <2>1, PutStep DEF Pump, TokenType
    <2>. QED BY <2>1, <2>2, <2>3 DEF Pump, StoreType, ControlType, TokenType, ThreadType, GoogleType,
                              BoundsType, store, control, threads, google, bounds
<1>2. CASE \E j \in Jobs : Checksum(p, j)
    <2>1. PICK j \in Jobs : Checksum(p, j)
        BY <1>2
    <2>2. StoreType'
        BY <2>1 DEF Checksum, StoreType, Statuses
    <2>. QED BY <2>1, <2>2 DEF Checksum, ControlType, TokenType, QueuesTyped, ThreadType, GoogleType,
                              BoundsType, control, threads, google, bounds
<1>. QED BY <1>1, <1>2

LEMMA OtherTypes ==
    ASSUME TypeInv,
           \/ \E j \in Jobs : Expire(j)
           \/ \E s \in Drift : Use(s)
           \/ Crash \/ UNCHANGED vars
    PROVE  TypeInv'
<1> USE DEF TypeInv
<1>1. CASE \E j \in Jobs : Expire(j)
    BY <1>1 DEF Expire, StoreType, ControlType, TokenType, QueuesTyped, ThreadType, GoogleType,
                BoundsType, control, tokens, threads, google, bounds
<1>2. CASE \E s \in Drift : Use(s)
    <2>1. Drift \subseteq {Slot(j) : j \in Jobs}
        BY PipelineAssumption DEF Slot
    <2>. QED BY <1>2, <2>1 DEF Use, StoreType, ControlType, TokenType, QueuesTyped, ThreadType, GoogleType,
                BoundsType, store, control, tokens, threads, bounds
<1>3. CASE Crash
    <2>1. ControlType' /\ BoundsType'
        BY <1>3, Numbers DEF Crash, ControlType, BoundsType
    <2>2. TokenType'
        <3>1. queue' = [p \in Pipes |-> NoQueues] /\ \A p \in Pipes : queue'[p] = NoQueues
            BY <1>3 DEF Crash
        <3>2. \A p \in Pipes : /\ queue'[p] \in [Services -> AQueue]
                               /\ \A s \in Services : Good(queue'[p][s], s)
            BY <3>1, NoQueuesStep
        <3>3. QueuesTyped'
            BY <3>1, <3>2 DEF QueuesTyped
        <3>. QED BY <1>3, <3>3 DEF Crash, TokenType, NoHeap
    <2>. QED BY <1>3, <2>1, <2>2 DEF Crash, StoreType, ThreadType, GoogleType, PCs, store, google
<1>4. CASE UNCHANGED vars
    BY <1>4 DEF vars, StoreType, ControlType, TokenType, QueuesTyped, ThreadType, GoogleType,
                BoundsType, store, control, tokens, threads, google, bounds
<1>. QED BY <1>1, <1>2, <1>3, <1>4

\* What a call does to the objects of Google.
LEMMA AppliedTypes ==
    ASSUME TypeInv, NEW j \in Jobs, Applied(j) \/ PassesOver(j)
    PROVE  GoogleType'
<1> USE DEF TypeInv, GoogleType
<1>0. CASE PassesOver(j)
    BY <1>0, Numbers DEF PassesOver
<1>1. CASE Applied(j) /\ Plan[j].action = "wipe"
    BY <1>1, Numbers DEF Applied
<1>2. CASE Applied(j) /\ Plan[j].action # "wipe" /\ Plan[j].action \in Ensures
    BY <1>2, Numbers DEF Applied
<1>3. CASE Applied(j) /\ Plan[j].action # "wipe" /\ Plan[j].action \notin Ensures
    <2>1. /\ live' = [live EXCEPT ![j] = IF @ < MaxCopies THEN @ + 1 ELSE @]
          /\ stray' \in {stray, stray \cup {j}} /\ UNCHANGED <<dirty, spared>>
        BY <1>3 DEF Applied
    <2>2. live' \in [Jobs -> 0..MaxCopies]
        BY <2>1, Numbers
    <2>. QED BY <2>1, <2>2
<1>. QED BY <1>0, <1>1, <1>2, <1>3

LEMMA WorkerTypes ==
    ASSUME TypeInv, NEW w \in Threads, Worker(w) \/ CallFails(w)
    PROVE  TypeInv'
<1> USE DEF TypeInv
<1> DEFINE j == Job(w)
<1>1. j \in Jobs /\ cur[w] \in Entry /\ cur[w].retry \in Retries /\ Pipe(w) \in Pipes /\ Service(w) \in Services
    BY OfThread, EntryType DEF ThreadType, Job
<1>2. CASE Take(w)
    <2> DEFINE q == queue[Pipe(w)][Service(w)]
    <2>1. QueuesTyped' /\ NextOf(q) \in Entry
        BY <1>1, <1>2, GetStep DEF Take, TokenType
    <2>2. ThreadType'
        <3>1. deps[NextOf(q).job] \in SUBSET Positions
            BY <2>1, EntryType DEF StoreType
        <3>. QED BY <1>2, <2>1, <3>1 DEF Take, Goto, ThreadType, PCs
    <2>. QED BY <1>2, <2>1, <2>2 DEF Take, StoreType, ControlType, TokenType, GoogleType, BoundsType,
                              store, control, google, bounds
<1>3. CASE DepReady(w)
    <2>1. ThreadType'
        BY <1>3 DEF DepReady, Goto, ThreadType, PCs
    <2>. QED BY <1>3, <2>1 DEF DepReady, StoreType, ControlType, TokenType, QueuesTyped, GoogleType, BoundsType,
                              store, control, tokens, google, bounds
<1>4. CASE DepFailed(w)
    <2>1. Mark(j, "PERMANENT_FAILURE", "none") /\ UNCHANGED retry
        BY <1>4 DEF DepFailed
    <2>2. StoreType'
        BY <1>1, <2>1, Marked DEF StoreType, Statuses
    <2>3. ThreadType'
        BY <1>4 DEF DepFailed, Goto, Forget, ThreadType, PCs
    <2>. QED BY <1>4, <2>2, <2>3 DEF DepFailed, ControlType, TokenType, QueuesTyped, GoogleType, BoundsType,
                              control, tokens, google, bounds
<1>5. CASE DepWaits(w)
    <2>1. Mark(j, "PENDING", "none") /\ UNCHANGED retry /\ PushRetry(Pipe(w), cur[w])
        BY <1>5 DEF DepWaits
    <2>2. StoreType'
        BY <1>1, <2>1, Marked DEF StoreType, Statuses
    <2>3. ThreadType'
        BY <1>5 DEF DepWaits, Goto, Forget, ThreadType, PCs
    <2>4. heap' \in [Pipes -> [Entry -> Nat]]
        BY <1>1, <2>1, HeapAdd DEF TokenType
    <2>. QED BY <1>5, <2>2, <2>3, <2>4 DEF DepWaits, ControlType, TokenType, QueuesTyped, GoogleType,
                              BoundsType, control, google, bounds
<1>6. CASE CheckDone(w)
    <2>1. ThreadType'
        BY <1>6 DEF CheckDone, Goto, ThreadType, PCs
    <2>. QED BY <1>6, <2>1 DEF CheckDone, StoreType, ControlType, TokenType, QueuesTyped, GoogleType,
                              BoundsType, store, control, tokens, google, bounds
<1>7. CASE ResetChildren(w)
    <2>1. StoreType'
        BY <1>7 DEF ResetChildren, StoreType, Statuses
    <2>2. ThreadType'
        BY <1>7 DEF ResetChildren, Goto, ThreadType, PCs
    <2>. QED BY <1>7, <2>1, <2>2 DEF ResetChildren, ControlType, TokenType, QueuesTyped, GoogleType,
                              BoundsType, control, tokens, google, bounds
<1>8. CASE MarkProcessing(w)
    <2>1. Mark(j, "PROCESSING", "fresh") /\ UNCHANGED retry
        BY <1>8 DEF MarkProcessing
    <2>2. StoreType'
        BY <1>1, <2>1, Marked DEF StoreType, Statuses
    <2>3. ThreadType' /\ BoundsType'
        BY <1>1, <1>8 DEF MarkProcessing, Goto, ThreadType, BoundsType, PCs, bounds
    <2>. QED BY <1>8, <2>2, <2>3 DEF MarkProcessing, ControlType, TokenType, QueuesTyped, GoogleType,
                              control, tokens, google, bounds
<1>9. CASE CallSucceeds(w)
    <2>1. GoogleType'
        BY <1>1, <1>9, AppliedTypes DEF CallSucceeds
    <2>2. ThreadType' /\ BoundsType'
        BY <1>9, Numbers DEF CallSucceeds, Goto, ThreadType, BoundsType, PCs, bounds
    <2>. QED BY <1>9, <2>1, <2>2 DEF CallSucceeds, StoreType, ControlType, TokenType, QueuesTyped,
                              store, control, tokens, bounds
<1>10. CASE CallFails(w)
    <2>1. GoogleType'
        BY <1>1, <1>10, AppliedTypes DEF CallFails, GoogleType, google
    <2>2. ThreadType' /\ BoundsType'
        BY <1>10, Numbers DEF CallFails, Goto, ThreadType, BoundsType, PCs, bounds
    <2>. QED BY <1>10, <2>1, <2>2 DEF CallFails, StoreType, ControlType, TokenType, QueuesTyped,
                              store, control, tokens, bounds
<1>11. CASE CallRefused(w)
    <2>1. ThreadType'
        BY <1>11 DEF CallRefused, Goto, ThreadType, PCs
    <2>. QED BY <1>11, <2>1 DEF CallRefused, StoreType, ControlType, TokenType, QueuesTyped, GoogleType,
                              BoundsType, store, control, tokens, google, bounds
<1>12. CASE FinishJob(w)
    <2>1. Mark(j, "SUCCESS", "none") /\ UNCHANGED retry
        BY <1>12 DEF FinishJob
    <2>2. StoreType'
        BY <1>1, <2>1, Marked DEF StoreType, Statuses
    <2>3. ThreadType'
        BY <1>12 DEF FinishJob, Goto, ThreadType, PCs
    <2>4. sums' \in [Pipes -> SUBSET Jobs]
        BY <1>1, <1>12 DEF FinishJob, TokenType
    <2>. QED BY <1>12, <2>2, <2>3, <2>4 DEF FinishJob, ControlType, TokenType, QueuesTyped, GoogleType,
                              BoundsType, control, google, bounds
<1>13. CASE GiveUp(w)
    <2>1. Mark(j, "PERMANENT_FAILURE", "none") /\ UNCHANGED retry
        BY <1>13 DEF GiveUp
    <2>2. StoreType'
        BY <1>1, <2>1, Marked DEF StoreType, Statuses
    <2>3. ThreadType'
        BY <1>13 DEF GiveUp, Goto, ThreadType, PCs
    <2>. QED BY <1>13, <2>2, <2>3 DEF GiveUp, ControlType, TokenType, QueuesTyped, GoogleType, BoundsType,
                              control, tokens, google, bounds
<1>14. CASE RetryLater(w)
    <2> DEFINE n == cur[w].retry + 1
               e == [cur[w] EXCEPT !.retry = n]
    <2>1. n \in Retries
        BY <1>1, <1>14, Numbers DEF RetryLater, Exhausted
    <2>2. e \in Entry
        BY <1>1, <2>1 DEF Entry
    <2>3. Mark(j, "RETRY", "none") /\ PushRetry(Pipe(w), e) /\ retry' = [retry EXCEPT ![j] = n]
        BY <1>14 DEF RetryLater
    <2> HIDE DEF n, e
    <2>4. retry' \in [Jobs -> Retries]
        BY <2>1, <2>3 DEF StoreType
    <2>5. StoreType'
        BY <1>1, <2>3, <2>4, Marked DEF Statuses
    <2>6. ThreadType'
        BY <1>14 DEF RetryLater, Goto, ThreadType, PCs
    <2>7. heap' \in [Pipes -> [Entry -> Nat]]
        BY <1>1, <2>2, <2>3, HeapAdd DEF TokenType
    <2>. QED BY <1>14, <2>5, <2>6, <2>7 DEF RetryLater, ControlType, TokenType, QueuesTyped, GoogleType,
                              BoundsType, control, google, bounds
<1>. QED BY <1>2, <1>3, <1>4, <1>5, <1>6, <1>7, <1>8, <1>9, <1>10, <1>11, <1>12, <1>13, <1>14 DEF Worker

LEMMA TypeStep == TypeInv /\ [Next]_vars => TypeInv'
BY PlanTypes, ListingTypes, ThreadTypes, OtherTypes, WorkerTypes DEF Next, Pushing

\* Every variable keeps its type in every state: the columns of the store, the list,
\* queue and heap of a pipe, its threads and the counters of retries and copies.
THEOREM TypeCorrect == Spec => []TypeOK
BY TypeInit, TypeStep, TypeInvImpliesTypeOK, PTL DEF Spec

-----------------------------------------------------------------------------
(* Where the jobs are *)

InList(p, j) == \E e \in listed[p] : e.job = j
OnHeap(p, j) == \E e \in Entry : heap[p][e] > 0 /\ e.job = j
Taken(j)     == \E w \in Threads : pc[w] # "idle" /\ Job(w) = j
Summed(p, j) == j \in sums[p]
Somewhere(p, j) == InList(p, j) \/ Queued(p, j) \/ OnHeap(p, j) \/ Taken(j)

\* Nothing is twice in the list, in the queues, on the heap or with the threads.
ListDistinct(p) == \A e, f \in listed[p] : e.job = f.job => e = f
HeapDistinct(p) ==
    /\ \A e \in Entry : heap[p][e] <= 1
    /\ \A e, f \in Entry : heap[p][e] > 0 /\ heap[p][f] > 0 /\ e.job = f.job => e = f
ThreadsDistinct == \A v, w \in Threads : pc[v] # "idle" /\ pc[w] # "idle" /\ Job(v) = Job(w) => v = w
AllDistinct(p) == ListDistinct(p) /\ QueuesDistinct(p) /\ HeapDistinct(p) /\ ThreadsDistinct

\* A job is in one place at most; what waits there has the status that says so.
JobSafe(p, j) ==
    /\ InList(p, j) => ~Queued(p, j) /\ ~OnHeap(p, j) /\ ~Taken(j) /\ ~Summed(p, j)
    /\ Queued(p, j) => ~OnHeap(p, j) /\ ~Taken(j) /\ ~Summed(p, j)
    /\ OnHeap(p, j) => ~Taken(j) /\ ~Summed(p, j)
    /\ Taken(j) => ~Summed(p, j)
    /\ InList(p, j) \/ Queued(p, j) \/ OnHeap(p, j) => status[j] \in {"PENDING", "RETRY"}
    /\ Summed(p, j) => status[j] \in {"SUCCESS", "PENDING"}
    /\ status[j] = "PROCESSING" => claim[j] # "none"

Early == {"deps", "check", "reset", "mark"}

\* A thread has a row of an open push, in the status of its step.
ThreadSafe(w) ==
    pc[w] # "idle" =>
        /\ phase[Pipe(w)] = "up"
        /\ pc[w] \in Early => status[Job(w)] \in {"PENDING", "RETRY"}
        /\ pc[w] \in Calling => status[Job(w)] = "PROCESSING" /\ claim[Job(w)] = "fresh"

\* A push that has not listed its rows holds none; one that stops has nothing to do.
PhaseSafe(p) ==
    /\ phase[p] \in {"off", "planned"} =>
           \A j \in Jobs : ~InList(p, j) /\ ~Queued(p, j) /\ ~OnHeap(p, j) /\ ~Summed(p, j)
    /\ phase[p] = "stopping" => AllDone

Held ==
    /\ \A p \in Pipes : AllDistinct(p) /\ PhaseSafe(p) /\ \A j \in Jobs : JobSafe(p, j)
    /\ \A w \in Threads : ThreadSafe(w)
TokenInv == TypeInv /\ Held

OnePush == \A p, q \in Pipes : p = q

LEMMA ListTake ==
    ASSUME TypeInv, NEW p \in Pipes, NEW e \in listed[p], ListDistinct(p),
           listed' = [listed EXCEPT ![p] = @ \ {e}]
    PROVE  /\ ListDistinct(p)' /\ InList(p, e.job)
           /\ \A j : InList(p, j)' <=> InList(p, j) /\ j # e.job
<1>1. listed'[p] = listed[p] \ {e}
    BY DEF TypeInv, TokenType
<1>. QED BY <1>1 DEF ListDistinct, InList

LEMMA HeapPut ==
    ASSUME TypeInv, NEW p \in Pipes, NEW e \in Entry, HeapDistinct(p), ~OnHeap(p, e.job), PushRetry(p, e)
    PROVE  /\ HeapDistinct(p)'
           /\ \A j : OnHeap(p, j)' <=> OnHeap(p, j) \/ j = e.job
<1>1. heap \in [Pipes -> [Entry -> Nat]] /\ heap[p] \in [Entry -> Nat]
    BY DEF TypeInv, TokenType
<1>2. heap'[p][e] = heap[p][e] + 1 /\ \A f \in Entry : f # e => heap'[p][f] = heap[p][f]
    BY <1>1, HeapAdd
<1>3. \A f \in Entry : f.job = e.job => heap[p][f] = 0
    BY <1>1 DEF OnHeap
<1>4. heap'[p][e] = 1 /\ \A f \in Entry : heap'[p][f] > 0 <=> f = e \/ heap[p][f] > 0
    BY <1>1, <1>2, <1>3
<1>5. HeapDistinct(p)'
    <2>1. \A f \in Entry : heap'[p][f] <= 1
        BY <1>2, <1>4 DEF HeapDistinct
    <2>2. \A f, g \in Entry : heap'[p][f] > 0 /\ heap'[p][g] > 0 /\ f.job = g.job => f = g
        BY <1>1, <1>3, <1>4 DEF HeapDistinct
    <2>. QED BY <2>1, <2>2 DEF HeapDistinct
<1>. QED BY <1>4, <1>5 DEF OnHeap

LEMMA HeapPop ==
    ASSUME TypeInv, NEW p \in Pipes, NEW e \in Entry, HeapDistinct(p), heap[p][e] > 0,
           heap' = [heap EXCEPT ![p][e] = @ - 1]
    PROVE  /\ HeapDistinct(p)' /\ OnHeap(p, e.job)
           /\ \A j : OnHeap(p, j)' <=> OnHeap(p, j) /\ j # e.job
<1>1. heap \in [Pipes -> [Entry -> Nat]] /\ heap[p] \in [Entry -> Nat]
    BY DEF TypeInv, TokenType
<1>2. heap'[p][e] = heap[p][e] - 1 /\ \A f \in Entry : f # e => heap'[p][f] = heap[p][f]
    BY <1>1, HeapTake
<1>3. heap[p][e] = 1
    BY <1>1 DEF HeapDistinct
<1>4. heap'[p][e] = 0 /\ \A f \in Entry : heap'[p][f] > 0 <=> f # e /\ heap[p][f] > 0
    BY <1>1, <1>2, <1>3
<1>5. HeapDistinct(p)'
    <2>1. \A f \in Entry : heap'[p][f] <= 1
        BY <1>2, <1>4 DEF HeapDistinct
    <2>2. \A f, g \in Entry : heap'[p][f] > 0 /\ heap'[p][g] > 0 /\ f.job = g.job => f = g
        BY <1>4 DEF HeapDistinct
    <2>. QED BY <2>1, <2>2 DEF HeapDistinct
<1>. QED BY <1>4, <1>5 DEF OnHeap, HeapDistinct

\* A thread takes a job, goes on with it or lets it go.
LEMMA ThreadTakes ==
    ASSUME TypeInv, NEW w \in Threads, NEW e \in Entry, NEW st \in PCs \ {"idle"}, pc[w] = "idle",
           ThreadsDistinct, ~Taken(e.job), Goto(w, st), cur' = [cur EXCEPT ![w] = e]
    PROVE  /\ ThreadsDistinct' /\ pc'[w] = st /\ Job(w)' = e.job
           /\ \A v \in Threads : v # w => pc'[v] = pc[v] /\ Job(v)' = Job(v)
           /\ \A j : Taken(j)' <=> Taken(j) \/ j = e.job
<1>1. /\ pc'[w] = st /\ cur'[w] = e /\ Job(w)' = e.job
      /\ \A v \in Threads : v # w => pc'[v] = pc[v] /\ Job(v)' = Job(v)
    BY DEF Goto, TypeInv, ThreadType, Job
<1>2. ThreadsDistinct'
    BY <1>1 DEF ThreadsDistinct, Taken
<1>3. ASSUME NEW j PROVE Taken(j)' <=> Taken(j) \/ j = e.job
    BY <1>1 DEF Taken
<1>. QED BY <1>1, <1>2, <1>3

LEMMA ThreadGoes ==
    ASSUME TypeInv, NEW w \in Threads, NEW st \in PCs \ {"idle"}, pc[w] # "idle",
           ThreadsDistinct, Goto(w, st), cur' = cur
    PROVE  /\ ThreadsDistinct' /\ pc'[w] = st /\ Job(w)' = Job(w) /\ Taken(Job(w))
           /\ \A v \in Threads : v # w => pc'[v] = pc[v] /\ Job(v)' = Job(v)
           /\ \A j : Taken(j)' <=> Taken(j)
<1>1. /\ pc'[w] = st /\ \A v \in Threads : v # w => pc'[v] = pc[v]
      /\ \A v \in Threads : Job(v)' = Job(v)
    BY DEF Goto, TypeInv, ThreadType, Job
<1>2. ThreadsDistinct'
    BY <1>1 DEF ThreadsDistinct
<1>3. \A v \in Threads : pc'[v] # "idle" <=> pc[v] # "idle"
    BY <1>1
<1>4. ASSUME NEW j PROVE Taken(j)' <=> Taken(j)
    BY <1>1, <1>3 DEF Taken
<1>. QED BY <1>1, <1>2, <1>4 DEF Taken

LEMMA ThreadDrops ==
    ASSUME TypeInv, NEW w \in Threads, pc[w] # "idle",
           ThreadsDistinct, Goto(w, "idle"), cur' = cur
    PROVE  /\ ThreadsDistinct' /\ pc'[w] = "idle" /\ Taken(Job(w))
           /\ \A v \in Threads : v # w => pc'[v] = pc[v] /\ Job(v)' = Job(v)
           /\ \A j : Taken(j)' <=> Taken(j) /\ j # Job(w)
<1>1. /\ pc'[w] = "idle" /\ \A v \in Threads : v # w => pc'[v] = pc[v]
      /\ \A v \in Threads : Job(v)' = Job(v)
    BY DEF Goto, TypeInv, ThreadType, Job
<1>2. ThreadsDistinct'
    BY <1>1 DEF ThreadsDistinct
<1>3. \A v \in Threads : pc'[v] # "idle" <=> pc[v] # "idle" /\ v # w
    BY <1>1
<1>4. ASSUME NEW j PROVE Taken(j)' <=> Taken(j) /\ j # Job(w)
    BY <1>1, <1>3 DEF Taken, ThreadsDistinct
<1>. QED BY <1>1, <1>2, <1>4 DEF Taken

-----------------------------------------------------------------------------
(* Every step keeps what is held *)

LEMMA TokenInit == Init => Held
<1> SUFFICES ASSUME Init PROVE Held
    OBVIOUS
<1>1. ASSUME NEW p \in Pipes PROVE AllDistinct(p) /\ PhaseSafe(p) /\ \A j \in Jobs : JobSafe(p, j)
    <2>1. \A s \in Services : queue[p][s] = NewQueue(Accounts)
        BY DEF Init, NoQueues
    <2>2. QueuesDistinct(p) /\ \A j : ~Queued(p, j)
        BY <2>1 DEF QueuesDistinct, Distinct, Queued, InQueue, NewQueue
    <2>3. /\ ListDistinct(p) /\ HeapDistinct(p) /\ ThreadsDistinct
          /\ \A j \in Jobs : ~InList(p, j) /\ ~OnHeap(p, j) /\ ~Taken(j) /\ ~Summed(p, j)
        BY DEF Init, NoHeap, ListDistinct, HeapDistinct, ThreadsDistinct, InList, OnHeap, Taken, Summed
    <2>4. phase[p] = "off" /\ \A j \in Jobs : status[j] = "NONE"
        BY DEF Init
    <2>. QED BY <2>2, <2>3, <2>4 DEF AllDistinct, PhaseSafe, JobSafe
<1>2. \A w \in Threads : ThreadSafe(w)
    BY DEF Init, ThreadSafe
<1>. QED BY <1>1, <1>2 DEF Held

LEMMA HeldNext ==
    ASSUME OnePush, NEW p \in Pipes, AllDistinct(p)', PhaseSafe(p)',
           \A j \in Jobs : JobSafe(p, j)', \A w \in Threads : ThreadSafe(w)'
    PROVE  Held'
BY DEF OnePush, Held

\* An open push loses no job that is still to be run.
Keeps(p) ==
    phase'[p] \in {"filling", "up"} =>
        \A j \in Jobs : Somewhere(p, j) => Somewhere(p, j)' \/ status'[j] \notin {"PENDING", "RETRY"}

\* The rows of other jobs stay as they are, or are restored again after a wipe.
OtherRows(j) ==
    \A k \in Jobs \ {j} : \/ status'[k] = status[k] /\ claim'[k] = claim[k]
                          \/ status[k] = "SUCCESS" /\ status'[k] = "PENDING"

\* The other threads do not notice what one does to its row.
LEMMA OthersSafe ==
    ASSUME TokenInv, NEW w \in Threads, NEW p \in Pipes, pc[w] # "idle", OtherRows(Job(w)), phase' = phase,
           \A v \in Threads : v # w => pc'[v] = pc[v] /\ Job(v)' = Job(v)
    PROVE  \A v \in Threads : v # w => ThreadSafe(v)'
<1> SUFFICES ASSUME NEW v \in Threads, v # w, pc[v] # "idle"
             PROVE  ThreadSafe(v)'
    BY DEF ThreadSafe
<1>1. Job(v) \in Jobs \ {Job(w)}
    BY DEF TokenInv, TypeInv, ThreadType, Job, Entry, Held, AllDistinct, ThreadsDistinct
<1>2. ThreadSafe(v) /\ pc[v] \in Early \cup Calling
    BY DEF TokenInv, Held, TypeInv, ThreadType, PCs, Early, Calling
<1>3. status'[Job(v)] = status[Job(v)] /\ claim'[Job(v)] = claim[Job(v)]
    BY <1>1, <1>2 DEF OtherRows, ThreadSafe
<1>. QED BY <1>2, <1>3 DEF ThreadSafe

\* A thread goes on with its job.
LEMMA StepGoes ==
    ASSUME OnePush, TokenInv, NEW w \in Threads, NEW st \in PCs \ {"idle"}, pc[w] # "idle",
           Goto(w, st), cur' = cur, UNCHANGED tokens, phase' = phase, OtherRows(Job(w)),
           st \in Early => status'[Job(w)] \in {"PENDING", "RETRY"},
           st \in Calling => status'[Job(w)] = "PROCESSING" /\ claim'[Job(w)] = "fresh"
    PROVE  Held' /\ Keeps(Pipe(w))
<1> DEFINE p == Pipe(w)
<1>1. /\ p \in Pipes /\ TypeInv /\ ThreadsDistinct /\ AllDistinct(p) /\ PhaseSafe(p) /\ ThreadSafe(w)
      /\ \A j \in Jobs : JobSafe(p, j)
    BY OfThread DEF TokenInv, Held, AllDistinct
<1>2. /\ ThreadsDistinct' /\ pc'[w] = st /\ Job(w)' = Job(w) /\ Taken(Job(w))
      /\ \A v \in Threads : v # w => pc'[v] = pc[v] /\ Job(v)' = Job(v)
      /\ \A j : Taken(j)' <=> Taken(j)
    BY <1>1, ThreadGoes
<1>3. phase[p] = "up" /\ phase'[p] = "up"
    BY <1>1 DEF ThreadSafe
<1>4. AllDistinct(p)' /\ PhaseSafe(p)'
    BY <1>1, <1>2, <1>3 DEF AllDistinct, PhaseSafe, ListDistinct, QueuesDistinct, HeapDistinct, tokens
<1>5. /\ \A j : (InList(p, j)' <=> InList(p, j)) /\ (Queued(p, j)' <=> Queued(p, j))
      /\ \A j : (OnHeap(p, j)' <=> OnHeap(p, j)) /\ (Summed(p, j)' <=> Summed(p, j))
    BY DEF InList, Queued, OnHeap, Summed, tokens
<1>6. st \in Early \cup Calling
    BY DEF PCs, Early, Calling
<1>7. ASSUME NEW j \in Jobs PROVE JobSafe(p, j)'
    <2>1. CASE j = Job(w)
        BY <1>1, <1>2, <1>5, <1>6, <2>1 DEF JobSafe
    <2>2. CASE j # Job(w)
        BY <1>1, <1>2, <1>5, <2>2 DEF JobSafe, OtherRows
    <2>. QED BY <2>1, <2>2
<1>8. ThreadSafe(w)'
    BY <1>2, <1>3 DEF ThreadSafe
<1>9. \A v \in Threads : ThreadSafe(v)'
    BY <1>1, <1>2, <1>8, OthersSafe
<1>10. Keeps(p)
    BY <1>2, <1>5 DEF Keeps, Somewhere
<1>. QED BY <1>1, <1>4, <1>7, <1>9, <1>10, HeldNext

\* A thread lets its job go: for good, onto the heap, or to be read once more.
LEMMA StepDrops ==
    ASSUME OnePush, TokenInv, NEW w \in Threads, pc[w] # "idle",
           Goto(w, "idle"), cur' = cur, UNCHANGED <<listed, queue>>, phase' = phase, OtherRows(Job(w)),
           status'[Job(w)] # "PROCESSING",
           \/ status'[Job(w)] \notin {"PENDING", "RETRY"} /\ UNCHANGED <<heap, sums>>
           \/ /\ \E e \in Entry : e.job = Job(w) /\ PushRetry(Pipe(w), e)
              /\ status'[Job(w)] \in {"PENDING", "RETRY"} /\ UNCHANGED sums
           \/ /\ sums' = [sums EXCEPT ![Pipe(w)] = @ \cup {Job(w)}]
              /\ status'[Job(w)] = "SUCCESS" /\ UNCHANGED heap
    PROVE  Held' /\ Keeps(Pipe(w))
<1> DEFINE p == Pipe(w)
<1>1. /\ p \in Pipes /\ TypeInv /\ ThreadsDistinct /\ AllDistinct(p) /\ PhaseSafe(p) /\ ThreadSafe(w)
      /\ \A j \in Jobs : JobSafe(p, j)
    BY OfThread DEF TokenInv, Held, AllDistinct
<1>2. /\ ThreadsDistinct' /\ pc'[w] = "idle" /\ Taken(Job(w))
      /\ \A v \in Threads : v # w => pc'[v] = pc[v] /\ Job(v)' = Job(v)
      /\ \A j : Taken(j)' <=> Taken(j) /\ j # Job(w)
    BY <1>1, ThreadDrops
<1>3. phase[p] = "up" /\ phase'[p] = "up"
    BY <1>1 DEF ThreadSafe
<1>4. /\ Job(w) \in Jobs
      /\ ~InList(p, Job(w)) /\ ~Queued(p, Job(w)) /\ ~OnHeap(p, Job(w)) /\ ~Summed(p, Job(w))
    <2>1. Job(w) \in Jobs
        BY <1>1 DEF TypeInv, ThreadType, Entry, Job
    <2>. QED BY <1>1, <1>2, <2>1 DEF JobSafe
<1>5. /\ ListDistinct(p)' /\ QueuesDistinct(p)'
      /\ \A j : (InList(p, j)' <=> InList(p, j)) /\ (Queued(p, j)' <=> Queued(p, j))
    BY <1>1 DEF AllDistinct, ListDistinct, QueuesDistinct, InList, Queued
<1>6. /\ HeapDistinct(p)' /\ PhaseSafe(p)'
      /\ \A j : \/ /\ (OnHeap(p, j)' <=> OnHeap(p, j)) /\ (Summed(p, j)' <=> Summed(p, j))
                   /\ status'[Job(w)] \notin {"PENDING", "RETRY"}
                \/ /\ (OnHeap(p, j)' <=> OnHeap(p, j) \/ j = Job(w)) /\ (Summed(p, j)' <=> Summed(p, j))
                   /\ status'[Job(w)] \in {"PENDING", "RETRY"}
                \/ /\ (OnHeap(p, j)' <=> OnHeap(p, j)) /\ (Summed(p, j)' <=> Summed(p, j) \/ j = Job(w))
                   /\ status'[Job(w)] = "SUCCESS"
    <2>1. PhaseSafe(p)'
        BY <1>3 DEF PhaseSafe
    <2>2. CASE status'[Job(w)] \notin {"PENDING", "RETRY"} /\ UNCHANGED <<heap, sums>>
        BY <1>1, <2>1, <2>2 DEF AllDistinct, HeapDistinct, OnHeap, Summed
    <2>3. CASE /\ \E e \in Entry : e.job = Job(w) /\ PushRetry(Pipe(w), e)
               /\ status'[Job(w)] \in {"PENDING", "RETRY"} /\ UNCHANGED sums
        <3>1. PICK e \in Entry : e.job = Job(w) /\ PushRetry(p, e)
            BY <2>3
        <3>2. HeapDistinct(p)' /\ \A j : OnHeap(p, j)' <=> OnHeap(p, j) \/ j = Job(w)
            BY <1>1, <1>4, <3>1, HeapPut DEF AllDistinct
        <3>3. \A j : Summed(p, j)' <=> Summed(p, j)
            BY <2>3 DEF Summed
        <3>. QED BY <2>1, <2>3, <3>2, <3>3
    <2>4. CASE /\ sums' = [sums EXCEPT ![Pipe(w)] = @ \cup {Job(w)}]
               /\ status'[Job(w)] = "SUCCESS" /\ UNCHANGED heap
        <3>1. HeapDistinct(p)' /\ \A j : OnHeap(p, j)' <=> OnHeap(p, j)
            BY <1>1, <2>4 DEF AllDistinct, HeapDistinct, OnHeap
        <3>2. sums'[p] = sums[p] \cup {Job(w)}
            BY <1>1, <2>4 DEF TypeInv, TokenType
        <3>3. \A j : Summed(p, j)' <=> Summed(p, j) \/ j = Job(w)
            BY <3>2 DEF Summed
        <3>. QED BY <2>1, <2>4, <3>1, <3>3
    <2>. QED BY <2>2, <2>3, <2>4
<1>7. ASSUME NEW j \in Jobs PROVE JobSafe(p, j)'
    <2>1. CASE j = Job(w)
        BY <1>2, <1>4, <1>5, <1>6, <2>1 DEF JobSafe
    <2>2. CASE j # Job(w)
        BY <1>1, <1>2, <1>5, <1>6, <2>2 DEF JobSafe, OtherRows
    <2>. QED BY <2>1, <2>2
<1>8. \A v \in Threads : ThreadSafe(v)'
    BY <1>1, <1>2, OthersSafe DEF ThreadSafe
<1>9. Keeps(p)
    BY <1>2, <1>5, <1>6 DEF Keeps, Somewhere
<1>. QED BY <1>1, <1>2, <1>5, <1>6, <1>7, <1>8, <1>9, HeldNext DEF AllDistinct

LEMMA WorkerTokens ==
    ASSUME OnePush, TokenInv, NEW w \in Threads, Worker(w) \/ CallFails(w)
    PROVE  Held' /\ Keeps(Pipe(w))
<1> DEFINE p == Pipe(w)
           j == Job(w)
<1>1. /\ p \in Pipes /\ Service(w) \in Services /\ TypeInv /\ ThreadSafe(w) /\ j \in Jobs /\ cur[w] \in Entry
      /\ AllDistinct(p) /\ PhaseSafe(p) /\ \A k \in Jobs : JobSafe(p, k)
    BY OfThread DEF TokenInv, Held, TypeInv, ThreadType, Job, Entry
<1>2. \A cl : \A st \in Statuses : Mark(j, st, cl) =>
          OtherRows(j) /\ status'[j] = st /\ claim'[j] = cl
    BY <1>1 DEF Mark, OtherRows, TypeInv, StoreType
<1>3. UNCHANGED store => OtherRows(j) /\ status'[j] = status[j] /\ claim'[j] = claim[j]
    BY DEF store, OtherRows
<1>4. CASE Take(w)
    <2> DEFINE q == queue[p][Service(w)]
               e == NextOf(q)
               st == IF deps[e.job] = {} THEN "check" ELSE "deps"
    <2>1. /\ pc[w] = "idle" /\ phase[p] = "up" /\ Waiting(q)
          /\ cur' = [cur EXCEPT ![w] = e] /\ queue' = [queue EXCEPT ![p][Service(w)] = AfterGet(q)]
          /\ Goto(w, st) /\ UNCHANGED <<store, control, listed, heap, sums>>
        BY <1>4 DEF Take
    <2>2. QueuesTyped /\ QueuesDistinct(p) /\ ThreadsDistinct
        BY <1>1 DEF TypeInv, TokenType, AllDistinct
    <2>3. /\ QueuesDistinct(p)' /\ e \in Entry /\ Queued(p, e.job)
          /\ \A k : Queued(p, k)' <=> Queued(p, k) /\ k # e.job
        BY <1>1, <2>1, <2>2, GetStep
    <2> HIDE DEF q, e
    <2>4. e.job \in Jobs /\ st \in PCs \ {"idle"} /\ st \in Early
        BY <2>3, EntryType DEF PCs, Early
    <2>5. ~Taken(e.job) /\ status[e.job] \in {"PENDING", "RETRY"}
        BY <1>1, <2>3, <2>4 DEF JobSafe
    <2> HIDE DEF st
    <2>6. /\ ThreadsDistinct' /\ pc'[w] = st /\ Job(w)' = e.job
          /\ \A v \in Threads : v # w => pc'[v] = pc[v] /\ Job(v)' = Job(v)
          /\ \A k : Taken(k)' <=> Taken(k) \/ k = e.job
        BY <1>1, <2>1, <2>2, <2>3, <2>4, <2>5, ThreadTakes
    <2>7. /\ ListDistinct(p)' /\ HeapDistinct(p)' /\ PhaseSafe(p)'
          /\ \A k : (InList(p, k)' <=> InList(p, k)) /\ (OnHeap(p, k)' <=> OnHeap(p, k))
          /\ \A k : Summed(p, k)' <=> Summed(p, k)
        BY <1>1, <2>1 DEF AllDistinct, ListDistinct, HeapDistinct, PhaseSafe, InList, OnHeap, Summed, control
    <2>8. ASSUME NEW k \in Jobs PROVE JobSafe(p, k)'
        <3>1. JobSafe(p, k) /\ JobSafe(p, e.job)
            BY <1>1, <2>4
        <3>. QED BY <2>1, <2>3, <2>6, <2>7, <3>1 DEF JobSafe, store
    <2>9. ASSUME NEW v \in Threads PROVE ThreadSafe(v)'
        <3>1. CASE v = w
            BY <2>1, <2>4, <2>5, <2>6, <3>1 DEF ThreadSafe, Early, Calling, control, store
        <3>2. CASE v # w
            BY <2>1, <2>6, <3>2 DEF ThreadSafe, TokenInv, Held, control, store
        <3>. QED BY <3>1, <3>2
    <2>10. Keeps(p)
        BY <2>3, <2>6, <2>7 DEF Keeps, Somewhere
    <2>. QED BY <1>1, <2>3, <2>6, <2>7, <2>8, <2>9, <2>10, HeldNext DEF AllDistinct
<1>5. CASE DepReady(w)
    <2>1. PICK st \in {"deps", "check"} : Goto(w, st)
        BY <1>5 DEF DepReady
    <2>2. /\ pc[w] = "deps" /\ status[j] \in {"PENDING", "RETRY"} /\ cur' = cur
          /\ UNCHANGED tokens /\ phase' = phase /\ UNCHANGED store
        BY <1>1, <1>5 DEF DepReady, Reads, ThreadSafe, Early, control
    <2>. QED BY <1>3, <2>1, <2>2, StepGoes DEF PCs, Calling
<1>6. CASE DepFailed(w)
    <2>1. /\ pc[w] = "deps" /\ Mark(j, "PERMANENT_FAILURE", "none") /\ Goto(w, "idle") /\ cur' = cur
          /\ UNCHANGED tokens /\ phase' = phase
        BY <1>6 DEF DepFailed, Reads, control
    <2>2. OtherRows(j) /\ status'[j] = "PERMANENT_FAILURE"
        BY <1>2, <2>1 DEF Statuses
    <2>. QED BY <2>1, <2>2, StepDrops DEF tokens
<1>7. CASE DepWaits(w)
    <2>1. /\ pc[w] = "deps" /\ Mark(j, "PENDING", "none") /\ Goto(w, "idle") /\ cur' = cur
          /\ PushRetry(p, cur[w]) /\ UNCHANGED <<listed, queue, sums>> /\ phase' = phase
        BY <1>7 DEF DepWaits, Reads, control
    <2>2. OtherRows(j) /\ status'[j] = "PENDING"
        BY <1>2, <2>1 DEF Statuses
    <2>3. \E e \in Entry : e.job = j /\ PushRetry(p, e)
        BY <1>1, <2>1 DEF Job
    <2>. QED BY <2>1, <2>2, <2>3, StepDrops
<1>8. CASE CheckDone(w)
    <2>1. /\ pc[w] = "check" /\ status[j] \in {"PENDING", "RETRY"} /\ cur' = cur
          /\ UNCHANGED tokens /\ phase' = phase /\ UNCHANGED store
        BY <1>1, <1>8 DEF CheckDone, ThreadSafe, Early, control
    <2>2. PICK st \in {"reset", "mark"} : Goto(w, st)
        BY <1>8, <2>1 DEF CheckDone
    <2>. QED BY <1>3, <2>1, <2>2, StepGoes DEF PCs, Calling
<1>9. CASE ResetChildren(w)
    <2>1. /\ pc[w] = "reset" /\ status[j] \in {"PENDING", "RETRY"} /\ cur' = cur /\ Goto(w, "mark")
          /\ UNCHANGED tokens /\ phase' = phase
        BY <1>1, <1>9 DEF ResetChildren, ThreadSafe, Early, control
    <2>2. OtherRows(j) /\ status'[j] = status[j]
        BY <1>1, <1>9, <2>1 DEF ResetChildren, OtherRows
    <2>. QED BY <2>1, <2>2, StepGoes DEF PCs, Calling
<1>10. CASE MarkProcessing(w)
    <2>1. /\ pc[w] = "mark" /\ Mark(j, "PROCESSING", "fresh") /\ cur' = cur /\ Goto(w, "exec")
          /\ UNCHANGED tokens /\ phase' = phase
        BY <1>10 DEF MarkProcessing, control
    <2>2. OtherRows(j) /\ status'[j] = "PROCESSING" /\ claim'[j] = "fresh"
        BY <1>2, <2>1 DEF Statuses
    <2>. QED BY <2>1, <2>2, StepGoes DEF PCs, Early
<1>11. CASE CallSucceeds(w) \/ CallFails(w) \/ CallRefused(w)
    <2>1. /\ pc[w] = "exec" /\ status[j] = "PROCESSING" /\ claim[j] = "fresh" /\ phase[p] = "up"
        BY <1>1, <1>11 DEF CallSucceeds, CallFails, CallRefused, ThreadSafe, Calling
    <2>2. cur' = cur /\ UNCHANGED tokens /\ phase' = phase /\ UNCHANGED store
        BY <1>11 DEF CallSucceeds, CallFails, CallRefused, control
    <2>3. PICK st \in {"finish", "transient", "permanent"} : Goto(w, st)
        BY <1>11, <2>1 DEF CallSucceeds, CallFails, CallRefused
    <2>. QED BY <1>3, <2>1, <2>2, <2>3, StepGoes DEF PCs, Early
<1>12. CASE FinishJob(w)
    <2>1. /\ pc[w] = "finish" /\ Mark(j, "SUCCESS", "none") /\ Goto(w, "idle") /\ cur' = cur
          /\ UNCHANGED <<listed, queue, heap>> /\ phase' = phase
          /\ sums' = [sums EXCEPT ![p] = @ \cup {j}] \/ sums' = sums
        BY <1>12 DEF FinishJob, control
    <2>2. OtherRows(j) /\ status'[j] = "SUCCESS"
        BY <1>2, <2>1 DEF Statuses
    <2>. QED BY <2>1, <2>2, StepDrops
<1>13. CASE GiveUp(w)
    <2>1. /\ pc[w] # "idle" /\ Mark(j, "PERMANENT_FAILURE", "none") /\ Goto(w, "idle") /\ cur' = cur
          /\ UNCHANGED tokens /\ phase' = phase
        BY <1>13 DEF GiveUp, control
    <2>2. OtherRows(j) /\ status'[j] = "PERMANENT_FAILURE"
        BY <1>2, <2>1 DEF Statuses
    <2>. QED BY <2>1, <2>2, StepDrops DEF tokens
<1>14. CASE RetryLater(w)
    <2> DEFINE e == [cur[w] EXCEPT !.retry = cur[w].retry + 1]
    <2>1. /\ pc[w] = "transient" /\ Mark(j, "RETRY", "none") /\ Goto(w, "idle") /\ cur' = cur
          /\ PushRetry(p, e) /\ UNCHANGED <<listed, queue, sums>> /\ phase' = phase
        BY <1>14 DEF RetryLater, control
    <2>2. OtherRows(j) /\ status'[j] = "RETRY"
        BY <1>2, <2>1 DEF Statuses
    <2>3. e \in Entry /\ e.job = j
        <3>1. cur[w].retry + 1 \in Retries
            BY <1>1, <1>14, Numbers, EntryType DEF RetryLater, Exhausted
        <3>. QED BY <1>1, <3>1 DEF Entry, Job
    <2>4. \E f \in Entry : f.job = j /\ PushRetry(p, f)
        BY <2>1, <2>3
    <2>. QED BY <2>1, <2>2, <2>4, StepDrops
<1>. QED BY <1>4, <1>5, <1>6, <1>7, <1>8, <1>9, <1>10, <1>11, <1>12, <1>13, <1>14 DEF Worker

\* A step that leaves the tokens and the threads alone.
LEMMA StepBeside ==
    ASSUME OnePush, TokenInv, NEW p \in Pipes, UNCHANGED tokens, pc' = pc, cur' = cur, PhaseSafe(p)',
           phase[p] = "up" => phase'[p] = "up" \/ (\A w \in Threads : pc[w] = "idle"),
           \A k \in Jobs : \/ status'[k] = status[k] /\ claim'[k] = claim[k]
                           \/ status[k] = "NONE" /\ status'[k] = "PENDING"
                           \/ /\ status'[k] = status[k] /\ claim'[k] = "stale"
                              /\ \A w \in Threads : pc[w] \in Calling => Job(w) # k
    PROVE  Held' /\ Keeps(p)
<1>1. AllDistinct(p) /\ \A k \in Jobs : JobSafe(p, k)
    BY DEF TokenInv, Held
<1>2. AllDistinct(p)'
    BY <1>1 DEF AllDistinct, ListDistinct, QueuesDistinct, HeapDistinct, ThreadsDistinct, Job, tokens
<1>3. ASSUME NEW k \in Jobs PROVE JobSafe(p, k)'
    <2>1. /\ (InList(p, k)' <=> InList(p, k)) /\ (Queued(p, k)' <=> Queued(p, k))
          /\ (OnHeap(p, k)' <=> OnHeap(p, k)) /\ (Summed(p, k)' <=> Summed(p, k))
          /\ (Taken(k)' <=> Taken(k))
        BY DEF InList, Queued, OnHeap, Summed, Taken, Job, tokens
    <2>. QED BY <1>1, <2>1 DEF JobSafe
<1>4. ASSUME NEW w \in Threads PROVE ThreadSafe(w)'
    <2>1. Pipe(w) = p /\ Job(w) \in Jobs /\ Job(w)' = Job(w) /\ ThreadSafe(w)
        BY OfThread DEF OnePush, TokenInv, Held, TypeInv, ThreadType, Job, Entry
    <2>. QED BY <2>1 DEF ThreadSafe
<1>5. Keeps(p)
    <2>1. \A k \in Jobs : Somewhere(p, k)' <=> Somewhere(p, k)
        BY DEF Somewhere, InList, Queued, OnHeap, Taken, Job, tokens
    <2>. QED BY <2>1 DEF Keeps
<1>. QED BY <1>2, <1>3, <1>4, <1>5, HeldNext

\* Rows that are read are in the list once.
LEMMA ListOfRows ==
    ASSUME NEW R, NEW n, NEW S,
           \A e : e \in S <=> \E j \in R : e = [job |-> j, retry |-> n[j]]
    PROVE  /\ \A e, f \in S : e.job = f.job => e = f
           /\ \A j : (\E e \in S : e.job = j) <=> j \in R
<1>1. \A e \in S : e.job \in R /\ e = [job |-> e.job, retry |-> n[e.job]]
    OBVIOUS
<1>2. \A j \in R : [job |-> j, retry |-> n[j]] \in S /\ [job |-> j, retry |-> n[j]].job = j
    OBVIOUS
<1>3. ASSUME NEW e \in S, NEW f \in S, e.job = f.job PROVE e = f
    BY <1>1, <1>3
<1>. QED BY <1>1, <1>2, <1>3

LEMMA PushTokens ==
    ASSUME OnePush, TokenInv, NEW p \in Pipes, Pushing(p)
    PROVE  Held' /\ Keeps(p)
<1>1. /\ TypeInv /\ AllDistinct(p) /\ PhaseSafe(p) /\ \A k \in Jobs : JobSafe(p, k)
      /\ \A w \in Threads : ThreadSafe(w) /\ Pipe(w) = p /\ Job(w) \in Jobs /\ pc[w] \in PCs
    BY OfThread DEF OnePush, TokenInv, Held, TypeInv, ThreadType, Job, Entry
<1>2. phase[p] # "up" => \A w \in Threads : pc[w] = "idle"
    BY <1>1 DEF ThreadSafe
<1>3. AllDone => \A w \in Threads : pc[w] = "idle"
    BY <1>1 DEF ThreadSafe, AllDone, Unfinished, Early, Calling, PCs
<1>4. ASSUME NEW wipe \in Wiping, PlanJobs(p, wipe) PROVE Held' /\ Keeps(p)
    <2>1. /\ phase[p] = "off" /\ phase'[p] = "planned" /\ UNCHANGED tokens /\ pc' = pc /\ cur' = cur
          /\ claim' = claim
        BY <1>1, <1>4 DEF PlanJobs, TypeInv, ControlType, threads
    <2>2. \A k \in Jobs : status'[k] = status[k] \/ (status[k] = "NONE" /\ status'[k] = "PENDING")
        <3>1. status' = [j \in Jobs |-> IF j \in Planned(p, wipe) /\ status[j] = "NONE"
                                      THEN "PENDING" ELSE status[j]]
            BY <1>4 DEF PlanJobs
        <3>. QED BY <3>1
    <2>3. PhaseSafe(p)'
        BY <1>1, <2>1 DEF PhaseSafe, InList, Queued, OnHeap, Summed, tokens
    <2>. QED BY <2>1, <2>2, <2>3, StepBeside
<1>5. CASE ListRunnable(p)
    <2> DEFINE R == {k \in Jobs : status[k] \in {"PENDING", "RETRY"}}
               S == {[job |-> j, retry |-> retry[j]] : j \in R}
    <2>1. /\ phase[p] = "planned" /\ phase'[p] = "filling" /\ listed'[p] = S
          /\ UNCHANGED <<store, queue, heap, sums, pc, cur>>
        BY <1>1, <1>5 DEF ListRunnable, TypeInv, ControlType, TokenType, threads
    <2>2. ListDistinct(p)' /\ \A j : InList(p, j)' <=> j \in R
        <3>1. \A e : e \in S <=> \E j \in R : e = [job |-> j, retry |-> retry[j]]
            OBVIOUS
        <3> HIDE DEF S, R
        <3>2. /\ \A e, f \in S : e.job = f.job => e = f
              /\ \A j : (\E e \in S : e.job = j) <=> j \in R
            BY <3>1, ListOfRows
        <3>. QED BY <2>1, <3>2 DEF ListDistinct, InList
    <2>3. /\ QueuesDistinct(p)' /\ HeapDistinct(p)' /\ ThreadsDistinct'
          /\ \A j \in Jobs : ~Queued(p, j)' /\ ~OnHeap(p, j)' /\ ~Summed(p, j)' /\ ~Taken(j)'
        BY <1>1, <1>2, <2>1 DEF AllDistinct, QueuesDistinct, HeapDistinct, ThreadsDistinct, PhaseSafe,
                                 Queued, OnHeap, Summed, Taken, Job
    <2>4. ASSUME NEW j \in Jobs PROVE JobSafe(p, j)'
        BY <1>1, <2>1, <2>2, <2>3 DEF JobSafe, store
    <2>5. Keeps(p)
        BY <1>1, <1>2, <2>1 DEF Keeps, Somewhere, PhaseSafe, Taken
    <2>. QED BY <1>2, <2>1, <2>2, <2>3, <2>4, <2>5, HeldNext DEF AllDistinct, PhaseSafe, ThreadSafe
<1>6. CASE Enqueue(p)
    <2>1. PICK e \in listed[p] :
              /\ listed' = [listed EXCEPT ![p] = @ \ {e}]
              /\ queue' = [queue EXCEPT ![p][Plan[e.job].service] = Put(@, Plan[e.job].account, e)]
              /\ phase[p] \in {"filling", "up"} /\ UNCHANGED <<store, phase, heap, sums, pc, cur>>
        BY <1>6 DEF Enqueue, control, threads
    <2>2. e \in Entry /\ e.job \in Jobs
        BY <1>1, EntryType DEF TypeInv, TokenType
    <2>3. /\ ListDistinct(p)' /\ InList(p, e.job)
          /\ \A j : InList(p, j)' <=> InList(p, j) /\ j # e.job
        BY <1>1, <2>1, ListTake DEF AllDistinct
    <2>4. ~Queued(p, e.job)
        BY <1>1, <2>2, <2>3 DEF JobSafe
    <2>5. QueuesDistinct(p)' /\ \A j : Queued(p, j)' <=> Queued(p, j) \/ j = e.job
        BY <1>1, <2>1, <2>2, <2>4, PutStep DEF AllDistinct, TypeInv, TokenType
    <2>6. /\ HeapDistinct(p)' /\ ThreadsDistinct'
          /\ \A j : (OnHeap(p, j)' <=> OnHeap(p, j)) /\ (Summed(p, j)' <=> Summed(p, j))
          /\ \A j : Taken(j)' <=> Taken(j)
        BY <1>1, <2>1 DEF AllDistinct, HeapDistinct, ThreadsDistinct, OnHeap, Summed, Taken, Job
    <2>7. ASSUME NEW j \in Jobs PROVE JobSafe(p, j)'
        <3>1. JobSafe(p, j) /\ JobSafe(p, e.job)
            BY <1>1, <2>2
        <3>. QED BY <2>1, <2>3, <2>5, <2>6, <3>1 DEF JobSafe, store
    <2>8. ASSUME NEW w \in Threads PROVE ThreadSafe(w)'
        BY <1>1, <2>1 DEF ThreadSafe, Job, store
    <2>9. Keeps(p)
        BY <2>3, <2>5, <2>6 DEF Keeps, Somewhere
    <2>. QED BY <2>1, <2>3, <2>5, <2>6, <2>7, <2>8, <2>9, HeldNext DEF AllDistinct, PhaseSafe
<1>7. CASE StartThreads(p) \/ Tick(p)
    <2>1. /\ UNCHANGED tokens /\ pc' = pc /\ cur' = cur /\ status' = status /\ claim' = claim
          /\ phase'[p] = "up" \/ (phase'[p] = "stopping" /\ AllDone) \/ phase'[p] = phase[p]
          /\ phase[p] = "up" => phase'[p] = "up" \/ AllDone
        BY <1>1, <1>7 DEF StartThreads, Tick, TypeInv, ControlType, threads, store
    <2>2. PhaseSafe(p)'
        BY <1>1, <2>1 DEF PhaseSafe, AllDone, InList, Queued, OnHeap, Summed, tokens
    <2>. QED BY <1>3, <2>1, <2>2, StepBeside
<1>8. CASE Reaper(p)
    <2> DEFINE old == {j \in Jobs : status[j] = "PROCESSING" /\ claim[j] = "stale"}
               S == {[job |-> j, retry |-> retry[j] + 1] : j \in old}
    <2>1. /\ phase[p] = "up" /\ listed[p] = {} /\ listed'[p] = S
          /\ status' = [j \in Jobs |-> IF j \in old THEN "RETRY" ELSE status[j]]
          /\ claim' = [j \in Jobs |-> IF j \in old THEN "none" ELSE claim[j]]
          /\ UNCHANGED <<phase, queue, heap, sums, pc, cur>>
        BY <1>1, <1>8 DEF Reaper, Reclaim, TypeInv, TokenType, control, threads
    <2> DEFINE n == [j \in Jobs |-> retry[j] + 1]
    <2>2. ListDistinct(p)' /\ \A j : InList(p, j)' <=> j \in old
        <3>1. \A e : e \in S <=> \E j \in old : e = [job |-> j, retry |-> n[j]]
            OBVIOUS
        <3> HIDE DEF S, old, n
        <3>2. /\ \A e, f \in S : e.job = f.job => e = f
              /\ \A j : (\E e \in S : e.job = j) <=> j \in old
            BY <3>1, ListOfRows
        <3>. QED BY <2>1, <3>2 DEF ListDistinct, InList
    <2>3. /\ QueuesDistinct(p)' /\ HeapDistinct(p)' /\ ThreadsDistinct'
          /\ \A j : (Queued(p, j)' <=> Queued(p, j)) /\ (OnHeap(p, j)' <=> OnHeap(p, j))
          /\ \A j : (Summed(p, j)' <=> Summed(p, j)) /\ (Taken(j)' <=> Taken(j))
        BY <1>1, <2>1 DEF AllDistinct, QueuesDistinct, HeapDistinct, ThreadsDistinct,
                          Queued, OnHeap, Summed, Taken, Job
    <2>4. ASSUME NEW j \in old
          PROVE  ~Queued(p, j) /\ ~OnHeap(p, j) /\ ~Summed(p, j) /\ ~Taken(j)
        <3>1. \A w \in Threads : pc[w] # "idle" => Job(w) # j
            BY <1>1 DEF ThreadSafe, Early, Calling, PCs
        <3>. QED BY <1>1, <3>1 DEF JobSafe, Taken
    <2>5. ASSUME NEW j \in Jobs PROVE JobSafe(p, j)'
        <3>1. CASE j \in old
            BY <2>1, <2>2, <2>3, <2>4, <3>1 DEF JobSafe
        <3>2. CASE j \notin old
            BY <1>1, <2>1, <2>2, <2>3, <3>2 DEF JobSafe
        <3>. QED BY <3>1, <3>2
    <2>6. ASSUME NEW w \in Threads PROVE ThreadSafe(w)'
        <3>1. pc[w] # "idle" => Job(w) \in Jobs \ old
            BY <1>1, <2>4 DEF Taken
        <3>. QED BY <1>1, <2>1, <3>1 DEF ThreadSafe, Job
    <2>7. Keeps(p)
        BY <2>1, <2>2, <2>3 DEF Keeps, Somewhere, InList
    <2>. QED BY <2>1, <2>2, <2>3, <2>5, <2>6, <2>7, HeldNext DEF AllDistinct, PhaseSafe
<1>9. CASE Report(p)
    <2>1. \A w \in Threads : pc[w] = "idle"
        BY <1>2, <1>9 DEF Report
    <2>2. /\ phase'[p] = "off" /\ listed'[p] = {} /\ queue'[p] = NoQueues /\ heap'[p] = NoHeap
          /\ sums'[p] = {} /\ UNCHANGED <<store, cur>> /\ \A w \in Threads : pc'[w] = "idle"
        BY <1>1, <1>9, <2>1 DEF Report, TypeInv, ControlType, TokenType, QueuesTyped
    <2>3. QueuesDistinct(p)' /\ \A j : ~Queued(p, j)'
        BY <2>2, NoQueuesStep
    <2>4. /\ ListDistinct(p)' /\ HeapDistinct(p)' /\ ThreadsDistinct'
          /\ \A j : ~InList(p, j)' /\ ~OnHeap(p, j)' /\ ~Summed(p, j)' /\ ~Taken(j)'
        BY <2>2 DEF ListDistinct, HeapDistinct, ThreadsDistinct, InList, OnHeap, Summed, Taken, NoHeap
    <2>5. \A j \in Jobs : JobSafe(p, j)'
        BY <1>1, <2>2, <2>3, <2>4 DEF JobSafe, store
    <2>6. Keeps(p)
        BY <2>2 DEF Keeps, Somewhere
    <2>. QED BY <2>2, <2>3, <2>4, <2>5, <2>6, HeldNext DEF AllDistinct, PhaseSafe, ThreadSafe
<1>10. ASSUME NEW e \in Entry, Pump(p, e) PROVE Held' /\ Keeps(p)
    <2>1. /\ phase[p] = "up" /\ heap[p][e] > 0 /\ e.job \in Jobs
          /\ heap' = [heap EXCEPT ![p][e] = @ - 1]
          /\ queue' = [queue EXCEPT ![p][Plan[e.job].service] = Put(@, Plan[e.job].account, e)]
          /\ UNCHANGED <<store, phase, listed, sums, pc, cur>>
        BY <1>10, EntryType DEF Pump, PopReady, control, threads
    <2>2. /\ HeapDistinct(p)' /\ OnHeap(p, e.job)
          /\ \A j : OnHeap(p, j)' <=> OnHeap(p, j) /\ j # e.job
        BY <1>1, <2>1, HeapPop DEF AllDistinct
    <2>3. ~Queued(p, e.job)
        BY <1>1, <2>1, <2>2 DEF JobSafe
    <2>4. QueuesDistinct(p)' /\ \A j : Queued(p, j)' <=> Queued(p, j) \/ j = e.job
        BY <1>1, <2>1, <2>3, PutStep DEF AllDistinct, TypeInv, TokenType
    <2>5. /\ ListDistinct(p)' /\ ThreadsDistinct'
          /\ \A j : (InList(p, j)' <=> InList(p, j)) /\ (Summed(p, j)' <=> Summed(p, j))
          /\ \A j : Taken(j)' <=> Taken(j)
        BY <1>1, <2>1 DEF AllDistinct, ListDistinct, ThreadsDistinct, InList, Summed, Taken, Job
    <2>6. ASSUME NEW j \in Jobs PROVE JobSafe(p, j)'
        <3>1. JobSafe(p, j) /\ JobSafe(p, e.job)
            BY <1>1, <2>1
        <3>. QED BY <2>1, <2>2, <2>4, <2>5, <3>1 DEF JobSafe, store
    <2>7. ASSUME NEW w \in Threads PROVE ThreadSafe(w)'
        BY <1>1, <2>1 DEF ThreadSafe, Job, store
    <2>8. Keeps(p)
        BY <2>2, <2>4, <2>5 DEF Keeps, Somewhere
    <2>. QED BY <2>1, <2>2, <2>4, <2>5, <2>6, <2>7, <2>8, HeldNext DEF AllDistinct, PhaseSafe
<1>11. ASSUME NEW i \in Jobs, Checksum(p, i) PROVE Held' /\ Keeps(p)
    <2>1. /\ phase[p] = "up" /\ Summed(p, i) /\ sums'[p] = sums[p] \ {i}
          /\ status'[i] \in {"SUCCESS", status[i]} /\ \A k \in Jobs \ {i} : status'[k] = status[k]
          /\ UNCHANGED <<claim, phase, listed, queue, heap, pc, cur>>
        BY <1>1, <1>11 DEF Checksum, Summed, TypeInv, StoreType, TokenType, control, threads
    <2>2. /\ AllDistinct(p)' /\ PhaseSafe(p)'
          /\ \A j : (InList(p, j)' <=> InList(p, j)) /\ (Queued(p, j)' <=> Queued(p, j))
          /\ \A j : (OnHeap(p, j)' <=> OnHeap(p, j)) /\ (Taken(j)' <=> Taken(j))
          /\ \A j : Summed(p, j)' <=> Summed(p, j) /\ j # i
        BY <1>1, <2>1 DEF AllDistinct, PhaseSafe, ListDistinct, QueuesDistinct, HeapDistinct, ThreadsDistinct,
                          InList, Queued, OnHeap, Summed, Taken, Job
    <2>3. ASSUME NEW j \in Jobs PROVE JobSafe(p, j)'
        BY <1>1, <2>1, <2>2 DEF JobSafe
    <2>4. ASSUME NEW w \in Threads PROVE ThreadSafe(w)'
        <3>1. pc[w] # "idle" => Job(w) # i
            BY <1>1, <2>1 DEF JobSafe, Taken
        <3>. QED BY <1>1, <2>1, <3>1 DEF ThreadSafe, Job
    <2>5. Keeps(p)
        BY <2>2 DEF Keeps, Somewhere
    <2>. QED BY <2>2, <2>3, <2>4, <2>5, HeldNext
<1>. QED BY <1>4, <1>5, <1>6, <1>7, <1>8, <1>9, <1>10, <1>11 DEF Pushing

LEMMA OtherTokens ==
    ASSUME OnePush, ~LiveReclaim, TokenInv, NEW p \in Pipes,
           \/ \E j \in Jobs : Expire(j)
           \/ \E s \in Drift : Use(s)
           \/ Crash \/ UNCHANGED vars
    PROVE  Held' /\ Keeps(p)
<1>1. /\ TypeInv /\ AllDistinct(p) /\ PhaseSafe(p) /\ \A k \in Jobs : JobSafe(p, k)
    BY DEF TokenInv, Held
<1>2. CASE \E j \in Jobs : Expire(j)
    <2>1. PICK j \in Jobs : Expire(j)
        BY <1>2
    <2>2. /\ UNCHANGED tokens /\ pc' = pc /\ cur' = cur /\ status' = status /\ phase' = phase
          /\ claim'[j] = "stale" /\ \A k \in Jobs \ {j} : claim'[k] = claim[k]
          /\ \A w \in Threads : pc[w] \in Calling => Job(w) # j
        BY <1>1, <2>1 DEF Expire, TypeInv, StoreType, control, threads
    <2>3. PhaseSafe(p)'
        BY <1>1, <2>2 DEF PhaseSafe, AllDone, InList, Queued, OnHeap, Summed, tokens
    <2>. QED BY <2>2, <2>3, StepBeside
<1>3. CASE (\E s \in Drift : Use(s)) \/ UNCHANGED vars
    <2>1. UNCHANGED <<tokens, pc, cur, status, claim, phase>>
        BY <1>3 DEF Use, vars, store, control, threads
    <2>2. PhaseSafe(p)'
        BY <1>1, <2>1 DEF PhaseSafe, AllDone, InList, Queued, OnHeap, Summed, tokens
    <2>. QED BY <2>1, <2>2, StepBeside
<1>4. CASE Crash
    <2>1. /\ phase'[p] = "off" /\ listed'[p] = {} /\ queue'[p] = NoQueues /\ heap'[p] = NoHeap
          /\ sums'[p] = {} /\ UNCHANGED <<store, cur>> /\ \A w \in Threads : pc'[w] = "idle"
        BY <1>4 DEF Crash
    <2>2. QueuesDistinct(p)' /\ \A j : ~Queued(p, j)'
        BY <2>1, NoQueuesStep
    <2>3. /\ ListDistinct(p)' /\ HeapDistinct(p)' /\ ThreadsDistinct'
          /\ \A j : ~InList(p, j)' /\ ~OnHeap(p, j)' /\ ~Summed(p, j)' /\ ~Taken(j)'
        BY <2>1 DEF ListDistinct, HeapDistinct, ThreadsDistinct, InList, OnHeap, Summed, Taken, NoHeap
    <2>4. \A j \in Jobs : JobSafe(p, j)'
        BY <1>1, <2>1, <2>2, <2>3 DEF JobSafe, store
    <2>5. Keeps(p)
        BY <2>1 DEF Keeps, Somewhere
    <2>. QED BY <2>1, <2>2, <2>3, <2>4, <2>5, HeldNext DEF AllDistinct, PhaseSafe, ThreadSafe
<1>. QED BY <1>2, <1>3, <1>4

LEMMA TokenStep ==
    ASSUME OnePush, ~LiveReclaim, TokenInv, [Next]_vars
    PROVE  TokenInv' /\ \A p \in Pipes : Keeps(p)
<1>1. TypeInv'
    BY TypeStep DEF TokenInv
<1>2. CASE Pipes = {}
    <2>1. Threads = {}
        BY <1>2, OfThread
    <2>. QED BY <1>1, <1>2, <2>1 DEF TokenInv, Held
<1>3. CASE Pipes # {}
    <2>1. PICK p \in Pipes : TRUE
        BY <1>3
    <2>2. Held' /\ \E q \in Pipes : Keeps(q)
        BY <2>1, PushTokens, WorkerTokens, OtherTokens, OfThread DEF Next
    <2>. QED BY <1>1, <2>2 DEF TokenInv, OnePush
<1>. QED BY <1>2, <1>3

LEMMA TokenInvariant ==
    ASSUME OnePush, ~LiveReclaim
    PROVE  Spec => []TokenInv
<1>1. Init => TokenInv
    BY TypeInit, TokenInit DEF TokenInv
<1>2. TokenInv /\ [Next]_vars => TokenInv'
    BY TokenStep
<1>. QED BY <1>1, <1>2, PTL DEF Spec

\* Where a pipe has a job, as the model counts it, are the places of the invariant.
LEMMA PlacesAreOne ==
    ASSUME TokenInv, NEW p \in Pipes, NEW j \in Jobs, NEW x \in Places(p, j), NEW y \in Places(p, j)
    PROVE  x = y
<1> DEFINE b == Bucket(p, j)
           IsListed(z) == \E e \in listed[p] : z = <<"listed", e>> /\ e.job = j
           IsQueued(z) == \E i \in 1..Len(b) : z = <<"queued", i>> /\ b[i].job = j
           IsHeaped(z) == \E e \in Entry : \E n \in 1..heap[p][e] : z = <<"on heap", e, n>> /\ e.job = j
           IsTaken(z)  == \E w \in Threads : z = <<"with thread", w>> /\ pc[w] # "idle" /\ Job(w) = j
<1>1. /\ AllDistinct(p) /\ JobSafe(p, j) /\ Plan[j].service \in Services /\ Plan[j].account \in Accounts
      /\ heap[p] \in [Entry -> Nat] /\ queue[p] \in [Services -> AQueue]
    BY OfJob DEF TokenInv, Held, TypeInv, TokenType, QueuesTyped
<1>2. b \in Seq(Entry)
    BY <1>1 DEF Bucket, AQueue
<1>3. \A z \in Places(p, j) : IsListed(z) \/ IsQueued(z) \/ IsHeaped(z) \/ IsTaken(z)
    <2>1. DOMAIN b = 1..Len(b)
        BY <1>2
    <2> DEFINE A == {<<"listed", e>> : e \in {e \in listed[p] : e.job = j}}
               B == {<<"queued", i>> : i \in {i \in DOMAIN b : b[i].job = j}}
               C(e) == {<<"on heap", e, n>> : n \in 1..heap[p][e]}
               D == {<<"with thread", w>> : w \in {w \in Threads : Pipe(w) = p /\ pc[w] # "idle" /\ Job(w) = j}}
               S == {e \in Entry : e.job = j}
               U == UNION {C(e) : e \in S}
    <2>2. Places(p, j) = A \cup B \cup U \cup D
        BY DEF Places
    <2>3. \A z \in A : IsListed(z)
        OBVIOUS
    <2>4. \A z \in B : IsQueued(z)
        BY <2>1
    <2>5. \A z \in D : IsTaken(z)
        OBVIOUS
    <2>6. \A e \in S : \A z \in C(e) : IsHeaped(z)
        OBVIOUS
    <2> HIDE DEF A, B, C, D, S, U, IsListed, IsQueued, IsHeaped, IsTaken
    <2>7. \A z \in U : \E e \in S : z \in C(e)
        BY DEF U
    <2>8. \A z \in U : IsHeaped(z)
        BY <2>6, <2>7
    <2>. QED BY <2>2, <2>3, <2>4, <2>5, <2>8
<1>4. \A z : IsListed(z) => InList(p, j)
    BY DEF InList
<1>5. \A z : IsQueued(z) => Queued(p, j)
    BY <1>1 DEF Queued, InQueue, Bucket
<1>6. \A z : IsHeaped(z) => OnHeap(p, j)
    <2>1. \A e \in Entry : \A n \in 1..heap[p][e] : heap[p][e] > 0
        BY <1>1
    <2>. QED BY <2>1 DEF OnHeap
<1>7. \A z : IsTaken(z) => Taken(j)
    BY DEF Taken
<1>8. IsListed(x) /\ IsListed(y) => x = y
    BY <1>1 DEF AllDistinct, ListDistinct
<1>9. IsQueued(x) /\ IsQueued(y) => x = y
    BY <1>1 DEF AllDistinct, QueuesDistinct, Distinct, Bucket
<1>10. IsHeaped(x) /\ IsHeaped(y) => x = y
    <2>1. \A e \in Entry : \A n \in 1..heap[p][e] : heap[p][e] > 0 /\ n = 1
        BY <1>1 DEF AllDistinct, HeapDistinct
    <2>. QED BY <1>1, <2>1 DEF AllDistinct, HeapDistinct
<1>11. IsTaken(x) /\ IsTaken(y) => x = y
    BY <1>1 DEF AllDistinct, ThreadsDistinct
<1> HIDE DEF IsListed, IsQueued, IsHeaped, IsTaken
<1>. QED BY <1>1, <1>3, <1>4, <1>5, <1>6, <1>7, <1>8, <1>9, <1>10, <1>11 DEF JobSafe

\* With one push at a time and no claim that is reclaimed under its worker, a job is
\* in one place of its push only: two workers never have it, whatever fails or dies.
THEOREM TokensAreSingle ==
    ASSUME OnePush, ~LiveReclaim
    PROVE  Spec => []OneToken
<1>1. TokenInv => OneToken
    BY PlacesAreOne DEF OneToken
<1>. QED BY <1>1, TokenInvariant, PTL

\* When the threads of a push are told to stop, all of them are idle already.
THEOREM StopsAreQuiet ==
    ASSUME OnePush, ~LiveReclaim
    PROVE  Spec => []StoppedQuiet
<1>1. TokenInv => StoppedQuiet
    BY DEF TokenInv, Held, ThreadSafe, StoppedQuiet, Calling
<1>. QED BY <1>1, TokenInvariant, PTL
-----------------------------------------------------------------------------
(* What the rows of the job store say, and what Google holds, in every     *)
(* state of the provisioning pipeline: one push at a time, as long as the  *)
(* pushes of a run either all wipe or none does.                           *)

\* The rows a push plans.
MyJobs == UNION {Planned(p, m) : p \in Pipes, m \in Wiping}

OneMode == \A m, n \in Wiping : m = n
Quietly == OnePush /\ OneMode /\ ~LiveReclaim

IsWipe(j) == Plan[j].action = "wipe"
Ready(j, S) == \A i \in S : status[Plan[j].deps[i]] = "SUCCESS"

\* The rows are those of one plan, with its dependencies.
Rows ==
    /\ \A j \in Jobs : status[j] # "NONE" => j \in MyJobs /\ deps[j] = DepsOf(j, MyJobs)
    /\ \A j, k \in MyJobs : status[j] = "NONE" => status[k] = "NONE"
    /\ \A p \in Pipes : phase[p] # "off" => \A j \in MyJobs : status[j] # "NONE"

\* What is done was ready: its dependencies are done, and the wipe it comes after;
\* a thread has seen the dependencies it need not look at any more.
DoneInOrder == \A j \in Jobs : status[j] = "SUCCESS" => Ready(j, deps[j])
WipedFirst ==
    \A j \in MyJobs : IsWipe(j) => \A k \in Children(j) : status[k] = "SUCCESS" => status[j] = "SUCCESS"
HasSeen(w) ==
    pc[w] # "idle" =>
        /\ unread[w] \subseteq deps[Job(w)] /\ Ready(Job(w), deps[Job(w)] \ unread[w])
        /\ pc[w] # "deps" => unread[w] = {}
        /\ pc[w] = "reset" => IsWipe(Job(w))
Order == DoneInOrder /\ WipedFirst /\ \A w \in Threads : HasSeen(w)

\* No row that is to run is lost, and a digest is only of a row that is done.
Kept ==
    /\ \A p \in Pipes : phase[p] \in {"filling", "up"} =>
          \A j \in Jobs : status[j] \in {"PENDING", "RETRY"} => Somewhere(p, j)
    /\ \A p \in Pipes, j \in Jobs : Summed(p, j) => status[j] = "SUCCESS"

\* The call of a job has been answered.
Answered(j) == status[j] = "SUCCESS" \/ \E w \in Threads : pc[w] = "finish" /\ Job(w) = j

\* What is done is there, and once but for the calls whose answer was lost.
Objects ==
    /\ stray = {}
    /\ \A j \in Jobs : Answered(j) /\ ~IsWipe(j) => live[j] >= 1
    /\ \A j \in Jobs : /\ live[j] <= 1 + faults + crashes
                       /\ ~Answered(j) => live[j] <= faults + crashes

Failures ==
    faults = 0 =>
        /\ \A j \in Jobs : status[j] # "PERMANENT_FAILURE"
        /\ \A w \in Threads : pc[w] \notin {"transient", "permanent"}

\* What a wipe has left that it was let to clear.
Uncleared == dirty \ spared

\* A wipe that this push has run has cleared its service.
Wipes ==
    /\ \A j \in tried : status[j] # "NONE"
    /\ \A p \in Pipes : phase[p] # "off" =>
          \A j \in tried : IsWipe(j) /\ Answered(j) => Slot(j) \notin Uncleared
    /\ \A a \in Accounts : (\A p \in Pipes : a \notin Emails[p]) => result[a] = "none"

StoreInv == TokenInv /\ Rows /\ Order /\ Kept /\ Objects /\ Failures /\ Wipes

LEMMA StoreInit == Init => StoreInv
<1> SUFFICES ASSUME Init PROVE StoreInv
    OBVIOUS
<1>1. TokenInv
    BY TypeInit, TokenInit DEF TokenInv
<1>2. /\ \A j \in Jobs : status[j] = "NONE" /\ live[j] = 0
      /\ \A w \in Threads : pc[w] = "idle"
      /\ \A p \in Pipes : phase[p] = "off" /\ sums[p] = {}
      /\ tried = {} /\ stray = {} /\ faults = 0 /\ crashes = 0 /\ \A a \in Accounts : result[a] = "none"
    BY DEF Init
<1>3. MyJobs \subseteq Jobs
    BY DEF MyJobs, Planned
<1>4. \A j : Children(j) \subseteq Jobs
    BY DEF Children
<1>5. Rows /\ Order /\ Kept
    BY <1>2, <1>3, <1>4 DEF Rows, Order, DoneInOrder, WipedFirst, HasSeen, Kept, Summed
<1>6. Objects /\ Failures /\ Wipes
    BY <1>2 DEF Objects, Answered, Failures, Wipes
<1>. QED BY <1>1, <1>5, <1>6 DEF StoreInv

-----------------------------------------------------------------------------
(* Facts about the plan and the threads *)

LEMMA PlanFacts ==
    ASSUME Quietly
    PROVE  /\ MyJobs \subseteq Jobs
           /\ \A p \in Pipes, m \in Wiping : Planned(p, m) = MyJobs
           /\ \A j \in MyJobs : \E p \in Pipes, m \in Wiping : j \in Planned(p, m)
<1>1. MyJobs \subseteq Jobs /\ \A j \in MyJobs : \E p \in Pipes, m \in Wiping : j \in Planned(p, m)
    BY DEF MyJobs, Planned
<1>2. ASSUME NEW p \in Pipes, NEW m \in Wiping PROVE Planned(p, m) = MyJobs
    <2>1. Planned(p, m) \subseteq MyJobs
        BY DEF MyJobs
    <2>2. \A j \in MyJobs : j \in Planned(p, m)
        BY <1>1 DEF Quietly, OnePush, OneMode
    <2>. QED BY <2>1, <2>2
<1>. QED BY <1>1, <1>2

\* A job that was planned waits for every row of its own account and the shared
\* ones that the plan names, the wipe only if there is one.
LEMMA DepsArePlanned ==
    ASSUME Quietly, NEW j \in MyJobs, NEW i \in DOMAIN Plan[j].deps,
           Plan[Plan[j].deps[i]].action # "wipe" \/ Plan[j].deps[i] \in MyJobs
    PROVE  i \in DepsOf(j, MyJobs)
<1> DEFINE k == Plan[j].deps[i]
<1>1. j \in Jobs /\ k \in Jobs /\ Plan[k].account \in {Plan[j].account, Shared}
    BY PlanFacts, OfDeps, PlannerAssumption
<1>2. CASE Plan[k].action # "wipe"
    <2>1. PICK p \in Pipes, m \in Wiping : j \in Planned(p, m)
        BY PlanFacts
    <2>2. k \in Planned(p, m)
        BY <1>1, <1>2, <2>1 DEF Planned
    <2>. QED BY <2>2, PlanFacts DEF DepsOf
<1>. QED BY <1>2 DEF DepsOf

\* The wipe of a job's service is done when the job is ready.
LEMMA WipeIsDone ==
    ASSUME Quietly, StoreInv, NEW j \in MyJobs, IsWipe(j), NEW k \in Children(j),
           status[k] # "NONE", Ready(k, deps[k])
    PROVE  status[j] = "SUCCESS"
<1>1. j \in Jobs /\ k \in Jobs /\ k \in MyJobs /\ deps[k] = DepsOf(k, MyJobs)
    BY PlanFacts DEF StoreInv, Rows, Children
<1>2. PICK i \in DOMAIN Plan[k].deps : Plan[k].deps[i] \in Children(j) \cup {j}
    BY <1>1, PlannerAssumption DEF IsWipe
<1>3. i \in deps[k]
    BY <1>1, <1>2, DepsArePlanned DEF Children
<1>4. status[Plan[k].deps[i]] = "SUCCESS"
    BY <1>3 DEF Ready
<1>. QED BY <1>2, <1>4 DEF StoreInv, Order, WipedFirst

\* The job of a thread has a row, which is not SUCCESS.
LEMMA ThreadFacts ==
    ASSUME Quietly, StoreInv, NEW w \in Threads, pc[w] # "idle"
    PROVE  /\ Pipe(w) \in Pipes /\ phase[Pipe(w)] = "up" /\ Job(w) \in Jobs /\ Job(w) \in MyJobs
           /\ status[Job(w)] \notin {"NONE", "SUCCESS", "PERMANENT_FAILURE"}
           /\ deps[Job(w)] = DepsOf(Job(w), MyJobs) /\ Taken(Job(w))
           /\ pc[w] \in Calling => status[Job(w)] = "PROCESSING"
           /\ pc[w] \notin {"idle", "deps"} => Ready(Job(w), deps[Job(w)])
           /\ pc[w] = "reset" => IsWipe(Job(w))
           /\ \A v \in Threads : pc[v] # "idle" /\ Job(v) = Job(w) => v = w
<1>1. /\ Pipe(w) \in Pipes /\ Job(w) \in Jobs /\ ThreadSafe(w) /\ pc[w] \in Early \cup Calling
      /\ ThreadsDistinct /\ HasSeen(w)
    BY OfThread DEF StoreInv, TokenInv, Held, AllDistinct, TypeInv, ThreadType, Entry, Job, Order, PCs, Early, Calling
<1>2. /\ status[Job(w)] \notin {"NONE", "SUCCESS", "PERMANENT_FAILURE"}
      /\ phase[Pipe(w)] = "up" /\ Taken(Job(w))
      /\ pc[w] \in Calling => status[Job(w)] = "PROCESSING"
    BY <1>1 DEF ThreadSafe, Taken
<1>3. Job(w) \in MyJobs /\ deps[Job(w)] = DepsOf(Job(w), MyJobs)
    BY <1>1, <1>2 DEF StoreInv, Rows
<1>4. /\ pc[w] \notin {"idle", "deps"} => Ready(Job(w), deps[Job(w)])
      /\ pc[w] = "reset" => IsWipe(Job(w))
    BY <1>1 DEF HasSeen, Ready
<1>5. \A v \in Threads : pc[v] # "idle" /\ Job(v) = Job(w) => v = w
    BY <1>1 DEF ThreadsDistinct
<1>. QED BY <1>1, <1>2, <1>3, <1>4, <1>5

-----------------------------------------------------------------------------
(* How rows change *)

\* A row that is SUCCESS stays so, one becomes it by the step that ends its job; a
\* row to be run was one before, was with a thread or has been read for the queues.
RowMoves ==
    /\ deps' = deps
    /\ \A j \in Jobs :
          \/ status'[j] = status[j]
          \/ /\ status[j] \notin {"NONE", "SUCCESS"} /\ status'[j] \notin {"NONE", "SUCCESS"}
             /\ status'[j] \in {"PENDING", "RETRY"} => Taken(j) \/ \E p \in Pipes : InList(p, j)'
          \/ \E w \in Threads : FinishJob(w) /\ j = Job(w) /\ status'[j] = "SUCCESS"

LEMMA MarkMoves ==
    ASSUME Quietly, StoreInv, NEW w \in Threads, pc[w] # "idle", NEW st, NEW cl, Mark(Job(w), st, cl),
           st \notin {"NONE", "SUCCESS"}
    PROVE  RowMoves
<1>1. /\ Job(w) \in Jobs /\ status[Job(w)] \notin {"NONE", "SUCCESS"} /\ Taken(Job(w))
    BY ThreadFacts
<1>2. /\ deps' = deps /\ status'[Job(w)] = st
      /\ \A j \in Jobs : j # Job(w) => status'[j] = status[j]
    BY <1>1 DEF Mark, StoreInv, TokenInv, TypeInv, StoreType
<1>. QED BY <1>1, <1>2 DEF RowMoves

\* No child of a wipe that is to be run is restored yet.
LEMMA NothingToReset ==
    ASSUME Quietly, StoreInv, NEW w \in Threads, ResetChildren(w)
    PROVE  UNCHANGED <<status, deps>>
<1> DEFINE again == {k \in Children(Job(w)) : status[k] = "SUCCESS"}
<1>1. pc[w] = "reset" /\ deps' = deps
      /\ status' = [k \in Jobs |-> IF k \in again THEN "PENDING" ELSE status[k]]
    BY DEF ResetChildren
<1>2. Job(w) \in MyJobs /\ status[Job(w)] # "SUCCESS" /\ IsWipe(Job(w))
    BY <1>1, ThreadFacts
<1>3. again = {}
    BY <1>2 DEF StoreInv, Order, WipedFirst
<1>. QED BY <1>1, <1>3 DEF StoreInv, TokenInv, TypeInv, StoreType

LEMMA WorkerRows ==
    ASSUME Quietly, StoreInv, NEW w \in Threads, Worker(w) \/ CallFails(w)
    PROVE  RowMoves
<1>1. CASE Take(w) \/ DepReady(w) \/ CheckDone(w) \/ CallSucceeds(w) \/ CallRefused(w) \/ CallFails(w)
    BY <1>1 DEF Take, DepReady, CheckDone, CallSucceeds, CallRefused, CallFails, RowMoves, store
<1>2. CASE ResetChildren(w)
    BY <1>2, NothingToReset DEF RowMoves
<1>3. CASE DepFailed(w) \/ DepWaits(w) \/ MarkProcessing(w) \/ GiveUp(w) \/ RetryLater(w)
    <2>1. /\ pc[w] # "idle"
          /\ \E st \in {"PERMANENT_FAILURE", "PENDING", "PROCESSING", "RETRY"}, cl \in {"none", "fresh"} :
                Mark(Job(w), st, cl)
        BY <1>3 DEF DepFailed, DepWaits, MarkProcessing, GiveUp, RetryLater, Reads
    <2>. QED BY <2>1, MarkMoves
<1>4. CASE FinishJob(w)
    <2>1. /\ pc[w] = "finish" /\ Mark(Job(w), "SUCCESS", "none")
        BY <1>4 DEF FinishJob
    <2>2. /\ deps' = deps /\ Job(w) \in Jobs /\ status'[Job(w)] = "SUCCESS"
          /\ \A j \in Jobs : j # Job(w) => status'[j] = status[j]
        BY <2>1, ThreadFacts DEF Mark, StoreInv, TokenInv, TypeInv, StoreType
    <2>. QED BY <1>4, <2>2 DEF RowMoves
<1>. QED BY <1>1, <1>2, <1>3, <1>4 DEF Worker

\* A step other than the planning of a push.
PipeStep(p) ==
    \/ ListRunnable(p) \/ Enqueue(p) \/ StartThreads(p) \/ Reaper(p) \/ Tick(p) \/ Report(p)
    \/ \E e \in Entry : Pump(p, e)
    \/ \E j \in Jobs : Checksum(p, j)
BesideStep ==
    \/ \E j \in Jobs : Expire(j)
    \/ \E s \in Drift : Use(s)
    \/ Crash
    \/ UNCHANGED vars
OtherStep ==
    \/ \E p \in Pipes : PipeStep(p)
    \/ \E w \in Threads : Worker(w) \/ CallFails(w)
    \/ BesideStep

LEMMA RowStep ==
    ASSUME Quietly, StoreInv, OtherStep
    PROVE  RowMoves
<1>1. ASSUME NEW p \in Pipes, Reaper(p) PROVE RowMoves
    <2> DEFINE old == {j \in Jobs : status[j] = "PROCESSING" /\ claim[j] = "stale"}
               S == {[job |-> j, retry |-> retry[j] + 1] : j \in old}
    <2>1. /\ status' = [j \in Jobs |-> IF j \in old THEN "RETRY" ELSE status[j]]
          /\ deps' = deps /\ listed'[p] = S
        BY <1>1 DEF Reaper, Reclaim, StoreInv, TokenInv, TypeInv, TokenType
    <2>2. ASSUME NEW j \in old PROVE InList(p, j)'
        <3>1. [job |-> j, retry |-> retry[j] + 1] \in S
            OBVIOUS
        <3>. QED BY <2>1, <3>1 DEF InList
    <2>. QED BY <2>1, <2>2 DEF RowMoves
<1>2. ASSUME NEW p \in Pipes, NEW j \in Jobs, Checksum(p, j) PROVE RowMoves
    <2>1. status[j] = "SUCCESS"
        BY <1>2 DEF Checksum, StoreInv, Kept, Summed
    <2>. QED BY <1>2, <2>1 DEF Checksum, RowMoves, StoreInv, TokenInv, TypeInv, StoreType
<1>3. ASSUME NEW p \in Pipes, PipeStep(p), ~Reaper(p), ~ \E j \in Jobs : Checksum(p, j) PROVE RowMoves
    <2>1. UNCHANGED <<status, deps>>
        BY <1>3 DEF PipeStep, ListRunnable, Enqueue, StartThreads, Tick, Report, Pump, store
    <2>. QED BY <2>1 DEF RowMoves
<1>4. CASE BesideStep
    <2>1. UNCHANGED <<status, deps>>
        BY <1>4 DEF BesideStep, Expire, Use, Crash, vars, store
    <2>. QED BY <2>1 DEF RowMoves
<1>. QED BY <1>1, <1>2, <1>3, <1>4, WorkerRows DEF OtherStep

\* The phases a step leads to: a push is opened by planning it, and filled once.
PhaseMoves ==
    /\ \A p \in Pipes : phase'[p] # "off" => phase[p] # "off"
    /\ \A p \in Pipes : \/ phase'[p] = phase[p]
                        \/ phase[p] \in {"filling", "up"}
                        \/ phase'[p] \in {"off", "stopping"}
                        \/ ListRunnable(p)

LEMMA PhaseStep ==
    ASSUME StoreInv, OtherStep
    PROVE  PhaseMoves
<1>1. phase \in [Pipes -> {"off", "planned", "filling", "up", "stopping"}]
    BY DEF StoreInv, TokenInv, TypeInv, ControlType
<1>2. ASSUME NEW p \in Pipes, ListRunnable(p) \/ StartThreads(p) \/ Tick(p) \/ Report(p)
      PROVE  PhaseMoves
    BY <1>1, <1>2 DEF ListRunnable, StartThreads, Tick, Report, PhaseMoves
<1>3. ASSUME NEW p \in Pipes,
             \/ Enqueue(p) \/ Reaper(p)
             \/ \E e \in Entry : Pump(p, e)
             \/ \E j \in Jobs : Checksum(p, j)
      PROVE  UNCHANGED phase
    BY <1>3 DEF Enqueue, Reaper, Reclaim, Pump, Checksum, control
<1>4. ASSUME NEW w \in Threads, Worker(w) \/ CallFails(w)
      PROVE  UNCHANGED phase
    BY <1>4 DEF Worker, Take, DepReady, DepFailed, DepWaits, CheckDone, ResetChildren, MarkProcessing,
                CallSucceeds, CallRefused, FinishJob, GiveUp, RetryLater, CallFails, control
<1>5. CASE BesideStep
    BY <1>5 DEF BesideStep, Expire, Use, Crash, vars, control, PhaseMoves
<1>6. UNCHANGED phase => PhaseMoves
    BY DEF PhaseMoves
<1>7. ASSUME NEW p \in Pipes, PipeStep(p) PROVE PhaseMoves
    BY <1>2, <1>3, <1>6, <1>7 DEF PipeStep
<1>. QED BY <1>4, <1>5, <1>6, <1>7 DEF OtherStep

\* What the moves of the rows leave as it was.
LEMMA RowsKeep ==
    ASSUME Quietly, StoreInv, RowMoves
    PROVE  /\ deps' = deps
           /\ \A j \in Jobs : status[j] = "SUCCESS" => status'[j] = "SUCCESS"
           /\ \A j \in Jobs : status'[j] = "NONE" <=> status[j] = "NONE"
           /\ \A j \in Jobs : \/ status'[j] = status[j] \/ status'[j] # "SUCCESS"
                              \/ \E w \in Threads : FinishJob(w) /\ j = Job(w)
           /\ \A j \in Jobs : \A S \in SUBSET DOMAIN Plan[j].deps : Ready(j, S) => Ready(j, S)'
<1>1. ASSUME NEW w \in Threads, FinishJob(w) PROVE status[Job(w)] \notin {"NONE", "SUCCESS"}
    BY <1>1, ThreadFacts DEF FinishJob
<1>2. \A j \in Jobs : status[j] = "SUCCESS" => status'[j] = "SUCCESS"
    BY <1>1 DEF RowMoves
<1>3. \A j \in Jobs : status'[j] = "NONE" <=> status[j] = "NONE"
    BY <1>1 DEF RowMoves
<1>4. \A j \in Jobs : \A i \in DOMAIN Plan[j].deps : Plan[j].deps[i] \in Jobs
    BY OfDeps
<1>5. \A j \in Jobs : \A S \in SUBSET DOMAIN Plan[j].deps : Ready(j, S) => Ready(j, S)'
    BY <1>2, <1>4 DEF Ready
<1>. QED BY <1>2, <1>3, <1>5 DEF RowMoves

-----------------------------------------------------------------------------
(* A push is planned *)

LEMMA PlanRows ==
    ASSUME Quietly, StoreInv, NEW p \in Pipes, NEW wipe \in Wiping, PlanJobs(p, wipe)
    PROVE  /\ \A j \in Jobs : status'[j] = IF j \in MyJobs /\ status[j] = "NONE" THEN "PENDING" ELSE status[j]
           /\ \A j \in Jobs : status[j] # "NONE" => deps'[j] = deps[j]
           /\ \A j \in MyJobs : deps'[j] = DepsOf(j, MyJobs)
           /\ \A q \in Pipes : phase[q] = "off" /\ phase'[q] = "planned"
           /\ \A w \in Threads : pc[w] = "idle" /\ pc'[w] = "idle"
           /\ tried' = {}
           /\ UNCHANGED <<google, faults, crashes, sums>>
           /\ \A a \in Accounts : (\A q \in Pipes : a \notin Emails[q]) => result'[a] = result[a]
<1> DEFINE kept == {j \in MyJobs : status[j] = "SUCCESS"}
<1>1. MyJobs \subseteq Jobs /\ Planned(p, wipe) = MyJobs
    BY PlanFacts
<1>2. /\ status' = [j \in Jobs |-> IF j \in MyJobs /\ status[j] = "NONE" THEN "PENDING" ELSE status[j]]
      /\ deps' = [j \in Jobs |-> IF j \in MyJobs \ kept THEN DepsOf(j, MyJobs) ELSE deps[j]]
      /\ tried' = tried \ MyJobs
    BY <1>1 DEF PlanJobs
<1>3. \A j \in Jobs : status[j] # "NONE" => j \in MyJobs /\ deps[j] = DepsOf(j, MyJobs)
    BY DEF StoreInv, Rows
<1>4. \A j \in MyJobs : deps'[j] = DepsOf(j, MyJobs)
    BY <1>1, <1>2, <1>3
<1>5. \A j \in Jobs : status[j] # "NONE" => deps'[j] = deps[j]
    BY <1>3, <1>4
<1>6. tried' = {}
    BY <1>2, <1>3 DEF StoreInv, Wipes, TokenInv, TypeInv, BoundsType
<1>7. \A q \in Pipes : phase[q] = "off" /\ phase'[q] = "planned"
    BY DEF PlanJobs, Quietly, OnePush, StoreInv, TokenInv, TypeInv, ControlType
<1>8. \A w \in Threads : pc[w] = "idle" /\ pc'[w] = "idle"
    BY OfThread DEF PlanJobs, Quietly, OnePush, threads
<1>9. UNCHANGED <<google, faults, crashes, sums>>
    BY DEF PlanJobs, google, tokens
<1>10. \A a \in Accounts : (\A q \in Pipes : a \notin Emails[q]) => result'[a] = result[a]
    BY DEF PlanJobs
<1>. QED BY <1>2, <1>4, <1>5, <1>6, <1>7, <1>8, <1>9, <1>10

LEMMA PlanStep ==
    ASSUME Quietly, StoreInv, NEW p \in Pipes, NEW wipe \in Wiping, PlanJobs(p, wipe)
    PROVE  Rows' /\ Order' /\ Kept' /\ Objects' /\ Failures' /\ Wipes'
<1> USE PlanRows
<1>1. MyJobs \subseteq Jobs /\ \A j \in Jobs : \A i \in DOMAIN Plan[j].deps : Plan[j].deps[i] \in Jobs
    BY PlanFacts, OfDeps
<1>2. \A j \in Jobs : status[j] # "NONE" => j \in MyJobs /\ deps[j] = DepsOf(j, MyJobs)
    BY DEF StoreInv, Rows
<1>3. Rows'
    BY <1>1, <1>2 DEF Rows
<1>4. /\ \A j \in Jobs : status'[j] = "SUCCESS" <=> status[j] = "SUCCESS"
      /\ \A j \in Jobs : status'[j] = "PERMANENT_FAILURE" <=> status[j] = "PERMANENT_FAILURE"
    OBVIOUS
<1>5. DoneInOrder'
    <2> SUFFICES ASSUME NEW j \in Jobs, status'[j] = "SUCCESS" PROVE Ready(j, deps[j])'
        BY DEF DoneInOrder
    <2>1. deps'[j] = deps[j] /\ Ready(j, deps[j]) /\ deps[j] \subseteq DOMAIN Plan[j].deps
        BY <1>2, <1>4 DEF StoreInv, Order, DoneInOrder, DepsOf
    <2>. QED BY <1>1, <1>4, <2>1 DEF Ready
<1>6. Order'
    BY <1>1, <1>4, <1>5 DEF Order, WipedFirst, HasSeen, StoreInv, Children
<1>7. \A j \in Jobs : Answered(j)' <=> Answered(j)
    BY <1>4 DEF Answered
<1>8. Kept'
    BY <1>4 DEF Kept, StoreInv, Summed
<1>9. Objects'
    BY <1>7 DEF Objects, StoreInv, google
<1>10. Failures' /\ Wipes'
    BY <1>4 DEF Failures, Wipes, StoreInv
<1>. QED BY <1>3, <1>6, <1>8, <1>9, <1>10

-----------------------------------------------------------------------------
(* The rows and what the threads know of them *)

LEMMA RowsStep ==
    ASSUME Quietly, StoreInv, OtherStep
    PROVE  Rows'
<1>1. RowMoves /\ PhaseMoves
    BY RowStep, PhaseStep
<1>2. MyJobs \subseteq Jobs
    BY PlanFacts
<1>3. deps' = deps /\ \A j \in Jobs : status'[j] = "NONE" <=> status[j] = "NONE"
    BY <1>1, RowsKeep
<1>. QED BY <1>1, <1>2, <1>3 DEF Rows, PhaseMoves, StoreInv

LEMMA DoneStep ==
    ASSUME Quietly, StoreInv, RowMoves
    PROVE  DoneInOrder' /\ WipedFirst'
<1>1. /\ deps' = deps
      /\ \A j \in Jobs : status[j] = "SUCCESS" => status'[j] = "SUCCESS"
      /\ \A j \in Jobs : \A S \in SUBSET DOMAIN Plan[j].deps : Ready(j, S) => Ready(j, S)'
    BY RowsKeep
<1>2. ASSUME NEW j \in Jobs, status'[j] = "SUCCESS"
      PROVE  status[j] # "NONE" /\ Ready(j, deps[j]) /\ deps[j] \subseteq DOMAIN Plan[j].deps
    <2>1. CASE status[j] = "SUCCESS"
        BY <2>1 DEF StoreInv, Order, DoneInOrder, Rows, DepsOf
    <2>2. CASE status[j] # "SUCCESS"
        <3>1. PICK w \in Threads : FinishJob(w) /\ j = Job(w)
            BY <1>2, <2>2, RowsKeep
        <3>2. pc[w] = "finish"
            BY <3>1 DEF FinishJob
        <3>. QED BY <3>1, <3>2, ThreadFacts DEF DepsOf
    <2>. QED BY <2>1, <2>2
<1>3. DoneInOrder'
    BY <1>1, <1>2 DEF DoneInOrder
<1>4. MyJobs \subseteq Jobs /\ \A j : Children(j) \subseteq Jobs
    BY PlanFacts DEF Children
<1>5. ASSUME NEW j \in MyJobs, IsWipe(j), NEW k \in Children(j), status'[k] = "SUCCESS"
      PROVE  status'[j] = "SUCCESS"
    <2>1. status[k] # "NONE" /\ Ready(k, deps[k])
        BY <1>2, <1>4, <1>5
    <2>2. status[j] = "SUCCESS"
        BY <1>5, <2>1, WipeIsDone
    <2>. QED BY <1>1, <1>4, <2>2
<1>6. WipedFirst'
    BY <1>5 DEF WipedFirst
<1>. QED BY <1>3, <1>6

\* A thread that does not look at a dependency knows what it knew.
LEMMA SeenGoes ==
    ASSUME Quietly, StoreInv, RowMoves, NEW w \in Threads,
           pc'[w] # "idle" =>
               /\ pc[w] # "idle" /\ cur'[w] = cur[w] /\ unread'[w] = unread[w]
               /\ pc'[w] # "deps" => pc[w] # "deps"
               /\ pc'[w] = "reset" => IsWipe(Job(w))
    PROVE  HasSeen(w)'
<1> SUFFICES ASSUME pc'[w] # "idle" PROVE HasSeen(w)'
    BY DEF HasSeen
<1>1. /\ HasSeen(w) /\ Job(w) \in Jobs /\ deps[Job(w)] \subseteq DOMAIN Plan[Job(w)].deps
      /\ Job(w)' = Job(w)
    BY ThreadFacts DEF StoreInv, Order, DepsOf, Job
<1> DEFINE j == Job(w)
           S == deps[j] \ unread[w]
<1>2. S \in SUBSET DOMAIN Plan[j].deps /\ Ready(j, S) /\ unread[w] \subseteq deps[j]
    BY <1>1 DEF HasSeen
<1>3. Ready(j, S)'
    <2>1. \A k \in Jobs : status[k] = "SUCCESS" => status'[k] = "SUCCESS"
        BY RowsKeep
    <2>2. \A i \in S : status'[Plan[j].deps[i]] = "SUCCESS"
        BY <1>1, <1>2, <2>1, OfDeps DEF Ready
    <2>. QED BY <1>1, <2>2, RowsKeep DEF Ready
<1>4. deps' = deps
    BY RowsKeep
<1>. QED BY <1>1, <1>2, <1>3, <1>4 DEF HasSeen, IsWipe

LEMMA SeenStep ==
    ASSUME Quietly, StoreInv, OtherStep
    PROVE  \A w \in Threads : HasSeen(w)'
<1>0. RowMoves /\ deps' = deps
    BY RowStep, RowsKeep
<1>t. /\ pc \in [Threads -> PCs] /\ cur \in [Threads -> Entry] /\ unread \in [Threads -> SUBSET Positions]
      /\ deps \in [Jobs -> SUBSET Positions]
    BY DEF StoreInv, TokenInv, TypeInv, ThreadType, StoreType
<1>1. ASSUME NEW w \in Threads, Take(w) PROVE \A v \in Threads : HasSeen(v)'
    <2> DEFINE e == NextOf(queue[Pipe(w)][Service(w)])
    <2>1. /\ cur' = [cur EXCEPT ![w] = e] /\ unread' = [unread EXCEPT ![w] = deps[e.job]]
          /\ Goto(w, IF deps[e.job] = {} THEN "check" ELSE "deps")
        BY <1>1 DEF Take
    <2> HIDE DEF e
    <2>2. \A v \in Threads : v # w => pc'[v] = pc[v] /\ cur'[v] = cur[v] /\ unread'[v] = unread[v]
        BY <1>t, <2>1 DEF Goto
    <2>3. /\ cur'[w] = e /\ unread'[w] = deps[e.job] /\ pc'[w] = IF deps[e.job] = {} THEN "check" ELSE "deps"
        BY <1>t, <2>1 DEF Goto
    <2>4. HasSeen(w)'
        BY <1>0, <2>3 DEF HasSeen, Ready, Job
    <2>5. ASSUME NEW v \in Threads, v # w PROVE HasSeen(v)'
        <3>1. pc'[v] = "reset" => pc[v] = "reset" /\ IsWipe(Job(v))
            BY <2>2, <2>5, ThreadFacts
        <3>. QED BY <1>0, <2>2, <2>5, <3>1, SeenGoes
    <2>. QED BY <2>4, <2>5
<1>2. ASSUME NEW w \in Threads, DepReady(w) PROVE \A v \in Threads : HasSeen(v)'
    <2>1. PICK i \in unread[w] :
              /\ pc[w] = "deps" /\ status[Plan[Job(w)].deps[i]] = "SUCCESS" /\ UNCHANGED <<status, deps>>
              /\ unread' = [unread EXCEPT ![w] = @ \ {i}] /\ cur' = cur
              /\ Goto(w, IF unread[w] = {i} THEN "check" ELSE "deps")
        BY <1>2 DEF DepReady, Reads, store
    <2>2. \A v \in Threads : v # w => pc'[v] = pc[v] /\ cur'[v] = cur[v] /\ unread'[v] = unread[v]
        BY <1>t, <2>1 DEF Goto
    <2>3. /\ unread'[w] = unread[w] \ {i} /\ pc'[w] = IF unread[w] = {i} THEN "check" ELSE "deps"
        BY <1>t, <2>1 DEF Goto
    <2>4. unread[w] \subseteq deps[Job(w)] /\ Ready(Job(w), deps[Job(w)] \ unread[w])
        BY <2>1 DEF StoreInv, Order, HasSeen
    <2>5. HasSeen(w)'
        BY <2>1, <2>3, <2>4 DEF HasSeen, Ready, Job
    <2>6. ASSUME NEW v \in Threads, v # w PROVE HasSeen(v)'
        <3>1. pc'[v] = "reset" => pc[v] = "reset" /\ IsWipe(Job(v))
            BY <2>2, <2>6, ThreadFacts
        <3>. QED BY <1>0, <2>2, <2>6, <3>1, SeenGoes
    <2>. QED BY <2>5, <2>6
<1>3. ASSUME NEW w \in Threads, Worker(w) \/ CallFails(w), ~Take(w), ~DepReady(w)
      PROVE  \A v \in Threads : HasSeen(v)'
    <2>1. /\ cur' = cur /\ pc[w] # "idle"
          /\ \E st \in PCs : /\ Goto(w, st)
                             /\ st # "idle" => unread' = unread /\ st # "deps" /\ pc[w] # "deps"
                             /\ st = "reset" => IsWipe(Job(w))
          /\ unread' = unread \/ Forget(w)
        BY <1>3 DEF Worker, DepFailed, DepWaits, CheckDone, ResetChildren, MarkProcessing, CallSucceeds,
                    CallFails, CallRefused, FinishJob, GiveUp, RetryLater, Reads, PCs, IsWipe
    <2>2. PICK st \in PCs : /\ Goto(w, st)
                            /\ st # "idle" => unread' = unread /\ st # "deps" /\ pc[w] # "deps"
                            /\ st = "reset" => IsWipe(Job(w))
        BY <2>1
    <2>3. /\ pc'[w] = st
          /\ \A v \in Threads : v # w => pc'[v] = pc[v] /\ cur'[v] = cur[v] /\ unread'[v] = unread[v]
        BY <1>t, <2>1, <2>2 DEF Goto, Forget
    <2>4. HasSeen(w)'
        BY <1>0, <2>1, <2>2, <2>3, SeenGoes
    <2>5. ASSUME NEW v \in Threads, v # w PROVE HasSeen(v)'
        <3>1. pc'[v] = "reset" => pc[v] = "reset" /\ IsWipe(Job(v))
            BY <2>3, <2>5, ThreadFacts
        <3>. QED BY <1>0, <2>3, <2>5, <3>1, SeenGoes
    <2>. QED BY <2>4, <2>5
<1>4. ASSUME (\E p \in Pipes : PipeStep(p)) \/ BesideStep PROVE \A v \in Threads : HasSeen(v)'
    <2>1. \A v \in Threads : pc'[v] # "idle" => pc'[v] = pc[v] /\ cur'[v] = cur[v] /\ unread'[v] = unread[v]
        <3>1. ASSUME NEW p \in Pipes, PipeStep(p), ~Report(p) PROVE UNCHANGED <<pc, cur, unread>>
            BY <3>1 DEF PipeStep, ListRunnable, Enqueue, StartThreads, Reaper, Reclaim, Tick, Pump, Checksum, threads
        <3>2. ASSUME NEW p \in Pipes, Report(p)
              PROVE  \A v \in Threads : pc'[v] # "idle" => pc'[v] = pc[v] /\ cur'[v] = cur[v] /\ unread'[v] = unread[v]
            BY <3>2 DEF Report
        <3>3. CASE Crash
            BY <3>3 DEF Crash
        <3>4. ASSUME BesideStep, ~Crash PROVE UNCHANGED <<pc, cur, unread>>
            BY <3>4 DEF BesideStep, Expire, Use, vars, threads
        <3>. QED BY <1>4, <3>1, <3>2, <3>3, <3>4
    <2>2. ASSUME NEW v \in Threads PROVE HasSeen(v)'
        <3>1. pc'[v] = "reset" => pc[v] = "reset" /\ IsWipe(Job(v))
            BY <2>1, ThreadFacts
        <3>. QED BY <1>0, <2>1, <3>1, SeenGoes
    <2>. QED BY <2>2
<1>. QED BY <1>1, <1>2, <1>3, <1>4 DEF OtherStep

-----------------------------------------------------------------------------
(* No row is lost *)

LEMMA SumsStep ==
    ASSUME Quietly, StoreInv, OtherStep
    PROVE  \A p \in Pipes, j \in Jobs : Summed(p, j)' => Summed(p, j) \/ status'[j] = "SUCCESS"
<1>t. sums \in [Pipes -> SUBSET Jobs] /\ status \in [Jobs -> Statuses]
    BY DEF StoreInv, TokenInv, TypeInv, TokenType, StoreType
<1>1. ASSUME NEW w \in Threads, FinishJob(w), NEW p \in Pipes, NEW j \in Jobs, Summed(p, j)'
      PROVE  Summed(p, j) \/ status'[j] = "SUCCESS"
    <2>1. pc[w] = "finish" /\ Mark(Job(w), "SUCCESS", "none")
          /\ \/ sums' = sums
             \/ sums' = [sums EXCEPT ![Pipe(w)] = @ \cup {Job(w)}]
        BY <1>1 DEF FinishJob
    <2>2. Job(w) \in Jobs /\ Pipe(w) \in Pipes
        BY <2>1, ThreadFacts
    <2>3. status'[Job(w)] = "SUCCESS"
        BY <1>t, <2>1, <2>2 DEF Mark
    <2>4. Summed(p, j) \/ j = Job(w)
        BY <1>t, <1>1, <2>1, <2>2 DEF Summed
    <2>. QED BY <2>3, <2>4
<1>2. ASSUME NEW w \in Threads, Worker(w) \/ CallFails(w), ~FinishJob(w) PROVE sums' = sums
    BY <1>2 DEF Worker, Take, DepReady, DepFailed, DepWaits, CheckDone, ResetChildren, MarkProcessing,
                CallSucceeds, CallRefused, GiveUp, RetryLater, CallFails, tokens
<1>3. ASSUME NEW p \in Pipes, PipeStep(p), ~Report(p), ~ \E j \in Jobs : Checksum(p, j) PROVE sums' = sums
    BY <1>3 DEF PipeStep, ListRunnable, Enqueue, StartThreads, Reaper, Reclaim, Tick, Pump, tokens
<1>4. ASSUME NEW p \in Pipes, Report(p) \/ \E j \in Jobs : Checksum(p, j)
      PROVE  \A q \in Pipes : sums'[q] \subseteq sums[q]
    BY <1>t, <1>4 DEF Report, Checksum
<1>5. CASE Crash
    BY <1>5 DEF Crash, Summed
<1>6. ASSUME BesideStep, ~Crash PROVE sums' = sums
    BY <1>6 DEF BesideStep, Expire, Use, vars, tokens
<1>. QED BY <1>1, <1>2, <1>3, <1>4, <1>5, <1>6 DEF OtherStep, Summed

LEMMA KeptStep ==
    ASSUME Quietly, StoreInv, OtherStep, \A p \in Pipes : Keeps(p)
    PROVE  Kept'
<1>1. RowMoves /\ PhaseMoves
    BY RowStep, PhaseStep
<1>2. ASSUME NEW p \in Pipes, ListRunnable(p), NEW j \in Jobs, status'[j] \in {"PENDING", "RETRY"}
      PROVE  Somewhere(p, j)'
    <2> DEFINE R == {k \in Jobs : status[k] \in {"PENDING", "RETRY"}}
               S == {[job |-> k, retry |-> retry[k]] : k \in R}
    <2>1. status' = status /\ listed'[p] = S
        BY <1>2 DEF ListRunnable, store, StoreInv, TokenInv, TypeInv, TokenType
    <2>2. [job |-> j, retry |-> retry[j]] \in S
        BY <1>2, <2>1
    <2>. QED BY <2>1, <2>2 DEF Somewhere, InList
<1>3. ASSUME NEW p \in Pipes, phase'[p] \in {"filling", "up"}, ~ListRunnable(p),
             NEW j \in Jobs, status'[j] \in {"PENDING", "RETRY"}
      PROVE  Somewhere(p, j)'
    <2>1. phase[p] \in {"filling", "up"}
        BY <1>1, <1>3 DEF PhaseMoves
    <2>2. CASE status'[j] = status[j]
        <3>1. Somewhere(p, j)
            BY <1>3, <2>1, <2>2 DEF StoreInv, Kept
        <3>. QED BY <1>3, <3>1 DEF Keeps
    <2>3. CASE Taken(j)
        BY <1>3, <2>3 DEF Keeps, Somewhere
    <2>4. CASE \E q \in Pipes : InList(q, j)'
        BY <2>4 DEF Quietly, OnePush, Somewhere
    <2>. QED BY <1>1, <1>3, <2>2, <2>3, <2>4 DEF RowMoves
<1>4. \A p \in Pipes, j \in Jobs : Summed(p, j)' => status'[j] = "SUCCESS"
    BY <1>1, SumsStep, RowsKeep DEF StoreInv, Kept
<1>. QED BY <1>2, <1>3, <1>4 DEF Kept

-----------------------------------------------------------------------------
(* What Google holds *)

\* A job becomes answered by its call and stays so but for a crash.
LEMMA AnsweredStep ==
    ASSUME Quietly, StoreInv, OtherStep, NEW j \in Jobs
    PROVE  /\ Answered(j)' => Answered(j) \/ \E w \in Threads : CallSucceeds(w) /\ Job(w) = j
           /\ Answered(j) => Answered(j)' \/ Crash
<1>0. RowMoves
    BY RowStep
<1>t. pc \in [Threads -> PCs] /\ cur \in [Threads -> Entry] /\ status \in [Jobs -> Statuses]
    BY DEF StoreInv, TokenInv, TypeInv, ThreadType, StoreType
<1>1. status'[j] = "SUCCESS" => Answered(j)
    <2>1. \A w \in Threads : FinishJob(w) /\ j = Job(w) => Answered(j)
        BY DEF FinishJob, Answered
    <2>. QED BY <1>0, <2>1, RowsKeep DEF Answered
<1>2. \A w \in Threads : cur'[w] = cur[w] => Job(w)' = Job(w)
    BY DEF Job
<1>3. ASSUME NEW v \in Threads, Take(v), NEW w \in Threads
      PROVE  \/ pc'[w] # "finish" /\ pc[w] # "finish"
             \/ pc'[w] = pc[w] /\ cur'[w] = cur[w]
    BY <1>t, <1>3 DEF Take, Goto
<1>4. ASSUME NEW v \in Threads, Worker(v) \/ CallFails(v), ~Take(v), ~CallSucceeds(v), ~FinishJob(v),
             NEW w \in Threads
      PROVE  /\ cur' = cur
             /\ pc'[w] = "finish" <=> pc[w] = "finish"
    BY <1>t, <1>4 DEF Worker, DepReady, DepFailed, DepWaits, CheckDone, ResetChildren, MarkProcessing,
                      CallRefused, GiveUp, RetryLater, CallFails, Goto, Reads
<1>5. ASSUME NEW v \in Threads, CallSucceeds(v), NEW w \in Threads
      PROVE  /\ cur' = cur /\ (v # w => pc'[w] = pc[w])
             /\ pc[v] = "exec"
    BY <1>t, <1>5 DEF CallSucceeds, Goto
<1>6. ASSUME NEW v \in Threads, FinishJob(v), NEW w \in Threads
      PROVE  /\ cur' = cur /\ (v # w => pc'[w] = pc[w])
             /\ pc'[v] = "idle" /\ status'[Job(v)] = "SUCCESS"
    <2>1. pc[v] = "finish" /\ Goto(v, "idle") /\ Mark(Job(v), "SUCCESS", "none") /\ cur' = cur
        BY <1>6 DEF FinishJob
    <2>. QED BY <1>t, <2>1, ThreadFacts DEF Goto, Mark
<1>7. ASSUME NEW p \in Pipes, PipeStep(p), ~Report(p) PROVE UNCHANGED <<pc, cur>>
    BY <1>7 DEF PipeStep, ListRunnable, Enqueue, StartThreads, Reaper, Reclaim, Tick, Pump, Checksum, threads
<1>8. ASSUME NEW p \in Pipes, Report(p), NEW w \in Threads PROVE pc[w] = "idle" /\ pc'[w] = "idle"
    BY <1>8, ThreadFacts DEF Report, Quietly, OnePush
<1>9. CASE Crash
    BY <1>1, <1>9 DEF Crash, Answered
<1>10. ASSUME BesideStep, ~Crash PROVE UNCHANGED <<pc, cur>>
    BY <1>10 DEF BesideStep, Expire, Use, vars, threads
<1>11. status[j] = "SUCCESS" => status'[j] = "SUCCESS"
    BY <1>0, RowsKeep
<1>12. ASSUME NEW w \in Threads, pc'[w] = "finish", Job(w)' = j, ~Answered(j)
       PROVE  \E v \in Threads : CallSucceeds(v) /\ Job(v) = j
    BY <1>2, <1>3, <1>4, <1>5, <1>6, <1>7, <1>8, <1>9, <1>10, <1>12 DEF OtherStep, Answered
<1>13. ASSUME NEW w \in Threads, pc[w] = "finish", Job(w) = j, status'[j] # "SUCCESS", ~Crash
       PROVE  pc'[w] = "finish" /\ Job(w)' = j
    BY <1>2, <1>3, <1>4, <1>5, <1>6, <1>7, <1>8, <1>10, <1>13 DEF OtherStep
<1>. QED BY <1>1, <1>11, <1>12, <1>13 DEF Answered

\* What is called for has not been answered, nor has anything a wipe clears.
LEMMA NotAnswered ==
    ASSUME Quietly, StoreInv, NEW w \in Threads, pc[w] = "exec"
    PROVE  /\ ~Answered(Job(w))
           /\ IsWipe(Job(w)) => \A k \in Children(Job(w)) : ~Answered(k)
<1>1. /\ Job(w) \in MyJobs /\ status[Job(w)] = "PROCESSING"
      /\ \A v \in Threads : pc[v] # "idle" /\ Job(v) = Job(w) => v = w
    BY ThreadFacts DEF Calling
<1>2. ~Answered(Job(w))
    BY <1>1 DEF Answered
<1>3. ASSUME IsWipe(Job(w)), NEW k \in Children(Job(w)), Answered(k) PROVE FALSE
    <2>1. status[k] # "SUCCESS"
        BY <1>1, <1>3 DEF StoreInv, Order, WipedFirst
    <2>2. PICK v \in Threads : pc[v] = "finish" /\ Job(v) = k
        BY <1>3, <2>1 DEF Answered
    <2>3. status[k] # "NONE" /\ Ready(k, deps[k])
        <3>1. status[Job(v)] # "NONE" /\ Ready(Job(v), deps[Job(v)])
            BY <2>2, ThreadFacts
        <3>. QED BY <2>2, <3>1
    <2>. QED BY <1>1, <1>3, <2>3, WipeIsDone
<1>. QED BY <1>2, <1>3

LEMMA FoldersAreThere ==
    ASSUME Quietly, StoreInv, NEW w \in Threads, pc[w] = "exec", NEW k \in Folders(Job(w))
    PROVE  status[k] = "SUCCESS"
<1>1. Job(w) \in MyJobs /\ deps[Job(w)] = DepsOf(Job(w), MyJobs) /\ Ready(Job(w), deps[Job(w)])
    BY ThreadFacts
<1>2. PICK i \in DOMAIN Plan[Job(w)].deps : Plan[Job(w)].deps[i] = k /\ Plan[k].action = "create_folder"
    BY DEF Folders
<1>3. i \in DepsOf(Job(w), MyJobs)
    BY <1>1, <1>2, DepsArePlanned
<1>. QED BY <1>1, <1>2, <1>3 DEF Ready

LEMMA AppliedStep ==
    ASSUME Quietly, StoreInv, NEW w \in Threads, pc[w] = "exec",
           Applied(Job(w)) \/ PassesOver(Job(w))
    PROVE  /\ stray' = stray
           /\ \A k \in Jobs : Answered(k) => live'[k] = live[k]
           /\ \A k \in Jobs : k # Job(w) => live'[k] <= live[k]
           /\ live'[Job(w)] <= live[Job(w)] + 1
           /\ ~IsWipe(Job(w)) => live'[Job(w)] >= 1
<1> DEFINE j == Job(w)
<1>1. /\ j \in Jobs /\ live \in [Jobs -> 0..MaxCopies] /\ MaxCopies \in Nat /\ MaxCopies >= 1
      /\ ~Answered(j)
    BY ThreadFacts, NotAnswered, Numbers DEF StoreInv, TokenInv, TypeInv, GoogleType
<1> HIDE DEF j
<1>2. \A k \in Jobs : live[k] \in Nat
    BY <1>1
<1>3. CASE IsWipe(j)
    <2>1. \A k \in Jobs : live'[k] = live[k] \/ (k \in Children(j) /\ live'[k] = 0)
        <3>1. CASE Applied(j)
            <4>1. live' = [k \in Jobs |-> IF k \in Children(j) THEN 0 ELSE live[k]]
                BY <1>3, <3>1 DEF Applied, IsWipe, Ensures
            <4>. QED BY <4>1
        <3>2. CASE PassesOver(j)
            <4>1. PICK kept \in SUBSET Children(j) :
                      live' = [k \in Jobs |-> IF k \in Children(j) \ kept THEN 0 ELSE live[k]]
                BY <3>2 DEF PassesOver
            <4>. QED BY <4>1
        <3>. QED BY <3>1, <3>2 DEF j
    <2>0. stray' = stray
        BY <1>3 DEF Applied, PassesOver, IsWipe, j
    <2>2. \A k \in Children(j) : ~Answered(k)
        BY <1>3, NotAnswered DEF j
    <2>3. \A k \in Jobs : live'[k] <= live[k] /\ (Answered(k) => live'[k] = live[k])
        BY <1>2, <2>1, <2>2
    <2>4. j \notin Children(j)
        BY <1>3 DEF Children, IsWipe
    <2>. QED BY <1>1, <1>2, <1>3, <2>0, <2>1, <2>3, <2>4 DEF j
<1>4. CASE Plan[j].action \in Ensures
    <2>1. live' = [live EXCEPT ![j] = 1] /\ stray' = stray
        BY <1>4 DEF Applied, PassesOver, Ensures, j
    <2>. QED BY <1>1, <1>2, <2>1 DEF j
<1>5. CASE ~IsWipe(j) /\ Plan[j].action \notin Ensures
    <2>1. /\ live' = [live EXCEPT ![j] = IF @ < MaxCopies THEN @ + 1 ELSE @]
          /\ stray' = IF \E k \in Folders(j) : status[k] # "SUCCESS" THEN stray \cup {j} ELSE stray
        BY <1>5 DEF Applied, PassesOver, IsWipe, j
    <2>2. stray' = stray
        BY <2>1, FoldersAreThere DEF j
    <2>3. live'[j] <= live[j] + 1 /\ live'[j] >= 1 /\ \A k \in Jobs : k # j => live'[k] = live[k]
        BY <1>1, <1>2, <2>1
    <2>. QED BY <1>1, <1>2, <2>2, <2>3 DEF j
<1>. QED BY <1>3, <1>4, <1>5

LEMMA GoogleStep ==
    ASSUME Quietly, StoreInv, OtherStep
    PROVE  \/ UNCHANGED <<live, stray, faults, crashes>>
           \/ UNCHANGED <<live, stray, faults>> /\ crashes' = crashes + 1
           \/ \E w \in Threads : CallSucceeds(w) \/ CallFails(w)
<1>1. ASSUME NEW w \in Threads, Worker(w), ~CallSucceeds(w) PROVE UNCHANGED <<live, stray, faults, crashes>>
    BY <1>1 DEF Worker, Take, DepReady, DepFailed, DepWaits, CheckDone, ResetChildren, MarkProcessing,
                CallRefused, FinishJob, GiveUp, RetryLater, google, bounds
<1>2. ASSUME NEW p \in Pipes, PipeStep(p) PROVE UNCHANGED <<live, stray, faults, crashes>>
    BY <1>2 DEF PipeStep, ListRunnable, Enqueue, StartThreads, Reaper, Reclaim, Tick, Report, Pump, Checksum,
                google, bounds
<1>3. CASE Crash
    BY <1>3 DEF Crash, google
<1>4. ASSUME BesideStep, ~Crash PROVE UNCHANGED <<live, stray, faults, crashes>>
    BY <1>4 DEF BesideStep, Expire, Use, vars, google, bounds
<1>. QED BY <1>1, <1>2, <1>3, <1>4 DEF OtherStep

LEMMA ObjectsStep ==
    ASSUME Quietly, StoreInv, OtherStep
    PROVE  Objects'
<1>t. faults \in Nat /\ crashes \in Nat /\ \A j \in Jobs : live[j] \in Int
    BY Numbers DEF StoreInv, TokenInv, TypeInv, BoundsType, GoogleType
<1>0. Objects
    BY DEF StoreInv
<1>1. CASE UNCHANGED <<live, stray, faults>> /\ (UNCHANGED crashes \/ crashes' = crashes + 1)
           /\ ~ \E w \in Threads : CallSucceeds(w)
    <2>1. \A j \in Jobs : /\ Answered(j)' => Answered(j)
                          /\ crashes' = crashes => (Answered(j) => Answered(j)' \/ Crash)
        BY <1>1, AnsweredStep
    <2>2. Crash => crashes' = crashes + 1
        BY DEF Crash
    <2>3. \A j \in Jobs : Answered(j)' /\ ~IsWipe(j) => live'[j] >= 1
        BY <1>0, <1>1, <2>1 DEF Objects
    <2>4. \A j \in Jobs : live'[j] <= 1 + faults' + crashes'
        BY <1>0, <1>1, <1>t DEF Objects
    <2>5. ASSUME NEW j \in Jobs, ~Answered(j)' PROVE live'[j] <= faults' + crashes'
        <3>1. CASE crashes' = crashes + 1
            BY <1>0, <1>1, <1>t, <3>1 DEF Objects
        <3>2. CASE crashes' = crashes
            <4>1. ~Answered(j)
                BY <1>t, <2>1, <2>2, <2>5, <3>2
            <4>2. live[j] <= faults + crashes
                BY <1>0, <4>1 DEF Objects
            <4>. QED BY <1>1, <3>2, <4>2
        <3>. QED BY <1>1, <3>1, <3>2
    <2>6. stray' = {}
        BY <1>0, <1>1 DEF Objects
    <2>. QED BY <2>3, <2>4, <2>5, <2>6 DEF Objects, IsWipe
<1>2. ASSUME NEW w \in Threads, CallSucceeds(w) PROVE Objects'
    <2>1. /\ pc[w] = "exec"
          /\ Applied(Job(w)) \/ PassesOver(Job(w))
          /\ faults' \in {faults, faults + 1} /\ UNCHANGED crashes
        BY <1>2 DEF CallSucceeds, bounds
    <2>2. /\ stray' = stray
          /\ \A k \in Jobs : Answered(k) => live'[k] = live[k]
          /\ \A k \in Jobs : k # Job(w) => live'[k] <= live[k]
          /\ live'[Job(w)] <= live[Job(w)] + 1
          /\ ~IsWipe(Job(w)) => live'[Job(w)] >= 1
          /\ ~Answered(Job(w))
        BY <2>1, AppliedStep, NotAnswered
    <2>3. \A k \in Jobs : live'[k] \in Int
        BY <1>2, WorkerTypes DEF StoreInv, TokenInv, TypeInv, GoogleType, Worker
    <2>4. \A k \in Jobs : k = Job(w) => Answered(k)'
        <3>1. /\ Goto(w, IF phase[Pipe(w)] = "off" THEN "idle" ELSE "finish") /\ cur' = cur
              /\ phase[Pipe(w)] = "up" /\ pc \in [Threads -> PCs]
            BY <1>2, <2>1, ThreadFacts DEF CallSucceeds, StoreInv, TokenInv, TypeInv, ThreadType
        <3>2. pc'[w] = "finish" /\ Job(w)' = Job(w)
            BY <3>1 DEF Goto, Job
        <3>. QED BY <3>2 DEF Answered
    <2>5. \A k \in Jobs : /\ k # Job(w) => (Answered(k)' => Answered(k))
                          /\ Answered(k) => Answered(k)'
        <3>1. ASSUME Crash PROVE FALSE
            BY <1>t, <2>1, <3>1 DEF Crash
        <3>2. ASSUME NEW k \in Jobs, k # Job(w), Answered(k)', ~Answered(k) PROVE FALSE
            <4>1. PICK v \in Threads : CallSucceeds(v) /\ Job(v) = k
                BY <3>2, AnsweredStep
            <4>2. v # w /\ pc[v] = "exec" /\ pc \in [Threads -> PCs]
                  /\ \E s, t \in {"idle", "finish"} : Goto(v, s) /\ Goto(w, t)
                BY <1>2, <3>2, <4>1 DEF CallSucceeds, StoreInv, TokenInv, TypeInv, ThreadType
            <4>3. pc'[w] \in {"idle", "finish"} /\ pc'[w] = pc[w]
                BY <4>2 DEF Goto
            <4>. QED BY <2>1, <4>3
        <3>. QED BY <3>1, <3>2, AnsweredStep
    <2>6. Job(w) \in Jobs
        BY <2>1, ThreadFacts
    <2>7. \A k \in Jobs : Answered(k)' /\ ~IsWipe(k) => live'[k] >= 1
        BY <1>0, <2>2, <2>5 DEF Objects
    <2>8. \A k \in Jobs : live'[k] <= 1 + faults' + crashes' /\ (~Answered(k)' => live'[k] <= faults' + crashes')
        <3>1. ASSUME NEW k \in Jobs, k # Job(w)
              PROVE  live'[k] <= 1 + faults' + crashes' /\ (~Answered(k)' => live'[k] <= faults' + crashes')
            <4>1. live[k] <= 1 + faults + crashes /\ (~Answered(k)' => live[k] <= faults + crashes)
                BY <1>0, <2>5 DEF Objects
            <4>. QED BY <1>t, <2>1, <2>2, <2>3, <3>1, <4>1
        <3>2. live'[Job(w)] <= 1 + faults' + crashes'
            <4>1. live[Job(w)] <= faults + crashes
                BY <1>0, <2>2, <2>6 DEF Objects
            <4>. QED BY <1>t, <2>1, <2>2, <2>3, <2>6, <4>1
        <3>. QED BY <2>4, <3>1, <3>2
    <2>9. stray' = {}
        BY <1>0, <2>2 DEF Objects
    <2>. QED BY <2>7, <2>8, <2>9 DEF Objects, IsWipe
<1>3. ASSUME NEW w \in Threads, CallFails(w) PROVE Objects'
    <2>1. /\ pc[w] = "exec" /\ faults' = faults + 1 /\ UNCHANGED crashes
          /\ Applied(Job(w)) \/ PassesOver(Job(w)) \/ UNCHANGED <<live, stray>>
        BY <1>3 DEF CallFails, bounds, google
    <2>2. /\ stray' = stray
          /\ \A k \in Jobs : Answered(k) => live'[k] = live[k]
          /\ \A k \in Jobs : k # Job(w) => live'[k] <= live[k]
          /\ live'[Job(w)] <= live[Job(w)] + 1
          /\ ~Answered(Job(w)) /\ Job(w) \in Jobs
        <3>1. ~Answered(Job(w)) /\ Job(w) \in Jobs
            BY <2>1, NotAnswered, ThreadFacts
        <3>. QED BY <1>t, <2>1, <3>1, AppliedStep
    <2>3. \A k \in Jobs : live'[k] \in Int
        BY <1>3, WorkerTypes DEF StoreInv, TokenInv, TypeInv, GoogleType
    <2>4. \A k \in Jobs : Answered(k)' => Answered(k)
        <3>1. ASSUME NEW v \in Threads, CallSucceeds(v) PROVE FALSE
            <4>1. pc[v] = "exec" /\ pc \in [Threads -> PCs]
                  /\ \E s \in {"idle", "finish"}, t \in {"transient", "permanent"} :
                         Goto(v, s) /\ Goto(w, t)
                BY <1>3, <3>1 DEF CallSucceeds, CallFails, StoreInv, TokenInv, TypeInv, ThreadType
            <4>. QED BY <2>1, <4>1 DEF Goto
        <3>. QED BY <3>1, AnsweredStep
    <2>5. \A k \in Jobs : Answered(k)' /\ ~IsWipe(k) => live'[k] >= 1
        BY <1>0, <2>2, <2>4 DEF Objects
    <2>6. \A k \in Jobs : live'[k] <= faults' + crashes'
        <3>1. ASSUME NEW k \in Jobs, k # Job(w) PROVE live'[k] <= faults' + crashes'
            <4>1. live[k] <= 1 + faults + crashes
                BY <1>0 DEF Objects
            <4>. QED BY <1>t, <2>1, <2>2, <2>3, <3>1, <4>1
        <3>2. live'[Job(w)] <= faults' + crashes'
            <4>1. live[Job(w)] <= faults + crashes
                BY <1>0, <2>2 DEF Objects
            <4>. QED BY <1>t, <2>1, <2>2, <2>3, <4>1
        <3>. QED BY <3>1, <3>2
    <2>7. \A k \in Jobs : live'[k] <= 1 + faults' + crashes'
        BY <1>t, <2>1, <2>3, <2>6
    <2>8. stray' = {}
        BY <1>0, <2>2 DEF Objects
    <2>. QED BY <2>5, <2>6, <2>7, <2>8 DEF Objects, IsWipe
<1>. QED BY <1>1, <1>2, <1>3, GoogleStep

-----------------------------------------------------------------------------
(* What fails, and what a wipe clears *)

LEMMA NothingForeign ==
    ASSUME Quietly, StoreInv, NEW w \in Threads, pc[w] # "idle"
    PROVE  ~Foreign(w)
<1>1. PICK p \in Pipes, m \in Wiping : Job(w) \in Planned(p, m)
    BY ThreadFacts, PlanFacts
<1>2. p = Pipe(w)
    BY OfThread DEF Quietly, OnePush
<1>. QED BY <1>1, <1>2 DEF Planned, Foreign

LEMMA FailuresStep ==
    ASSUME Quietly, StoreInv, OtherStep
    PROVE  Failures'
<1>t. /\ faults \in Nat /\ pc \in [Threads -> PCs] /\ status \in [Jobs -> Statuses]
    BY Numbers DEF StoreInv, TokenInv, TypeInv, BoundsType, ThreadType, StoreType
<1>0. faults' \in {faults, faults + 1}
    <2>1. \A w \in Threads : CallSucceeds(w) \/ CallFails(w) => faults' \in {faults, faults + 1}
        BY DEF CallSucceeds, CallFails
    <2>. QED BY <2>1, GoogleStep
<1> SUFFICES ASSUME faults' = 0 PROVE Failures'
    BY DEF Failures
<1>1. /\ faults = 0 /\ ~ \E w \in Threads : CallFails(w)
      /\ \A j \in Jobs : status[j] # "PERMANENT_FAILURE"
      /\ \A w \in Threads : pc[w] \notin {"transient", "permanent"}
    <2>1. \A w \in Threads : CallFails(w) => faults' = faults + 1
        BY DEF CallFails
    <2>2. faults = 0 /\ ~ \E w \in Threads : CallFails(w)
        BY <1>t, <1>0, <2>1
    <2>. QED BY <2>2 DEF StoreInv, Failures
<1>2. ASSUME NEW w \in Threads, DepFailed(w) PROVE FALSE
    <2>1. PICK i \in unread[w] : pc[w] = "deps" /\ status[Plan[Job(w)].deps[i]] = "PERMANENT_FAILURE"
        BY <1>2 DEF DepFailed, Reads
    <2>2. i \in deps[Job(w)] /\ deps[Job(w)] = DepsOf(Job(w), MyJobs) /\ Job(w) \in Jobs
        BY <2>1, ThreadFacts DEF StoreInv, Order, HasSeen
    <2>3. Plan[Job(w)].deps[i] \in Jobs
        BY <2>2, OfDeps DEF DepsOf
    <2>. QED BY <1>1, <2>1, <2>3
<1>3. ASSUME NEW w \in Threads, CallRefused(w) \/ GiveUp(w) \/ RetryLater(w) PROVE FALSE
    <2>1. CASE CallRefused(w)
        BY <2>1, NothingForeign DEF CallRefused
    <2>. QED BY <1>1, <1>3, <2>1 DEF GiveUp, RetryLater
<1>4. ASSUME NEW w \in Threads, Worker(w)
      PROVE  \E st \in PCs \ {"transient", "permanent"} : Goto(w, st)
    BY <1>2, <1>3, <1>4 DEF Worker, Take, DepReady, DepWaits, CheckDone, ResetChildren, MarkProcessing,
                            CallSucceeds, FinishJob, PCs
<1>5. ASSUME NEW w \in Threads, Worker(w)
      PROVE  \A j \in Jobs : status'[j] # "PERMANENT_FAILURE"
    <2>1. CASE Take(w) \/ DepReady(w) \/ CheckDone(w) \/ CallSucceeds(w)
        BY <1>1, <2>1 DEF Take, DepReady, CheckDone, CallSucceeds, store
    <2>2. CASE ResetChildren(w)
        BY <1>1, <2>2, NothingToReset
    <2>3. CASE DepWaits(w) \/ MarkProcessing(w) \/ FinishJob(w)
        <3>1. \E st \in {"PENDING", "PROCESSING", "SUCCESS"} : status' = [status EXCEPT ![Job(w)] = st]
            BY <2>3 DEF DepWaits, MarkProcessing, FinishJob, Mark
        <3>. QED BY <1>t, <1>1, <3>1
    <2>. QED BY <1>2, <1>3, <1>5, <2>1, <2>2, <2>3 DEF Worker
<1>6. ASSUME NEW p \in Pipes, PipeStep(p)
      PROVE  \A j \in Jobs : status'[j] # "PERMANENT_FAILURE"
    <2>1. CASE Reaper(p)
        BY <1>1, <2>1 DEF Reaper, Reclaim
    <2>2. CASE \E j \in Jobs : Checksum(p, j)
        BY <1>t, <1>1, <2>2 DEF Checksum
    <2>3. ASSUME ~Reaper(p), ~ \E j \in Jobs : Checksum(p, j) PROVE status' = status
        BY <1>6, <2>3 DEF PipeStep, ListRunnable, Enqueue, StartThreads, Tick, Report, Pump, store
    <2>. QED BY <1>1, <2>1, <2>2, <2>3
<1>7. ASSUME NEW p \in Pipes, PipeStep(p)
      PROVE  \A w \in Threads : pc'[w] \notin {"transient", "permanent"}
    <2>1. CASE Report(p)
        BY <1>1, <2>1 DEF Report
    <2>2. ASSUME ~Report(p) PROVE pc' = pc
        BY <1>7, <2>2 DEF PipeStep, ListRunnable, Enqueue, StartThreads, Reaper, Reclaim, Tick, Pump, Checksum, threads
    <2>. QED BY <1>1, <2>1, <2>2
<1>8. CASE BesideStep
    <2>1. status' = status /\ (pc' = pc \/ pc' = [w \in Threads |-> "idle"])
        BY <1>8 DEF BesideStep, Expire, Use, Crash, vars, store, threads
    <2>. QED BY <1>1, <2>1 DEF Failures
<1>9. ASSUME NEW w \in Threads, Worker(w) PROVE Failures'
    <2>1. \A v \in Threads : pc'[v] \notin {"transient", "permanent"}
        BY <1>t, <1>1, <1>4, <1>9 DEF Goto
    <2>. QED BY <1>5, <1>9, <2>1 DEF Failures
<1>10. ASSUME NEW p \in Pipes, PipeStep(p) PROVE Failures'
    BY <1>6, <1>7, <1>10 DEF Failures
<1>. QED BY <1>1, <1>8, <1>9, <1>10 DEF OtherStep

LEMMA WipesStep ==
    ASSUME Quietly, StoreInv, OtherStep
    PROVE  Wipes'
<1>0. RowMoves /\ PhaseMoves /\ tried \subseteq Jobs
    BY RowStep, PhaseStep DEF StoreInv, TokenInv, TypeInv, BoundsType
<1>1. ASSUME NEW w \in Threads, Worker(w) \/ CallFails(w)
      PROVE  /\ tried' = tried \/ (MarkProcessing(w) /\ tried' = tried \cup {Job(w)})
             /\ Uncleared' \subseteq Uncleared
             /\ CallSucceeds(w) /\ IsWipe(Job(w)) => Slot(Job(w)) \notin Uncleared'
             /\ result' = result
    <2>1. CASE CallSucceeds(w) \/ CallFails(w)
        <3>1. /\ tried' = tried /\ result' = result
              /\ Applied(Job(w)) \/ PassesOver(Job(w)) \/ UNCHANGED <<dirty, spared>>
              /\ CallSucceeds(w) => Applied(Job(w)) \/ PassesOver(Job(w))
            BY <2>1 DEF CallSucceeds, CallFails, google
        <3>2. Applied(Job(w)) => /\ Uncleared' \subseteq Uncleared
                                 /\ IsWipe(Job(w)) => Slot(Job(w)) \notin Uncleared'
            BY DEF Applied, IsWipe, Ensures, Uncleared
        <3>3. PassesOver(Job(w)) => /\ Uncleared' \subseteq Uncleared
                                    /\ Slot(Job(w)) \notin Uncleared'
            BY DEF PassesOver, Uncleared
        <3>. QED BY <3>1, <3>2, <3>3 DEF Uncleared
    <2>2. ASSUME Worker(w), ~CallSucceeds(w)
          PROVE  UNCHANGED <<dirty, spared, result>> /\ (tried' = tried \/ (MarkProcessing(w) /\ tried' = tried \cup {Job(w)}))
        BY <2>2 DEF Worker, Take, DepReady, DepFailed, DepWaits, CheckDone, ResetChildren, MarkProcessing,
                    CallRefused, FinishJob, GiveUp, RetryLater, google
    <2>. QED BY <1>1, <2>1, <2>2 DEF Uncleared
<1>2. ASSUME NEW p \in Pipes, PipeStep(p)
      PROVE  /\ UNCHANGED <<tried, dirty, spared>>
             /\ \A a \in Accounts : (\A q \in Pipes : a \notin Emails[q]) => result'[a] = result[a]
    BY <1>2 DEF PipeStep, ListRunnable, Enqueue, StartThreads, Reaper, Reclaim, Tick, Report, Pump, Checksum, google
<1>3. ASSUME BesideStep
      PROVE  /\ UNCHANGED <<tried, result>>
             /\ UNCHANGED <<dirty, spared>> \/ \A p \in Pipes : phase'[p] = "off"
    BY <1>3 DEF BesideStep, Expire, Use, Crash, vars, google, control
<1>4. \A j \in tried' : j \in Jobs /\ status'[j] # "NONE"
    <2>1. ASSUME NEW w \in Threads, MarkProcessing(w) PROVE Job(w) \in Jobs /\ status[Job(w)] # "NONE"
        BY <2>1, ThreadFacts DEF MarkProcessing
    <2>2. \A j \in tried' : j \in Jobs /\ status[j] # "NONE"
        BY <1>0, <1>1, <1>2, <1>3, <2>1 DEF OtherStep, StoreInv, Wipes
    <2>. QED BY <1>0, <2>2, RowsKeep
<1>5. ASSUME NEW p \in Pipes, phase'[p] # "off", NEW j \in tried', IsWipe(j), Answered(j)'
      PROVE  Slot(j) \notin Uncleared'
    <2>1. phase[p] # "off" /\ Uncleared' \subseteq Uncleared
        BY <1>0, <1>1, <1>2, <1>3, <1>5 DEF OtherStep, PhaseMoves, Uncleared
    <2>2. CASE \E w \in Threads : CallSucceeds(w) /\ Job(w) = j
        BY <1>1, <1>5, <2>2 DEF Worker
    <2>3. CASE Answered(j) /\ j \in tried
        BY <1>5, <2>1, <2>3 DEF StoreInv, Wipes
    <2>4. CASE j \notin tried
        <3>1. PICK w \in Threads : MarkProcessing(w) /\ j = Job(w)
            BY <1>1, <1>2, <1>3, <1>5, <2>4 DEF OtherStep
        <3>2. /\ pc[w] = "mark" /\ status[j] # "SUCCESS"
              /\ \A v \in Threads : pc[v] # "idle" /\ Job(v) = j => v = w
            BY <3>1, ThreadFacts DEF MarkProcessing
        <3>3. ~Answered(j)
            BY <3>2 DEF Answered
        <3>. QED BY <1>4, <1>5, <2>2, <3>3, AnsweredStep
    <2>. QED BY <1>4, <1>5, <2>2, <2>3, <2>4, AnsweredStep
<1>6. \A a \in Accounts : (\A q \in Pipes : a \notin Emails[q]) => result'[a] = "none"
    BY <1>1, <1>2, <1>3 DEF OtherStep, StoreInv, Wipes
<1>. QED BY <1>4, <1>5, <1>6 DEF Wipes, IsWipe, Slot

-----------------------------------------------------------------------------
(* The invariant and what follows from it *)

LEMMA StoreStep ==
    ASSUME Quietly, StoreInv, [Next]_vars
    PROVE  StoreInv'
<1>1. TokenInv' /\ \A p \in Pipes : Keeps(p)
    BY TokenStep DEF Quietly, StoreInv
<1>2. OtherStep \/ \E p \in Pipes, wipe \in Wiping : PlanJobs(p, wipe)
    BY DEF Next, Pushing, OtherStep, PipeStep, BesideStep
<1>3. CASE OtherStep
    <2>1. Rows' /\ Kept' /\ Objects' /\ Failures' /\ Wipes'
        BY <1>1, <1>3, RowsStep, KeptStep, ObjectsStep, FailuresStep, WipesStep
    <2>2. Order'
        BY <1>3, RowStep, DoneStep, SeenStep DEF Order
    <2>. QED BY <1>1, <2>1, <2>2 DEF StoreInv
<1>4. CASE \E p \in Pipes, wipe \in Wiping : PlanJobs(p, wipe)
    BY <1>1, <1>4, PlanStep DEF StoreInv
<1>. QED BY <1>2, <1>3, <1>4

LEMMA StoreInvariant ==
    ASSUME Quietly
    PROVE  Spec => []StoreInv
<1>1. StoreInv /\ [Next]_vars => StoreInv'
    BY StoreStep
<1>. QED BY StoreInit, <1>1, PTL DEF Spec

LEMMA SomewhereIsAPlace ==
    ASSUME Quietly, StoreInv, NEW p \in Pipes, NEW j \in Jobs, Somewhere(p, j)
    PROVE  Places(p, j) # {}
<1>1. CASE InList(p, j)
    <2>1. PICK e \in listed[p] : e.job = j
        BY <1>1 DEF InList
    <2>2. <<"listed", e>> \in Places(p, j)
        BY <2>1 DEF Places
    <2>. QED BY <2>2
<1>2. CASE Queued(p, j)
    <2>1. PICK s \in Services : InQueue(queue[p][s], j)
        BY <1>2 DEF Queued
    <2>2. PICK a \in Accounts : \E i \in 1..Len(queue[p][s].bucket[a]) : queue[p][s].bucket[a][i].job = j
        BY <2>1 DEF InQueue
    <2>3. PICK i \in 1..Len(queue[p][s].bucket[a]) : queue[p][s].bucket[a][i].job = j
        BY <2>2
    <2>4. Good(queue[p][s], s)
        BY DEF StoreInv, TokenInv, TypeInv, TokenType, QueuesTyped
    <2>5. Slot(j) = <<a, s>> /\ queue[p][s].bucket[a] \in Seq(Entry)
        BY <2>3, <2>4 DEF Good, AQueue
    <2>6. Bucket(p, j) = queue[p][s].bucket[a] /\ i \in DOMAIN queue[p][s].bucket[a]
        BY <2>3, <2>5 DEF Slot, Bucket
    <2>7. <<"queued", i>> \in Places(p, j)
        BY <2>3, <2>6 DEF Places
    <2>. QED BY <2>7
<1>3. CASE OnHeap(p, j)
    <2>1. PICK e \in Entry : heap[p][e] > 0 /\ e.job = j
        BY <1>3 DEF OnHeap
    <2>2. heap[p][e] \in Nat
        BY <2>1 DEF StoreInv, TokenInv, TypeInv, TokenType
    <2>3. 1 \in 1..heap[p][e]
        BY <2>1, <2>2
    <2>4. <<"on heap", e, 1>> \in Places(p, j)
        BY <2>1, <2>3 DEF Places
    <2>. QED BY <2>4
<1>4. CASE Taken(j)
    <2>1. PICK w \in Threads : pc[w] # "idle" /\ Job(w) = j
        BY <1>4 DEF Taken
    <2>2. Pipe(w) = p
        BY OfThread DEF Quietly, OnePush
    <2>3. <<"with thread", w>> \in Places(p, j)
        BY <2>1, <2>2 DEF Places
    <2>. QED BY <2>3
<1>. QED BY <1>1, <1>2, <1>3, <1>4 DEF Somewhere

\* While a push runs, every row of the store that is not finished is with it, or is a
\* claim the reaper takes back: the loop of run() never waits for a row nobody has.
THEOREM NothingIsOrphaned ==
    ASSUME Quietly
    PROVE  Spec => []NoOrphan
<1>1. StoreInv => NoOrphan
    <2> SUFFICES ASSUME StoreInv, NEW j \in Jobs, status[j] \in Unfinished, NEW p \in Pipes, phase[p] = "up"
                 PROVE  \/ Places(p, j) # {}
                        \/ status[j] = "PROCESSING" /\ claim[j] # "none"
        BY DEF NoOrphan
    <2>1. CASE status[j] = "PROCESSING"
        BY <2>1 DEF StoreInv, TokenInv, Held, JobSafe
    <2>2. CASE status[j] \in {"PENDING", "RETRY"}
        BY <2>2, SomewhereIsAPlace DEF StoreInv, Kept
    <2>. QED BY <2>1, <2>2 DEF Unfinished
<1>. QED BY <1>1, StoreInvariant, PTL

\* What a SUCCESS row says is in Google, with all it depends on, whatever was retried,
\* lost or restarted: a wipe never clears what a row still calls done.
THEOREM SuccessMeansThere ==
    ASSUME Quietly
    PROVE  Spec => []SuccessIsThere
<1>1. StoreInv => SuccessIsThere
    BY DEF StoreInv, Objects, Answered, IsWipe, Order, DoneInOrder, Ready, SuccessIsThere
<1>. QED BY <1>1, StoreInvariant, PTL

\* An object is created a second time only where a failed call or a crash hid that
\* the first had taken effect.
THEOREM CopiesAreBounded ==
    ASSUME Quietly
    PROVE  Spec => []NoSpareCopies
<1>1. StoreInv => NoSpareCopies
    BY DEF StoreInv, Objects, NoSpareCopies
<1>. QED BY <1>1, StoreInvariant, PTL

\* No job fails before a call to Google has failed.
THEOREM FailuresAreCalls ==
    ASSUME Quietly
    PROVE  Spec => []NoFailureUncalled
<1>1. StoreInv => NoFailureUncalled
    BY DEF StoreInv, Failures, NoFailureUncalled
<1>. QED BY <1>1, StoreInvariant, PTL

\* A push that has run the wipe of an account and reports it "ok" has removed its
\* leftovers but for what Google did not let that wipe trash: the report is made when no
\* row is left to be run, so the wipe is done.
THEOREM WipesAreReal ==
    ASSUME Quietly
    PROVE  Spec => LeftoversRemoved
<1>1. ASSUME StoreInv, NEW p \in Pipes, Report(p), NEW j \in tried, IsWipe(j),
             result'[Plan[j].account] = "ok"
      PROVE  Slot(j) \notin Uncleared
    <2>1. phase[p] = "stopping" /\ j \in Jobs /\ status[j] # "NONE"
        BY <1>1 DEF Report, StoreInv, TokenInv, TypeInv, BoundsType, Wipes
    <2>2. status[j] \in {"SUCCESS", "PERMANENT_FAILURE"}
        <3>1. AllDone /\ status[j] \in Statuses
            <4>1. PhaseSafe(p) /\ StoreType
                BY <1>1 DEF StoreInv, TokenInv, TypeInv, Held
            <4>. QED BY <2>1, <4>1 DEF PhaseSafe, StoreType
        <3>. QED BY <2>1, <3>1 DEF AllDone, Unfinished, Statuses
    <2>3. Plan[j].account \in Accounts
        BY <2>1 DEF Accounts
    <2>4. CASE Plan[j].account \in Emails[p]
        <3>1. ResultOf(Plan[j].account) = "ok"
            BY <1>1, <2>3, <2>4 DEF Report
        <3>2. status[j] # "PERMANENT_FAILURE"
            BY <2>1, <3>1 DEF ResultOf
        <3>3. Answered(j)
            BY <2>2, <3>2 DEF Answered
        <3>. QED BY <1>1, <2>1, <3>3 DEF StoreInv, Wipes
    <2>5. CASE Plan[j].account \notin Emails[p]
        <3>1. result'[Plan[j].account] = result[Plan[j].account]
            BY <1>1, <2>3, <2>5 DEF Report
        <3>2. result[Plan[j].account] = "none"
            <4>1. \A q \in Pipes : Plan[j].account \notin Emails[q]
                BY <2>5 DEF Quietly, OnePush
            <4>. QED BY <1>1, <2>3, <4>1 DEF StoreInv, Wipes
        <3>. QED BY <1>1, <3>1, <3>2
    <2>. QED BY <2>4, <2>5
<1>2. StoreInv =>
        [\A p \in Pipes : Report(p) =>
            \A j \in tried : (Plan[j].action = "wipe" /\ result'[Plan[j].account] = "ok")
                                => Slot(j) \notin dirty \ spared]_vars
    BY <1>1 DEF IsWipe, Uncleared
<1>. QED BY <1>2, StoreInvariant, PTL DEF LeftoversRemoved
=============================================================================

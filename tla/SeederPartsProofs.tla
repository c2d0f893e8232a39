------------------------- MODULE SeederPartsProofs -------------------------
(***************************************************************************)
(* Proofs about three of the parts: the calls of the rate limiter keep     *)
(* their rate, a token comes from the consent of its account, and the      *)
(* lines and counts of a run's log are kept.  The theorems are about the   *)
(* specification of the part alone, for every value of its constants.      *)
(***************************************************************************)
EXTENDS MCSeederParts, FiniteSetTheorems, TLAPS

-----------------------------------------------------------------------------
(* The rate limiter *)

\* The rate a bucket never exceeds.
Cap(b) == IF b = Service THEN MaxRate ELSE AccountRate

\* What a bucket holds, or will when it is next asked, is at most what is left of the calls
\* that its highest rate allows.
Covered(b) ==
    /\ bucket[b].rate <= Cap(b)
    /\ bucket[b].updated <= now
    /\ Limiter!AtMost(Limiter!Size(b), bucket[b].tokens + (now - bucket[b].updated) * Cap(b))
           <= room[b]
RateTypes ==
    /\ now \in Nat
    /\ bucket \in [Limiter!Buckets -> [tokens : Nat, updated : Nat, rate : Nat]]
    /\ room \in [Limiter!Buckets -> Int]
    /\ worker \in [Workers -> [step : {"idle", "service", "account", "call"},
                               account : Limiter!Buckets]]
    /\ \A b \in Limiter!Buckets : bucket[b].tokens <= Limiter!Size(b)
RateInv == RateTypes /\ \A b \in Limiter!Buckets : Covered(b)

LEMMA SlowerIsLess ==
    ASSUME NEW t \in Nat, NEW r \in Nat, NEW m \in Nat, r <= m
    PROVE  t * r \in Nat /\ t * m \in Nat /\ t * r <= t * m
<1>1. t * r \in Nat /\ t * m \in Nat /\ t * (m - r) \in Nat  OBVIOUS
<1>2. t * m = t * r + t * (m - r)  OBVIOUS
<1> QED  BY <1>1, <1>2

LEMMA Sizes == \A b \in Limiter!Buckets : Limiter!Size(b) \in Nat /\ Cap(b) \in Nat
BY LimiterAssumption DEF Limiter!Size, Cap, Limiter!Configured

\* A refill at the rate of the moment adds no more than the highest rate allows.
LEMMA RefillIsCovered ==
    ASSUME RateInv, NEW b \in Limiter!Buckets
    PROVE  LET full == Limiter!Refilled(b)
           IN  /\ full \in [tokens : Nat, updated : Nat, rate : Nat]
               /\ full.updated = now /\ full.rate = bucket[b].rate
               /\ full.tokens <= Limiter!Size(b) /\ full.tokens <= room[b]
<1> DEFINE old == bucket[b]
           t == now - old.updated
<1>1. /\ old \in [tokens : Nat, updated : Nat, rate : Nat]
      /\ old.tokens \in Nat /\ old.updated \in Nat /\ old.rate \in Nat
      /\ now \in Nat /\ room[b] \in Int
  BY DEF RateInv, RateTypes
<1>2. /\ t \in Nat /\ old.rate <= Cap(b)
      /\ Limiter!AtMost(Limiter!Size(b), old.tokens + t * Cap(b)) <= room[b]
  BY <1>1 DEF RateInv, Covered
<1>3. Limiter!Size(b) \in Nat /\ Cap(b) \in Nat  BY Sizes
<1>4. t * old.rate \in Nat /\ t * Cap(b) \in Nat /\ t * old.rate <= t * Cap(b)
  BY <1>1, <1>2, <1>3, SlowerIsLess
<1>5. Limiter!Refilled(b) =
          [old EXCEPT !.tokens = Limiter!AtMost(Limiter!Size(b), @ + t * old.rate), !.updated = now]
  BY DEF Limiter!Refilled
<1>6. Limiter!AtMost(Limiter!Size(b), old.tokens + t * old.rate) \in Nat
  <2> HIDE DEF old, t
  <2> QED  BY <1>1, <1>3, <1>4 DEF Limiter!AtMost
<1>7. /\ Limiter!AtMost(Limiter!Size(b), old.tokens + t * old.rate) <= Limiter!Size(b)
      /\ Limiter!AtMost(Limiter!Size(b), old.tokens + t * old.rate) <= room[b]
  <2> HIDE DEF old, t
  <2> QED  BY <1>1, <1>2, <1>3, <1>4 DEF Limiter!AtMost
<1> HIDE DEF t
<1> QED  BY <1>1, <1>5, <1>6, <1>7

\* A turn of acquire: a token that is taken is taken from both.
LEMMA AcquireKeeps ==
    ASSUME RateInv, NEW w \in Workers, NEW b \in Limiter!Buckets,
           NEW next \in {"account", "call"}, Limiter!Acquire(w, b, next), now' = now
    PROVE  RateInv'
<1> DEFINE full == Limiter!Refilled(b)
<1>1. /\ full \in [tokens : Nat, updated : Nat, rate : Nat]
      /\ full.updated = now /\ full.rate = bucket[b].rate
      /\ full.tokens <= Limiter!Size(b) /\ full.tokens <= room[b]
  BY RefillIsCovered
<1>2. \A c \in Limiter!Buckets :
          /\ bucket[c].tokens \in Nat /\ bucket[c].updated \in Nat /\ bucket[c].rate \in Nat
          /\ bucket[c].tokens <= Limiter!Size(c) /\ room[c] \in Int
          /\ Limiter!Size(c) \in Nat /\ Cap(c) \in Nat /\ Covered(c)
  BY Sizes DEF RateInv, RateTypes
<1>3. /\ now \in Nat /\ room \in [Limiter!Buckets -> Int]
      /\ bucket \in [Limiter!Buckets -> [tokens : Nat, updated : Nat, rate : Nat]]
      /\ worker \in [Workers -> [step : {"idle", "service", "account", "call"},
                                 account : Limiter!Buckets]]
      /\ Token \in Nat
  BY LimiterAssumption DEF RateInv, RateTypes, Limiter!Configured
<1>4. full.tokens \in Nat  BY <1>1
<1>z. 0 * Cap(b) = 0  BY <1>2
<1>5. CASE full.tokens >= Token
  <2> DEFINE left == [full EXCEPT !.tokens = @ - Token]
  <2>1. /\ left \in [tokens : Nat, updated : Nat, rate : Nat]
        /\ left.tokens = full.tokens - Token /\ left.updated = now /\ left.rate = bucket[b].rate
    <3> HIDE DEF full
    <3> QED  BY <1>1, <1>3, <1>4, <1>5
  <2>2. /\ bucket' = [bucket EXCEPT ![b] = left]
        /\ room' = [room EXCEPT ![b] = @ - Token]
        /\ worker' = [worker EXCEPT ![w].step = next]
    BY <1>5 DEF Limiter!Acquire
  <2> HIDE DEF left, full
  <2>3. RateTypes'
    <3>1. worker' \in [Workers -> [step : {"idle", "service", "account", "call"},
                                   account : Limiter!Buckets]]
      BY <1>3, <2>2
    <3>2. \A c \in Limiter!Buckets : bucket'[c].tokens <= Limiter!Size(c)
      BY <1>1, <1>2, <1>3, <1>4, <2>1, <2>2
    <3> QED  BY <1>3, <2>1, <2>2, <3>1, <3>2 DEF RateTypes, Limiter!Size, Limiter!Buckets
  <2>4. \A c \in Limiter!Buckets : Covered(c)'
    <3> SUFFICES ASSUME NEW c \in Limiter!Buckets PROVE Covered(c)'  OBVIOUS
    <3>1. CASE c = b
      <4>1. bucket'[b] = left /\ room'[b] = room[b] - Token  BY <1>3, <2>2
      <4>2. now - left.updated = 0  BY <1>3, <2>1
      <4>3. /\ left.rate <= Cap(b) /\ left.updated <= now
            /\ left.tokens + 0 <= room[b] - Token
        BY <1>1, <1>2, <1>3, <1>4, <2>1 DEF Covered
      <4>4. Limiter!AtMost(Limiter!Size(b), left.tokens + (now - left.updated) * Cap(b))
                <= room[b] - Token
        BY <1>1, <1>2, <1>3, <1>4, <1>z, <2>1, <4>2, <4>3 DEF Limiter!AtMost
      <4> QED  BY <3>1, <4>1, <4>3, <4>4 DEF Covered, Cap, Limiter!Size, Limiter!AtMost
    <3>2. CASE c # b
      <4>1. bucket'[c] = bucket[c] /\ room'[c] = room[c]  BY <1>3, <2>2, <3>2
      <4> QED  BY <1>2, <4>1 DEF Covered, Cap, Limiter!Size, Limiter!AtMost
    <3> QED  BY <3>1, <3>2
  <2> QED  BY <2>3, <2>4 DEF RateInv, Limiter!Buckets
<1>6. CASE ~(full.tokens >= Token)
  <2>1. bucket' = [bucket EXCEPT ![b] = full] /\ UNCHANGED <<room, worker>>
    BY <1>6 DEF Limiter!Acquire
  <2> HIDE DEF full
  <2>2. RateTypes'
    <3>1. \A c \in Limiter!Buckets : bucket'[c].tokens <= Limiter!Size(c)
      BY <1>1, <1>2, <1>3, <1>4, <2>1
    <3> QED  BY <1>1, <1>3, <2>1, <3>1 DEF RateTypes, Limiter!Size, Limiter!Buckets
  <2>3. \A c \in Limiter!Buckets : Covered(c)'
    <3> SUFFICES ASSUME NEW c \in Limiter!Buckets PROVE Covered(c)'  OBVIOUS
    <3>1. CASE c = b
      <4>1. bucket'[b] = full /\ room'[b] = room[b]  BY <1>3, <2>1
      <4>2. now - full.updated = 0  BY <1>1, <1>3
      <4>3. full.rate <= Cap(b) /\ full.updated <= now  BY <1>1, <1>2, <1>3 DEF Covered
      <4>4. Limiter!AtMost(Limiter!Size(b), full.tokens + (now - full.updated) * Cap(b)) <= room[b]
        BY <1>1, <1>2, <1>3, <1>4, <1>z, <4>2 DEF Limiter!AtMost
      <4> QED  BY <3>1, <4>1, <4>3, <4>4 DEF Covered, Cap, Limiter!Size, Limiter!AtMost
    <3>2. CASE c # b
      <4>1. bucket'[c] = bucket[c] /\ room'[c] = room[c]  BY <1>3, <2>1, <3>2
      <4> QED  BY <1>2, <4>1 DEF Covered, Cap, Limiter!Size, Limiter!AtMost
    <3> QED  BY <3>1, <3>2
  <2> QED  BY <2>2, <2>3 DEF RateInv, Limiter!Buckets
<1> QED  BY <1>5, <1>6

\* A new rate of the service is within its limits, and takes no token away.
LEMMA SetRateKeeps ==
    ASSUME RateInv, NEW rate \in Nat, rate <= MaxRate, Limiter!SetRate(rate),
           UNCHANGED <<now, room>>, worker' \in [Workers -> [step : {"idle", "service", "account", "call"},
                                                  account : Limiter!Buckets]]
    PROVE  RateInv'
<1>1. /\ bucket \in [Limiter!Buckets -> [tokens : Nat, updated : Nat, rate : Nat]]
      /\ Service \in Limiter!Buckets
      /\ bucket[Service].tokens <= Burst /\ bucket[Service].tokens \in Nat
  BY DEF RateInv, RateTypes, Limiter!Buckets, Limiter!Size
<1>2. bucket' = [bucket EXCEPT ![Service].rate = rate, ![Service].tokens = Limiter!AtMost(@, Burst)]
  BY DEF Limiter!SetRate
<1>3. Limiter!AtMost(bucket[Service].tokens, Burst) = bucket[Service].tokens
  BY <1>1 DEF Limiter!AtMost
<1>4. /\ bucket' \in [Limiter!Buckets -> [tokens : Nat, updated : Nat, rate : Nat]]
      /\ \A c \in Limiter!Buckets :
             /\ bucket'[c].tokens = bucket[c].tokens /\ bucket'[c].updated = bucket[c].updated
             /\ bucket'[c].rate = IF c = Service THEN rate ELSE bucket[c].rate
  BY <1>1, <1>2, <1>3
<1>5. RateTypes'
  BY <1>4 DEF RateInv, RateTypes, Limiter!Size, Limiter!Buckets
<1>6. \A c \in Limiter!Buckets : Covered(c)'
  <2> SUFFICES ASSUME NEW c \in Limiter!Buckets PROVE Covered(c)'  OBVIOUS
  <2>1. Covered(c)  BY DEF RateInv
  <2>2. bucket'[c].rate <= Cap(c)  BY <1>4, <2>1 DEF Covered, Cap
  <2> QED  BY <1>4, <2>1, <2>2 DEF Covered, Cap, Limiter!Size, Limiter!AtMost
<1> QED  BY <1>5, <1>6 DEF RateInv, Limiter!Buckets

LEMMA TickKeeps ==
    ASSUME RateInv, Limiter!Tick
    PROVE  RateInv'
<1>1. /\ now \in Nat /\ now' = now + 1
      /\ room' = [b \in Limiter!Buckets |->
                     Limiter!AtMost(Limiter!Size(b),
                                    room[b] + IF b = Service THEN MaxRate ELSE AccountRate)]
      /\ UNCHANGED <<bucket, worker>>
  BY DEF Limiter!Tick, RateInv, RateTypes
<1>2. \A b \in Limiter!Buckets :
          /\ room'[b] = Limiter!AtMost(Limiter!Size(b), room[b] + Cap(b))
          /\ room[b] \in Int /\ Limiter!Size(b) \in Nat /\ Cap(b) \in Nat
          /\ bucket[b].tokens \in Nat /\ bucket[b].updated \in Nat /\ bucket[b].updated <= now
  BY <1>1, Sizes DEF RateInv, RateTypes, Covered, Cap
<1>3. RateTypes'
  <2>1. room' \in [Limiter!Buckets -> Int]
    BY <1>1, <1>2 DEF Limiter!AtMost, Cap
  <2> QED  BY <1>1, <2>1 DEF RateInv, RateTypes, Limiter!Buckets, Limiter!Size
<1>4. \A b \in Limiter!Buckets : Covered(b)'
  <2> SUFFICES ASSUME NEW b \in Limiter!Buckets PROVE Covered(b)'  OBVIOUS
  <2> DEFINE t == now - bucket[b].updated
             c == Cap(b)
  <2>1. /\ t \in Nat /\ c \in Nat /\ now' - bucket[b].updated = t + 1
        /\ bucket[b].tokens \in Nat /\ room[b] \in Int /\ Limiter!Size(b) \in Nat
        /\ room'[b] = Limiter!AtMost(Limiter!Size(b), room[b] + c)
    BY <1>1, <1>2
  <2>2. Limiter!AtMost(Limiter!Size(b), bucket[b].tokens + t * c) <= room[b]
    BY DEF RateInv, Covered
  <2>3. bucket[b].rate <= Cap(b) /\ bucket[b].updated <= now'
    BY <1>1, <1>2 DEF RateInv, Covered
  <2>4. (t + 1) * c = t * c + c /\ t * c \in Nat
    <3> HIDE DEF t, c
    <3> QED  BY <2>1
  <2>5. Limiter!AtMost(Limiter!Size(b), bucket[b].tokens + (t + 1) * c) <= room'[b]
    <3> HIDE DEF t, c
    <3> QED  BY <2>1, <2>2, <2>4 DEF Limiter!AtMost
  <2>6. Limiter!AtMost(Limiter!Size(b), bucket[b].tokens + (now' - bucket[b].updated) * Cap(b))
            <= room'[b]
    BY <2>1, <2>5
  <2> QED  BY <1>1, <2>3, <2>6 DEF Covered, Cap, Limiter!Size, Limiter!AtMost
<1> QED  BY <1>3, <1>4 DEF RateInv, Limiter!Buckets

LEMMA RateInitially == Limiter!Init => RateInv
<1> SUFFICES ASSUME Limiter!Init PROVE RateInv  OBVIOUS
<1>1. \A b \in Limiter!Buckets :
          /\ Limiter!Size(b) \in Nat /\ Cap(b) \in Nat /\ room[b] = Limiter!Size(b)
          /\ bucket[b] = [tokens |-> Limiter!Size(b), updated |-> 0,
                          rate |-> IF b = Service THEN Rate ELSE AccountRate]
  BY Sizes DEF Limiter!Init
<1>2. /\ Rate \in Nat /\ AccountRate \in Nat /\ Rate <= MaxRate /\ now = 0
      /\ Service \in Limiter!Buckets
  BY LimiterAssumption DEF Limiter!Configured, Limiter!Init, Limiter!Buckets
<1>3. RateTypes
  <2>1. worker \in [Workers -> [step : {"idle", "service", "account", "call"},
                                account : Limiter!Buckets]]
    BY <1>2 DEF Limiter!Init, Limiter!Idle
  <2>2. bucket \in [Limiter!Buckets -> [tokens : Nat, updated : Nat, rate : Nat]]
    BY <1>1, <1>2 DEF Limiter!Init
  <2> QED  BY <1>1, <1>2, <2>1, <2>2 DEF RateTypes, Limiter!Init
<1>4. \A b \in Limiter!Buckets : Covered(b)
  <2> SUFFICES ASSUME NEW b \in Limiter!Buckets PROVE Covered(b)  OBVIOUS
  <2>1. /\ bucket[b].tokens = Limiter!Size(b) /\ bucket[b].updated = 0
        /\ bucket[b].rate = IF b = Service THEN Rate ELSE AccountRate
        /\ Limiter!Size(b) \in Nat /\ Cap(b) \in Nat /\ room[b] = Limiter!Size(b)
    <3>1. bucket[b] = [tokens |-> Limiter!Size(b), updated |-> 0,
                       rate |-> IF b = Service THEN Rate ELSE AccountRate]
      BY <1>1
    <3> QED  BY <1>1, <3>1
  <2>2. bucket[b].rate <= Cap(b)  BY <1>2, <2>1 DEF Cap
  <2>3. (now - bucket[b].updated) * Cap(b) = 0  BY <1>2, <2>1
  <2> QED  BY <1>2, <2>1, <2>2, <2>3 DEF Covered, Limiter!AtMost
<1> QED  BY <1>3, <1>4 DEF RateInv

LEMMA RateStep == RateInv /\ [Limiter!Next]_(Limiter!vars) => RateInv'
<1> SUFFICES ASSUME RateInv, [Limiter!Next]_(Limiter!vars) PROVE RateInv'  OBVIOUS
<1> DEFINE Types == [Workers -> [step : {"idle", "service", "account", "call"},
                                 account : Limiter!Buckets]]
<1>1. worker \in Types /\ Service \in Limiter!Buckets /\ Accounts \subseteq Limiter!Buckets
  BY DEF RateInv, RateTypes, Limiter!Buckets
<1>2. (worker' \in Types /\ UNCHANGED <<now, bucket, room>>) => RateInv'
  BY DEF RateInv, RateTypes, Covered, Cap, Limiter!Size, Limiter!Buckets, Limiter!AtMost
<1>3. ASSUME NEW w \in Workers, NEW a \in Accounts, Limiter!Begin(w, a) PROVE RateInv'
  BY <1>1, <1>2, <1>3 DEF Limiter!Begin
<1>4. ASSUME NEW w \in Workers, Limiter!OfService(w) PROVE RateInv'
  BY <1>1, <1>4, AcquireKeeps DEF Limiter!OfService
<1>5. ASSUME NEW w \in Workers, Limiter!OfAccount(w) PROVE RateInv'
  <2>1. worker[w].account \in Limiter!Buckets  BY <1>1
  <2> QED  BY <1>5, <2>1, AcquireKeeps DEF Limiter!OfAccount
<1>6. ASSUME NEW w \in Workers, Limiter!Rejected(w) PROVE RateInv'
  BY <1>1, <1>2, <1>6 DEF Limiter!Rejected, Limiter!Idle
<1>7. ASSUME NEW w \in Workers, NEW ok \in BOOLEAN, NEW limited \in BOOLEAN,
             Limiter!Answered(w, ok, limited)
      PROVE  RateInv'
  <2>1. worker' \in Types /\ UNCHANGED <<now, room>> /\ Limiter!Record(ok, limited)
    BY <1>1, <1>7 DEF Limiter!Answered, Limiter!Idle
  <2>2. \/ Limiter!SetRate(Limiter!CutRate) \/ Limiter!SetRate(Limiter!RaiseRate)
        \/ UNCHANGED bucket
    BY <2>1 DEF Limiter!Record
  <2>3. bucket[Service].rate \in Nat /\ MinRate \in Nat /\ MaxRate \in Nat /\ MinRate <= MaxRate
    BY <1>1, LimiterAssumption DEF RateInv, RateTypes, Limiter!Configured
  <2>4. bucket[Service].rate <= MaxRate  BY <1>1 DEF RateInv, Covered, Cap
  <2>5. Limiter!CutRate \in Nat /\ Limiter!CutRate <= MaxRate
    BY <2>3, <2>4 DEF Limiter!CutRate, Limiter!AtLeast
  <2>6. Limiter!RaiseRate \in Nat /\ Limiter!RaiseRate <= MaxRate
    BY <2>3, <2>4 DEF Limiter!RaiseRate, Limiter!AtMost
  <2>7. CASE Limiter!SetRate(Limiter!CutRate)
    BY <2>1, <2>5, <2>7, SetRateKeeps
  <2>8. CASE Limiter!SetRate(Limiter!RaiseRate)
    BY <2>1, <2>6, <2>8, SetRateKeeps
  <2> QED  BY <1>2, <2>1, <2>2, <2>7, <2>8
<1>8. CASE Limiter!Tick  BY <1>8, TickKeeps
<1>9. CASE UNCHANGED Limiter!vars  BY <1>1, <1>2, <1>9 DEF Limiter!vars
<1> QED  BY <1>3, <1>4, <1>5, <1>6, <1>7, <1>8, <1>9 DEF Limiter!Next

\* Over no stretch of time do the workers make more calls than the burst and the highest
\* rate allow, however the answers move the rate (TokenBucket, AdaptiveLimiter).
THEOREM CallsStayInTheRate == Limiter!Spec => []CallsKeepTheRate
<1>1. RateInv => CallsKeepTheRate
  <2> SUFFICES ASSUME RateInv, NEW b \in Limiter!Buckets PROVE room[b] >= 0
    BY DEF CallsKeepTheRate, Limiter!CallsKeepTheRate
  <2>1. /\ now - bucket[b].updated \in Nat /\ Cap(b) \in Nat /\ Limiter!Size(b) \in Nat
        /\ bucket[b].tokens \in Nat /\ room[b] \in Int
    BY Sizes DEF RateInv, RateTypes, Covered
  <2>2. (now - bucket[b].updated) * Cap(b) \in Nat  BY <2>1
  <2> QED  BY <2>1, <2>2 DEF RateInv, Covered, Limiter!AtMost
<1> QED  BY <1>1, RateInitially, RateStep, PTL DEF Limiter!Spec

-----------------------------------------------------------------------------
(* Consents *)

Pcs == {"idle", "exchange", "save", "meta", "authorized", "mismatch", "mirror",
        "load", "refresh", "check"}
ConsentTypes ==
    /\ asked \in 0..NConsents
    /\ token \in [Emails -> Emails \cup {NoEmail}]
    /\ used \in [Consent!Consents -> Nat]
    /\ thread \in [Threads -> [pc : Pcs, email : Emails \cup {NoEmail},
                               consent : Nat, owner : Emails \cup {NoEmail}]]
    /\ wanted \in [Consent!Consents -> Emails \cup {NoEmail}]
    /\ late \subseteq Consent!Consents

\* A consent that may still be answered was not used, and those not asked for neither.
Unused ==
    /\ memory \cup pending \subseteq 1..asked
    /\ \A c \in Consent!Consents : (c \in memory \cup pending \/ c > asked) =>
           used[c] = 0 /\ c \notin late
\* Tokens are where they belong.
OwnTokens == \A e \in Emails : token[e] \in {e, NoEmail}
\* A thread works on an account; it exchanges a consent once, stores the token of that
\* account alone, and refreshes the account's own.
Honest(t) ==
    /\ thread[t].pc = "idle" => thread[t].email = NoEmail
    /\ thread[t].pc \in {"exchange", "save"} =>
           /\ thread[t].consent \in Consent!Consents
           /\ Consent!Consented(thread[t].email, thread[t].consent)
    /\ thread[t].pc \in {"save", "refresh"} => thread[t].owner = thread[t].email
ConsentInv == ConsentTypes /\ Unused /\ OwnTokens /\ \A t \in Threads : Honest(t)

LEMMA ConsentInitially == Consent!Init => ConsentInv
BY ConsentAssumption
   DEF Consent!Init, Consent!Idle, Consent!Consents, ConsentInv, ConsentTypes, Unused, OwnTokens,
       Honest, Pcs

\* A step that moves one thread and stores nothing.
LEMMA ThreadMoves ==
    ASSUME ConsentInv, NEW t \in Threads, NEW p \in Pcs,
           thread' = [thread EXCEPT ![t].pc = p],
           p \in {"exchange", "save"} => thread[t].pc \in {"exchange", "save"},
           p \in {"save", "refresh"} => thread[t].owner = thread[t].email,
           p # "idle",
           UNCHANGED <<asked, wanted, memory, pending, used, late>>,
           token' \in [Emails -> Emails \cup {NoEmail}],
           \A e \in Emails : token'[e] \in {e, NoEmail}
    PROVE  ConsentInv'
<1>1. /\ thread' \in [Threads -> [pc : Pcs, email : Emails \cup {NoEmail},
                               consent : Nat, owner : Emails \cup {NoEmail}]]
      /\ thread'[t].pc = p /\ thread'[t].email = thread[t].email
      /\ thread'[t].consent = thread[t].consent /\ thread'[t].owner = thread[t].owner
      /\ \A u \in Threads \ {t} : thread'[u] = thread[u]
  BY DEF ConsentInv, ConsentTypes
<1>2. ConsentTypes' /\ Unused' /\ OwnTokens'
  BY <1>1 DEF ConsentInv, ConsentTypes, Unused, OwnTokens, Consent!Consents
<1>3. \A u \in Threads : Honest(u)'
  BY <1>1 DEF ConsentInv, Honest, Consent!Consented, Consent!Consents
<1> QED  BY <1>2, <1>3 DEF ConsentInv

\* A step that ends one thread's work.
LEMMA ThreadEnds ==
    ASSUME ConsentInv, NEW t \in Threads, thread' = [thread EXCEPT ![t] = Consent!Idle],
           UNCHANGED <<asked, wanted, memory, pending, used, late, token>>
    PROVE  ConsentInv'
<1>1. /\ thread' \in [Threads -> [pc : Pcs, email : Emails \cup {NoEmail},
                               consent : Nat, owner : Emails \cup {NoEmail}]]
      /\ thread'[t] = Consent!Idle
      /\ \A u \in Threads \ {t} : thread'[u] = thread[u]
  BY DEF ConsentInv, ConsentTypes, Consent!Idle, Pcs
<1>2. ConsentTypes' /\ Unused' /\ OwnTokens'
  BY <1>1 DEF ConsentInv, ConsentTypes, Unused, OwnTokens, Consent!Consents
<1>3. \A u \in Threads : Honest(u)'
  BY <1>1 DEF ConsentInv, Honest, Consent!Consented, Consent!Consents, Consent!Idle
<1> QED  BY <1>2, <1>3 DEF ConsentInv

\* The answer takes the consent out of memory and file and uses it.
LEMMA CallbackKeeps ==
    ASSUME ConsentInv, NEW t \in Threads, NEW c \in Consent!Consents, NEW e \in Emails,
           Consent!Callback(t, c, e)
    PROVE  ConsentInv'
<1>1. /\ memory' = memory \ {c} /\ pending' = pending \ (expired \cup {c})
      /\ UNCHANGED <<asked, wanted, token>> /\ c \in Nat
  BY ConsentAssumption DEF Consent!Callback, Consent!stored, Consent!Consents
<1>2. CASE Consent!Waits(c)
  <2> DEFINE work == [pc |-> "exchange", email |-> wanted[c], consent |-> c, owner |-> e]
  <2>1. /\ thread' = [thread EXCEPT ![t] = work] /\ used' = [used EXCEPT ![c] = @ + 1]
        /\ late' = late
    BY <1>2 DEF Consent!Callback, Consent!Waits
  <2>2. c \in memory \cup pending /\ used[c] = 0 /\ c \notin late
    BY <1>2 DEF Consent!Waits, ConsentInv, Unused
  <2>3. /\ thread' \in [Threads -> [pc : Pcs, email : Emails \cup {NoEmail},
                                    consent : Nat, owner : Emails \cup {NoEmail}]]
        /\ thread'[t] = work /\ \A u \in Threads \ {t} : thread'[u] = thread[u]
    BY <1>1, <2>1 DEF ConsentInv, ConsentTypes, Pcs
  <2>4. /\ used' \in [Consent!Consents -> Nat] /\ used'[c] = 1
        /\ \A d \in Consent!Consents \ {c} : used'[d] = used[d]
        /\ late' = late /\ c \notin late
    BY <2>1, <2>2 DEF ConsentInv, ConsentTypes
  <2>5. ConsentTypes'  BY <1>1, <2>3, <2>4 DEF ConsentInv, ConsentTypes, Consent!Consents
  <2>6. Unused' /\ OwnTokens'
    <3>1. c <= asked /\ asked \in Nat
      BY ConsentAssumption DEF Consent!Callback, ConsentInv, ConsentTypes
    <3>2. memory' \cup pending' \subseteq (memory \cup pending) \ {c}  BY <1>1
    <3>3. \A d \in Consent!Consents :
              (d \in memory' \cup pending' \/ d > asked') => used'[d] = 0 /\ d \notin late'
      BY <1>1, <2>4, <3>1, <3>2 DEF ConsentInv, Unused
    <3> QED  BY <1>1, <3>2, <3>3 DEF ConsentInv, Unused, OwnTokens
  <2>7. \A u \in Threads : Honest(u)'
    <3> SUFFICES ASSUME NEW u \in Threads PROVE Honest(u)'  OBVIOUS
    <3>1. Honest(u)  BY DEF ConsentInv
    <3>2. CASE u = t
      BY <1>1, <2>3, <2>4, <3>2 DEF Honest, Consent!Consented, Consent!Consents
    <3>3. CASE u # t
      <4>1. thread'[u] = thread[u]  BY <2>3, <3>3
      <4>2. thread[u].consent = c => used[thread[u].consent] # 1  BY <2>2
      <4> QED  BY <1>1, <2>4, <3>1, <4>1, <4>2 DEF Honest, Consent!Consented, Consent!Consents
    <3> QED  BY <3>2, <3>3
  <2> QED  BY <2>5, <2>6, <2>7 DEF ConsentInv
<1>3. CASE ~Consent!Waits(c)
  <2>1. UNCHANGED <<thread, used, late>>  BY <1>3 DEF Consent!Callback
  <2> QED
    BY <1>1, <2>1 DEF ConsentInv, ConsentTypes, Unused, OwnTokens, Honest, Consent!Consented, Consent!Consents
<1> QED  BY <1>2, <1>3

\* What the threads do with the answer, and where a token is stored.
LEMMA ThreadStep ==
    ASSUME ConsentInv, NEW t \in Threads,
           \/ Consent!CallbackFails(t) \/ Consent!Verify(t) \/ Consent!SaveToken(t)
           \/ Consent!SaveMeta(t) \/ Consent!WriteRows(t) \/ Consent!Mirror(t)
           \/ Consent!Refresh(t) \/ Consent!Check(t)
    PROVE  /\ ConsentInv'
           /\ \A e \in Emails : token'[e] \notin {token[e], NoEmail} =>
                  /\ token'[e] = e /\ thread[t].email = e
                  /\ \/ thread[t].pc = "refresh"
                     \/ thread[t].pc = "save" /\ Consent!Consented(e, thread[t].consent)
<1> DEFINE Stored == \A e \in Emails : token'[e] \notin {token[e], NoEmail} =>
                  /\ token'[e] = e /\ thread[t].email = e
                  /\ \/ thread[t].pc = "refresh"
                     \/ thread[t].pc = "save" /\ Consent!Consented(e, thread[t].consent)
           Tokens == [Emails -> Emails \cup {NoEmail}]
<1>1. /\ token \in Tokens /\ Honest(t) /\ \A e \in Emails : token[e] \in {e, NoEmail}
      /\ thread[t].email \in Emails \cup {NoEmail} /\ thread[t].owner \in Emails \cup {NoEmail}
  BY DEF ConsentInv, ConsentTypes, OwnTokens
<1>2. UNCHANGED token => Stored  OBVIOUS
<1> HIDE DEF Stored
<1>3. CASE Consent!CallbackFails(t)
  BY <1>2, <1>3, ThreadEnds DEF Consent!CallbackFails, Consent!Done, Consent!stored
<1>4. CASE Consent!Verify(t)
  <2>1. thread[t].pc = "exchange" /\ UNCHANGED <<asked, wanted, memory, pending, used, late>>
    BY <1>4 DEF Consent!Verify
  <2>2. CASE thread[t].owner = thread[t].email
    <3>1. thread' = [thread EXCEPT ![t].pc = "save"] /\ UNCHANGED token
      BY <1>4, <2>2 DEF Consent!Verify, Consent!Goto
    <3>2. ConsentInv'
      BY <1>1, <2>1, <2>2, <3>1, ThreadMoves DEF Pcs
    <3> QED  BY <1>2, <3>1, <3>2 DEF Stored
  <2>3. CASE thread[t].owner # thread[t].email
    <3>1. /\ thread' = [thread EXCEPT ![t].pc = "mismatch"]
          /\ token' = [token EXCEPT ![thread[t].email] = NoEmail]
      BY <1>4, <2>3 DEF Consent!Verify, Consent!Goto, Consent!Discard
    <3>2. token' \in Tokens /\ \A e \in Emails : token'[e] \in {e, NoEmail}
      BY <1>1, <3>1
    <3>3. ConsentInv'
      BY <2>1, <3>1, <3>2, ThreadMoves DEF Pcs
    <3>4. Stored  BY <1>1, <3>1 DEF Stored
    <3> QED  BY <3>3, <3>4 DEF Stored
  <2> QED  BY <2>2, <2>3
<1>5. CASE Consent!SaveToken(t)
  <2>1. /\ thread[t].pc = "save" /\ thread' = [thread EXCEPT ![t].pc = "meta"]
        /\ token' = [token EXCEPT ![thread[t].email] = thread[t].owner]
        /\ UNCHANGED <<asked, wanted, memory, pending, used, late>>
    BY <1>5 DEF Consent!SaveToken, Consent!Goto
  <2>2. thread[t].owner = thread[t].email
        /\ Consent!Consented(thread[t].email, thread[t].consent)
    BY <1>1, <2>1 DEF Honest
  <2>3. token' \in Tokens /\ \A e \in Emails : token'[e] \in {e, NoEmail}
    BY <1>1, <2>1, <2>2
  <2>4. ConsentInv'
    BY <2>1, <2>3, ThreadMoves DEF Pcs
  <2>5. Stored  BY <1>1, <2>1, <2>2 DEF Stored
  <2> QED  BY <2>4, <2>5 DEF Stored
<1>6. CASE Consent!SaveMeta(t)
  <2>1. /\ thread' = [thread EXCEPT ![t].pc = "authorized"]
        /\ UNCHANGED <<asked, wanted, memory, pending, used, late, token>>
    BY <1>6 DEF Consent!SaveMeta, Consent!Goto
  <2> QED  BY <1>1, <1>2, <2>1, ThreadMoves DEF Stored, Pcs
<1>7. CASE Consent!WriteRows(t)
  <2>1. UNCHANGED <<asked, wanted, memory, pending, used, late, token>>
    BY <1>7 DEF Consent!WriteRows
  <2>2. \/ thread' = [thread EXCEPT ![t].pc = "mirror"]
        \/ thread' = [thread EXCEPT ![t] = Consent!Idle]
    BY <1>7 DEF Consent!WriteRows, Consent!Goto, Consent!Done
  <2>3. ConsentInv'
    BY <1>1, <2>1, <2>2, ThreadMoves, ThreadEnds DEF Pcs
  <2> QED  BY <1>2, <2>1, <2>3 DEF Stored
<1>8. CASE Consent!Mirror(t)
  BY <1>2, <1>8, ThreadEnds DEF Consent!Mirror, Consent!Done, Stored
<1>9. CASE Consent!Refresh(t)
  <2>1. /\ thread[t].pc = "refresh" /\ UNCHANGED <<asked, wanted, memory, pending, used, late>>
        /\ thread[t].owner = thread[t].email
    BY <1>1, <1>9 DEF Consent!Refresh, Honest
  <2>2. CASE UNCHANGED token /\ Consent!Done(t)
    BY <1>2, <2>1, <2>2, ThreadEnds DEF Consent!Done, Stored
  <2>3. CASE /\ token' = [token EXCEPT ![thread[t].email] = thread[t].owner]
             /\ Consent!Goto(t, "check")
    <3>1. token' \in Tokens /\ \A e \in Emails : token'[e] \in {e, NoEmail}
      BY <1>1, <2>1, <2>3
    <3>2. ConsentInv'
      BY <2>1, <2>3, <3>1, ThreadMoves DEF Pcs, Consent!Goto
    <3>3. Stored  BY <1>1, <2>1, <2>3 DEF Stored
    <3> QED  BY <3>2, <3>3 DEF Stored
  <2> QED  BY <1>9, <2>2, <2>3 DEF Consent!Refresh
<1>10. CASE Consent!Check(t)
  BY <1>2, <1>10, ThreadEnds DEF Consent!Check, Consent!Done, Stored
<1> QED  BY <1>3, <1>4, <1>5, <1>6, <1>7, <1>8, <1>9, <1>10

\* Only ThreadStep stores a token.
LEMMA OtherStep ==
    ASSUME ConsentInv, [Consent!Next]_(Consent!vars),
           ~\E t \in Threads :
               \/ Consent!CallbackFails(t) \/ Consent!Verify(t) \/ Consent!SaveToken(t)
               \/ Consent!SaveMeta(t) \/ Consent!WriteRows(t) \/ Consent!Mirror(t)
               \/ Consent!Refresh(t) \/ Consent!Check(t)
    PROVE  ConsentInv' /\ UNCHANGED token
<1>1. ASSUME NEW e \in Emails, Consent!Begin(e) PROVE ConsentInv' /\ UNCHANGED token
  <2>1. /\ asked < NConsents /\ asked' = asked + 1 /\ wanted' = [wanted EXCEPT ![asked + 1] = e]
        /\ memory' = memory \cup {asked + 1} /\ pending' = (pending \ expired) \cup {asked + 1}
        /\ UNCHANGED <<token, thread, used, late>>
    BY <1>1 DEF Consent!Begin, Consent!stored
  <2>2. ConsentTypes'
    BY <2>1, ConsentAssumption DEF ConsentInv, ConsentTypes, Consent!Consents
  <2>3. Unused'
    BY <2>1, ConsentAssumption DEF ConsentInv, ConsentTypes, Unused, Consent!Consents
  <2>4. \A t \in Threads : Honest(t)'
    <3> SUFFICES ASSUME NEW t \in Threads PROVE Honest(t)'  OBVIOUS
    <3>1. Honest(t) /\ thread'[t] = thread[t]  BY <2>1 DEF ConsentInv
    <3>2. asked + 1 \in Consent!Consents => used[asked + 1] = 0
      BY <2>1, ConsentAssumption DEF ConsentInv, ConsentTypes, Unused, Consent!Consents
    <3>3. ASSUME thread[t].consent \in Consent!Consents, used[thread[t].consent] = 1
          PROVE  wanted'[thread[t].consent] = wanted[thread[t].consent]
      BY <2>1, <3>2, <3>3 DEF ConsentInv, ConsentTypes
    <3> QED  BY <2>1, <3>1, <3>3 DEF Honest, Consent!Consented, Consent!Consents
  <2> QED  BY <2>1, <2>2, <2>3, <2>4 DEF ConsentInv, OwnTokens, Consent!Consents
<1>2. (UNCHANGED <<asked, wanted, memory, pending, token, thread, used, late>>)
          => ConsentInv' /\ UNCHANGED token
  BY DEF ConsentInv, ConsentTypes, Unused, OwnTokens, Honest, Consent!Consented, Consent!Consents
<1>3. ASSUME NEW e \in Emails, Consent!Stale(e) PROVE ConsentInv' /\ UNCHANGED token
  BY <1>2, <1>3 DEF Consent!Stale
<1>4. ASSUME NEW c \in Consent!Consents, Consent!Expire(c) PROVE ConsentInv' /\ UNCHANGED token
  BY <1>2, <1>4 DEF Consent!Expire, Consent!stored
<1>5. ASSUME NEW t \in Threads, NEW c \in Consent!Consents, NEW e \in Emails,
             Consent!Callback(t, c, e)
      PROVE  ConsentInv' /\ UNCHANGED token
  BY <1>5, CallbackKeeps DEF Consent!Callback, Consent!stored
<1>6. ASSUME NEW t \in Threads, NEW e \in Emails, Consent!Load(t, e)
      PROVE  ConsentInv' /\ UNCHANGED token
  <2>1. /\ UNCHANGED <<asked, wanted, memory, pending, token, used, late>>
        /\ \E old \in BOOLEAN :
               thread' = [thread EXCEPT ![t] =
                   [pc |-> IF old /\ token[e] # NoEmail THEN "refresh" ELSE "check",
                    email |-> e, consent |-> 0, owner |-> token[e]]]
    BY <1>6 DEF Consent!Load, Consent!stored
  <2>2. PICK old \in BOOLEAN :
            thread' = [thread EXCEPT ![t] =
                [pc |-> IF old /\ token[e] # NoEmail THEN "refresh" ELSE "check",
                 email |-> e, consent |-> 0, owner |-> token[e]]]
    BY <2>1
  <2>3. token[e] \in {e, NoEmail}  BY DEF ConsentInv, OwnTokens
  <2>4. /\ thread' \in [Threads -> [pc : Pcs, email : Emails \cup {NoEmail},
                                    consent : Nat, owner : Emails \cup {NoEmail}]]
        /\ \A u \in Threads \ {t} : thread'[u] = thread[u]
        /\ thread'[t].pc \in {"refresh", "check"}
        /\ thread'[t].pc = "refresh" => thread'[t].owner = thread'[t].email
    BY <2>2, <2>3 DEF ConsentInv, ConsentTypes, Pcs
  <2>5. \A u \in Threads : Honest(u)'
    BY <2>1, <2>4 DEF ConsentInv, Honest, Consent!Consented, Consent!Consents
  <2> QED  BY <2>1, <2>4, <2>5 DEF ConsentInv, ConsentTypes, Unused, OwnTokens, Consent!Consents
<1>7. CASE Consent!Restart
  <2>1. /\ memory' = {} /\ thread' = [t \in Threads |-> Consent!Idle]
        /\ UNCHANGED <<asked, wanted, pending, token, used, late>>
    BY <1>7 DEF Consent!Restart, Consent!stored
  <2>2. thread' \in [Threads -> [pc : Pcs, email : Emails \cup {NoEmail},
                                 consent : Nat, owner : Emails \cup {NoEmail}]]
    BY <2>1 DEF Consent!Idle, Pcs
  <2>3. \A u \in Threads : Honest(u)'  BY <2>1 DEF Honest, Consent!Idle
  <2> QED  BY <2>1, <2>2, <2>3 DEF ConsentInv, ConsentTypes, Unused, OwnTokens, Consent!Consents
<1>8. CASE UNCHANGED Consent!vars  BY <1>2, <1>8 DEF Consent!vars, Consent!stored
<1> QED  BY <1>1, <1>3, <1>4, <1>5, <1>6, <1>7, <1>8 DEF Consent!Next

\* A token is stored only by a consent of its account that is used for the first time, or by
\* a refresh of the account's own, whatever answers come (begin, finish_callback, verify).
THEOREM TokensAreConsented == Consent!Spec => TokenComesFromItsConsent
<1> DEFINE Rule == \A e \in Emails : token'[e] \notin {token[e], NoEmail} =>
           /\ token'[e] = e
           /\ \E t \in Threads :
                  /\ thread[t].email = e
                  /\ \/ thread[t].pc = "refresh"
                     \/ thread[t].pc = "save" /\ Consent!Consented(e, thread[t].consent)
<1>1. ConsentInv /\ [Consent!Next]_(Consent!vars) => ConsentInv' /\ [Rule]_(Consent!vars)
  <2> SUFFICES ASSUME ConsentInv, [Consent!Next]_(Consent!vars)
               PROVE  ConsentInv' /\ [Rule]_(Consent!vars)
    OBVIOUS
  <2>1. ASSUME NEW t \in Threads,
               \/ Consent!CallbackFails(t) \/ Consent!Verify(t) \/ Consent!SaveToken(t)
               \/ Consent!SaveMeta(t) \/ Consent!WriteRows(t) \/ Consent!Mirror(t)
               \/ Consent!Refresh(t) \/ Consent!Check(t)
        PROVE  ConsentInv' /\ Rule
    BY <2>1, ThreadStep
  <2>2. UNCHANGED token => Rule  OBVIOUS
  <2> HIDE DEF Rule
  <2> QED  BY <2>1, <2>2, OtherStep
<1> QED  BY <1>1, ConsentInitially, PTL
         DEF Consent!Spec, TokenComesFromItsConsent, Consent!TokenComesFromItsConsent

-----------------------------------------------------------------------------
(* The run log *)

Crew  == ApiLog!Everyone
Paper == ApiLog!Files
Lines == Crew \X Nat
Statuses == {"", "done", "failed"}
Calls == [step : {"rest", "look", "put", "write", "counts"}, calls : Nat, todo : Seq(Paper),
          counts : Nat, status : Statuses, alone : BOOLEAN]
LogTypes ==
    /\ closed \in BOOLEAN /\ ended \in BOOLEAN /\ unsure \in BOOLEAN /\ latest \in Nat
    /\ caller \in [Crew -> Calls]
    /\ text \in [Paper -> [Crew -> Seq(Nat)]]
    /\ lines \in Seq([file : Paper, line : Lines])
    /\ owed \subseteq Paper \X Lines

\* A sequence that names nothing twice.
Once(s) == \A i, j \in DOMAIN s : s[i] = s[j] => i = j

\* The files a call is told to go to, by event, progress, snapshot and start.
LEMMA TargetsAreOnce ==
    ASSUME NEW S \in SUBSET Services, NEW todo \in ApiLog!Targets(S)
    PROVE  /\ todo \in Seq(Paper) /\ Once(todo) /\ todo # << >>
           /\ ApiLog!Front(todo) \in Seq(Paper) /\ Once(ApiLog!Front(todo))
<1>1. PICK q \in ApiLog!SetToSeqs(S) : todo = Append(q, Common)  BY DEF ApiLog!Targets
<1>2. ApiLog!Cardinality(S) \in Nat
  <2>1. IsFiniteSet(Services) = ApiLog!IsFiniteSet(Services)
    BY DEF IsFiniteSet, ApiLog!IsFiniteSet
  <2>2. ApiLog!Cardinality(S) = Cardinality(S)
    BY DEF Cardinality, ApiLog!Cardinality
  <2>3. IsFiniteSet(S)  BY <2>1, LogAssumption, FS_Subset DEF ApiLog!Sound
  <2> QED  BY <2>2, <2>3, FS_CardinalityType
<1> DEFINE n == ApiLog!Cardinality(S)
<1>3. q \in [1..n -> S] /\ \A i, j \in 1..n : i # j => q[i] # q[j]
  BY <1>1 DEF ApiLog!SetToSeqs
<1> HIDE DEF n
<1>4. n \in Nat /\ q \in Seq(Paper) /\ Len(q) = n /\ Common \in Paper /\ Common \notin S
  <2>1. n \in Nat  BY <1>2 DEF n
  <2>2. S \subseteq Paper /\ Common \in Paper /\ Common \notin S
    BY LogAssumption DEF Paper, ApiLog!Files, ApiLog!Sound
  <2> QED  BY <1>3, <2>1, <2>2
<1>5. todo \in Seq(Paper) /\ todo # << >> /\ Len(todo) = n + 1
  BY <1>1, <1>4
<1>6. \A i \in 1..(n + 1) : todo[i] = IF i = n + 1 THEN Common ELSE q[i]
  BY <1>1, <1>4
<1>7. Once(todo)
  BY <1>3, <1>4, <1>5, <1>6 DEF Once
<1>8. ApiLog!Front(todo) = q
  <2>1. ApiLog!Front(todo) = SubSeq(todo, 1, n)  BY <1>4, <1>5 DEF ApiLog!Front
  <2> QED  BY <1>3, <1>4, <1>5, <1>6, <2>1
<1>9. Once(q)  BY <1>3, <1>4 DEF Once
<1> QED  BY <1>4, <1>5, <1>7, <1>8, <1>9

\* Who writes progress.json alone writes the counts reported last.
CountsTrue ==
    /\ \A t \in Crew : ApiLog!At(t, "counts") /\ caller[t].alone =>
           /\ caller[t].counts = latest
           /\ \A u \in Crew : ApiLog!At(u, "counts") => u = t
    /\ ApiLog!ProgressIsLatest

\* Before start() nobody writes, and the last item is in the queue, or taken, from
\* close() on only.
Course ==
    /\ phase = "new" => \A t \in Crew : ApiLog!At(t, "rest")
    /\ closed <=> phase \in {"stop", "join", "closed"}
    /\ phase \notin {"join", "closed"} => ~ended /\ \A i \in DOMAIN lines : lines[i] # ApiLog!Stop

\* The calls of a thread are written in their order: a line of the file is older than those
\* in the queue, and these are older than one its thread has yet to queue.
Due(f, t) == caller[t].step = "counts" \/ \E i \in DOMAIN caller[t].todo : caller[t].todo[i] = f
Sane(t) ==
    /\ Once(caller[t].todo)
    /\ caller[t].step # "rest" => caller[t].calls > 0
    /\ caller[t].step \in {"look", "put", "write"} => caller[t].todo # << >>
    /\ caller[t].step = "write" => ended
ThreadOrder == \A t \in Crew : Sane(t)
FileOrder ==
    \A f \in Paper, t \in Crew :
        /\ \A i, j \in DOMAIN text[f][t] : i < j => text[f][t][i] < text[f][t][j]
        /\ \A i \in DOMAIN text[f][t] :
               /\ text[f][t][i] <= caller[t].calls
               /\ Due(f, t) => text[f][t][i] < caller[t].calls
Holds(i, f, t, c) == lines[i] = [file |-> f, line |-> <<t, c>>] /\ lines[i] # ApiLog!Stop
Newer(f, t, c) ==
    /\ c <= caller[t].calls /\ (Due(f, t) => c < caller[t].calls)
    /\ ~ended => \A k \in DOMAIN text[f][t] : text[f][t][k] < c
QueueOrder ==
    \A i \in DOMAIN lines : \A f \in Paper, t \in Crew, c \in Nat : Holds(i, f, t, c) =>
        /\ Newer(f, t, c)
        /\ \A j \in DOMAIN lines, d \in Nat : j > i /\ Holds(j, f, t, d) => c < d

\* A line that is owed is in its file, or in the queue before the last item.
InFile(o)  == \E k \in DOMAIN text[o[1]][o[2][1]] : text[o[1]][o[2][1]][k] = o[2][2]
InQueue(o) == \E i \in DOMAIN lines :
                  /\ lines[i] = [file |-> o[1], line |-> o[2]]
                  /\ \A j \in 1..i : lines[j] # ApiLog!Stop
Debts == \A o \in owed : InFile(o) \/ (~ended /\ InQueue(o))

LogInv == LogTypes /\ CountsTrue /\ Course /\ ThreadOrder /\ FileOrder /\ QueueOrder /\ Debts

LEMMA LogInitially == ApiLog!Init => LogInv
<1> SUFFICES ASSUME ApiLog!Init PROVE LogInv  OBVIOUS
<1>1. /\ phase = "new" /\ closed = FALSE /\ lines = << >> /\ ended = FALSE
      /\ text = [f \in Paper |-> [t \in Crew |-> << >>]]
      /\ latest = 0 /\ progress = [counts |-> 0, status |-> ""]
      /\ caller = [t \in Crew |-> ApiLog!Rest] /\ owed = {} /\ unsure = FALSE
  BY DEF ApiLog!Init, Paper, Crew
<1>2. ApiLog!Rest \in Calls  BY DEF ApiLog!Rest, Calls, Statuses
<1>3. \A t \in Crew : /\ caller[t].step = "rest" /\ caller[t].todo = << >>
  BY <1>1 DEF ApiLog!Rest
<1>4. LogTypes
  <2>1. << >> \in Seq(Nat) /\ << >> \in Seq([file : Paper, line : Lines])  OBVIOUS
  <2>2. caller \in [Crew -> Calls]  BY <1>1, <1>2
  <2>3. text \in [Paper -> [Crew -> Seq(Nat)]]  BY <1>1, <2>1
  <2> QED  BY <1>1, <2>1, <2>2, <2>3 DEF LogTypes
<1>5. CountsTrue
  <2>1. [counts |-> 0, status |-> ""].counts = 0  OBVIOUS
  <2>2. ApiLog!ProgressIsLatest  BY <1>1, <2>1 DEF ApiLog!ProgressIsLatest
  <2>3. \A t \in Crew : caller[t].step # "counts"  BY <1>3
  <2> QED  BY <2>2, <2>3 DEF CountsTrue, ApiLog!At
<1>6. Course
  <2>1. DOMAIN << >> = {}  OBVIOUS
  <2>2. DOMAIN lines = {}  BY <1>1, <2>1
  <2> QED  BY <1>1, <1>3, <2>2 DEF Course, ApiLog!At
<1>7. ThreadOrder  BY <1>3 DEF ThreadOrder, Sane, Once
<1>8. FileOrder /\ QueueOrder /\ Debts
  <2>1. DOMAIN << >> = {}  OBVIOUS
  <2>2. \A f \in Paper, t \in Crew : text[f][t] = << >>  BY <1>1
  <2>3. \A f \in Paper, t \in Crew : DOMAIN text[f][t] = {}  BY <2>1, <2>2
  <2>4. DOMAIN lines = {}  BY <1>1, <2>1
  <2>5. FileOrder  BY <2>3 DEF FileOrder
  <2>6. QueueOrder  BY <2>4 DEF QueueOrder
  <2> QED  BY <1>1, <2>5, <2>6 DEF Debts
<1> QED  BY <1>4, <1>5, <1>6, <1>7, <1>8 DEF LogInv

LEMMA CrewIs == Crew = ApiLog!Everyone /\ Paper = ApiLog!Files /\ Common \in Paper /\ Main \in Crew /\ Ticker \in Crew
BY DEF Crew, Paper, ApiLog!Everyone, ApiLog!Files

LEMMA QueueingIs ==
    ASSUME NEW c \in Calls, NEW todo \in Seq(Paper)
    PROVE  LET d == ApiLog!Queueing(c, todo)
           IN  /\ d \in Calls /\ d.calls = c.calls /\ d.todo = todo
               /\ d.step = IF todo = << >> THEN "rest" ELSE "look"
               /\ d.counts = c.counts /\ d.status = c.status /\ d.alone = c.alone
BY DEF ApiLog!Queueing, Calls

LEMMA FieldsOfCalls ==
    \A c \in Calls : /\ c.calls \in Nat /\ c.todo \in Seq(Paper) /\ c.counts \in Nat
                    /\ c.step \in {"rest", "look", "put", "write", "counts"}
                    /\ c.alone \in BOOLEAN
BY DEF Calls

LEMMA CallsIs ==
    ASSUME LogTypes, NEW t \in Crew
    PROVE  LET d == ApiLog!Calls(t)
           IN  /\ d \in Calls /\ d.calls = caller[t].calls + 1 /\ d.todo = caller[t].todo
               /\ d.step = caller[t].step
<1>1. caller[t] \in Calls  BY DEF LogTypes
<1>2. caller[t].calls \in Nat  BY <1>1, FieldsOfCalls
<1>3. ASSUME NEW c \in Calls, NEW n \in Nat
      PROVE  LET d == [c EXCEPT !.calls = n]
             IN  d \in Calls /\ d.calls = n /\ d.todo = c.todo /\ d.step = c.step
  BY DEF Calls
<1>4. ApiLog!Calls(t) = [caller[t] EXCEPT !.calls = caller[t].calls + 1]  BY DEF ApiLog!Calls
<1>5. caller[t].calls + 1 \in Nat  BY <1>2
<1> QED  BY <1>1, <1>3, <1>4, <1>5

LEMMA Element == ASSUME NEW S, NEW s \in Seq(S), NEW i \in DOMAIN s PROVE s[i] \in S
OBVIOUS

LEMMA LinesAre ==
    ASSUME LogTypes
    PROVE  \A i \in DOMAIN lines :
               /\ lines[i] = [file |-> lines[i].file, line |-> lines[i].line]
               /\ lines[i].file \in Paper /\ lines[i].line \in Lines
               /\ lines[i].line[1] \in Crew /\ lines[i].line[2] \in Nat
               /\ lines[i].line = <<lines[i].line[1], lines[i].line[2]>>
<1> SUFFICES ASSUME NEW i \in DOMAIN lines
             PROVE  /\ lines[i] = [file |-> lines[i].file, line |-> lines[i].line]
                    /\ lines[i].file \in Paper /\ lines[i].line \in Lines
                    /\ lines[i].line[1] \in Crew /\ lines[i].line[2] \in Nat
                    /\ lines[i].line = <<lines[i].line[1], lines[i].line[2]>>
  OBVIOUS
<1>1. lines[i] \in [file : Paper, line : Lines]
  <2>1. lines \in Seq([file : Paper, line : Lines])  BY DEF LogTypes
  <2> QED  BY ONLY <2>1, i \in DOMAIN lines, Element
<1>2. \A l \in Lines : l[1] \in Crew /\ l[2] \in Nat /\ l = <<l[1], l[2]>>  BY DEF Lines
<1> QED  BY <1>1, <1>2

\* Threads move, and the lines stay where they are.
LEMMA CallerMoves ==
    ASSUME LogInv, caller' \in [Crew -> Calls], UNCHANGED <<text, lines, ended, owed>>,
           \A t \in Crew :
               /\ Sane(t)'
               /\ caller'[t].calls >= caller[t].calls
               /\ caller'[t].calls = caller[t].calls => \A f \in Paper : Due(f, t)' => Due(f, t)
    PROVE  ThreadOrder' /\ FileOrder' /\ QueueOrder' /\ Debts'
<1>1. \A t \in Crew : caller[t].calls \in Nat /\ caller'[t].calls \in Nat
  BY DEF LogInv, LogTypes, Calls
<1>2. \A i \in DOMAIN lines : /\ lines[i].file \in Paper /\ lines[i].line[1] \in Crew
                              /\ lines[i].line[2] \in Nat
  BY LinesAre DEF LogInv
<1>3. \A f \in Paper, t \in Crew : \A i \in DOMAIN text[f][t] : text[f][t][i] \in Nat
  BY DEF LogInv, LogTypes
<1>4. \A f \in Paper, t \in Crew : \A n \in Nat :
          /\ n <= caller[t].calls => n <= caller'[t].calls
          /\ n <= caller[t].calls /\ (Due(f, t) => n < caller[t].calls) /\ Due(f, t)'
                 => n < caller'[t].calls
  BY <1>1
<1>5. ThreadOrder'  BY CrewIs DEF ThreadOrder, Crew
<1>6. FileOrder'
  <2> SUFFICES ASSUME NEW f \in Paper, NEW t \in Crew
               PROVE  /\ \A i, j \in DOMAIN text[f][t] : i < j => text[f][t][i] < text[f][t][j]
                      /\ \A i \in DOMAIN text[f][t] :
                             /\ text[f][t][i] <= caller'[t].calls
                             /\ Due(f, t)' => text[f][t][i] < caller'[t].calls
    BY DEF FileOrder, Crew, Paper
  <2> QED  BY <1>3, <1>4 DEF LogInv, FileOrder
<1>7. QueueOrder'
  <2>1. \A i, f, t, c : Holds(i, f, t, c)' = Holds(i, f, t, c)  BY DEF Holds, ApiLog!Stop
  <2>2. \A f \in Paper, t \in Crew, c \in Nat : Newer(f, t, c) => Newer(f, t, c)'
    BY <1>4 DEF Newer
  <2> QED  BY <2>1, <2>2 DEF LogInv, QueueOrder, Paper, Crew
<1>8. Debts'  BY DEF LogInv, Debts, InFile, InQueue, ApiLog!Stop
<1> QED  BY <1>5, <1>6, <1>7, <1>8

LEMMA CountsStay ==
    ASSUME CountsTrue, UNCHANGED <<latest, progress, unsure>>,
           \A t \in Crew : /\ caller'[t].step = "counts" <=> caller[t].step = "counts"
                           /\ caller[t].step = "counts" => caller'[t] = caller[t]
    PROVE  CountsTrue'
<1>1. ApiLog!Writing' = ApiLog!Writing  BY CrewIs DEF ApiLog!Writing, ApiLog!At
<1>2. ApiLog!ProgressIsLatest'  BY <1>1 DEF CountsTrue, ApiLog!ProgressIsLatest
<1>3. ASSUME NEW t \in Crew, caller'[t].step = "counts", caller'[t].alone
      PROVE  caller'[t].counts = latest /\ \A u \in Crew : caller'[u].step = "counts" => u = t
  BY <1>3 DEF CountsTrue, ApiLog!At
<1> QED  BY <1>2, <1>3 DEF CountsTrue, ApiLog!At, Crew

LEMMA CourseStays ==
    ASSUME Course, UNCHANGED <<phase, closed, lines, ended>>, phase # "new"
    PROVE  Course'
BY DEF Course, ApiLog!Stop

\* One thread takes its next step.
LEMMA OneMoves ==
    ASSUME LogInv, NEW t \in Crew, NEW d \in Calls, caller' = [caller EXCEPT ![t] = d],
           UNCHANGED <<text, lines, ended, owed>>,
           Once(d.todo), d.step # "rest" => d.calls > 0, d.calls >= caller[t].calls,
           d.step \in {"look", "put", "write"} => d.todo # << >>,
           d.step = "write" => ended,
           \/ d.calls > caller[t].calls
           \/ caller[t].step = "counts"
           \/ d.todo = caller[t].todo /\ d.step # "counts"
    PROVE  /\ caller' \in [Crew -> Calls] /\ caller'[t] = d
           /\ \A u \in Crew \ {t} : caller'[u] = caller[u]
           /\ ThreadOrder' /\ FileOrder' /\ QueueOrder' /\ Debts'
<1>1. /\ caller' \in [Crew -> Calls] /\ caller'[t] = d
      /\ \A u \in Crew \ {t} : caller'[u] = caller[u]
  BY DEF LogInv, LogTypes
<1>2. \A u \in Crew : caller[u].calls \in Nat
  <2>1. \A u \in Crew : caller[u] \in Calls  BY DEF LogInv, LogTypes
  <2> QED  BY <2>1, FieldsOfCalls
<1>3. d.calls \in Nat  BY FieldsOfCalls
<1>4. \A u \in Crew : /\ Sane(u)' /\ caller'[u].calls >= caller[u].calls
  BY <1>1, <1>2, <1>3 DEF LogInv, ThreadOrder, Sane, Once
<1>5. \A u \in Crew : caller'[u].calls = caller[u].calls
          => \A f \in Paper : Due(f, u)' => Due(f, u)
  BY <1>1, <1>2, <1>3 DEF Due
<1> QED  BY <1>1, <1>4, <1>5, CallerMoves

LEMMA CallBegins ==
    ASSUME LogInv, NEW t \in Crew, caller[t].step = "rest", NEW S \in SUBSET Services,
           NEW todo \in ApiLog!Targets(S),
           caller' = [caller EXCEPT ![t] = ApiLog!Queueing(ApiLog!Calls(t), todo)],
           UNCHANGED <<closed, text, lines, ended, latest, progress, owed, unsure>>
    PROVE  LogTypes' /\ CountsTrue' /\ ThreadOrder' /\ FileOrder' /\ QueueOrder' /\ Debts'
<1> DEFINE d == ApiLog!Queueing(ApiLog!Calls(t), todo)
<1>1. todo \in Seq(Paper) /\ Once(todo) /\ todo # << >>  BY TargetsAreOnce
<1>2. ApiLog!Calls(t) \in Calls /\ ApiLog!Calls(t).calls = caller[t].calls + 1
  BY CallsIs DEF LogInv
<1>3. d \in Calls /\ d.calls = caller[t].calls + 1 /\ d.todo = todo /\ d.step = "look"
  BY <1>1, <1>2, QueueingIs
<1>4. caller[t].calls \in Nat
  <2>1. caller[t] \in Calls  BY DEF LogInv, LogTypes
  <2> QED  BY <2>1, FieldsOfCalls
<1> HIDE DEF d
<1>5. caller' = [caller EXCEPT ![t] = d]  BY DEF d
<1>6. /\ caller' \in [Crew -> Calls] /\ caller'[t] = d
      /\ \A u \in Crew \ {t} : caller'[u] = caller[u]
      /\ ThreadOrder' /\ FileOrder' /\ QueueOrder' /\ Debts'
  <2>1. d.calls > caller[t].calls /\ d.calls >= caller[t].calls /\ d.calls > 0  BY <1>3, <1>4
  <2> QED  BY <1>1, <1>3, <1>5, <2>1, OneMoves
<1>7. CountsTrue'
  <2>1. \A u \in Crew : /\ caller'[u].step = "counts" <=> caller[u].step = "counts"
                        /\ caller[u].step = "counts" => caller'[u] = caller[u]
    BY <1>3, <1>6
  <2> QED  BY <2>1, CountsStay DEF LogInv
<1>8. LogTypes'  BY <1>6 DEF LogInv, LogTypes, Crew, Paper, Lines, Calls, ApiLog!Everyone, ApiLog!Files
<1> QED  BY <1>6, <1>7, <1>8

LEMMA EventStep ==
    ASSUME LogInv, NEW t \in Callers, ApiLog!Event(t)
    PROVE  LogInv'
<1>1. /\ t \in Crew /\ caller[t].step = "rest" /\ phase # "new"
      /\ UNCHANGED <<phase, closed, lines, ended, text, latest, progress, owed, unsure>>
  BY DEF ApiLog!Event, ApiLog!MayCall, ApiLog!At, Crew, ApiLog!Everyone
<1>2. PICK S \in SUBSET Services : \E todo \in ApiLog!Targets(S) :
          caller' = [caller EXCEPT ![t] = ApiLog!Queueing(ApiLog!Calls(t), todo)]
  BY DEF ApiLog!Event
<1>3. LogTypes' /\ CountsTrue' /\ ThreadOrder' /\ FileOrder' /\ QueueOrder' /\ Debts'
  BY <1>1, <1>2, CallBegins
<1>4. Course'  BY <1>1, CourseStays DEF LogInv
<1> QED  BY <1>3, <1>4 DEF LogInv

LEMMA StartStep ==
    ASSUME LogInv, ApiLog!Start
    PROVE  LogInv'
<1>1. /\ Main \in Crew /\ caller[Main].step = "rest" /\ phase = "new" /\ phase' = "starting"
      /\ UNCHANGED <<closed, lines, ended, text, latest, progress, owed, unsure>>
  BY CrewIs DEF ApiLog!Start, LogInv, Course, ApiLog!At
<1>2. PICK todo \in ApiLog!Targets(Services) :
          caller' = [caller EXCEPT ![Main] = ApiLog!Queueing(ApiLog!Calls(Main), todo)]
  BY DEF ApiLog!Start
<1>3. LogTypes' /\ CountsTrue' /\ ThreadOrder' /\ FileOrder' /\ QueueOrder' /\ Debts'
  BY <1>1, <1>2, CallBegins
<1>4. Course'  BY <1>1 DEF LogInv, Course, ApiLog!Stop
<1> QED  BY <1>3, <1>4 DEF LogInv

LEMMA LookStep ==
    ASSUME LogInv, NEW t \in Crew, ApiLog!Look(t)
    PROVE  LogInv'
<1> DEFINE s == IF closed /\ ended THEN "write" ELSE "put"
           d == [caller[t] EXCEPT !.step = s]
<1>1. /\ caller[t].step = "look"
      /\ UNCHANGED <<phase, closed, lines, ended, text, latest, progress, owed, unsure>>
  BY DEF ApiLog!Look, ApiLog!At
<1>2. caller[t] \in Calls /\ s \in {"write", "put"} /\ (s = "write" => ended)
  BY DEF LogInv, LogTypes
<1>3. caller' = [caller EXCEPT ![t] = d]  BY DEF ApiLog!Look
<1> HIDE DEF s
<1>4. /\ d \in Calls /\ d.step = s /\ d.calls = caller[t].calls /\ d.todo = caller[t].todo
  <2>1. ASSUME NEW c \in Calls
        PROVE  LET e == [c EXCEPT !.step = s]
               IN  e \in Calls /\ e.step = s /\ e.calls = c.calls /\ e.todo = c.todo
    BY <1>2 DEF Calls
  <2> QED  BY <1>2, <2>1
<1> HIDE DEF d
<1>5. Sane(t) /\ caller[t].calls \in Nat  BY <1>2, FieldsOfCalls DEF LogInv, ThreadOrder
<1>6. /\ caller' \in [Crew -> Calls] /\ caller'[t] = d
      /\ \A u \in Crew \ {t} : caller'[u] = caller[u]
      /\ ThreadOrder' /\ FileOrder' /\ QueueOrder' /\ Debts'
  <2>1. Once(d.todo) /\ d.todo # << >> /\ d.calls > 0 /\ d.calls >= caller[t].calls
        /\ d.step # "counts"
    BY <1>1, <1>2, <1>4, <1>5 DEF Sane
  <2>2. d.step = "write" => ended  BY <1>2, <1>4
  <2> QED  BY <1>1, <1>3, <1>4, <2>1, <2>2, OneMoves
<1>7. CountsTrue'
  <2>1. \A u \in Crew : /\ caller'[u].step = "counts" <=> caller[u].step = "counts"
                        /\ caller[u].step = "counts" => caller'[u] = caller[u]
    BY <1>1, <1>2, <1>4, <1>6
  <2> QED  BY <1>1, <2>1, CountsStay DEF LogInv
<1>8. LogTypes'
  BY <1>1, <1>6 DEF LogInv, LogTypes, Crew, Paper, Lines, Calls, ApiLog!Everyone, ApiLog!Files
<1>9. Course'
  BY <1>1, CourseStays DEF LogInv, Course, ApiLog!At
<1> QED  BY <1>6, <1>7, <1>8, <1>9 DEF LogInv

\* A thread begins to write progress.json: nobody who is already at it is alone any more.
LEMMA WriteBegins ==
    ASSUME LogInv, NEW t \in Crew, NEW n \in Nat, NEW st \in Statuses,
           ApiLog!Begins(t, n, st), latest' = n,
           UNCHANGED <<closed, text, lines, ended, owed, unsure>>
    PROVE  LogTypes' /\ CountsTrue' /\ ThreadOrder' /\ FileOrder' /\ QueueOrder' /\ Debts'
<1>1. \A u \in Crew : u \in ApiLog!Writing <=> caller[u].step = "counts"
  BY CrewIs DEF ApiLog!Writing, ApiLog!At
<1>2. \A u \in Crew : caller[u] \in Calls  BY DEF LogInv, LogTypes
<1>3. /\ caller'[t] \in Calls /\ caller'[t].calls = caller[t].calls + 1
      /\ caller'[t].todo = caller[t].todo /\ caller'[t].step = "counts"
      /\ caller'[t].counts = n /\ (caller'[t].alone => ApiLog!Writing = {})
  <2> DEFINE b == ApiLog!Writing = {}
  <2>1. ApiLog!Calls(t) \in Calls /\ ApiLog!Calls(t).calls = caller[t].calls + 1
        /\ ApiLog!Calls(t).todo = caller[t].todo
    BY CallsIs DEF LogInv
  <2>2. ASSUME NEW c \in Calls, NEW a \in BOOLEAN
        PROVE  LET e == [c EXCEPT !.step = "counts", !.counts = n, !.status = st, !.alone = a]
               IN  /\ e \in Calls /\ e.step = "counts" /\ e.counts = n /\ e.alone = a
                   /\ e.calls = c.calls /\ e.todo = c.todo
    BY DEF Calls
  <2>3. b \in BOOLEAN  OBVIOUS
  <2>4. caller'[t] = [ApiLog!Calls(t) EXCEPT !.step = "counts", !.counts = n, !.status = st,
                                             !.alone = b]
    BY <1>1, CrewIs DEF ApiLog!Begins
  <2> HIDE DEF b
  <2>5. LET e == [ApiLog!Calls(t) EXCEPT !.step = "counts", !.counts = n, !.status = st, !.alone = b]
        IN  /\ e \in Calls /\ e.step = "counts" /\ e.counts = n /\ e.alone = b
            /\ e.calls = ApiLog!Calls(t).calls /\ e.todo = ApiLog!Calls(t).todo
    BY <2>1, <2>2, <2>3
  <2>6. /\ caller'[t] \in Calls /\ caller'[t].calls = ApiLog!Calls(t).calls
        /\ caller'[t].todo = ApiLog!Calls(t).todo /\ caller'[t].step = "counts"
        /\ caller'[t].counts = n /\ caller'[t].alone = b
    BY <2>4, <2>5
  <2> QED  BY <2>1, <2>6 DEF b
<1>4. ASSUME NEW u \in Crew, u # t
      PROVE  /\ caller'[u] \in Calls /\ caller'[u].calls = caller[u].calls
             /\ caller'[u].todo = caller[u].todo /\ caller'[u].step = caller[u].step
             /\ caller'[u].alone => u \notin ApiLog!Writing
  <2>1. ASSUME NEW c \in Calls, NEW p \in BOOLEAN
        PROVE  LET e == [c EXCEPT !.alone = p]
               IN  /\ e \in Calls /\ e.step = c.step /\ e.alone = p
                   /\ e.calls = c.calls /\ e.todo = c.todo
    BY DEF Calls
  <2> DEFINE p == caller[u].alone /\ u \notin ApiLog!Writing
  <2>2. p \in BOOLEAN /\ (p => u \notin ApiLog!Writing)  OBVIOUS
  <2>3. caller'[u] = [caller[u] EXCEPT !.alone = p]
    BY <1>1, <1>4, CrewIs DEF ApiLog!Begins
  <2> HIDE DEF p
  <2>4. LET e == [caller[u] EXCEPT !.alone = p]
        IN  /\ e \in Calls /\ e.step = caller[u].step /\ e.alone = p
            /\ e.calls = caller[u].calls /\ e.todo = caller[u].todo
    BY <1>2, <2>1, <2>2
  <2>5. caller'[u].alone = p  BY <2>3, <2>4
  <2> QED  BY <2>2, <2>3, <2>4, <2>5
<1>5. caller' \in [Crew -> Calls]
  <2>1. \A u \in Crew : caller'[u] \in Calls  BY <1>3, <1>4
  <2>2. caller' = [u \in Crew |-> caller'[u]]  BY CrewIs DEF ApiLog!Begins
  <2> QED  BY <2>1, <2>2
<1>6. \A u \in Crew : caller[u].calls \in Nat /\ Sane(u)
  BY <1>2, FieldsOfCalls DEF LogInv, ThreadOrder
<1>7. ThreadOrder' /\ FileOrder' /\ QueueOrder' /\ Debts'
  <2>1. ASSUME NEW u \in Crew
        PROVE  /\ caller'[u].todo = caller[u].todo /\ caller'[u].calls \in Nat
               /\ caller'[u].calls >= caller[u].calls
               /\ \/ caller'[u].step = caller[u].step /\ caller'[u].calls = caller[u].calls
                  \/ caller'[u].step = "counts" /\ caller'[u].calls > caller[u].calls
    <3>1. caller[u].calls \in Nat  BY <1>6
    <3>2. CASE u = t
      <4>1. /\ caller'[u].todo = caller[u].todo /\ caller'[u].calls = caller[u].calls + 1
            /\ caller'[u].step = "counts"
        BY <1>3, <3>2
      <4> QED  BY <3>1, <4>1
    <3>3. CASE u # t
      <4>1. /\ caller'[u].todo = caller[u].todo /\ caller'[u].calls = caller[u].calls
            /\ caller'[u].step = caller[u].step
        BY <1>4, <3>3
      <4> QED  BY <3>1, <4>1
    <3> QED  BY <3>2, <3>3
  <2>2. ASSUME NEW u \in Crew
        PROVE  /\ Sane(u)'
               /\ caller'[u].calls = caller[u].calls => \A f \in Paper : Due(f, u)' => Due(f, u)
    <3>1. caller[u].calls \in Nat /\ Sane(u)  BY <1>6
    <3>2. Sane(u)'
      <4>1. CASE caller'[u].step = caller[u].step /\ caller'[u].calls = caller[u].calls
        BY <2>1, <3>1, <4>1 DEF Sane, Once
      <4>2. CASE caller'[u].step = "counts" /\ caller'[u].calls > caller[u].calls
        BY <2>1, <3>1, <4>2 DEF Sane, Once
      <4> QED  BY <2>1, <4>1, <4>2
    <3>3. caller'[u].calls = caller[u].calls => \A f \in Paper : Due(f, u)' => Due(f, u)
      BY <2>1, <3>1 DEF Due
    <3> QED  BY <3>2, <3>3
  <2> QED  BY <1>5, <2>1, <2>2, CallerMoves
<1>8. CountsTrue'
  <2>1. ASSUME NEW u \in Crew, caller'[u].step = "counts", caller'[u].alone
        PROVE  caller'[u].counts = n /\ \A v \in Crew : caller'[v].step = "counts" => v = u
    <3>1. u = t  BY <1>1, <1>4, <2>1
    <3>2. ApiLog!Writing = {} /\ caller'[u].counts = n  BY <1>3, <2>1, <3>1
    <3> QED  BY <1>1, <1>4, <3>1, <3>2
  <2>2. ApiLog!Writing' # {}  BY <1>3, CrewIs DEF ApiLog!Writing, ApiLog!At, ApiLog!Everyone
  <2>3. ApiLog!ProgressIsLatest'  BY <2>2 DEF ApiLog!ProgressIsLatest
  <2> QED  BY <2>1, <2>3 DEF CountsTrue, ApiLog!At, Crew
<1>9. LogTypes'
  BY <1>5 DEF LogInv, LogTypes, Crew, Paper, Lines, Calls, ApiLog!Everyone, ApiLog!Files
<1> QED  BY <1>7, <1>8, <1>9

LEMMA ProgressSteps ==
    ASSUME LogInv, \/ \E t \in Callers : ApiLog!Progress(t)
                   \/ ApiLog!Snapshot \/ ApiLog!Finish
    PROVE  LogInv'
<1>1. latest \in Nat /\ latest + 1 \in Nat  BY DEF LogInv, LogTypes
<1>2. "" \in Statuses /\ {"done", "failed"} \subseteq Statuses  BY DEF Statuses
<1>3. ASSUME NEW t \in Callers, ApiLog!Progress(t) PROVE LogInv'
  <2>1. /\ t \in Crew /\ ApiLog!Begins(t, latest + 1, "") /\ latest' = latest + 1
        /\ UNCHANGED <<phase, closed, lines, ended, text, owed, unsure>> /\ phase # "new"
    BY <1>3 DEF ApiLog!Progress, Crew, ApiLog!Everyone
  <2>2. LogTypes' /\ CountsTrue' /\ ThreadOrder' /\ FileOrder' /\ QueueOrder' /\ Debts'
    BY <1>1, <1>2, <2>1, WriteBegins
  <2> QED  BY <2>1, <2>2, CourseStays DEF LogInv
<1>4. CASE ApiLog!Snapshot
  <2>1. /\ ApiLog!Begins(Ticker, latest, "") /\ latest' = latest
        /\ UNCHANGED <<phase, closed, lines, ended, text, owed, unsure>> /\ phase # "new"
    BY <1>4 DEF ApiLog!Snapshot
  <2>2. LogTypes' /\ CountsTrue' /\ ThreadOrder' /\ FileOrder' /\ QueueOrder' /\ Debts'
    BY <1>1, <1>2, <2>1, WriteBegins, CrewIs
  <2> QED  BY <2>1, <2>2, CourseStays DEF LogInv
<1>5. CASE ApiLog!Finish
  <2>1. /\ latest' = latest /\ phase = "run" /\ phase' = "finish"
        /\ UNCHANGED <<closed, lines, ended, text, owed, unsure>>
    BY <1>5 DEF ApiLog!Finish
  <2>2. PICK st \in {"done", "failed"} : ApiLog!Begins(Main, latest, st)
    BY <1>5 DEF ApiLog!Finish
  <2>3. LogTypes' /\ CountsTrue' /\ ThreadOrder' /\ FileOrder' /\ QueueOrder' /\ Debts'
    BY <1>1, <1>2, <2>1, <2>2, WriteBegins, CrewIs
  <2>4. Course'  BY <2>1 DEF LogInv, Course, ApiLog!Stop
  <2> QED  BY <2>3, <2>4 DEF LogInv
<1> QED  BY <1>3, <1>4, <1>5

LEMMA ToldIs ==
    ASSUME NEW c \in Calls
    PROVE  ApiLog!Told(c) \in Calls /\ ApiLog!Told(c).calls = c.calls
<1>1. PICK s \in Statuses : ApiLog!Told(c) = [c EXCEPT !.counts = 0, !.status = s, !.alone = TRUE]
  BY Zenon DEF ApiLog!Told, Statuses
<1>2. ASSUME NEW d \in Calls, NEW s2 \in Statuses
      PROVE  LET e == [d EXCEPT !.counts = 0, !.status = s2, !.alone = TRUE]
             IN  e \in Calls /\ e.calls = d.calls
  BY DEF Calls
<1> QED  BY <1>1, <1>2

LEMMA ReplaceStep ==
    ASSUME LogInv, NEW t \in Crew, ApiLog!Replaces(t)
    PROVE  LogInv'
<1>1. /\ caller[t].step = "counts" /\ phase # "new"
      /\ UNCHANGED <<phase, closed, lines, ended, text, latest, owed>>
  BY DEF ApiLog!Replaces, ApiLog!At, LogInv, Course
<1>2. PICK todo \in Seq(Paper) :
          /\ Once(todo)
          /\ caller' = [caller EXCEPT ![t] = ApiLog!Queueing(ApiLog!Told(caller[t]), todo)]
  <2>1. PICK S \in SUBSET Services : \E todo \in ApiLog!Targets(S) :
            \/ caller' = [caller EXCEPT ![t] = ApiLog!Queueing(ApiLog!Told(@), todo)]
            \/ caller' = [caller EXCEPT ![t] = ApiLog!Queueing(ApiLog!Told(@), ApiLog!Front(todo))]
    BY DEF ApiLog!Replaces
  <2>2. PICK todo \in ApiLog!Targets(S) :
            \/ caller' = [caller EXCEPT ![t] = ApiLog!Queueing(ApiLog!Told(@), todo)]
            \/ caller' = [caller EXCEPT ![t] = ApiLog!Queueing(ApiLog!Told(@), ApiLog!Front(todo))]
    BY <2>1
  <2>3. /\ todo \in Seq(Paper) /\ Once(todo)
        /\ ApiLog!Front(todo) \in Seq(Paper) /\ Once(ApiLog!Front(todo))
    BY TargetsAreOnce
  <2>4. CASE caller' = [caller EXCEPT ![t] = ApiLog!Queueing(ApiLog!Told(@), todo)]
    BY <2>3, <2>4
  <2>5. CASE caller' = [caller EXCEPT ![t] = ApiLog!Queueing(ApiLog!Told(@), ApiLog!Front(todo))]
    BY <2>3, <2>5
  <2> QED  BY <2>2, <2>4, <2>5
<1> DEFINE d == ApiLog!Queueing(ApiLog!Told(caller[t]), todo)
<1>3. caller[t] \in Calls  BY DEF LogInv, LogTypes
<1>4. Sane(t) /\ caller[t].calls \in Nat  BY <1>3, FieldsOfCalls DEF LogInv, ThreadOrder
<1>5. /\ d \in Calls /\ d.calls = caller[t].calls /\ d.todo = todo
      /\ d.step = IF todo = << >> THEN "rest" ELSE "look"
  <2>1. ApiLog!Told(caller[t]) \in Calls /\ ApiLog!Told(caller[t]).calls = caller[t].calls
    BY <1>3, ToldIs
  <2> QED  BY <2>1, QueueingIs
<1> HIDE DEF d
<1>6. caller' = [caller EXCEPT ![t] = d]  BY <1>2 DEF d
<1>7. /\ caller' \in [Crew -> Calls] /\ caller'[t] = d
      /\ \A u \in Crew \ {t} : caller'[u] = caller[u]
      /\ ThreadOrder' /\ FileOrder' /\ QueueOrder' /\ Debts'
  <2>1. Once(d.todo) /\ d.calls > 0 /\ d.calls >= caller[t].calls
    BY <1>1, <1>2, <1>4, <1>5 DEF Sane
  <2>2. d.step # "write" /\ (d.step = "look" => d.todo # << >>) /\ d.step \in {"rest", "look"}
    BY <1>5
  <2> QED  BY <1>1, <1>5, <1>6, <2>1, <2>2, OneMoves
<1>8. CountsTrue'
  <2>1. d.step # "counts"  BY <1>5
  <2>2. \A u \in Crew : caller'[u].step = "counts" => ~caller'[u].alone
    BY <1>1, <1>7, <2>1 DEF LogInv, CountsTrue, ApiLog!At
  <2>3. ~unsure' => progress'.counts = latest
    <3>1. SUFFICES ASSUME ~unsure' PROVE progress'.counts = latest  OBVIOUS
    <3>2. caller[t].alone /\ progress' = [counts |-> caller[t].counts, status |-> caller[t].status]
      BY <3>1 DEF ApiLog!Replaces
    <3>3. caller[t].counts = latest  BY <1>1, <3>2 DEF LogInv, CountsTrue, ApiLog!At
    <3> QED  BY <3>2, <3>3
  <2>4. ApiLog!ProgressIsLatest'  BY <1>1, <2>3 DEF ApiLog!ProgressIsLatest
  <2> QED  BY <2>2, <2>4 DEF CountsTrue, ApiLog!At, Crew
<1>9. unsure' \in BOOLEAN
  BY DEF ApiLog!Replaces
<1>10. LogTypes'
  BY <1>1, <1>7, <1>9 DEF LogInv, LogTypes, Crew, Paper, Lines, Calls, ApiLog!Everyone, ApiLog!Files
<1>11. Course'  BY <1>1, CourseStays DEF LogInv
<1> QED  BY <1>7, <1>8, <1>10, <1>11 DEF LogInv

LEMMA QuietStep ==
    ASSUME LogInv, closed' \in BOOLEAN, Course',
           UNCHANGED <<lines, ended, text, latest, progress, caller, owed, unsure>>
    PROVE  LogInv'
<1>1. LogTypes'  BY DEF LogInv, LogTypes, Crew, Paper, Lines, Calls, ApiLog!Everyone, ApiLog!Files
<1>2. CountsTrue'  BY CountsStay DEF LogInv
<1>3. ThreadOrder' /\ FileOrder' /\ QueueOrder' /\ Debts'
  <2>1. \A t \in Crew : caller[t].calls \in Nat
    <3>1. \A t \in Crew : caller[t] \in Calls  BY DEF LogInv, LogTypes
    <3> QED  BY <3>1, FieldsOfCalls
  <2>2. \A t \in Crew : Sane(t)'  BY DEF LogInv, ThreadOrder, Sane, Once
  <2>3. \A t \in Crew : /\ caller'[t].calls >= caller[t].calls
                        /\ \A f \in Paper : Due(f, t)' => Due(f, t)
    BY <2>1 DEF Due
  <2> QED  BY <2>2, <2>3, CallerMoves DEF LogInv, LogTypes
<1> QED  BY <1>1, <1>2, <1>3 DEF LogInv

LEMMA PhaseSteps ==
    ASSUME LogInv, ApiLog!Run \/ ApiLog!Close \/ ApiLog!Joined
    PROVE  LogInv'
<1>1. closed \in BOOLEAN  BY DEF LogInv, LogTypes
<1>2. CASE ApiLog!Run
  <2>1. Course'  BY <1>2 DEF ApiLog!Run, LogInv, Course, ApiLog!Stop
  <2> QED  BY <1>1, <1>2, <2>1, QuietStep DEF ApiLog!Run
<1>3. CASE ApiLog!Close
  <2>1. Course'  BY <1>3 DEF ApiLog!Close, LogInv, Course, ApiLog!Stop
  <2> QED  BY <1>3, <2>1, QuietStep DEF ApiLog!Close
<1>4. CASE ApiLog!Joined
  <2>1. Course'  BY <1>4 DEF ApiLog!Joined, LogInv, Course, ApiLog!Stop
  <2> QED  BY <1>1, <1>4, <2>1, QuietStep DEF ApiLog!Joined
<1> QED  BY <1>2, <1>3, <1>4

LEMMA Appended ==
    ASSUME NEW S, NEW s \in Seq(S), NEW x \in S
    PROVE  /\ Append(s, x) \in Seq(S) /\ Len(s) \in Nat /\ DOMAIN s = 1..Len(s)
           /\ DOMAIN Append(s, x) = 1..(Len(s) + 1)
           /\ \A i \in 1..Len(s) : Append(s, x)[i] = s[i]
           /\ Append(s, x)[Len(s) + 1] = x
OBVIOUS

\* What a thread has left to queue after a line.
LEMMA TailIs ==
    ASSUME NEW todo \in Seq(Paper), Once(todo), todo # << >>
    PROVE  /\ Head(todo) \in Paper /\ Tail(todo) \in Seq(Paper) /\ Once(Tail(todo))
           /\ \E i \in DOMAIN todo : todo[i] = Head(todo)
           /\ \A i \in DOMAIN Tail(todo) : /\ Tail(todo)[i] # Head(todo)
                                           /\ \E j \in DOMAIN todo : todo[j] = Tail(todo)[i]
<1>1. /\ Head(todo) = todo[1] /\ 1 \in DOMAIN todo /\ Tail(todo) \in Seq(Paper)
      /\ \A i \in DOMAIN Tail(todo) : /\ i \in Nat /\ i + 1 \in DOMAIN todo /\ i + 1 # 1
                                      /\ Tail(todo)[i] = todo[i + 1]
  OBVIOUS
<1>2. Head(todo) \in Paper  OBVIOUS
<1>3. Once(Tail(todo))
  <2> SUFFICES ASSUME NEW i \in DOMAIN Tail(todo), NEW j \in DOMAIN Tail(todo),
                      Tail(todo)[i] = Tail(todo)[j]
               PROVE  i = j
    BY DEF Once
  <2>1. i + 1 = j + 1  BY <1>1 DEF Once
  <2> QED  BY <1>1, <2>1
<1> QED  BY <1>1, <1>2, <1>3 DEF Once

LEMMA NextLine ==
    ASSUME LogInv, NEW t \in Crew, caller[t].step \in {"put", "write"}, ended' = ended,
           caller' = [caller EXCEPT ![t] = ApiLog!Queueing(@, Tail(@.todo))],
           UNCHANGED <<latest, progress, unsure>>
    PROVE  /\ caller' \in [Crew -> Calls] /\ ThreadOrder' /\ CountsTrue'
           /\ Head(caller[t].todo) \in Paper
           /\ Due(Head(caller[t].todo), t)
           /\ \A f \in Paper : Due(f, t)' => f # Head(caller[t].todo)
           /\ \A u \in Crew : /\ caller[u].calls \in Nat /\ caller'[u].calls = caller[u].calls
                              /\ \A f \in Paper : Due(f, u)' => Due(f, u)
           /\ caller[t].calls > 0
<1> DEFINE todo == caller[t].todo
           d == ApiLog!Queueing(caller[t], Tail(todo))
<1>1. \A u \in Crew : caller[u] \in Calls  BY DEF LogInv, LogTypes
<1>2. \A u \in Crew : caller[u].calls \in Nat /\ caller[u].todo \in Seq(Paper) /\ Sane(u)
  BY <1>1, FieldsOfCalls DEF LogInv, ThreadOrder
<1>3. todo \in Seq(Paper) /\ Once(todo) /\ todo # << >> /\ caller[t].calls > 0
  BY <1>2 DEF Sane
<1>4. /\ Head(todo) \in Paper /\ Tail(todo) \in Seq(Paper) /\ Once(Tail(todo))
      /\ \E i \in DOMAIN todo : todo[i] = Head(todo)
      /\ \A i \in DOMAIN Tail(todo) : /\ Tail(todo)[i] # Head(todo)
                                      /\ \E j \in DOMAIN todo : todo[j] = Tail(todo)[i]
  BY <1>3, TailIs
<1>5. /\ d \in Calls /\ d.calls = caller[t].calls /\ d.todo = Tail(todo)
      /\ d.step = IF Tail(todo) = << >> THEN "rest" ELSE "look"
  BY <1>1, <1>4, QueueingIs
<1>6. caller' = [caller EXCEPT ![t] = d]  OBVIOUS
<1> HIDE DEF d
<1>7. /\ caller' \in [Crew -> Calls] /\ caller'[t] = d
      /\ \A u \in Crew \ {t} : caller'[u] = caller[u]
  BY <1>5, <1>6 DEF LogInv, LogTypes
<1>8. \A u \in Crew : Sane(u)'
  <2>1. Sane(t)'
    <3>1. Once(caller'[t].todo) /\ caller'[t].calls > 0 /\ caller'[t].step \in {"rest", "look"}
          /\ (caller'[t].step = "look" => caller'[t].todo # << >>)
      BY <1>3, <1>4, <1>5, <1>7
    <3> QED  BY <3>1 DEF Sane, Once
  <2>2. ASSUME NEW u \in Crew, u # t PROVE Sane(u)'
    <3>1. caller'[u] = caller[u] /\ Sane(u)  BY <1>2, <1>7, <2>2
    <3> QED  BY <3>1 DEF Sane, Once
  <2> QED  BY <2>1, <2>2
<1>9. CountsTrue'
  <2>1. \A u \in Crew : /\ caller'[u].step = "counts" <=> caller[u].step = "counts"
                        /\ caller[u].step = "counts" => caller'[u] = caller[u]
    BY <1>5, <1>7
  <2> QED  BY <2>1, CountsStay DEF LogInv
<1>10. Due(Head(todo), t)  BY <1>4 DEF Due
<1>11. ASSUME NEW f \in Paper, Due(f, t)' PROVE Due(f, t) /\ f # Head(todo)
  <2>1. caller'[t].todo = Tail(todo) /\ caller'[t].step # "counts"  BY <1>5, <1>7
  <2>2. PICK i \in DOMAIN Tail(todo) : Tail(todo)[i] = f  BY <1>11, <2>1 DEF Due
  <2> QED  BY <1>4, <2>2 DEF Due
<1>12. \A u \in Crew : \A f \in Paper : Due(f, u)' => Due(f, u)
  BY <1>7, <1>11 DEF Due
<1> HIDE DEF todo
<1>13. \A u \in Crew : caller'[u].calls = caller[u].calls  BY <1>5, <1>7
<1> QED
  BY <1>2, <1>3, <1>4, <1>7, <1>8, <1>9, <1>10, <1>11, <1>12, <1>13 DEF ThreadOrder, Crew, todo

LEMMA StopIs ==
    /\ ApiLog!Stop = [file |-> Common, line |-> <<Main, 0>>]
    /\ ApiLog!Stop \in [file : Paper, line : Lines] /\ ApiLog!Stop.line[2] = 0
BY CrewIs DEF ApiLog!Stop, Lines

LEMMA PutStopStep ==
    ASSUME LogInv, ApiLog!PutStop
    PROVE  LogInv'
<1>1. /\ phase = "stop" /\ phase' = "join" /\ lines' = Append(lines, ApiLog!Stop)
      /\ UNCHANGED <<closed, ended, text, latest, progress, caller, owed, unsure>>
  BY DEF ApiLog!PutStop
<1>2. lines \in Seq([file : Paper, line : Lines])  BY DEF LogInv, LogTypes
<1>3. /\ lines' \in Seq([file : Paper, line : Lines])
      /\ Len(lines) \in Nat /\ DOMAIN lines = 1..Len(lines)
      /\ DOMAIN lines' = 1..(Len(lines) + 1)
      /\ \A i \in 1..Len(lines) : lines'[i] = lines[i]
      /\ lines'[Len(lines) + 1] = ApiLog!Stop
  BY <1>1, <1>2, StopIs, Appended
<1>4. LogTypes'
  BY <1>1, <1>3 DEF LogInv, LogTypes, Crew, Paper, Lines, Calls, ApiLog!Everyone, ApiLog!Files
<1>5. CountsTrue'  BY <1>1, CountsStay DEF LogInv
<1>6. ThreadOrder' /\ FileOrder'
  BY <1>1 DEF LogInv, ThreadOrder, Sane, Once, FileOrder, Due, Crew, Paper
<1>7. QueueOrder'
  <2>1. ASSUME NEW i \in DOMAIN lines', NEW f, NEW t, NEW c, Holds(i, f, t, c)'
        PROVE  i \in DOMAIN lines /\ Holds(i, f, t, c)
    <3>1. lines'[i] # ApiLog!Stop /\ lines'[i] = [file |-> f, line |-> <<t, c>>]
      BY <2>1 DEF Holds, ApiLog!Stop
    <3>2. i \in 1..Len(lines)  BY <1>3, <3>1
    <3> QED  BY <1>3, <3>1, <3>2 DEF Holds
  <2>2. \A f, t, c : Newer(f, t, c)' = Newer(f, t, c)  BY <1>1 DEF Newer, Due
  <2> QED  BY <2>1, <2>2 DEF LogInv, QueueOrder, Paper, Crew
<1>8. Debts'
  <2>1. ASSUME NEW o \in owed, InQueue(o) PROVE InQueue(o)'
    <3>1. PICK i \in DOMAIN lines : /\ lines[i] = [file |-> o[1], line |-> o[2]]
                                    /\ \A j \in 1..i : lines[j] # ApiLog!Stop
      BY <2>1 DEF InQueue
    <3>2. /\ i \in DOMAIN lines' /\ lines'[i] = lines[i] /\ \A j \in 1..i : lines'[j] = lines[j]
      BY <1>3
    <3> QED  BY <3>1, <3>2 DEF InQueue, ApiLog!Stop
  <2> QED  BY <1>1, <2>1 DEF LogInv, Debts, InFile
<1>9. Course'  BY <1>1 DEF LogInv, Course
<1> QED  BY <1>4, <1>5, <1>6, <1>7, <1>8, <1>9 DEF LogInv

LEMMA PutStep ==
    ASSUME LogInv, NEW t \in Crew, ApiLog!Put(t)
    PROVE  LogInv'
<1>1. PICK f, c, n, x : /\ f = Head(caller[t].todo) /\ c = caller[t].calls /\ n = Len(lines) + 1
                        /\ x = [file |-> f, line |-> <<t, c>>]
  OBVIOUS
<1>2. /\ caller[t].step = "put" /\ lines' = Append(lines, x)
      /\ owed' = IF closed THEN owed ELSE owed \cup {<<f, <<t, c>>>>}
      /\ caller' = [caller EXCEPT ![t] = ApiLog!Queueing(@, Tail(@.todo))]
      /\ UNCHANGED <<phase, closed, ended, text, latest, progress, unsure>>
  BY <1>1 DEF ApiLog!Put, ApiLog!At, ApiLog!LineOf
<1>3. /\ caller' \in [Crew -> Calls] /\ ThreadOrder' /\ CountsTrue'
      /\ f \in Paper /\ Due(f, t)
      /\ ~Due(f, t)'
      /\ \A u \in Crew : /\ caller[u].calls \in Nat /\ caller'[u].calls = caller[u].calls
                         /\ \A g \in Paper : Due(g, u)' => Due(g, u)
      /\ c > 0 /\ c \in Nat
  <2>1. /\ caller' \in [Crew -> Calls] /\ ThreadOrder' /\ CountsTrue'
        /\ Head(caller[t].todo) \in Paper
        /\ Due(Head(caller[t].todo), t)
        /\ \A g \in Paper : Due(g, t)' => g # Head(caller[t].todo)
        /\ \A u \in Crew : /\ caller[u].calls \in Nat /\ caller'[u].calls = caller[u].calls
                           /\ \A g \in Paper : Due(g, u)' => Due(g, u)
        /\ caller[t].calls > 0
    BY <1>2, NextLine
  <2> QED  BY <1>1, <2>1
<1>4. x \in [file : Paper, line : Lines] /\ x # ApiLog!Stop
  <2>1. <<t, c>> \in Lines /\ <<t, c>>[2] = c  BY <1>3 DEF Lines
  <2>2. x.line = <<t, c>> /\ x \in [file : Paper, line : Lines]  BY <1>1, <1>3, <2>1
  <2> QED  BY <1>3, <2>1, <2>2, StopIs
<1>5. lines \in Seq([file : Paper, line : Lines])  BY DEF LogInv, LogTypes
<1>6. /\ lines' \in Seq([file : Paper, line : Lines])
      /\ n \in Nat /\ n \notin DOMAIN lines /\ DOMAIN lines \subseteq 1..n /\ DOMAIN lines = 1..(n - 1)
      /\ DOMAIN lines' = 1..n /\ DOMAIN lines' = DOMAIN lines \cup {n}
      /\ \A i \in DOMAIN lines : lines'[i] = lines[i] /\ i < n
      /\ lines'[n] = x
  BY <1>1, <1>2, <1>4, <1>5, Appended
<1>7. LogTypes'
  <2>1. <<f, <<t, c>>>> \in Paper \X Lines  BY <1>3 DEF Lines
  <2>2. owed' \subseteq Paper \X Lines  BY <1>2, <2>1 DEF LogInv, LogTypes
  <2> QED
    BY <1>2, <1>3, <1>6, <2>2
       DEF LogInv, LogTypes, Crew, Paper, Lines, Calls, ApiLog!Everyone, ApiLog!Files
<1>8. FileOrder'
  <2>1. \A g \in Paper, u \in Crew : \A i \in DOMAIN text[g][u] :
            /\ text[g][u][i] <= caller'[u].calls
            /\ Due(g, u)' => text[g][u][i] < caller'[u].calls
    BY <1>3 DEF LogInv, FileOrder
  <2> QED  BY <1>2, <2>1 DEF LogInv, FileOrder, Crew, Paper
<1>9. QueueOrder'
  <2>1. \A i \in DOMAIN lines : \A g, u, m : Holds(i, g, u, m)' = Holds(i, g, u, m)
    BY <1>6 DEF Holds, ApiLog!Stop
  <2>2. \A g, u, m : Holds(n, g, u, m)' => g = f /\ u = t /\ m = c
    <3> SUFFICES ASSUME NEW g, NEW u, NEW m, Holds(n, g, u, m)'
                 PROVE  g = f /\ u = t /\ m = c
      OBVIOUS
    <3>1. x = [file |-> g, line |-> <<u, m>>]
      BY <1>6 DEF Holds
    <3>2. x.file = g /\ x.line = <<u, m>> /\ x.file = f /\ x.line = <<t, c>>  BY <1>1, <3>1
    <3> QED  BY <3>2
  <2>3. \A g \in Paper, u \in Crew, m \in Nat : Newer(g, u, m) => Newer(g, u, m)'
    BY <1>2, <1>3 DEF Newer
  <2>4. Newer(f, t, c)'
    <3>1. \A k \in DOMAIN text[f][t] : text[f][t][k] < c
      BY <1>1, <1>3 DEF LogInv, FileOrder
    <3>2. caller'[t].calls = c  BY <1>1, <1>3
    <3> QED  BY <1>2, <1>3, <3>1, <3>2 DEF Newer
  <2>5. ASSUME NEW i \in DOMAIN lines, NEW g \in Paper, NEW u \in Crew, NEW m \in Nat,
               Holds(i, g, u, m)
        PROVE  /\ Newer(g, u, m)'
               /\ \A j \in DOMAIN lines', o \in Nat : j > i /\ Holds(j, g, u, o)' => m < o
    <3>1. /\ Newer(g, u, m)
          /\ \A j \in DOMAIN lines, o \in Nat : j > i /\ Holds(j, g, u, o) => m < o
      BY <2>5 DEF LogInv, QueueOrder
    <3>2. (g = f /\ u = t) => m < c  BY <1>1, <1>3, <3>1 DEF Newer
    <3>3. Newer(g, u, m)'  BY <2>3, <3>1
    <3>4. ASSUME NEW j \in DOMAIN lines', NEW o \in Nat, j > i, Holds(j, g, u, o)' PROVE m < o
      <4>1. CASE j \in DOMAIN lines  BY <2>1, <3>1, <3>4, <4>1
      <4>2. CASE j = n  BY <2>2, <3>2, <3>4, <4>2
      <4> QED  BY <1>6, <4>1, <4>2
    <3> QED  BY <3>3, <3>4
  <2>6. ASSUME NEW i \in DOMAIN lines', NEW g \in Paper, NEW u \in Crew, NEW m \in Nat,
               Holds(i, g, u, m)'
        PROVE  /\ Newer(g, u, m)'
               /\ \A j \in DOMAIN lines', o \in Nat : j > i /\ Holds(j, g, u, o)' => m < o
    <3>1. CASE i \in DOMAIN lines  BY <2>1, <2>5, <2>6, <3>1
    <3>2. CASE i = n
      <4>1. \A j \in DOMAIN lines' : ~(j > i)  BY <1>6, <3>2
      <4>2. g = f /\ u = t /\ m = c  BY <2>2, <2>6, <3>2
      <4> QED  BY <2>4, <4>1, <4>2
    <3> QED  BY <1>6, <3>1, <3>2
  <2> QED
    BY <2>6 DEF QueueOrder, Crew, Paper
<1>10. \A i \in DOMAIN lines : \A j \in 1..i : j \in DOMAIN lines
  BY <1>6
<1>11. Debts'
  <2>1. ASSUME NEW o \in owed, InQueue(o) PROVE InQueue(o)'
    <3>1. PICK i \in DOMAIN lines : /\ lines[i] = [file |-> o[1], line |-> o[2]]
                                    /\ \A j \in 1..i : lines[j] # ApiLog!Stop
      BY <2>1 DEF InQueue
    <3>2. /\ i \in DOMAIN lines' /\ lines'[i] = lines[i] /\ \A j \in 1..i : lines'[j] = lines[j]
      BY <1>6, <1>10
    <3> QED  BY <3>1, <3>2 DEF InQueue, ApiLog!Stop
  <2>2. \A o \in owed : InFile(o)' \/ (~ended' /\ InQueue(o)')
    BY <1>2, <2>1 DEF LogInv, Debts, InFile
  <2>3. CASE closed  BY <1>2, <2>2, <2>3 DEF Debts
  <2>4. CASE ~closed
    <3>1. ~ended /\ \A i \in DOMAIN lines : lines[i] # ApiLog!Stop
      BY <2>4 DEF LogInv, Course
    <3>2. \A j \in 1..n : lines'[j] # ApiLog!Stop  BY <1>4, <1>6, <3>1
    <3>3. \A o : o = <<f, <<t, c>>>> => InQueue(o)'
      <4> SUFFICES ASSUME NEW o, o = <<f, <<t, c>>>> PROVE InQueue(o)'  OBVIOUS
      <4>1. x = [file |-> o[1], line |-> o[2]]  BY <1>1
      <4>2. n \in DOMAIN lines' /\ lines'[n] = [file |-> o[1], line |-> o[2]]  BY <1>6, <4>1
      <4> QED  BY <3>2, <4>2 DEF InQueue, ApiLog!Stop
    <3>4. owed' = owed \cup {<<f, <<t, c>>>>} /\ ~ended'  BY <1>2, <2>4, <3>1
    <3>5. \A o \in owed' : o \in owed \/ o = <<f, <<t, c>>>>  BY <3>4
    <3> QED  BY <2>2, <3>3, <3>4, <3>5 DEF Debts
  <2> QED  BY <2>3, <2>4
<1>12. Course'
  <2>1. phase # "new"  BY <1>2 DEF LogInv, Course, ApiLog!At
  <2>2. \A i \in DOMAIN lines' : lines'[i] # ApiLog!Stop \/ (i \in DOMAIN lines /\ lines[i] = ApiLog!Stop)
    BY <1>4, <1>6
  <2> QED  BY <1>2, <2>1, <2>2 DEF LogInv, Course, ApiLog!Stop
<1> QED  BY <1>3, <1>7, <1>8, <1>9, <1>11, <1>12 DEF LogInv

\* A line is written to a file: only this file's lines of this thread change, by one at the end.
Adds(old, new, f, t, c) ==
    /\ new \in [Paper -> [Crew -> Seq(Nat)]]
    /\ \A g \in Paper, u \in Crew : g # f \/ u # t => new[g][u] = old[g][u]
    /\ \A g \in Paper, u \in Crew : \A i \in DOMAIN old[g][u] :
           i \in DOMAIN new[g][u] /\ new[g][u][i] = old[g][u][i]
    /\ \A i \in DOMAIN new[f][t] :
           /\ i \in Int
           /\ \/ i \in DOMAIN old[f][t] /\ new[f][t][i] = old[f][t][i]
              \/ new[f][t][i] = c /\ \A j \in DOMAIN new[f][t] : j <= i
    /\ \E i \in DOMAIN new[f][t] : new[f][t][i] = c

LEMMA LineWritten ==
    ASSUME NEW old \in [Paper -> [Crew -> Seq(Nat)]], NEW new,
           NEW f \in Paper, NEW t \in Crew, NEW c \in Nat,
           new = [old EXCEPT ![f][t] = Append(@, c)]
    PROVE  Adds(old, new, f, t, c)
<1>1. PICK s \in Seq(Nat) : s = old[f][t]  OBVIOUS
<1>2. /\ Append(s, c) \in Seq(Nat) /\ Len(s) \in Nat /\ DOMAIN s = 1..Len(s)
      /\ DOMAIN Append(s, c) = 1..(Len(s) + 1)
      /\ \A i \in 1..Len(s) : Append(s, c)[i] = s[i]
      /\ Append(s, c)[Len(s) + 1] = c
  BY Appended
<1>3. PICK r : r = Append(s, c)  OBVIOUS
<1>4. new = [old EXCEPT ![f] = [old[f] EXCEPT ![t] = r]]  BY <1>1, <1>3
<1>5. [old[f] EXCEPT ![t] = r] \in [Crew -> Seq(Nat)]  BY <1>2, <1>3
<1>6. new \in [Paper -> [Crew -> Seq(Nat)]]  BY <1>4, <1>5
<1>7. new[f][t] = r  BY <1>4
<1>8. \A g \in Paper, u \in Crew : g # f \/ u # t => new[g][u] = old[g][u]
  BY <1>4
<1>9. /\ \A i \in DOMAIN s : i \in DOMAIN r /\ r[i] = s[i]
      /\ \A i \in DOMAIN r : /\ i \in Int
                             /\ \/ i \in DOMAIN s /\ r[i] = s[i]
                                \/ r[i] = c /\ \A j \in DOMAIN r : j <= i
      /\ \E i \in DOMAIN r : r[i] = c
  <2>1. /\ r \in Seq(Nat) /\ Len(s) \in Nat /\ DOMAIN s = 1..Len(s)
        /\ DOMAIN r = 1..(Len(s) + 1)
        /\ \A i \in 1..Len(s) : r[i] = s[i]
        /\ r[Len(s) + 1] = c
    BY <1>2, <1>3
  <2>2. PICK n \in Nat : n = Len(s)  BY <2>1
  <2>3. \A i \in DOMAIN s : i \in DOMAIN r /\ r[i] = s[i]  BY <2>1, <2>2
  <2>4. ASSUME NEW i \in DOMAIN r
        PROVE  /\ i \in Int
               /\ \/ i \in DOMAIN s /\ r[i] = s[i]
                  \/ r[i] = c /\ \A j \in DOMAIN r : j <= i
    <3>1. CASE i \in 1..n  BY <2>1, <2>2, <3>1
    <3>2. CASE i = n + 1  BY <2>1, <2>2, <3>2
    <3> QED  BY <2>1, <2>2, <3>1, <3>2
  <2>5. \E i \in DOMAIN r : r[i] = c
    <3>1. n + 1 \in DOMAIN r /\ r[n + 1] = c  BY <2>1, <2>2
    <3> QED  BY <3>1
  <2> QED  BY <2>3, <2>4, <2>5
<1>10. \A g \in Paper, u \in Crew : \A i \in DOMAIN old[g][u] :
           i \in DOMAIN new[g][u] /\ new[g][u][i] = old[g][u][i]
  BY <1>1, <1>7, <1>8, <1>9
<1> QED  BY <1>1, <1>6, <1>7, <1>8, <1>9, <1>10 DEF Adds

\* The files stay in order, and what is in a file stays there.
LEMMA FilesGrow ==
    ASSUME LogInv, NEW f \in Paper, NEW t \in Crew, NEW c \in Nat,
           text' = [text EXCEPT ![f][t] = Append(@, c)],
           \A k \in DOMAIN text[f][t] : text[f][t][k] < c,
           c <= caller[t].calls, Due(f, t)' => c < caller[t].calls,
           \A u \in Crew : /\ caller'[u].calls = caller[u].calls
                           /\ \A g \in Paper : Due(g, u)' => Due(g, u)
    PROVE  /\ text' \in [Paper -> [Crew -> Seq(Nat)]] /\ FileOrder'
           /\ \A o \in Paper \X Lines : InFile(o) \/ o = <<f, <<t, c>>>> => InFile(o)'
           /\ \A g \in Paper, u \in Crew : g # f \/ u # t => text'[g][u] = text[g][u]
           /\ \A k \in DOMAIN text'[f][t] : text'[f][t][k] <= c
<1> Adds(text, text', f, t, c)
  BY LineWritten DEF LogInv, LogTypes
<1>1. /\ text' \in [Paper -> [Crew -> Seq(Nat)]]
      /\ \A g \in Paper, u \in Crew : g # f \/ u # t => text'[g][u] = text[g][u]
      /\ \A g \in Paper, u \in Crew : \A i \in DOMAIN text[g][u] :
             i \in DOMAIN text'[g][u] /\ text'[g][u][i] = text[g][u][i]
      /\ \A i \in DOMAIN text'[f][t] :
             /\ i \in Int
             /\ \/ i \in DOMAIN text[f][t] /\ text'[f][t][i] = text[f][t][i]
                \/ text'[f][t][i] = c /\ \A j \in DOMAIN text'[f][t] : j <= i
      /\ \E i \in DOMAIN text'[f][t] : text'[f][t][i] = c
  BY DEF Adds
<1>2. \A k \in DOMAIN text[f][t] : text[f][t][k] \in Nat
  <2>1. text[f][t] \in Seq(Nat)  BY DEF LogInv, LogTypes
  <2> QED  BY <2>1, Element
<1>3. \A k \in DOMAIN text'[f][t] : text'[f][t][k] <= c /\ text'[f][t][k] \in Nat
  BY <1>1, <1>2
<1>4. FileOrder'
  <2> SUFFICES ASSUME NEW g \in Paper, NEW u \in Crew
               PROVE  /\ \A i, j \in DOMAIN text'[g][u] : i < j => text'[g][u][i] < text'[g][u][j]
                      /\ \A i \in DOMAIN text'[g][u] :
                             /\ text'[g][u][i] <= caller'[u].calls
                             /\ Due(g, u)' => text'[g][u][i] < caller'[u].calls
    BY DEF FileOrder, Crew, Paper
  <2>1. /\ \A i, j \in DOMAIN text[g][u] : i < j => text[g][u][i] < text[g][u][j]
        /\ \A i \in DOMAIN text[g][u] :
               /\ text[g][u][i] <= caller[u].calls
               /\ Due(g, u) => text[g][u][i] < caller[u].calls
    BY DEF LogInv, FileOrder
  <2>2. CASE g # f \/ u # t  BY <1>1, <2>1, <2>2
  <2>3. CASE g = f /\ u = t
    <3>1. \A i, j \in DOMAIN text'[f][t] : i < j => text'[f][t][i] < text'[f][t][j]
      <4> SUFFICES ASSUME NEW i \in DOMAIN text'[f][t], NEW j \in DOMAIN text'[f][t], i < j
                   PROVE  text'[f][t][i] < text'[f][t][j]
        OBVIOUS
      <4>1. i \in DOMAIN text[f][t] /\ text'[f][t][i] = text[f][t][i]  BY <1>1
      <4> QED  BY <1>1, <2>1, <2>3, <4>1
    <3>2. \A i \in DOMAIN text'[f][t] :
              /\ text'[f][t][i] <= caller'[t].calls
              /\ Due(f, t)' => text'[f][t][i] < caller'[t].calls
      BY <1>1, <2>1, <2>3
    <3> QED  BY <2>3, <3>1, <3>2
  <2> QED  BY <2>2, <2>3
<1>5. \A o \in Paper \X Lines : InFile(o) \/ o = <<f, <<t, c>>>> => InFile(o)'
  <2> SUFFICES ASSUME NEW o \in Paper \X Lines, InFile(o) \/ o = <<f, <<t, c>>>>
               PROVE  InFile(o)'
    OBVIOUS
  <2>1. o[1] \in Paper /\ o[2][1] \in Crew  BY DEF Lines
  <2>2. CASE InFile(o)  BY <1>1, <2>1, <2>2 DEF InFile
  <2>3. CASE o = <<f, <<t, c>>>>
    <3>1. o[1] = f /\ o[2][1] = t /\ o[2][2] = c  BY <2>3
    <3> QED  BY <1>1, <3>1 DEF InFile
  <2> QED  BY <2>2, <2>3
<1>6. /\ text' \in [Paper -> [Crew -> Seq(Nat)]]
      /\ \A g \in Paper, u \in Crew : g # f \/ u # t => text'[g][u] = text[g][u]
  BY <1>1
<1>7. \A k \in DOMAIN text'[f][t] : text'[f][t][k] <= c  BY <1>3
<1> QED  BY <1>4, <1>5, <1>6, <1>7

LEMMA WriteItselfStep ==
    ASSUME LogInv, NEW t \in Crew, ApiLog!WriteItself(t)
    PROVE  LogInv'
<1>1. PICK f, c : f = Head(caller[t].todo) /\ c = caller[t].calls  OBVIOUS
<1>2. /\ caller[t].step = "write"
      /\ ApiLog!Written(f, <<t, c>>, {<<f, <<t, c>>>>})
      /\ caller' = [caller EXCEPT ![t] = ApiLog!Queueing(@, Tail(@.todo))]
      /\ UNCHANGED <<phase, closed, lines, ended, latest, progress, unsure>>
  BY <1>1 DEF ApiLog!WriteItself, ApiLog!At, ApiLog!LineOf
<1>3. \/ /\ text' = [text EXCEPT ![f][t] = Append(@, c)]
         /\ owed' = owed \cup {<<f, <<t, c>>>>}
      \/ text' = text /\ owed' \subseteq owed
  <2>1. <<t, c>>[1] = t /\ <<t, c>>[2] = c  OBVIOUS
  <2> QED  BY <1>2, <2>1 DEF ApiLog!Written
<1>4. /\ caller' \in [Crew -> Calls] /\ ThreadOrder' /\ CountsTrue'
      /\ f \in Paper /\ Due(f, t) /\ ~Due(f, t)'
      /\ \A u \in Crew : /\ caller[u].calls \in Nat /\ caller'[u].calls = caller[u].calls
                         /\ \A g \in Paper : Due(g, u)' => Due(g, u)
      /\ c \in Nat
  <2>1. /\ caller' \in [Crew -> Calls] /\ ThreadOrder' /\ CountsTrue'
        /\ Head(caller[t].todo) \in Paper
        /\ Due(Head(caller[t].todo), t)
        /\ \A g \in Paper : Due(g, t)' => g # Head(caller[t].todo)
        /\ \A u \in Crew : /\ caller[u].calls \in Nat /\ caller'[u].calls = caller[u].calls
                           /\ \A g \in Paper : Due(g, u)' => Due(g, u)
    BY <1>2, NextLine
  <2> QED  BY <1>1, <2>1
<1>5. ended /\ ended'  BY <1>2 DEF LogInv, ThreadOrder, Sane
<1>6. /\ text' \in [Paper -> [Crew -> Seq(Nat)]] /\ FileOrder'
      /\ owed' \subseteq Paper \X Lines /\ \A o \in owed' : InFile(o)'
  <2>1. \A o \in owed : InFile(o)  BY <1>5 DEF LogInv, Debts
  <2>2. CASE text' = [text EXCEPT ![f][t] = Append(@, c)] /\ owed' = owed \cup {<<f, <<t, c>>>>}
    <3>1. \A k \in DOMAIN text[f][t] : text[f][t][k] < c
      BY <1>1, <1>4 DEF LogInv, FileOrder
    <3>2. c <= caller[t].calls  BY <1>1, <1>4
    <3>3. /\ text' \in [Paper -> [Crew -> Seq(Nat)]] /\ FileOrder'
          /\ \A o \in Paper \X Lines : InFile(o) \/ o = <<f, <<t, c>>>> => InFile(o)'
      BY <1>4, <2>2, <3>1, <3>2, FilesGrow
    <3>4. <<f, <<t, c>>>> \in Paper \X Lines  BY <1>4 DEF Lines
    <3>5. owed' \subseteq Paper \X Lines  BY <2>2, <3>4 DEF LogInv, LogTypes
    <3>6. \A o \in owed' : InFile(o) \/ o = <<f, <<t, c>>>>  BY <2>1, <2>2
    <3> QED  BY <3>3, <3>5, <3>6
  <2>3. CASE text' = text /\ owed' \subseteq owed
    <3>1. FileOrder'
      <4>1. \A g \in Paper, u \in Crew : \A i \in DOMAIN text[g][u] :
                /\ text[g][u][i] <= caller'[u].calls
                /\ Due(g, u)' => text[g][u][i] < caller'[u].calls
        BY <1>4 DEF LogInv, FileOrder
      <4> QED  BY <2>3, <4>1 DEF LogInv, FileOrder, Crew, Paper
    <3>2. \A o \in owed' : InFile(o)'  BY <2>1, <2>3 DEF InFile
    <3> QED  BY <2>3, <3>1, <3>2 DEF LogInv, LogTypes
  <2> QED  BY <1>3, <2>2, <2>3
<1>7. QueueOrder'
  <2>1. \A i, g, u, m : Holds(i, g, u, m)' = Holds(i, g, u, m)
    BY <1>2 DEF Holds, ApiLog!Stop
  <2>2. \A g \in Paper, u \in Crew, m \in Nat : Newer(g, u, m) => Newer(g, u, m)'
    BY <1>4, <1>5 DEF Newer
  <2> QED  BY <1>2, <2>1, <2>2 DEF LogInv, QueueOrder, Paper, Crew
<1>8. LogTypes'
  BY <1>2, <1>4, <1>6 DEF LogInv, LogTypes, Crew, Paper, Lines, Calls, ApiLog!Everyone, ApiLog!Files
<1>9. Course'
  <2>1. phase # "new"  BY <1>2 DEF LogInv, Course, ApiLog!At
  <2> QED  BY <1>2, <2>1, CourseStays DEF LogInv
<1> QED  BY <1>4, <1>6, <1>7, <1>8, <1>9 DEF LogInv, Debts

LEMMA TakeStep ==
    ASSUME LogInv, ApiLog!Take
    PROVE  LogInv'
<1>1. /\ ~ended /\ phase # "new" /\ lines # << >> /\ lines' = Tail(lines)
      /\ ended' = (Head(lines) = ApiLog!Stop)
      /\ UNCHANGED <<phase, closed, latest, progress, caller, unsure>>
  BY DEF ApiLog!Take
<1>2. lines \in Seq([file : Paper, line : Lines])  BY DEF LogInv, LogTypes
<1>3. /\ lines' \in Seq([file : Paper, line : Lines]) /\ 1 \in DOMAIN lines /\ Head(lines) = lines[1]
      /\ \A i \in DOMAIN lines : i \in Nat /\ i >= 1 /\ (i > 1 => i - 1 \in DOMAIN lines')
      /\ \A i \in DOMAIN lines' : /\ i \in Nat /\ i >= 1 /\ i + 1 \in DOMAIN lines
                                  /\ lines'[i] = lines[i + 1]
  BY <1>1, <1>2
<1>4. PICK f, t, c : f = lines[1].file /\ t = lines[1].line[1] /\ c = lines[1].line[2]  OBVIOUS
<1>5. f \in Paper /\ t \in Crew /\ c \in Nat /\ lines[1] = [file |-> f, line |-> <<t, c>>]
  BY <1>3, <1>4, LinesAre DEF LogInv
<1>6. \/ lines[1] = ApiLog!Stop /\ ended' /\ text' = text /\ owed' = owed
      \/ /\ lines[1] # ApiLog!Stop /\ ~ended'
         /\ \/ text' = [text EXCEPT ![f][t] = Append(@, c)] /\ owed' = owed
            \/ text' = text /\ owed' = owed \ {<<f, <<t, c>>>>}
  <2>1. lines[1].file = f /\ lines[1].line = <<t, c>> /\ <<t, c>>[1] = t /\ <<t, c>>[2] = c
    BY <1>5
  <2>2. CASE lines[1] = ApiLog!Stop  BY <1>1, <1>3, <2>2 DEF ApiLog!Take
  <2>3. CASE lines[1] # ApiLog!Stop
    <3>1. ApiLog!Written(f, <<t, c>>, {})  BY <1>3, <2>1, <2>3 DEF ApiLog!Take
    <3> QED  BY <1>1, <1>3, <2>1, <2>3, <3>1 DEF ApiLog!Written
  <2> QED  BY <2>2, <2>3
<1>7. \A u \in Crew : /\ caller'[u].calls = caller[u].calls
                      /\ \A g \in Paper : Due(g, u)' => Due(g, u)
  BY <1>1 DEF Due
<1>8. ThreadOrder'
  BY <1>1 DEF LogInv, ThreadOrder, Sane, Once, Crew
<1>9. CountsTrue'  BY <1>1, CountsStay DEF LogInv
<1>10. \A i : \A g, u, m : /\ i \in DOMAIN lines' /\ Holds(i, g, u, m)' => Holds(i + 1, g, u, m)
  BY <1>3 DEF Holds, ApiLog!Stop
<1>11. /\ text' \in [Paper -> [Crew -> Seq(Nat)]] /\ FileOrder'
       /\ owed' \subseteq owed /\ \A o \in owed' : InFile(o) => InFile(o)'
       /\ ~ended' => \A o \in owed' : o = <<f, <<t, c>>>> => InFile(o)'
       /\ \/ ended'
          \/ text' = text
          \/ /\ Holds(1, f, t, c)
             /\ \A g \in Paper, u \in Crew : g # f \/ u # t => text'[g][u] = text[g][u]
             /\ \A k \in DOMAIN text'[f][t] : text'[f][t][k] <= c
  <2>1. CASE text' = text /\ owed' \subseteq owed /\ (ended' \/ <<f, <<t, c>>>> \notin owed')
    <3>1. FileOrder'
      <4>1. \A g \in Paper, u \in Crew : \A i \in DOMAIN text[g][u] :
                /\ text[g][u][i] <= caller'[u].calls
                /\ Due(g, u)' => text[g][u][i] < caller'[u].calls
        BY <1>7 DEF LogInv, FileOrder
      <4> QED  BY <2>1, <4>1 DEF LogInv, FileOrder, Crew, Paper
    <3>2. \A o \in owed' : InFile(o) => InFile(o)'  BY <2>1 DEF InFile
    <3> QED  BY <2>1, <3>1, <3>2 DEF LogInv, LogTypes
  <2>2. CASE /\ lines[1] # ApiLog!Stop /\ owed' = owed
             /\ text' = [text EXCEPT ![f][t] = Append(@, c)]
    <3>1. Holds(1, f, t, c)  BY <1>5, <2>2 DEF Holds
    <3>2. Newer(f, t, c)  BY <1>3, <1>5, <3>1 DEF LogInv, QueueOrder
    <3>3. /\ \A k \in DOMAIN text[f][t] : text[f][t][k] < c
          /\ c <= caller[t].calls
          /\ Due(f, t)' => c < caller[t].calls
      BY <1>1, <1>5, <1>7, <3>2 DEF Newer
    <3>4. /\ text' \in [Paper -> [Crew -> Seq(Nat)]] /\ FileOrder'
          /\ \A o \in Paper \X Lines : InFile(o) \/ o = <<f, <<t, c>>>> => InFile(o)'
          /\ \A g \in Paper, u \in Crew : g # f \/ u # t => text'[g][u] = text[g][u]
          /\ \A k \in DOMAIN text'[f][t] : text'[f][t][k] <= c
      BY <1>5, <1>7, <2>2, <3>3, FilesGrow
    <3>5. \A o \in owed' : o \in Paper \X Lines  BY <2>2 DEF LogInv, LogTypes
    <3> QED  BY <2>2, <3>1, <3>4, <3>5
  <2> QED  BY <1>6, <2>1, <2>2
<1>12. QueueOrder'
  <2> SUFFICES ASSUME NEW i \in DOMAIN lines', NEW g \in Paper, NEW u \in Crew, NEW m \in Nat,
                      Holds(i, g, u, m)'
               PROVE  /\ Newer(g, u, m)'
                      /\ \A j \in DOMAIN lines', o \in Nat : j > i /\ Holds(j, g, u, o)' => m < o
    BY DEF QueueOrder, Crew, Paper
  <2>1. i + 1 \in DOMAIN lines /\ Holds(i + 1, g, u, m)  BY <1>3, <1>10
  <2>2. /\ Newer(g, u, m)
        /\ \A j \in DOMAIN lines, o \in Nat : j > i + 1 /\ Holds(j, g, u, o) => m < o
    BY <2>1 DEF LogInv, QueueOrder
  <2>3. \A j \in DOMAIN lines', o \in Nat : j > i /\ Holds(j, g, u, o)' => m < o
    <3> SUFFICES ASSUME NEW j \in DOMAIN lines', NEW o \in Nat, j > i, Holds(j, g, u, o)'
                 PROVE  m < o
      OBVIOUS
    <3>1. j + 1 \in DOMAIN lines /\ Holds(j + 1, g, u, o) /\ j + 1 > i + 1  BY <1>3, <1>10
    <3> QED  BY <2>2, <3>1
  <2>4. Newer(g, u, m)'
    <3>1. m <= caller'[u].calls /\ (Due(g, u)' => m < caller'[u].calls)
      BY <1>7, <2>2 DEF Newer
    <3>2. ASSUME ~ended' PROVE \A k \in DOMAIN text'[g][u] : text'[g][u][k] < m
      <4>1. \A k \in DOMAIN text[g][u] : text[g][u][k] < m  BY <1>1, <2>2 DEF Newer
      <4>2. CASE text' = text  BY <4>1, <4>2
      <4>3. CASE /\ Holds(1, f, t, c)
                 /\ \A h \in Paper, v \in Crew : h # f \/ v # t => text'[h][v] = text[h][v]
                 /\ \A k \in DOMAIN text'[f][t] : text'[f][t][k] <= c
        <5>1. CASE g # f \/ u # t  BY <4>1, <4>3, <5>1
        <5>2. CASE g = f /\ u = t
          <6>1. c < m
            <7>1. i + 1 > 1  BY <1>3
            <7> QED  BY <1>3, <1>5, <2>1, <4>3, <5>2, <7>1 DEF LogInv, QueueOrder
          <6>2. \A k \in DOMAIN text'[f][t] : text'[f][t][k] \in Nat
            <7>1. text'[f][t] \in Seq(Nat)  BY <1>5, <1>11
            <7> QED  BY <7>1, Element
          <6> QED  BY <1>5, <4>3, <5>2, <6>1, <6>2
        <5> QED  BY <5>1, <5>2
      <4> QED  BY <1>11, <3>2, <4>2, <4>3
    <3> QED  BY <3>1, <3>2 DEF Newer
  <2> QED  BY <2>3, <2>4
<1>13. Debts'
  <2> SUFFICES ASSUME NEW o \in owed' PROVE InFile(o)' \/ (~ended' /\ InQueue(o)')
    BY DEF Debts
  <2>1. CASE InFile(o)  BY <1>11, <2>1
  <2>2. CASE ~InFile(o)
    <3>1. PICK i \in DOMAIN lines : /\ lines[i] = [file |-> o[1], line |-> o[2]]
                                    /\ \A j \in 1..i : lines[j] # ApiLog!Stop
      BY <1>11, <2>2 DEF LogInv, Debts, InQueue
    <3>2. 1 \in 1..i  BY <1>3
    <3>3. lines[1] # ApiLog!Stop /\ ~ended'  BY <1>6, <3>1, <3>2
    <3>4. CASE i = 1
      <4>1. o \in Paper \X Lines  BY <1>11 DEF LogInv, LogTypes
      <4>2. o = <<o[1], o[2]>>  BY <4>1
      <4>3. o[1] = f /\ o[2] = <<t, c>>  BY <1>5, <3>1, <3>4
      <4>4. o = <<f, <<t, c>>>>  BY <4>2, <4>3
      <4> QED  BY <1>11, <3>3, <4>4
    <3>5. CASE i > 1
      <4>1. i - 1 \in DOMAIN lines' /\ lines'[i - 1] = lines[i]  BY <1>3, <3>5
      <4>2. ASSUME NEW j \in 1..(i - 1) PROVE lines'[j] # ApiLog!Stop
        <5>1. j \in DOMAIN lines'
          <6>1. DOMAIN lines' = 1..Len(lines') /\ Len(lines') \in Nat  BY <1>3
          <6> QED  BY <4>1, <6>1
        <5>2. j + 1 \in 1..i /\ lines'[j] = lines[j + 1]  BY <1>3, <5>1
        <5> QED  BY <3>1, <5>2
      <4>3. InQueue(o)'  BY <3>1, <4>1, <4>2 DEF InQueue, ApiLog!Stop
      <4> QED  BY <3>3, <4>3
    <3> QED  BY <1>3, <3>4, <3>5
  <2> QED  BY <2>1, <2>2
<1>14. Course'
  <2>1. ended' => \E i \in DOMAIN lines : lines[i] = ApiLog!Stop  BY <1>3, <1>6
  <2>2. \A i \in DOMAIN lines' : lines'[i] = lines[i + 1] /\ i + 1 \in DOMAIN lines  BY <1>3
  <2> QED  BY <1>1, <2>1, <2>2 DEF LogInv, Course, ApiLog!Stop
<1>15. LogTypes'
  <2>1. ended' \in BOOLEAN  BY <1>1
  <2>2. owed' \subseteq Paper \X Lines  BY <1>11 DEF LogInv, LogTypes
  <2> QED
    BY <1>1, <1>3, <1>11, <2>1, <2>2
       DEF LogInv, LogTypes, Crew, Paper, Lines, Calls, ApiLog!Everyone, ApiLog!Files
<1> QED  BY <1>8, <1>9, <1>11, <1>12, <1>13, <1>14, <1>15 DEF LogInv

\* Every step of the log's threads and of its run keeps LogInv.
LEMMA LogStep ==
    ASSUME LogInv, [ApiLog!Next]_ApiLog!vars
    PROVE  LogInv'
<1>1. CASE UNCHANGED ApiLog!vars
  <2>1. Course'  BY <1>1 DEF ApiLog!vars, LogInv, Course, ApiLog!Stop, ApiLog!At
  <2> QED  BY <1>1, <2>1, QuietStep DEF ApiLog!vars, LogInv, LogTypes
<1>2. ASSUME NEW t \in Callers, ApiLog!Event(t) \/ ApiLog!Progress(t) PROVE LogInv'
  BY <1>2, EventStep, ProgressSteps
<1>3. ASSUME NEW t \in Crew,
             ApiLog!Look(t) \/ ApiLog!Put(t) \/ ApiLog!WriteItself(t) \/ ApiLog!Replaces(t)
      PROVE  LogInv'
  BY <1>3, LookStep, PutStep, WriteItselfStep, ReplaceStep
<1>4. CASE ApiLog!Snapshot \/ ApiLog!Finish  BY <1>4, ProgressSteps
<1>5. CASE ApiLog!Start  BY <1>5, StartStep
<1>6. CASE ApiLog!Run \/ ApiLog!Close \/ ApiLog!Joined  BY <1>6, PhaseSteps
<1>7. CASE ApiLog!Take  BY <1>7, TakeStep
<1>8. CASE ApiLog!PutStop  BY <1>8, PutStopStep
<1> QED
  BY <1>1, <1>2, <1>3, <1>4, <1>5, <1>6, <1>7, <1>8 DEF ApiLog!Next, Crew

\* In every state of the run log, each line that is owed is in its file once the writer is
\* over, the lines of a thread are in the order of its calls in every file, and progress.json
\* has the counts reported last unless two threads met at it or a write failed.
THEOREM LinesAndCountsAreKept == ApiLog!Spec => []LogIsTrue
<1>1. ASSUME LogInv PROVE LogIsTrue
  <2>1. \A f \in Paper, t \in Crew : \A i, j \in DOMAIN text[f][t] :
            i < j => text[f][t][i] < text[f][t][j]
    BY <1>1 DEF LogInv, FileOrder
  <2>2. ASSUME ended, NEW o \in owed
        PROVE  o[2][2] \in ApiLog!Range(text[o[1]][o[2][1]])
    <3>1. InFile(o)  BY <1>1, <2>2 DEF LogInv, Debts
    <3> QED  BY <3>1 DEF InFile, ApiLog!Range
  <2>3. ApiLog!LinesAreKept  BY <2>1, <2>2 DEF ApiLog!LinesAreKept, Crew, Paper
  <2> QED  BY <1>1, <2>3 DEF LogInv, CountsTrue, LogIsTrue, ApiLog!LogIsTrue
<1> QED  BY <1>1, LogInitially, LogStep, PTL DEF ApiLog!Spec

-----------------------------------------------------------------------------
(* The parts together *)

\* A behaviour of the composed system, one step of one part at a time, is one of each part:
\* so what is proved of a part alone holds in the run that checks them all.
THEOREM PartsDoNotMeet ==
    PartsSpec => Limiter!Spec /\ Consent!Spec /\ ApiLog!Spec /\ Spec
<1> DEFINE all == <<part, logVars, consentVars, plannerVars, cacheVars, rateVars, runVars>>
<1>1. PartsInit => Limiter!Init /\ Consent!Init /\ ApiLog!Init /\ Init  BY DEF PartsInit
<1>2. [PartsNext]_all => [Limiter!Next]_Limiter!vars
  BY DEF PartsNext, rateVars, Limiter!vars
<1>3. [PartsNext]_all => [Consent!Next]_Consent!vars
  BY DEF PartsNext, consentVars, Consent!vars, Consent!stored
<1>4. [PartsNext]_all => [ApiLog!Next]_ApiLog!vars
  BY DEF PartsNext, runVars, ApiLog!vars
<1>5. [PartsNext]_all => [Next]_vars
  BY DEF PartsNext, cacheVars
<1> QED
  BY <1>1, <1>2, <1>3, <1>4, <1>5, PTL
     DEF PartsSpec, Limiter!Spec, Consent!Spec, ApiLog!Spec, Spec

\* The promises of the limiter, the sign-in and the run log in the composed system.
THEOREM PartsKeepTheirPromises ==
    PartsSpec => []CallsKeepTheRate /\ TokenComesFromItsConsent /\ []LogIsTrue
BY PartsDoNotMeet, CallsStayInTheRate, TokensAreConsented, LinesAndCountsAreKept
=============================================================================

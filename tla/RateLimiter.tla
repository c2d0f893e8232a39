------------------------------ MODULE RateLimiter ------------------------------
(***************************************************************************)
(* The limiter of the pipeline's calendar calls: a token bucket of the     *)
(* service, whose rate follows the answers, and one of each account, taken *)
(* one after the other by every worker before a call.  The limiters of     *)
(* Drive and Gmail are the first bucket alone.                             *)
(*                                                                         *)
(* Tokens are refilled only when somebody asks, for the time since the     *)
(* last refill and at the rate of that moment.  Rates and tokens are       *)
(* multiples of a quantum; a raise by a tenth is one quantum.  acquire is  *)
(* never given a timeout, and the window is never as long as its limit of  *)
(* 200 answers.  The configuration clamps every rate above 0 and a burst   *)
(* to one token at least; MinRate <= Rate <= MaxRate.                      *)
(***************************************************************************)
EXTENDS Integers, FiniteSets, Sequences

CONSTANTS
    Workers, Accounts,
    Service,              \* name of the service's bucket
    Token,                \* quanta in a token
    Rate, MinRate, MaxRate, Burst,
    AccountRate,          \* the accounts' buckets hold one token
    AdjustAfter, Recent,  \* times between adjustments, and looked back over
    MaxTime, MaxCalls     \* bounds

\* What the configuration and the constructors make sure of.
Configured ==
    /\ Token \in Nat \ {0} /\ Burst \in Nat /\ Burst >= Token
    /\ {Rate, MinRate, MaxRate, AccountRate} \subseteq Nat
    /\ MinRate <= MaxRate /\ Rate <= MaxRate
    /\ MaxTime \in Nat

VARIABLES
    now, bucket, window, adjusted, worker,
    room                  \* history: per bucket what a fixed rate would still allow

vars == <<now, bucket, window, adjusted, worker, room>>

Buckets == Accounts \cup {Service}
Size(b) == IF b = Service THEN Burst ELSE Token
AtMost(a, b)  == IF a <= b THEN a ELSE b
AtLeast(a, b) == IF a >= b THEN a ELSE b
Idle == [step |-> "idle", account |-> Service]

Init ==
    /\ now = 0
    /\ bucket = [b \in Buckets |-> [tokens |-> Size(b), updated |-> 0,
                                    rate |-> IF b = Service THEN Rate ELSE AccountRate]]
    /\ window = << >> /\ adjusted = 0
    /\ worker = [w \in Workers |-> Idle]
    /\ room = [b \in Buckets |-> Size(b)]

-----------------------------------------------------------------------------
(* TokenBucket *)

\* Variant: the time of the refill is not kept.
RefilledForEver(b) ==
    [bucket[b] EXCEPT !.tokens = AtMost(Size(b), @ + (now - bucket[b].updated) * bucket[b].rate)]

\* _refill_unlocked
Refilled(b) ==
    [bucket[b] EXCEPT !.tokens = AtMost(Size(b), @ + (now - bucket[b].updated) * bucket[b].rate),
                      !.updated = now]

\* A turn of acquire: with a token it ends, without it waits, the refill done either way.
Acquire(w, b, next) ==
    LET full == Refilled(b)
    IN  IF full.tokens >= Token
        THEN /\ bucket' = [bucket EXCEPT ![b] = [full EXCEPT !.tokens = @ - Token]]
             /\ room' = [room EXCEPT ![b] = @ - Token]
             /\ worker' = [worker EXCEPT ![w].step = next]
        ELSE /\ bucket' = [bucket EXCEPT ![b] = full]
             /\ UNCHANGED <<room, worker>>

\* set_rate: what has passed since the last refill will count at the new rate.
SetRate(rate) == bucket' = [bucket EXCEPT ![Service].rate = rate,
                                          ![Service].tokens = AtMost(@, Burst)]

\* AdaptiveLimiter
CutRate   == AtLeast(MinRate, bucket[Service].rate \div 2)
RaiseRate == AtMost(MaxRate, bucket[Service].rate + 1)

\* record: soon after an adjustment a refusal cuts the rate at once; later the answers
\* of the last while decide, a twentieth of refusals for a cut and 19 of 20 good ones for a raise.
Record(ok, limited) ==
    LET all    == Append(window, [at |-> now, ok |-> ok, limited |-> limited])
        recent == {i \in DOMAIN all : now - all[i].at <= Recent}
        bad    == Cardinality({i \in recent : all[i].limited})
        good   == Cardinality({i \in recent : all[i].ok})
        early  == now - adjusted < AdjustAfter
    IN  /\ window' = all
        /\ adjusted' = IF early /\ ~limited THEN adjusted ELSE now
        /\ IF (early /\ limited) \/ (~early /\ 20 * bad >= Cardinality(recent))
           THEN SetRate(CutRate)
           ELSE IF ~early /\ 20 * good >= 19 * Cardinality(recent)
           THEN SetRate(RaiseRate)
           ELSE UNCHANGED bucket

-----------------------------------------------------------------------------
(* The workers: _run_one *)

Begin(w, a) ==
    /\ worker[w] = Idle /\ Len(window) < MaxCalls
    /\ worker' = [worker EXCEPT ![w] = [step |-> "service", account |-> a]]
    /\ UNCHANGED <<now, bucket, window, adjusted, room>>

\* ServiceLimiters.acquire: a token of the service, then one of the account; who waits
\* for the second has spent the first.
OfService(w) ==
    /\ worker[w].step = "service"
    /\ Acquire(w, Service, "account")
    /\ UNCHANGED <<now, window, adjusted>>

OfAccount(w) ==
    /\ worker[w].step = "account"
    /\ Acquire(w, worker[w].account, "call")
    /\ UNCHANGED <<now, window, adjusted>>

\* A call that worked, or failed and will be tried again, is recorded; one that failed for
\* good is not.
Answered(w, ok, limited) ==
    /\ worker[w].step = "call" /\ ~(ok /\ limited)
    /\ worker' = [worker EXCEPT ![w] = Idle]
    /\ Record(ok, limited)
    /\ UNCHANGED <<now, room>>

Rejected(w) ==
    /\ worker[w].step = "call"
    /\ worker' = [worker EXCEPT ![w] = Idle]
    /\ UNCHANGED <<now, bucket, window, adjusted, room>>

Tick ==
    /\ now < MaxTime
    /\ now' = now + 1
    /\ room' = [b \in Buckets |->
                   AtMost(Size(b), room[b] + IF b = Service THEN MaxRate ELSE AccountRate)]
    /\ UNCHANGED <<bucket, window, adjusted, worker>>

Next ==
    \/ \E w \in Workers, a \in Accounts : Begin(w, a)
    \/ \E w \in Workers : OfService(w) \/ OfAccount(w) \/ Rejected(w)
    \/ \E w \in Workers, ok \in BOOLEAN, limited \in BOOLEAN : Answered(w, ok, limited)
    \/ Tick
Spec == Init /\ [][Next]_vars

-----------------------------------------------------------------------------
(* Properties *)

\* Over no stretch of time do the workers together make more calls than the burst and the
\* highest rate allow, nor of one account more than its own rate does, whatever the answers
\* did to the rate between two refills.
CallsKeepTheRate == \A b \in Buckets : room[b] >= 0
=============================================================================

--------------------------- MODULE MCSeederParts ---------------------------
(***************************************************************************)
(* Six parts of the seeder and the reset API that share no state, each     *)
(* with a small instance: the job log, the sign-in, the planner, the cache *)
(* of a persona's files, the rate limiter and the API's run log.  A        *)
(* behaviour is one of one part: as they do not meet, the behaviours of    *)
(* all together are just interleavings of these.                           *)
(***************************************************************************)
EXTENDS DriveCache, Integers, Sequences

CONSTANTS
    Writers, Readers, MaxLines, NLines, NRecords,
    Emails, Threads, NoEmail, NConsents, MaxTroubles,
    MaxSid, MaxSize,
    Workers, Accounts, Service, Token, Rate, MinRate, MaxRate, Burst, AccountRate,
    AdjustAfter, Recent, MaxTime, MaxCalls,
    Callers, Ticker, Main, Services, Common, MaxReports, MaxMishaps

VARIABLES
    part,
    record, current, file, writer, reader, logged, died, verdict, before, torn,
    asked, wanted, memory, pending, expired, token, verified, row, engine, thread, used, late, troubles,
    push, state, plan,
    now, bucket, window, adjusted, worker, room,
    phase, closed, lines, ended, text, latest, progress, caller, mishaps, owed, unsure

logVars     == <<record, current, file, writer, reader, logged, died, verdict, before, torn>>
consentVars == <<asked, wanted, memory, pending, expired, token, verified, row, engine, thread,
                 used, late, troubles>>
plannerVars == <<push, state, plan>>
cacheVars   == vars
rateVars    == <<now, bucket, window, adjusted, worker, room>>
runVars     == <<phase, closed, lines, ended, text, latest, progress, caller, mishaps, owed, unsure>>

UpTo(n, S) == UNION {[1..k -> S] : k \in 0..n}
All  == [calendar |-> TRUE, gmail |-> TRUE, drive |-> TRUE, github |-> TRUE]
Full == [on |-> FALSE, gmail |-> {}, drive |-> {}, github |-> {}]
Only(ids, rels) == [on |-> TRUE, gmail |-> ids, drive |-> rels, github |-> rels]
APush(w, es, ms, fs, rs, r) ==
    [wipe |-> w, calendar |-> TRUE, gmail |-> TRUE, drive |-> TRUE, github |-> TRUE,
     has |-> All, events |-> es, mails |-> ms, files |-> fs, repo |-> rs, retry |-> r]

Ids     == {"a", "b", "c"}
AMail   == {[id |-> i, parent |-> p, att |-> i = "a"] : i \in Ids, p \in Ids \cup {"", "x"}}
Retries == {Full} \cup {Only(ids, {}) : ids \in {{}, {"a"}, {"a", "b"}}}
MailPushes == {APush(FALSE, << >>, ms, << >>, << >>, r) : ms \in UpTo(3, AMail), r \in Retries}

Paths      == {<<"x">>, <<"y">>, <<"x", "y">>, <<"x", "x", "y">>, <<"y", "x", "x">>,
               <<"Github", "y">>, <<"x", "Github", "y">>}
AFile      == {[rel |-> r, size |-> 1] : r \in Paths} \cup {[rel |-> <<"x", "y">>, size |-> 2]}
FilePushes == {APush(w, << >>, << >>, fs, rs, r) :
                  w \in BOOLEAN, fs \in UpTo(2, AFile), rs \in UpTo(1, AFile),
                  r \in {Full, Only({}, {<<"x">>, <<"x", "x", "y">>})}}

AnEvent     == {[id |-> i, kind |-> k] : i \in {"a", "b"}, k \in {"good", "bad", "undated"}}
EventPushes == {APush(w, es, << >>, << >>, << >>, Full) : w \in BOOLEAN, es \in UpTo(3, AnEvent)}

PartPushes == {[APush(TRUE, <<[id |-> "a", kind |-> "good"]>>, <<[id |-> "a", parent |-> "", att |-> TRUE]>>,
                     <<[rel |-> <<"x">>, size |-> 1]>>, << >>, Full) EXCEPT
                     !.calendar = a, !.gmail = b, !.drive = c, !.github = d, !.has = h] :
                  a \in BOOLEAN, b \in BOOLEAN, c \in BOOLEAN, d \in BOOLEAN,
                  h \in [calendar : BOOLEAN, gmail : BOOLEAN, drive : BOOLEAN, github : BOOLEAN]}
SmallPushes == MailPushes \cup FilePushes \cup EventPushes \cup PartPushes

-----------------------------------------------------------------------------
Log     == INSTANCE JobStream
Consent == INSTANCE SignIn
Planner == INSTANCE PushPlanner WITH Pushes <- SmallPushes
Limiter == INSTANCE RateLimiter
ApiLog  == INSTANCE RunLog

\* What the proofs assume of the parts' constants.
ASSUME LimiterAssumption == Limiter!Configured
ASSUME LogAssumption == ApiLog!Sound
ASSUME ConsentAssumption == NConsents \in Nat

NoPush == APush(FALSE, << >>, << >>, << >>, << >>, Full)
PartsInit ==
    /\ part \in {"log", "consent", "planner", "cache", "rate", "run"}
    /\ Log!Init /\ Consent!Init /\ Planner!Init /\ Init /\ Limiter!Init
    /\ ApiLog!Init
    /\ part # "planner" => push = NoPush
    /\ part # "cache" => user = [u \in Users |-> Warm]
PartsNext ==
    \/ /\ part = "log" /\ Log!Next
       /\ UNCHANGED <<part, consentVars, plannerVars, cacheVars, rateVars, runVars>>
    \/ /\ part = "consent" /\ Consent!Next
       /\ UNCHANGED <<part, logVars, plannerVars, cacheVars, rateVars, runVars>>
    \/ /\ part = "planner" /\ Planner!Next
       /\ UNCHANGED <<part, logVars, consentVars, cacheVars, rateVars, runVars>>
    \/ /\ part = "cache" /\ Next
       /\ UNCHANGED <<part, logVars, consentVars, plannerVars, rateVars, runVars>>
    \/ /\ part = "rate" /\ Limiter!Next
       /\ UNCHANGED <<part, logVars, consentVars, plannerVars, cacheVars, runVars>>
    \/ /\ part = "run" /\ ApiLog!Next
       /\ UNCHANGED <<part, logVars, consentVars, plannerVars, cacheVars, rateVars>>
PartsSpec == PartsInit /\ [][PartsNext]_<<part, logVars, consentVars, plannerVars, cacheVars, rateVars, runVars>>

\* What each part promises, stated in its module; CacheIsTrue is DriveCache's own.
StreamIsTrue             == Log!StreamIsTrue
TokenComesFromItsConsent == Consent!TokenComesFromItsConsent
EveryRowGetsItsTurn      == Planner!EveryRowGetsItsTurn
CallsKeepTheRate         == Limiter!CallsKeepTheRate
LogIsTrue                == ApiLog!LogIsTrue
=============================================================================

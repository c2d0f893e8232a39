--------------------------- MODULE ResetSessions ----------------------------
(***************************************************************************)
(* The sessions of the reset API: the reset_sessions table with its unique *)
(* index on active rows, the gab_accounts table that remembers the persona *)
(* of the last reset, the background tasks of the one server process, the  *)
(* reaper, and what a run leaves in the account: a run of the engine's     *)
(* commands, or of the seeder's pipeline when no engine is configured,     *)
(* which keeps one job store for an account and a persona for good.        *)
(*                                                                         *)
(* Every await of the service is a step boundary.  A database call may     *)
(* fail; the process may die and is started again at once.                 *)
(***************************************************************************)
EXTENDS Integers, FiniteSets

CONSTANTS
    NSessions,  \* bound: sessions, numbered in the order of their requests
    Accounts, Personas,
    Backends,   \* what may be configured: "engine", "seeder"
    Explicit,   \* modes a request may name instead of having them decided
    ResetSlots, SeedSlots,  \* RESET_CONCURRENCY, SEED_CONCURRENCY
    Prompt,     \* whether a run always outlasts a pending database call
    NoPersona,  \* no last_reset_persona
    MaxFaults   \* bound: failed database calls, failed runs, runs that outlast
                \* STUCK_RESET_TTL_S, deaths of the server process

Sessions == 1..NSessions
Modes == {"seed", "delta", "reseed"}

ASSUME SessionsAssumption ==
    /\ NSessions \in Nat \ {0} /\ Accounts # {} /\ Personas # {}
    /\ Backends \subseteq {"engine", "seeder"} /\ Backends # {}
    /\ Explicit \subseteq Modes /\ NoPersona \notin Personas
    /\ {"empty", "broken", "mixed"} \cap Personas = {}
    /\ ResetSlots \in Nat \ {0} /\ SeedSlots \in Nat \ {0}
    /\ Prompt \in BOOLEAN
    /\ MaxFaults \in Nat

Statuses == {"absent", "awaiting_auth", "queued", "running", "completed", "failed"}
Active == {"queued", "running"}
Ended == {"completed", "failed"}
\* Steps of a request and of its task: mode decided, waiting for consent, for the
\* semaphore, for the "running" write, engine at work, seeder waiting for rows that
\* nobody queued, result to record, persona to record, over.
PCs == {"new", "decided", "consent", "waiting", "marking", "engine", "hung", "good", "bad",
        "patch", "over"}
Holding == {"marking", "engine", "hung", "good", "bad", "patch"}  \* inside the semaphore
\* A job store: without rows, seeded in part and in full without wipe rows, wiped with
\* items left to seed, wiped and seeded, failed for good in all its items.
Stores == {"new", "cut", "plain", "half", "wiped", "failed"}
Contents == Personas \cup {"empty", "broken", "mixed"}

VARIABLES
    status, started,       \* reset_sessions: status and age of started_at
    account, persona, mode, kind, \* reset_sessions: what is asked for, and by which way
    last,                  \* gab_accounts: last_reset_persona
    pc, touched,           \* tasks: their step, and whether their run met another one
    content,               \* Google: what an account holds
    backend, store,        \* what runs, and the seeder's store of an account and a persona
    faults,                \* counter for the bound
    reaped, unread, raced, \* history: sessions reaped, those whose mode was decided
                           \* after a failed look-up, next to a session at work
    unwritten, idled       \* history: accounts that hold what a run left without its
                           \* persona being written, those where a seeder's run met a
                           \* finished store

asked   == <<account, persona, mode, kind>>
google  == <<content, backend, store>>
history == <<reaped, unread, raced, unwritten, idled>>
vars == <<status, started, asked, last, pc, touched, google, faults, history>>

Init ==
    /\ status = [s \in Sessions |-> "absent"]
    /\ started = [s \in Sessions |-> "none"]
    /\ account = [s \in Sessions |-> CHOOSE a \in Accounts : TRUE]
    /\ persona = [s \in Sessions |-> CHOOSE p \in Personas : TRUE]
    /\ mode = [s \in Sessions |-> "seed"]
    /\ kind = [s \in Sessions |-> "auto"]
    /\ last = [a \in Accounts |-> NoPersona]
    /\ pc = [s \in Sessions |-> "new"]
    /\ touched = [s \in Sessions |-> FALSE]
    /\ content = [a \in Accounts |-> "empty"]
    /\ backend \in Backends /\ store = [a \in Accounts |-> [p \in Personas |-> "new"]]
    /\ faults = 0
    /\ reaped = {} /\ unread = {} /\ raced = {} /\ unwritten = {} /\ idled = {}

Others(s) == {t \in Sessions \ {s} : account[t] = account[s]}
New(s) == pc[s] = "new" /\ \A t \in 1..(s - 1) : pc[t] # "new"
AtWork(s) == pc[s] \notin {"new", "consent", "over"}
\* Variant: the index covers running rows only.
BlockedRunning(s) == \E t \in Others(s) : status[t] = "running"
Blocked(s) == \E t \in Others(s) : status[t] \in Active  \* uniq_active_reset_per_email
Fault == faults < MaxFaults /\ faults' = faults + 1
Goto(s, step) == pc' = [pc EXCEPT ![s] = step]
Mark(s, st) == status' = [status EXCEPT ![s] = st]

-----------------------------------------------------------------------------
(* A request: decide the mode, create the row *)

Ask(s, a, p, m, k) ==
    /\ account' = [account EXCEPT ![s] = a]
    /\ persona' = [persona EXCEPT ![s] = p]
    /\ mode' = [mode EXCEPT ![s] = m]
    /\ kind' = [kind EXCEPT ![s] = k]

\* Variant: the configured mode for a new account.
ModeForDefault(known, p) == IF known = NoPersona THEN "reset"
                            ELSE IF known = p THEN "delta" ELSE "reseed"
\* Variant: another persona is seeded like a new account.
ModeForSwitch(known, p) == IF known = p THEN "delta" ELSE "seed"
\* _decide_mode
ModeFor(known, p) == IF known = NoPersona THEN "seed"
                     ELSE IF known = p THEN "delta" ELSE "reseed"

\* A request that names its mode, or has it decided by what gab_accounts says; a
\* failing look-up counts as "never seeded".
Request(s, a, p) ==
    /\ New(s)
    /\ Goto(s, "decided")
    /\ \/ \E m \in Explicit : Ask(s, a, p, m, "named") /\ UNCHANGED <<faults, unread>>
       \/ Ask(s, a, p, ModeFor(last[a], p), "auto") /\ UNCHANGED <<faults, unread>>
       \/ Fault /\ Ask(s, a, p, ModeFor(NoPersona, p), "auto") /\ unread' = unread \cup {s}
    /\ raced' = IF \E t \in Sessions : account[t] = a /\ AtWork(t) THEN raced \cup {s} ELSE raced
    /\ UNCHANGED <<status, started, last, touched, google, reaped, unwritten, idled>>

\* store.create: the unique index refuses a second active row.
Create(s) ==
    /\ pc[s] = "decided" /\ ~Blocked(s)
    /\ Mark(s, "queued")
    /\ Goto(s, "waiting")
    /\ UNCHANGED <<started, asked, last, touched, google, faults, history>>

Refuse(s) ==
    /\ pc[s] = "decided" /\ Blocked(s)
    /\ Goto(s, "over")
    /\ UNCHANGED <<status, started, asked, last, touched, google, faults, history>>

\* The insert fails, or its answer is lost: the request is told so and starts no task.
CreateFails(s) ==
    /\ pc[s] = "decided" /\ Fault
    /\ Goto(s, "over")
    /\ UNCHANGED status \/ (~Blocked(s) /\ Mark(s, "queued"))
    /\ UNCHANGED <<started, asked, last, touched, google, history>>

\* _start_upload: only for an account without a last_reset_persona, or one whose
\* look-up fails; the index does not cover its row.
StartUpload(s, a, p) ==
    /\ New(s)
    /\ (last[a] = NoPersona /\ UNCHANGED faults) \/ Fault
    /\ Ask(s, a, p, "seed", "upload")
    /\ Mark(s, "awaiting_auth")
    /\ Goto(s, "consent")
    /\ UNCHANGED <<started, last, touched, google, history>>

\* oauth_callback: nothing is looked at again.
OAuthCallback(s) ==
    /\ pc[s] = "consent"
    /\ Goto(s, "waiting")
    /\ UNCHANGED <<status, started, asked, last, touched, google, faults, history>>

-----------------------------------------------------------------------------
(* The task of a session: _bounded_run and _run_and_record *)

SeedClass(s) == mode[s] \in {"seed", "reseed"}
\* Variant: a slot is never given back.
SlotFreeLeaky(s) ==
    LET used == {t \in Sessions : pc[t] \in Holding \cup {"over"} /\ SeedClass(t) = SeedClass(s)}
    IN  Cardinality(used) < IF SeedClass(s) THEN SeedSlots ELSE ResetSlots
SlotFree(s) ==
    LET busy == {t \in Sessions : pc[t] \in Holding /\ SeedClass(t) = SeedClass(s)}
    IN  Cardinality(busy) < IF SeedClass(s) THEN SeedSlots ELSE ResetSlots

Acquire(s) ==
    /\ pc[s] = "waiting" /\ SlotFree(s)
    /\ Goto(s, "marking")
    /\ UNCHANGED <<status, started, asked, last, touched, google, faults, history>>

\* The engine thread starts; runs that meet in an account know nothing of each other.
Meeting(s) == {t \in Others(s) : pc[t] = "engine"}
StartEngine(s) ==
    /\ Goto(s, "engine")
    /\ touched' = [t \in Sessions |-> touched[t] \/ (Meeting(s) # {} /\ t \in Meeting(s) \cup {s})]

\* Variant: started_at is left out of the write.
MarkRunningUntimed(s) ==
    /\ pc[s] = "marking"
    /\ StartEngine(s)
    /\ IF Blocked(s) THEN UNCHANGED status ELSE Mark(s, "running")
    /\ UNCHANGED <<started, asked, last, google, faults, history>>
\* The "running" write is best effort: the index may refuse it (an upload next to an
\* active reset), the call may fail; the engine runs all the same.
MarkRunning(s) ==
    /\ pc[s] = "marking"
    /\ StartEngine(s)
    /\ IF Blocked(s)
       THEN UNCHANGED <<status, started>>
       ELSE Mark(s, "running") /\ started' = [started EXCEPT ![s] = "fresh"]
    /\ UNCHANGED <<asked, last, google, faults, history>>

MarkRunningFails(s) ==
    /\ pc[s] = "marking" /\ Fault
    /\ StartEngine(s)
    /\ UNCHANGED <<status, started, asked, last, google, history>>

\* A run is minutes long: with Prompt no request decided and no result waiting to be
\* written is overtaken by the end of a run.
InTime(s) == Prompt => \A t \in Others(s) : pc[t] \notin {"decided", "good", "bad", "patch"}

Wipes(s) == mode[s] # "seed"
StoreOf(s) == store[account[s]][persona[s]]
Keeps(s, st) == store' = [store EXCEPT ![account[s]][persona[s]] = st]
\* A finished store queues nothing, and its run reports what the rows say; a wipe that
\* joins rows without one sets them back to PENDING when the queues are filled.
FindsNothing(s) ==
    backend = "seeder" /\ (StoreOf(s) \in {"wiped", "failed"} \/ (StoreOf(s) = "plain" /\ ~Wipes(s)))
Stuck(s) == backend = "seeder" /\ Wipes(s) /\ StoreOf(s) = "plain"
MayHang(s) == Stuck(s) \/ (backend = "seeder" /\ Wipes(s) /\ StoreOf(s) = "cut")
Finished(s) == IF Wipes(s) \/ StoreOf(s) \in {"half", "wiped"} THEN "wiped" ELSE "plain"

\* What a complete run leaves.  delta falls back to a reseed when the account is not on
\* the baseline of its manifest, in the slot it has; the seeder wipes for a delta too;
\* seed wipes nothing, and so does a run of the seeder that resumes behind its wipe.
Outcomes(s) ==
    LET c == content[account[s]]
        overlay == ~Wipes(s) \/ (backend = "seeder" /\ StoreOf(s) = "half")
    IN  IF FindsNothing(s) THEN {c}
        ELSE IF Stuck(s) THEN {"empty"}
        ELSE IF touched[s] THEN {"mixed"}
        ELSE IF ~overlay \/ c \in {"empty", persona[s]} THEN {persona[s]}
        ELSE IF c = "broken" THEN {persona[s], "mixed"} ELSE {"mixed"}

\* What a run that fails or is cut off leaves, there and in its store: nothing yet, a
\* part, or all of it, when the time-out kills it at the end or its read-back fails.
CutContents(s) == {content[account[s]], "broken"} \cup Outcomes(s)
CutStores(s) ==
    {StoreOf(s)} \cup IF backend = "engine" \/ FindsNothing(s) THEN {}
                     ELSE IF Stuck(s) THEN {"half"}
                     ELSE {IF Finished(s) = "wiped" THEN "half" ELSE "cut", Finished(s)}

Leaves(s, c) == content' = [content EXCEPT ![account[s]] = c]
NoteIdle(s) == idled' = IF FindsNothing(s) THEN idled \cup {account[s]} ELSE idled
NoteFailed(s) ==
    unwritten' = IF content' # content THEN unwritten \cup {account[s]} ELSE unwritten

RunSucceeds(s) ==
    /\ pc[s] = "engine" /\ InTime(s)
    /\ ~Stuck(s) /\ (backend = "seeder" => StoreOf(s) # "failed")
    /\ \E c \in Outcomes(s) : Leaves(s, c)
    /\ IF backend = "seeder" THEN Keeps(s, Finished(s)) ELSE UNCHANGED store
    /\ NoteIdle(s)
    /\ Goto(s, "good")
    /\ UNCHANGED <<status, started, asked, last, touched, backend, faults, reaped, unread, raced,
                   unwritten>>

\* The seeder's status "partial", items that failed for good, counts as success, and so
\* does a wipe that passed over what Google did not let it trash.
RunIsPartial(s) ==
    /\ pc[s] = "engine" /\ InTime(s) /\ Fault
    /\ backend = "seeder" /\ ~FindsNothing(s) /\ ~Stuck(s)
    /\ \E c \in {"broken", "mixed"} : Leaves(s, c)
    /\ Keeps(s, Finished(s))
    /\ Goto(s, "good")
    /\ UNCHANGED <<status, started, asked, last, touched, backend, history>>

\* All items of a new run may fail for good.
RunFails(s) ==
    /\ pc[s] = "engine" /\ InTime(s) /\ Fault
    /\ \E c \in CutContents(s) : Leaves(s, c)
    /\ \/ \E st \in CutStores(s) : Keeps(s, st)
       \/ backend = "seeder" /\ StoreOf(s) \in {"new", "half"} /\ Keeps(s, "failed")
    /\ NoteFailed(s)
    /\ NoteIdle(s)
    /\ Goto(s, "bad")
    /\ UNCHANGED <<status, started, asked, last, touched, backend, reaped, unread, raced>>

\* The rows of such a run say so to every later one, which can do no more than wipe.
RunFindsFailed(s) ==
    /\ pc[s] = "engine" /\ InTime(s)
    /\ backend = "seeder" /\ StoreOf(s) = "failed"
    /\ UNCHANGED content \/ (Wipes(s) /\ Leaves(s, "empty"))
    /\ NoteFailed(s)
    /\ NoteIdle(s)
    /\ Goto(s, "bad")
    /\ UNCHANGED <<status, started, asked, last, touched, backend, store, faults, reaped, unread, raced>>

\* The seeder's run has no time-out: it waits for the rows its own wipe set back.
RunHangs(s) ==
    /\ pc[s] = "engine" /\ InTime(s) /\ MayHang(s)
    /\ \E c \in {"empty", "mixed"} : Leaves(s, c)
    /\ Keeps(s, "half")
    /\ NoteFailed(s)
    /\ idled' = idled \cup {account[s]}
    /\ Goto(s, "hung")
    /\ UNCHANGED <<status, started, asked, last, touched, backend, faults, reaped, unread, raced>>

\* Another run over the same store has queued and finished those rows.
HungReturns(s) ==
    /\ pc[s] = "hung" /\ StoreOf(s) # "half"
    /\ Goto(s, IF StoreOf(s) = "failed" THEN "bad" ELSE "good")
    /\ UNCHANGED <<status, started, asked, last, touched, google, faults, history>>

\* Variant: the persona is recorded after failures too.
AfterAny(s) == "patch"
\* The result is written whatever the row has become, twice tried, then given up.
After(s) == IF pc[s] = "good" THEN "patch" ELSE "over"

RecordResult(s) ==
    /\ pc[s] \in {"good", "bad"}
    /\ Mark(s, IF pc[s] = "good" THEN "completed" ELSE "failed")
    /\ Goto(s, After(s))
    /\ UNCHANGED <<started, asked, last, touched, google, faults, history>>

RecordFails(s) ==
    /\ pc[s] \in {"good", "bad"} /\ Fault
    /\ Goto(s, After(s))
    /\ UNCHANGED <<status, started, asked, last, touched, google, history>>

RecordPersona(s) ==
    /\ pc[s] = "patch"
    /\ last' = [last EXCEPT ![account[s]] = persona[s]]
    /\ unwritten' = unwritten \ {account[s]}
    /\ Goto(s, "over")
    /\ UNCHANGED <<status, started, asked, touched, google, faults, reaped, unread, raced, idled>>

RecordPersonaFails(s) ==
    /\ pc[s] = "patch" /\ Fault
    /\ unwritten' = unwritten \cup {account[s]}
    /\ Goto(s, "over")
    /\ UNCHANGED <<status, started, asked, last, touched, google, reaped, unread, raced, idled>>

-----------------------------------------------------------------------------
(* The reaper, the passing of time, the death of the process *)

Reap ==
    LET stuck == {s \in Sessions : status[s] = "running" /\ started[s] = "stale"}
    IN  /\ stuck # {}
        /\ status' = [s \in Sessions |-> IF s \in stuck THEN "failed" ELSE status[s]]
        /\ reaped' = reaped \cup stuck
        /\ UNCHANGED <<started, asked, last, pc, touched, google, faults, unread, raced, unwritten, idled>>

Expires(s) ==
    /\ status[s] = "running" /\ started[s] = "fresh"
    /\ started' = [started EXCEPT ![s] = "stale"]
    /\ UNCHANGED <<status, asked, last, pc, touched, google, history>>
Expire(s) == pc[s] \in {"over", "hung"} /\ Expires(s) /\ UNCHANGED faults
Outlast(s) == pc[s] \notin {"over", "hung"} /\ Expires(s) /\ Fault

\* Tasks and half-made requests are gone; a pending consent is kept on disk.
Crash ==
    LET gone == {s \in Sessions : AtWork(s)}
        Cut(a) == {s \in gone : pc[s] = "engine" /\ account[s] = a}
    IN  /\ gone # {} /\ Fault
        /\ pc' = [s \in Sessions |-> IF s \in gone THEN "over" ELSE pc[s]]
        /\ content' \in [Accounts -> Contents]
        /\ \A a \in Accounts : \/ Cut(a) = {} /\ content'[a] = content[a]
                               \/ \E s \in Cut(a) : content'[a] \in CutContents(s)
        /\ store' \in [Accounts -> [Personas -> Stores]]
        /\ \A a \in Accounts, p \in Personas :
               \/ store'[a][p] = store[a][p]
               \/ \E s \in Cut(a) : persona[s] = p /\ store'[a][p] \in CutStores(s)
        /\ unwritten' = unwritten \cup {account[s] : s \in {t \in gone : pc[t] \in {"engine", "good", "patch"}}}
        /\ UNCHANGED <<status, started, asked, last, touched, backend, reaped, unread, raced, idled>>

Task(s) ==
    \/ Create(s) \/ Refuse(s) \/ Acquire(s) \/ MarkRunning(s) \/ RunSucceeds(s)
    \/ RunFindsFailed(s) \/ RunHangs(s) \/ HungReturns(s) \/ RecordResult(s) \/ RecordPersona(s)

TaskFails(s) ==
    \/ CreateFails(s) \/ MarkRunningFails(s) \/ RunIsPartial(s) \/ RunFails(s)
    \/ RecordFails(s) \/ RecordPersonaFails(s)

Next ==
    \/ \E s \in Sessions, a \in Accounts, p \in Personas : Request(s, a, p) \/ StartUpload(s, a, p)
    \/ \E s \in Sessions : OAuthCallback(s) \/ Task(s) \/ TaskFails(s) \/ Expire(s) \/ Outlast(s)
    \/ Reap \/ Crash

Spec == Init /\ [][Next]_vars

\* Tasks run, a run ends (the engine's commands have timeouts), the reaper loops.
Fairness ==
    /\ \A s \in Sessions : WF_vars(Task(s)) /\ WF_vars(Expire(s))
    /\ WF_vars(Reap)
FairSpec == Spec /\ Fairness

-----------------------------------------------------------------------------
(* Properties *)

\* Every variable has its type.
TypeOK ==
    /\ status \in [Sessions -> Statuses]
    /\ started \in [Sessions -> {"none", "fresh", "stale"}]
    /\ account \in [Sessions -> Accounts] /\ persona \in [Sessions -> Personas]
    /\ mode \in [Sessions -> Modes] /\ kind \in [Sessions -> {"auto", "named", "upload"}]
    /\ last \in [Accounts -> Personas \cup {NoPersona}]
    /\ pc \in [Sessions -> PCs] /\ touched \in [Sessions -> BOOLEAN]
    /\ content \in [Accounts -> Contents]
    /\ backend \in Backends /\ store \in [Accounts -> [Personas -> Stores]]
    /\ faults \in 0..MaxFaults
    /\ reaped \cup unread \cup raced \subseteq Sessions /\ unwritten \cup idled \subseteq Accounts

\* Two runs meet in an account only if one is an upload that waited for consent
\* (its row is not active) or was reaped while it was still at work: lost writes of
\* "running" and of results, refused requests and restarts never let two in.
OneEngine ==
    \A s, t \in Sessions : s # t /\ account[s] = account[t] /\ pc[s] = "engine" /\ pc[t] = "engine"
        => {s, t} \cap reaped # {} \/ "upload" \in {kind[s], kind[t]}

\* Between runs last_reset_persona is the persona whose baseline the account holds,
\* unless runs met, a run was cut off in the middle or passed over items, it left its
\* baseline but failed, died or could not record its persona (until the next that can),
\* or a run of the seeder met a finished store, for which it does nothing or hangs.
Quiet(a) == \A s \in Sessions : account[s] = a => pc[s] \notin Holding \ {"marking"}
Unsure == unwritten \cup idled
LastIsContent ==
    \A a \in Accounts : Quiet(a) /\ a \notin Unsure =>
        \/ content[a] \in {"broken", "mixed"}
        \/ last[a] = content[a]
        \/ last[a] = NoPersona /\ content[a] = "empty"

\* A run that wipes nothing is never routed to an account that holds the baseline of
\* another persona, provided gab_accounts could be read, no session of the account was
\* at work when the mode was decided, no run before left a baseline without recording
\* its persona or met a finished store, and the account's runs were guarded by active
\* rows (no upload, none reaped).
Overlays(s) == mode[s] = "seed" /\ content[account[s]] \in Personas \ {persona[s]}
Guarded(a) == \A t \in Sessions : account[t] = a => kind[t] # "upload" /\ t \notin reaped
RunsUnrouted(s) ==
    /\ pc[s] = "marking" /\ pc'[s] = "engine" /\ kind[s] = "auto" /\ s \notin raced
    /\ account[s] \notin Unsure /\ Guarded(account[s]) /\ Overlays(s)
SeedsOnlyNew == [][\A s \in Sessions : RunsUnrouted(s) => s \in unread]_vars

\* A session that runs ends: by its task, or by the reaper after a restart or a lost write.
RunningEnds == \A s \in Sessions : []<>(status[s] # "running")

\* An accepted session gets its turn when no call fails, the process lives and no run
\* of the seeder hangs in its slot.
QueuedStarts ==
    LET Hung == \E t \in Sessions : pc[t] = "hung"
    IN  \A s \in Sessions : []<>(status[s] # "queued" \/ faults > 0 \/ Hung)

-----------------------------------------------------------------------------
(* What texts of the repository say and the code does not keep *)

\* docs/PLATFORM_LOGIC_REFERENCE.md:71, "Default to reseed (safe)": also when the
\* look-up fails, a run that wipes nothing is not routed over another persona.
FailedLookupIsSafe == [][\A s \in Sessions : ~RunsUnrouted(s)]_vars

\* app.py:137, "Reap sessions left non-terminal by a crash/restart/DB-blip so no
\* account stays blocked".
NoAccountBlocked ==
    \A s \in Sessions : status[s] \in Active ~> status[s] \notin Active
=============================================================================

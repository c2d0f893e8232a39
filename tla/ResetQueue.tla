----------------------------- MODULE ResetQueue -----------------------------
(***************************************************************************)
(* The Sheet reset queue: the console that appends job rows, the worker    *)
(* processes that recover, claim and process them, the heartbeat thread of *)
(* every process, and the two locks (claim lock, account lock) they use.   *)
(*                                                                         *)
(* The Sheet has no compare-and-swap.  SheetResetQueue.update_job reads    *)
(* the table, merges its changes into the row it found and writes the      *)
(* WHOLE row back, so every update is two steps here: a read that leaves   *)
(* the merged row in buf (main thread) or hbuf (heartbeat thread), and a   *)
(* write that puts it in the Sheet, whatever the row has become meanwhile. *)
(*                                                                         *)
(* Times are ages, in ticks of a clock: a row's age is the time since its  *)
(* "Updated At", lag[w] the time since run_once of w took its `now`.  A    *)
(* worker compares its `now` with a row, so it sees age - lag.             *)
(***************************************************************************)
EXTENDS Integers, FiniteSets

CONSTANTS
    Workers,        \* worker processes; the tick script starts three per host
    Accounts,       \* Google accounts the jobs restore
    NJobs,          \* rows the table can hold
    HandModes,      \* modes of rows an operator types into the Sheet
    MaxConcurrent,  \* --max-concurrent
    MaxRetries,     \* MAX_CHECKPOINTED_RETRIES
    StaleAfter,     \* stale_after_seconds, in ticks
    RetryAfter,     \* retry_after_seconds, in ticks
    Cooldown,       \* the console's cooldownMs, in ticks
    WorkerFresh,    \* the console's workerFreshMs, in ticks
    AllowLive,      \* --allow-live
    Readback,       \* GAB_SKIP_VERIFY is 0: verify_persona reads the account back
    LagMax,         \* bound: ticks from `now` in run_once to the claim
    CallMax,        \* bound: ticks a Sheet write stays in flight
    MaxFaults       \* bound: failed Sheet calls and crashes
CONSTANT NoWorker   \* a lock nobody holds

ASSUME QueueAssumption ==
    /\ Accounts # {}
    /\ NJobs \in Nat /\ MaxConcurrent \in Nat
    /\ HandModes \subseteq {"PREVIEW", "RESET"}
    /\ {MaxRetries, Cooldown, LagMax, CallMax, MaxFaults} \subseteq Nat
    /\ {StaleAfter, RetryAfter, WorkerFresh} \subseteq Nat \ {0}
    /\ AllowLive \in BOOLEAN /\ Readback \in BOOLEAN
    /\ NoWorker \notin Workers

Jobs     == 1..NJobs
Statuses == {"NONE", "QUEUED", "RUNNING", "RETRY_WAIT", "COMPLETED", "FAILED"}
Modes    == {"PREVIEW", "DELTA", "RESET", "RESUME"}
Active   == {"QUEUED", "RUNNING", "RETRY_WAIT"}
Phases   == {"AUTH", "PREVIEW", "RECONCILE", "RESET", "SEED_AUTH", "SEED", "VERIFYING"}

\* Ages stop growing where no comparison can tell them apart any more.
MaxAge == (IF StaleAfter >= RetryAfter THEN StaleAfter ELSE RetryAfter) + LagMax
\* Variant: an age that is not capped.
OlderUncapped(n, cap) == IF n >= cap + 1 THEN n ELSE n + 1
Older(n, cap) == IF n >= cap THEN cap ELSE n + 1

\* A row of "Reset Jobs": `retries` is checkpointed_retry_count in its Result
\* JSON, `done` the age of its Completed At (Cooldown when blank or old).
Row == [status : Statuses, mode : Modes, acct : Accounts, age : 0..MaxAge,
        done : 0..Cooldown, retries : 0..MaxRetries]
Blank == [status |-> "NONE", mode |-> "DELTA", acct |-> CHOOSE a \in Accounts : TRUE,
          age |-> 0, done |-> Cooldown, retries |-> 0]
Write   == [id : 0..NJobs, row : Row]
NoWrite == [id |-> 0, row |-> Blank]
\* What process keeps of the row it was given.
Claim   == [id : 0..NJobs, acct : Accounts, mode : Modes, retries : 0..MaxRetries]
NoClaim == [id |-> 0, acct |-> Blank.acct, mode |-> Blank.mode, retries |-> 0]

PCs == {"off", "start", "recover", "claim", "process", "requeue", "run",
        "complete", "capacity", "retry", "fail", "touch", "finally"}
ClaimSection == {"recover", "claim"}
Holding == {"run", "complete", "capacity", "retry", "fail", "touch", "finally"}

VARIABLES
    rows,        \* the table: Jobs -> Row
    statusAge,   \* age of Heartbeat At in the one "Worker Status" row
    claimLock,   \* holder of reset-worker-claim.lock
    accountLock, \* holder of each account's lock file
    pc, lag, todo,   \* per worker: where it is, age of `now`, jobs to update
    job, phase,      \* per worker: the job row it claimed, _active_phase
    beating,         \* workers whose heartbeat thread has not been told to stop
    buf, hbuf,       \* per worker: the write in flight of main and heartbeat thread
    faults,          \* faults so far
    content,         \* what each Google account holds
    wiped, attempts, reported  \* history: jobs whose reset_fn returned,
                               \* retries granted, jobs whose COMPLETED was written

sheet   == <<rows, statusAge>>
locks   == <<claimLock, accountLock>>
local   == <<pc, lag, todo, job, phase, beating, buf, hbuf>>
history == <<wiped, attempts, reported>>
vars    == <<sheet, locks, local, faults, content, history>>

Init ==
    /\ rows = [j \in Jobs |-> Blank]
    /\ statusAge = 0
    /\ claimLock = NoWorker
    /\ accountLock = [a \in Accounts |-> NoWorker]
    /\ pc = [w \in Workers |-> "off"]
    /\ lag = [w \in Workers |-> 0]
    /\ todo = [w \in Workers |-> {}]
    /\ job = [w \in Workers |-> NoClaim]
    /\ phase = [w \in Workers |-> "AUTH"]
    /\ beating = {}
    /\ buf = [w \in Workers |-> NoWrite]
    /\ hbuf = [w \in Workers |-> NoWrite]
    /\ faults = 0
    /\ content = [a \in Accounts |-> "used"]
    /\ attempts = [j \in Jobs |-> 0]
    /\ wiped = {}
    /\ reported = {}

-----------------------------------------------------------------------------
(* The console and the operators who enter rows *)

AppendRow(a, m) ==
    \E j \in Jobs :
        /\ rows[j].status = "NONE"
        /\ \A i \in 1..(j - 1) : rows[i].status # "NONE"
        /\ rows' = [rows EXCEPT ![j] = [Blank EXCEPT !.status = "QUEUED", !.mode = m, !.acct = a]]
        /\ UNCHANGED <<statusAge, locks, local, faults, content, history>>

\* The console's three refusals: no fresh worker, an active job for the
\* account, a sparse reset of it completed within the cool-down.
CreateResetRequest(a) ==
    /\ statusAge < WorkerFresh
    /\ \A j \in Jobs : ~(rows[j].acct = a /\ rows[j].status \in Active)
    /\ \A j \in Jobs : ~(/\ rows[j].acct = a /\ rows[j].mode = "DELTA"
                         /\ rows[j].status = "COMPLETED" /\ rows[j].done < Cooldown)
    /\ AppendRow(a, "DELTA")

\* The worker also serves rows typed by hand, which nothing checks.
EnterRow(a, m) == m \in HandModes /\ AppendRow(a, m)

-----------------------------------------------------------------------------
(* update_job in two steps, for the main thread and the heartbeat thread *)

Read(w, j, row) ==
    /\ buf[w] = NoWrite
    /\ buf' = [buf EXCEPT ![w] = [id |-> j, row |-> row]]

WriteBack(w) ==
    /\ buf[w].id \in Jobs
    /\ rows' = [rows EXCEPT ![buf[w].id] = buf[w].row]
    /\ buf' = [buf EXCEPT ![w] = NoWrite]

-----------------------------------------------------------------------------
(* run_once: `now`, capacity heartbeat, claim lock, recovery, claim *)

\* A process starts in a slot: its `now` is taken before anything else.
Start(w) ==
    /\ pc[w] = "off"
    /\ hbuf[w] = NoWrite
    /\ pc' = [pc EXCEPT ![w] = "start"]
    /\ statusAge' = 0
    /\ UNCHANGED <<rows, locks, lag, todo, job, phase, beating, buf, hbuf, faults, content, history>>

Stale(j, late) == rows[j].status = "RUNNING" /\ rows[j].age - late >= StaleAfter

\* Variant: the claim lock is not exclusive (or is per process).
TakeClaimLockShared(w) ==
    /\ pc[w] = "start"
    /\ claimLock' = w
    /\ todo' = [todo EXCEPT ![w] = {j \in Jobs : Stale(j, lag[w])}]
    /\ pc' = [pc EXCEPT ![w] = "recover"]
    /\ UNCHANGED <<sheet, accountLock, lag, job, phase, beating, buf, hbuf, faults, content, history>>

\* Variant: run_once claims without recovering stale rows first.
TakeClaimLockNoRecovery(w) ==
    /\ pc[w] = "start"
    /\ claimLock = NoWorker
    /\ claimLock' = w
    /\ pc' = [pc EXCEPT ![w] = "recover"]
    /\ UNCHANGED <<sheet, accountLock, lag, todo, job, phase, beating, buf, hbuf, faults, content, history>>

\* The claim lock is granted, and recover_stale_running lists the table.
TakeClaimLock(w) ==
    /\ pc[w] = "start"
    /\ claimLock = NoWorker
    /\ claimLock' = w
    /\ todo' = [todo EXCEPT ![w] = {j \in Jobs : Stale(j, lag[w])}]
    /\ pc' = [pc EXCEPT ![w] = "recover"]
    /\ UNCHANGED <<sheet, accountLock, lag, job, phase, beating, buf, hbuf, faults, content, history>>

RecoverRead(w) ==
    /\ pc[w] = "recover"
    /\ \E j \in todo[w] :
        /\ \A i \in todo[w] : j <= i
        /\ Read(w, j, [rows[j] EXCEPT !.status = "FAILED", !.age = lag[w],
                                      !.done = IF lag[w] < Cooldown THEN lag[w] ELSE Cooldown])
    /\ UNCHANGED <<sheet, locks, pc, lag, todo, job, phase, beating, hbuf, faults, content, history>>

RecoverWrite(w) ==
    /\ pc[w] = "recover"
    /\ WriteBack(w)
    /\ todo' = [todo EXCEPT ![w] = @ \ {buf[w].id}]
    /\ UNCHANGED <<statusAge, locks, pc, lag, job, phase, beating, hbuf, faults, content, history>>

RunningJobs == {j \in Jobs : rows[j].status = "RUNNING"}
\* Variant: every unfinished row blocks its account, as in the console.
BusyUnfinished == {rows[j].acct : j \in {i \in Jobs : rows[i].status \in Active}}
Busy == {rows[j].acct : j \in RunningJobs}
Ripe(j, late) == rows[j].status = "RETRY_WAIT" /\ rows[j].age - late >= RetryAfter
Cooling(late) == {rows[j].acct : j \in {i \in Jobs : rows[i].status = "RETRY_WAIT" /\ ~Ripe(i, late)}}
Claimable(late) == {j \in Jobs : /\ rows[j].status = "QUEUED" \/ Ripe(j, late)
                                 /\ rows[j].acct \notin Busy \union Cooling(late)}
AtCapacity == Cardinality(RunningJobs) >= (IF MaxConcurrent > 1 THEN MaxConcurrent ELSE 1)

\* claim_next lists the table; nothing to claim ends run_once.
ClaimNothing(w) ==
    /\ pc[w] = "recover" /\ todo[w] = {} /\ buf[w] = NoWrite
    /\ AtCapacity \/ Claimable(lag[w]) = {}
    /\ claimLock' = NoWorker
    /\ pc' = [pc EXCEPT ![w] = "off"]
    /\ lag' = [lag EXCEPT ![w] = 0]
    /\ UNCHANGED <<sheet, accountLock, todo, job, phase, beating, buf, hbuf, faults, content, history>>

\* The first claimable row in Sheet order is picked.
ClaimPick(w) ==
    /\ pc[w] = "recover" /\ todo[w] = {} /\ buf[w] = NoWrite
    /\ ~AtCapacity
    /\ \E j \in Claimable(lag[w]) :
        /\ \A i \in Claimable(lag[w]) : j <= i
        /\ todo' = [todo EXCEPT ![w] = {j}]
    /\ pc' = [pc EXCEPT ![w] = "claim"]
    /\ UNCHANGED <<sheet, locks, lag, job, phase, beating, buf, hbuf, faults, content, history>>

\* Variant: claiming a row clears the result of the earlier attempt.
ClaimReadFresh(w) ==
    /\ pc[w] = "claim"
    /\ \E j \in todo[w] : Read(w, j, [rows[j] EXCEPT !.status = "RUNNING", !.age = lag[w],
                                                     !.retries = 0])
    /\ UNCHANGED <<sheet, locks, pc, lag, todo, job, phase, beating, hbuf, faults, content, history>>

ClaimRead(w) ==
    /\ pc[w] = "claim"
    /\ \E j \in todo[w] : Read(w, j, [rows[j] EXCEPT !.status = "RUNNING", !.age = lag[w]])
    /\ UNCHANGED <<sheet, locks, pc, lag, todo, job, phase, beating, hbuf, faults, content, history>>

\* The row is written, the claim lock released; process gets the merged row.
ClaimWrite(w) ==
    /\ pc[w] = "claim"
    /\ WriteBack(w)
    /\ job' = [job EXCEPT ![w] = [id |-> buf[w].id, acct |-> buf[w].row.acct,
                                  mode |-> buf[w].row.mode, retries |-> buf[w].row.retries]]
    /\ claimLock' = NoWorker
    /\ todo' = [todo EXCEPT ![w] = {}]
    /\ lag' = [lag EXCEPT ![w] = 0]
    /\ pc' = [pc EXCEPT ![w] = "process"]
    /\ UNCHANGED <<statusAge, accountLock, phase, beating, hbuf, faults, content, history>>

-----------------------------------------------------------------------------
(* process: account lock, engine stages, terminal write *)

Account(w) == job[w].acct
Mode(w)    == job[w].mode

\* LOCK_NB fails: the row goes back to QUEUED.
AccountBusy(w) ==
    /\ pc[w] = "process"
    /\ accountLock[Account(w)] # NoWorker
    /\ Read(w, job[w].id, [rows[job[w].id] EXCEPT !.status = "QUEUED", !.age = 0])
    /\ pc' = [pc EXCEPT ![w] = "requeue"]
    /\ UNCHANGED <<sheet, locks, lag, todo, job, phase, beating, hbuf, faults, content, history>>

\* Variant: the busy branch runs through the finally that releases the lock.
RequeueWriteUnlocks(w) ==
    /\ pc[w] = "requeue"
    /\ WriteBack(w)
    /\ accountLock' = [accountLock EXCEPT ![Account(w)] = NoWorker]
    /\ job' = [job EXCEPT ![w] = NoClaim]
    /\ pc' = [pc EXCEPT ![w] = "off"]
    /\ UNCHANGED <<statusAge, claimLock, lag, todo, phase, beating, hbuf, faults, content, history>>

RequeueWrite(w) ==
    /\ pc[w] = "requeue"
    /\ WriteBack(w)
    /\ job' = [job EXCEPT ![w] = NoClaim]
    /\ pc' = [pc EXCEPT ![w] = "off"]
    /\ UNCHANGED <<statusAge, locks, lag, todo, phase, beating, hbuf, faults, content, history>>

\* Variant: the worker goes on although the account lock is taken.
AccountTakenAnyway(w) ==
    /\ pc[w] = "process"
    /\ accountLock' = [accountLock EXCEPT ![Account(w)] = w]
    /\ phase' = [phase EXCEPT ![w] = "AUTH"]
    /\ beating' = beating \union {w}
    /\ pc' = [pc EXCEPT ![w] = "run"]
    /\ UNCHANGED <<sheet, claimLock, lag, todo, job, buf, hbuf, faults, content, history>>

\* LOCK_NB succeeds: _active_phase is the claimed row's phase, AUTHENTICATING,
\* and the heartbeat thread starts.
AccountTaken(w) ==
    /\ pc[w] = "process"
    /\ accountLock[Account(w)] = NoWorker
    /\ accountLock' = [accountLock EXCEPT ![Account(w)] = w]
    /\ phase' = [phase EXCEPT ![w] = "AUTH"]
    /\ beating' = beating \union {w}
    /\ pc' = [pc EXCEPT ![w] = "run"]
    /\ UNCHANGED <<sheet, claimLock, lag, todo, job, buf, hbuf, faults, content, history>>

\* The stages a job of mode m goes through after stage p; "SEED_AUTH" is the
\* AUTHENTICATING that seed_persona reports once reset_persona has returned.
NextPhases(m, p) ==
    CASE m = "PREVIEW" /\ p = "AUTH"               -> {"PREVIEW"}
      [] m = "DELTA"   /\ p = "AUTH"      /\ AllowLive -> {"RECONCILE"}
      [] m = "DELTA"   /\ p = "RECONCILE"          -> {"VERIFYING"}
      [] m = "RESET"   /\ p = "AUTH"      /\ AllowLive -> {"RESET"}
      [] m = "RESET"   /\ p = "RESET"              -> {"SEED_AUTH"}
      [] m = "RESUME"  /\ p = "AUTH"      /\ AllowLive -> {"SEED_AUTH"}
      [] p = "SEED_AUTH"                           -> {"SEED"}
      [] p = "SEED"                                -> {"VERIFYING"}
      [] OTHER                                     -> {}
LastPhase(m) == IF m = "PREVIEW" THEN "PREVIEW" ELSE "VERIFYING"

\* What entering stage p after stage q may have made of account a: wiping and
\* seeding take time, reset_persona returns with an empty account, and a replay
\* or reconciliation that has ended leaves the baseline or less ("replayed").
Contents == {"used", "wiping", "empty", "seeding", "mixing", "replayed", "baseline"}
Moved(a, q, p) ==
    LET to(c) == [content EXCEPT ![a] = c]
    IN  CASE p = "RESET"                        -> {to("wiping")}
          [] p = "RECONCILE"                    -> {to("mixing")}
          [] p = "SEED_AUTH" /\ q = "RESET"     -> {to("empty")}
          [] p = "SEED"                         -> {to("seeding")}
          [] p = "VERIFYING"                    -> {to("replayed"), to("baseline")}
          [] OTHER                              -> {content}

\* verify_persona answers ok without a look at the account unless its read-back is
\* switched on; a preview verifies nothing.
Verified(w) == Mode(w) = "PREVIEW" \/ (Readback => content[Account(w)] = "baseline")

\* _progress: _active_phase first, then the row is read for the update.
Report(w) ==
    /\ pc[w] = "run"
    /\ \E p \in NextPhases(Mode(w), phase[w]) :
        /\ phase' = [phase EXCEPT ![w] = p]
        /\ content' \in Moved(Account(w), phase[w], p)
    /\ wiped' = IF phase[w] = "RESET" THEN wiped \union {job[w].id} ELSE wiped
    /\ Read(w, job[w].id, [rows[job[w].id] EXCEPT !.age = 0])
    /\ UNCHANGED <<sheet, locks, pc, lag, todo, job, beating, hbuf, faults, attempts, reported>>

ReportWrite(w) ==
    /\ pc[w] = "run"
    /\ WriteBack(w)
    /\ statusAge' = 0
    /\ UNCHANGED <<locks, pc, lag, todo, job, phase, beating, hbuf, faults, content, history>>

\* The engine calls are over and verification passed: COMPLETED is on its way,
\* with a Result JSON that no longer holds a retry count.
EngineDone(w) ==
    /\ pc[w] = "run"
    /\ phase[w] = LastPhase(Mode(w))
    /\ Verified(w)
    /\ Read(w, job[w].id, [rows[job[w].id] EXCEPT !.status = "COMPLETED", !.age = 0,
                                                  !.done = 0, !.retries = 0])
    /\ pc' = [pc EXCEPT ![w] = "complete"]
    /\ UNCHANGED <<sheet, locks, lag, todo, job, phase, beating, hbuf, faults, content, history>>

\* Variant: the account lock is released as soon as COMPLETED is written.
CompleteWriteUnlocks(w) ==
    /\ pc[w] = "complete"
    /\ WriteBack(w)
    /\ accountLock' = [accountLock EXCEPT ![Account(w)] = NoWorker]
    /\ reported' = reported \union {job[w].id}
    /\ pc' = [pc EXCEPT ![w] = "capacity"]
    /\ UNCHANGED <<statusAge, claimLock, lag, todo, job, phase, beating, hbuf, faults, content, wiped, attempts>>

CompleteWrite(w) ==
    /\ pc[w] = "complete"
    /\ WriteBack(w)
    /\ reported' = reported \union {job[w].id}
    /\ pc' = [pc EXCEPT ![w] = "capacity"]
    /\ UNCHANGED <<statusAge, locks, lag, todo, job, phase, beating, hbuf, faults, content, wiped, attempts>>

CapacityOk(w) ==
    /\ pc[w] = "capacity"
    /\ statusAge' = 0
    /\ pc' = [pc EXCEPT ![w] = "finally"]
    /\ UNCHANGED <<rows, locks, lag, todo, job, phase, beating, buf, hbuf, faults, content, history>>

\* Variant: an error while still resetting already turns a job into a replay.
RetryModeEager(m, p) ==
    IF m = "DELTA" \/ p = "RECONCILE" THEN "DELTA"
    ELSE IF m = "RESUME" \/ p \in {"RESET", "SEED", "VERIFYING"} THEN "RESUME"
    ELSE m

\* The mode a retry runs in.
RetryMode(m, p) ==
    IF m = "DELTA" \/ p = "RECONCILE" THEN "DELTA"
    ELSE IF m = "RESUME" \/ p \in {"SEED", "VERIFYING"} THEN "RESUME"
    ELSE m

\* The except branch ends in FAILED unless the error is retryable and the
\* count, read from the row as it was claimed, allows another attempt.
Failing(w) ==
    /\ Read(w, job[w].id, [rows[job[w].id] EXCEPT !.status = "FAILED", !.age = 0, !.done = 0])
    /\ pc' = [pc EXCEPT ![w] = "fail"]

RetryableError(w) ==
    /\ pc[w] = "run"
    /\ IF job[w].retries + 1 <= MaxRetries
       THEN /\ Read(w, job[w].id, [rows[job[w].id] EXCEPT
                                     !.status = "RETRY_WAIT", !.age = 0,
                                     !.mode = RetryMode(Mode(w), phase[w]),
                                     !.retries = job[w].retries + 1])
            /\ pc' = [pc EXCEPT ![w] = "retry"]
       ELSE Failing(w)
    /\ UNCHANGED <<sheet, locks, lag, todo, job, phase, beating, hbuf, faults, content, history>>

\* Any other exception: validation, live work disabled, verification failed.
FatalError(w) ==
    /\ pc[w] = "run"
    /\ Failing(w)
    /\ UNCHANGED <<sheet, locks, lag, todo, job, phase, beating, hbuf, faults, content, history>>

\* RETRY_WAIT is written; the capacity heartbeat after it may fail unnoticed.
RetryWrite(w) ==
    /\ pc[w] = "retry"
    /\ WriteBack(w)
    /\ statusAge' \in {0, statusAge}
    /\ attempts' = [attempts EXCEPT ![job[w].id] = @ + 1]
    /\ pc' = [pc EXCEPT ![w] = "finally"]
    /\ UNCHANGED <<locks, lag, todo, job, phase, beating, hbuf, faults, content, wiped, reported>>

\* FAILED is written, then heartbeat("ERROR", job_id) touches the row again.
FailWrite(w) ==
    /\ pc[w] = "fail"
    /\ WriteBack(w)
    /\ pc' = [pc EXCEPT ![w] = "touch"]
    /\ UNCHANGED <<statusAge, locks, lag, todo, job, phase, beating, hbuf, faults, content, history>>

TouchRead(w) ==
    /\ pc[w] = "touch"
    /\ Read(w, job[w].id, [rows[job[w].id] EXCEPT !.age = 0])
    /\ statusAge' = 0
    /\ UNCHANGED <<rows, locks, pc, lag, todo, job, phase, beating, hbuf, faults, content, history>>

TouchWrite(w) ==
    /\ pc[w] = "touch"
    /\ WriteBack(w)
    /\ pc' = [pc EXCEPT ![w] = "finally"]
    /\ UNCHANGED <<statusAge, locks, lag, todo, job, phase, beating, hbuf, faults, content, history>>

\* finally: the heartbeat thread is told to stop, waited for two seconds at
\* most, and the account lock is released whether or not its write landed.
Finish(w) ==
    /\ pc[w] = "finally"
    /\ beating' = beating \ {w}
    /\ accountLock' = [accountLock EXCEPT ![Account(w)] = NoWorker]
    /\ job' = [job EXCEPT ![w] = NoClaim]
    /\ pc' = [pc EXCEPT ![w] = "off"]
    /\ UNCHANGED <<sheet, claimLock, lag, todo, phase, buf, hbuf, faults, content, history>>

-----------------------------------------------------------------------------
(* The heartbeat thread: update_worker, then update_job with Updated At *)

HeartbeatRead(w) ==
    /\ w \in beating
    /\ hbuf[w] = NoWrite
    /\ hbuf' = [hbuf EXCEPT ![w] = [id |-> job[w].id, row |-> [rows[job[w].id] EXCEPT !.age = 0]]]
    /\ statusAge' = 0
    /\ UNCHANGED <<rows, locks, pc, lag, todo, job, phase, beating, buf, faults, content, history>>

HeartbeatWrite(w) ==
    /\ hbuf[w].id \in Jobs
    /\ rows' = [rows EXCEPT ![hbuf[w].id] = hbuf[w].row]
    /\ hbuf' = [hbuf EXCEPT ![w] = NoWrite]
    /\ UNCHANGED <<statusAge, locks, pc, lag, todo, job, phase, beating, buf, faults, content, history>>

\* A failed heartbeat write is swallowed.
HeartbeatLost(w) ==
    /\ hbuf[w].id \in Jobs
    /\ faults < MaxFaults
    /\ faults' = faults + 1
    /\ hbuf' = [hbuf EXCEPT ![w] = NoWrite]
    /\ UNCHANGED <<sheet, locks, pc, lag, todo, job, phase, beating, buf, content, history>>

-----------------------------------------------------------------------------
(* Faults: a Sheet call that fails for good, a process that dies *)

\* Everything a dying process holds is released by the operating system.
Die(w) ==
    /\ pc' = [pc EXCEPT ![w] = "off"]
    /\ lag' = [lag EXCEPT ![w] = 0]
    /\ todo' = [todo EXCEPT ![w] = {}]
    /\ buf' = [buf EXCEPT ![w] = NoWrite]
    /\ job' = [job EXCEPT ![w] = NoClaim]
    /\ beating' = beating \ {w}
    /\ claimLock' = IF claimLock = w THEN NoWorker ELSE claimLock
    /\ accountLock' = [a \in Accounts |-> IF accountLock[a] = w THEN NoWorker ELSE accountLock[a]]

\* A heartbeat's gws child outlives its process, so hbuf stays.
Crash(w) ==
    /\ pc[w] # "off"
    /\ faults < MaxFaults
    /\ faults' = faults + 1
    /\ Die(w)
    /\ UNCHANGED <<sheet, phase, hbuf, content, history>>

\* A QueueError outside process's try block leaves run_once and the process.
CallFailsOutside(w) ==
    /\ pc[w] \in {"start", "recover", "claim", "requeue"}
    /\ faults < MaxFaults
    /\ faults' = faults + 1
    /\ Die(w)
    /\ UNCHANGED <<sheet, phase, hbuf, content, history>>

\* Inside the try block it is one more non-retryable error: of a progress
\* update, of the COMPLETED update, or of the capacity heartbeat after it.
CallFailsInside(w) ==
    /\ \/ pc[w] \in {"run", "complete"} /\ buf[w] # NoWrite
       \/ pc[w] = "capacity"
    /\ faults < MaxFaults
    /\ faults' = faults + 1
    /\ buf' = [buf EXCEPT ![w] = [id |-> job[w].id,
                                  row |-> [rows[job[w].id] EXCEPT !.status = "FAILED",
                                                                  !.age = 0, !.done = 0]]]
    /\ pc' = [pc EXCEPT ![w] = "fail"]
    /\ UNCHANGED <<sheet, locks, lag, todo, job, phase, beating, hbuf, content, history>>

\* In the except branch it is swallowed.
CallFailsInExcept(w) ==
    /\ pc[w] \in {"retry", "fail", "touch"}
    /\ faults < MaxFaults
    /\ faults' = faults + 1
    /\ buf' = [buf EXCEPT ![w] = NoWrite]
    /\ pc' = [pc EXCEPT ![w] = "finally"]
    /\ UNCHANGED <<sheet, locks, lag, todo, job, phase, beating, hbuf, content, history>>

-----------------------------------------------------------------------------
(* The clock *)

Aged(row) == [row EXCEPT !.age = Older(@, MaxAge), !.done = Older(@, Cooldown)]
AgedWrite(b) == IF b.id = 0 THEN b ELSE [b EXCEPT !.row = Aged(@)]

\* A tick, bounded by how long a claim and a write in flight may take; the
\* account lock attempt and the end of process take less than a tick.
Tick ==
    /\ \A w \in Workers :
        /\ pc[w] \notin {"process", "capacity", "finally"}
        /\ pc[w] \in {"start", "recover", "claim"} => lag[w] < LagMax
        /\ buf[w].id # 0 /\ pc[w] \notin ClaimSection => buf[w].row.age < CallMax
        /\ hbuf[w].id # 0 => hbuf[w].row.age < CallMax
    /\ rows' = [j \in Jobs |-> IF rows[j].status = "NONE" THEN rows[j] ELSE Aged(rows[j])]
    /\ buf' = [w \in Workers |-> AgedWrite(buf[w])]
    /\ hbuf' = [w \in Workers |-> AgedWrite(hbuf[w])]
    /\ lag' = [w \in Workers |-> IF pc[w] \in {"start", "recover", "claim"}
                                 THEN lag[w] + 1 ELSE lag[w]]
    /\ statusAge' = Older(statusAge, WorkerFresh)
    /\ UNCHANGED <<locks, pc, todo, job, phase, beating, faults, content, history>>

-----------------------------------------------------------------------------
Queue(w) ==
    \/ TakeClaimLock(w) \/ RecoverRead(w) \/ RecoverWrite(w)
    \/ ClaimNothing(w) \/ ClaimPick(w) \/ ClaimRead(w) \/ ClaimWrite(w)
Process(w) ==
    \/ AccountBusy(w) \/ RequeueWrite(w) \/ AccountTaken(w)
    \/ Report(w) \/ ReportWrite(w) \/ EngineDone(w) \/ CompleteWrite(w) \/ CapacityOk(w)
    \/ RetryableError(w) \/ FatalError(w) \/ RetryWrite(w)
    \/ FailWrite(w) \/ TouchRead(w) \/ TouchWrite(w) \/ Finish(w)
Heartbeat(w) == HeartbeatRead(w) \/ HeartbeatWrite(w) \/ HeartbeatLost(w)
Fault(w) == Crash(w) \/ CallFailsOutside(w) \/ CallFailsInside(w) \/ CallFailsInExcept(w)

Next ==
    \/ \E a \in Accounts : CreateResetRequest(a)
    \/ \E a \in Accounts, m \in HandModes : EnterRow(a, m)
    \/ \E w \in Workers : Start(w) \/ Queue(w) \/ Process(w) \/ Heartbeat(w) \/ Fault(w)
    \/ Tick

Spec == Init /\ [][Next]_vars

\* The tick script is launched again and again, a process that runs makes
\* progress, a waiter of the claim lock gets it in its turn, gws calls end, and
\* time passes however busy the workers are.
Fairness ==
    /\ SF_vars(Tick)
    /\ \A w \in Workers : /\ WF_vars(Start(w)) /\ SF_vars(TakeClaimLock(w)) /\ WF_vars(Queue(w))
                          /\ WF_vars(Process(w)) /\ WF_vars(HeartbeatWrite(w))
FairSpec == Spec /\ Fairness

-----------------------------------------------------------------------------
(* Properties *)

\* Every variable stays in its type: ages, counters and bounds included.
TypeOK ==
    /\ rows \in [Jobs -> Row]
    /\ statusAge \in 0..WorkerFresh
    /\ claimLock \in Workers \union {NoWorker}
    /\ accountLock \in [Accounts -> Workers \union {NoWorker}]
    /\ pc \in [Workers -> PCs]
    /\ lag \in [Workers -> 0..LagMax]
    /\ todo \in [Workers -> SUBSET Jobs]
    /\ job \in [Workers -> Claim]
    /\ phase \in [Workers -> Phases]
    /\ beating \in SUBSET Workers
    /\ buf \in [Workers -> Write]
    /\ hbuf \in [Workers -> Write]
    /\ faults \in 0..MaxFaults
    /\ content \in [Accounts -> Contents]
    /\ wiped \in SUBSET Jobs
    /\ attempts \in [Jobs -> Nat]
    /\ reported \in SUBSET Jobs

\* engine/README.md:111, "Same-account jobs are serialized": no two workers are
\* between the account lock and its release in process for one account.
SameAccountSerialized ==
    \A v, w \in Workers :
        pc[v] \in Holding /\ pc[w] \in Holding /\ Account(v) = Account(w) => v = w

\* What a job may be COMPLETED on: the end of a replay or reconciliation, and
\* the baseline itself where the read-back is on.
Restored == IF Readback THEN {"baseline"} ELSE {"replayed", "baseline"}

\* While process reports COMPLETED for a restore, the account holds what the
\* last stage of that job left, read back or not: no other worker has begun to
\* wipe, seed or mend it since, although nothing looks at the account again.
CompletedIsRestored ==
    \A w \in Workers :
        pc[w] = "complete" /\ Mode(w) # "PREVIEW" => content[Account(w)] \in Restored

\* The row of a job that a worker is executing cannot be claimed again: the
\* claim lock, the requeue on a busy account and the waiting times see to it
\* although update_job overwrites whole rows.
RunningIsNotClaimable ==
    \A w \in Workers : pc[w] = "run" => rows[job[w].id].status \notin {"QUEUED", "RETRY_WAIT"}

\* MAX_CHECKPOINTED_RETRIES bounds the retries a job is granted, although the
\* count lives in a column that every update of the row carries along.
RetriesBounded == \A j \in Jobs : attempts[j] <= MaxRetries

\* RESUME skips reset_fn, so a job may only be turned into one after its own
\* reset_fn has returned, in an earlier attempt or this one.
ResumeFollowsOwnReset ==
    \A j \in Jobs : rows[j].mode = "RESUME" => j \in wiped

\* The queue implements AccountTurns: an account is used by the worker that is
\* in process for it, and changes under its hands only.
UserOf(a) ==
    IF \E w \in Workers : pc[w] \in Holding /\ Account(w) = a
    THEN CHOOSE w \in Workers : pc[w] \in Holding /\ Account(w) = a
    ELSE NoWorker
Turns == INSTANCE AccountTurns WITH user <- [a \in Accounts |-> UserOf(a)], Nobody <- NoWorker
AccountsTakeTurns == Turns!TurnsSpec

\* A RUNNING row does not stay RUNNING for ever: the worker ends the job or,
\* when it is gone, recover_stale_running does.
RunningEnds == \A j \in Jobs : rows[j].status = "RUNNING" ~> rows[j].status # "RUNNING"

\* A queued job is claimed sooner or later, whatever became of the others: one that
\* runs for its account, dies there, or waits for its retry.
QueuedIsServed == \A j \in Jobs : rows[j].status = "QUEUED" ~> rows[j].status # "QUEUED"

-----------------------------------------------------------------------------
(* What a text of the repository says and the code does not keep *)

\* reset_worker.py:329-333, "baseline restored and verified": COMPLETED is written
\* for the baseline alone.  It takes the read-back, which is off by default.
CompletedIsBaseline ==
    \A w \in Workers :
        pc[w] = "complete" /\ Mode(w) # "PREVIEW" => content[Account(w)] = "baseline"

\* reset_queue.py:227, "The prior worker stopped before reporting completion":
\* recovery fails no job whose worker has reported completion.
RecoveryIsOfUnreported ==
    [][\A w \in Workers : RecoverWrite(w) => buf[w].id \notin reported]_vars
=============================================================================

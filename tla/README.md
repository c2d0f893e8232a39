# Verification of the GAB environment reset platform

The repository restores Google accounts (Drive, Gmail, Calendar) to a known
baseline between benchmark runs. Three programs do it: the **engine**
(`src/engine`, the `gab-seed` command and the Sheet-driven reset worker), the
**seeder** (`src/seeder`, a local web application with a provisioning pipeline)
and the **reset API** (`src/api`, sessions, links and uploads in front of both).
This directory holds TLA+ models of their stateful parts, the TLC runs that check
them and TLAPS proofs of the most important invariants.

## Inventory

| Part | State | Operations | Talks to | Hard behaviour |
|---|---|---|---|---|
| Sheet reset queue (`reset_queue.py`) | rows of "Reset Jobs", "Worker Status" | list, whole-row update, recover stale, claim next | Google Sheets through `gws` | no compare-and-swap; lost updates |
| Reset worker (`reset_worker.py`, tick script) | claim lock, account lock, heartbeat thread, phase | run_once, process, retry, fail, heartbeat | queue, engine | three processes per host, stale recovery of live jobs, failures after the terminal write |
| Reset console (`Code.gs`) | none of its own | createResetRequest | the Sheet | refusals read a table others write |
| Engine (`seeder.py`, `drive.py`, `gmail.py`, `calendar_seed.py`, `manifest.py`) | manifest per account and persona | seed, delta, reset, verify | Google APIs, archive | death between a call and its checkpoint, adoption of objects, threads, tombstones |
| Provisioning pipeline (`materialize/provision`) | SQLite job store, queues, retry heap, worker threads, token buckets | plan, run, retry, reclaim, report | Google APIs, file cache | threads over one store, crash and second push, several pushes at once |
| File cache (`fs_cache.py`) | a persona's unpacked files, their manifest, a guard | warm, build, read | pipeline | readers without a lock, half-built caches, a source that is replaced |
| Seeder application (`app.py`, `runstate.py`, `jobs.py`, `auth*.py`, `db_hooks.py`) | run manifest, job logs, account locks, consents, tokens | import, sign-in, push, push-all, log stream | pipeline, Supabase, Google | locks handed between threads, two memories of an account's persona, restart |
| Reset API (`api/reset_service`) | sessions table, semaphores, tasks, pending sign-ins, run logs | create reset, run and record, reap, upload callback | engine or seeder, Supabase | stuck rows, reaped tasks that finish, restart |
| Pages, deployment, docs | none | | | |

What makes each part correct:

- *queue and worker*: two workers never touch one account at a time; COMPLETED is
  written only over what the job's own replay left, the baseline itself when it is read
  back; a replay without a wipe follows its own wipe;
  retries are bounded; every queued job is served.
- *engine*: a delta that ends well leaves the baseline and finds nothing to do the
  next time; verification never passes anything else; seeds and deltas resume after
  a death anywhere; nothing of the baseline is taken away without its replacement.
- *pipeline*: a job is with at most one worker; no unfinished row is left without
  one; a SUCCESS row's object exists in its place; nothing is inserted twice
  unless an answer was lost; a push ends and reports what happened; its plan can
  be run to the end; calls keep the rate.
- *file cache*: what a manifest vouches for is whole, and readers see it whole.
- *seeder application*: pushes of an account take turns and give its lock back; an
  account at rest that no push left in doubt holds one persona, the one remembered; the
  log stream tells what it left out; a token is stored only by a consent asked for its
  account, answered once and within ten minutes.
- *reset API*: engine runs of an account do not meet, every session ends, the
  recorded persona is the one in the account unless a failed run got there first; lines
  of a run's log are kept.

`PROJECT.json` lists every component with its status, and every hazard with the
line where it bites.

## Modules

| Module | What it is |
|---|---|
| `ResetQueue` | the Sheet queue, the workers with their heartbeat threads, the two locks, the console |
| `AccountTurns` | abstract specification: each account is worked on by at most one worker, in turns; implemented by `ResetQueue` and by `SeederPushes` |
| `ResetQueueProofs`, `MCResetQueue` | TLAPS proofs about accounts and their turns, about rows and retries; symmetry for TLC |
| `DriveReconcile`, `MailReconcile`, `CalendarReconcile` | what each service of the engine reads, plans and does, as operators over an account and its manifest section |
| `Entries` | adding an entry to a dictionary, for these three |
| `Engine`, `MCEngine` | seed, delta, reset on one account, call by call, with checkpoints, deaths and a user; small personas |
| `EngineProofs`, `EngineDeltaProofs` | TLAPS proofs about the manifest, what the read-back of an account vouches for and what a delta leaves alone; and about where a delta leads |
| `FairQueue` | the round-robin queue of `queues.py` as operators |
| `ProvisionPipeline`, `MCProvisionPipeline` | job store, workers, retry pump, reaper, checksums, main loop, crashes, several pushes; small plans |
| `ProvisionPipelineProofs` | TLAPS proofs about who has a job, and about what the store's rows say of Google |
| `SeederPushes`, `SeederPushesProofs`, `MCSeederPushes` | rows of a run, single pushes, push-all, routing, account locks, restart; TLAPS proofs; two rows of one email |
| `PushPlanner` | the rows and dependencies planned for one account |
| `DriveCache`, `DriveCacheProofs` | the cache of a persona's files; TLAPS proofs |
| `RateLimiter` | token buckets of a service and of the accounts, adaptive rate |
| `JobStream` | log of a job in memory and file, streams, reaping, restart |
| `SignIn` | consents, callback, tokens, auth state |
| `RunLog` | the run log of the reset API: queue, writer thread, closing, progress.json |
| `MCSeederParts`, `SeederPartsProofs` | small instances of the last six systems above, one run for all; TLAPS proofs about the limiter, the sign-in and the run log |
| `ResetSessions`, `ResetSessionsProofs` | sessions of the reset API, and what the engine leaves in the account; TLAPS proofs |

How they fit: `Engine` justifies the outcomes that `ResetQueue` and `ResetSessions`
take for a run of the engine (baseline, refused, half done); `PushPlanner` shows
that the plans `ProvisionPipeline` is given can be run to their end;
`ProvisionPipeline` justifies what `SeederPushes` takes for a seeding (ok, partly,
failed); `DriveCache` and `RateLimiter` are the resources its calls use.

### ResetQueue

One action per step of the worker (`pc`): `Start`, `TakeClaimLock`,
`RecoverRead`/`RecoverWrite`, `ClaimPick`/`ClaimRead`/`ClaimWrite`, then the steps
of `process`. `update_job` is always two actions, because it reads the table and
later writes the whole row: `buf` holds the row of the main thread, `hbuf` that of
the heartbeat thread. Times are ages, so the model needs no clock: a row's `age`
since Updated At, `lag` since `now` was taken. `content[a]` is what the account
holds: used, in the middle of a wipe, empty, in the middle of a replay ("seeding") or of a
reconciliation ("mixing"), what a replay or reconciliation left that ended but is not the
baseline ("replayed"), or the baseline. `wiped`, `attempts`, `reported` are history.
`Readback` is whether `GAB_SKIP_VERIFY` is 0 (or off): only then `verify_persona` looks at the account
(`seeder.py:350`), and without it a job is COMPLETED on whatever its last stage left
(`Verified`). `CompletedIsRestored` says for both settings what is then true of the account;
QueueRace checks the default, QueueModes works with the read-back.

### Engine

`drive`, `mail` and `cal` are the account, `book` is the manifest file and `run.mem` the
process's copy of it. A command goes through its services in the code's order; for
each it makes a plan (a set of calls with ranks, pairs of stage and place in it: folders before files,
the engine's order of stages for mail, extras last) and performs one call per step, writing the
checkpoint where the code does. A death keeps the account and the file and loses
`run`; it may come before a call, between a call and its checkpoint, or after it.
Between commands the user deletes, trashes, moves, edits and adds objects, and the
archive file may be copied anew (`stamp`).

Data is cut down to what the planner can tell apart: bytes are the baseline's,
others of the same size, or others; a message is the letter it came from, its
thread, labels and whether its headers are whole; an event its tag, source, and
whether its fields are right. Fresh ids are the least ones nothing refers to, so
behaviours of any length have few states. `Archives` are the personas: their files, letters
and events, and the bounds of a check (commands and edits). `ArchivesAssumption` says what
the loader makes sure of: paths are not empty (`safe_relpath`, `archive.py:29`), no file lies
below another (each is written under one directory at its own path, `drive_cache.py:94`), letters are
keyed by their id (`gmail.py:235`), an event id that comes twice is an error
(`calendar_seed.py:242`), a parent counts only if it is a letter (`gmail.py:675`), and comes before
its answers (`_ordered_messages`, `gmail.py:235`; it warns of letters that answer each other in a
circle, which are left out). The
history fields `twice` of a run and of `last` say that a plan was made by a manifest that
names one object under two paths; `cleared`, `stray` and `disturbed` are history too.
Assumed of Google: an import into a
thread that is gone opens a new one; a deleted event's id can be neither inserted
nor updated again; deleting a folder deletes what is below it.

### ProvisionPipeline

The state of the store (`status`, `retry`, `claim`, `deps`) outlives pushes and
crashes; `phase`, queues, heap and threads belong to a *pipe*, one `Pipeline`
object. `PlanJobs` is the loop of upserts, `ListRunnable` the query for the runnable
rows, `Enqueue` puts one of them in its queue, in the order of the rows, and
`StartThreads` follows the last. A worker goes `Take`, `DepReady`/`DepFailed`/`DepWaits`
one dependency at a time (`unread` are those it has yet to look at), `CheckDone`,
`ResetChildren` (wipes only), `MarkProcessing`, `CallSucceeds`/`CallFails`/`CallRefused`,
`FinishJob`/`GiveUp`/`RetryLater`. `Pump`, `Checksum`, `Reaper` and `Tick` are the other
threads, `Report` the end of `run()`. Like the start, the reaper first marks and lists
the stale rows (`Reclaim`, one statement of the store) and then puts them in their
queues one by one. The retry heap is a count for each entry, because the
code may push one twice. Google is `live` (objects per job), `dirty` (leftovers a wipe
would clear), `stray` (uploads that missed their folder) and `spared` (Drives whose last
wipe passed over something). A failed call may have taken effect, and a Drive wipe may
return without an error over items it could not trash (`PassesOver`): `_trash_one` and the
batch swallow what Google refuses, and the loop ends when a round trashes nothing
(`drive_sync.py:64`, `:147`). `LeftoversRemoved` and the proofs hold for every such wipe; what
is spared is all they except. The other wipes have no such way out: mail's raises, and
calendar's fall-back, which also passes over refused events, lists again until nothing is
left (`calendar_sync.py:120`), so for an event refused for good it does not return at all.

`PlannerAssumption` is what the proofs need of a plan, and what `planner.py` makes sure
of: a row waits for rows of its own account and for the shared ones, and what a wipe
clears waits for it, directly (events, the label, the root folder) or through another
row that does (messages wait for the label, folders and files for their folder). Rows
the planner refuses are no rows of the plan.

Abstractions: `PlanJobs`, the statement of `Reclaim` and the pair mark-and-push of
`_fail_job` are one step each (one process holds the store's lock during each statement;
finer interleavings of two pushes are left out); backoffs take any time; the wait for
the rate limiter is part of the call; the plan is a constant; DELTA look-ups are
left out.

### SeederPushes

A task seeds one row: the thread of a single push, or a child of a push-all. `pc` of a
task follows `_execute_push`: looked up and routed (`Start`), `SeedBegin` (wipe, first
items), `SeedEnd`, `Verdict` (the row), `Remember` (the run's memory of the email),
`Finish` (job and Supabase), `Release`. A push-all takes rows one by one (`TakeRow`),
runs its children together (`Provision`), settles them one by one, releases the locks.
`local`, `row[r].last` and `remote` are the three places where the persona of an
account is remembered; `content` is what the account holds, and `tainted` (history)
marks accounts a push left in doubt. Every write of the manifest is one step,
because `update_manifest` reads and writes under one lock. An account may hold a persona
of an earlier run (`Earlier`), which only Supabase knows of.

A seeding is not one step: `store[e]` is what became of the account's rows in the store that
all pushes of a run share: `open` (in a queue or with a worker), `left` (PENDING in no queue),
`done`, `lost` (PERMANENT_FAILURE), and what became of its wipe. `Wipe` is the first reseed
over a store: it sets rows that were done back to `left`, for nobody to run, and may pass over
items, leave out a service the new persona has no file for, or fail with the rows below it.
`SeedBegin` is every other beginning, a reseed over a store whose wipe was used up
among them: it wipes nothing. `SeedSome` and `SeedRows` put items into the account, `SeedEnd`
waits until no row of the whole store is unfinished, so it may never come. A push takes
what is `left` of other accounts too and fails it for want of credentials (`Orphaned`).

A push leaves an account in doubt if it failed or was cut off, if its wipe left something
behind or was not made, if Supabase did not answer when it was routed or recorded, or
if it was a skipped-only push over something else than its persona. So does an earlier run
in an account Supabase has no row of. `IdleAccountIsPure` speaks of the others.

Abstractions: rows of one persona are planned and queued together; two personas have no
row id in common; a wipe is one step; a row another push takes counts as a failed call.
The run has one account, so rows taken by another push are met in the proofs only.

### The six smaller systems

- `PushPlanner`: a push is given (items with ids, parents and paths); `RowsOf` builds the
  rows in the code's order, with the refused ones, and `Turns` computes which rows can
  ever run. The ids of folders are made of names as in the code, so the root may meet a
  folder of its own name.
- `JobStream`: `append` is two steps (memory, then file); `record` holds the job's records
  one after another, since a restart or reaping builds a new one with its own numbering.
- `SignIn`: an answer of Google may be sent again by anybody and come from another
  account; a token is the account it belongs to. `late` (history) are the consents
  exchanged when they were older than the ten minutes of `_pop_pending`
  (`authbackend.py:370`); without that look at the clock (`WaitsForEver`) TLC finds one.
- `DriveCache`: a file holds the version of the source it was made from, is absent or
  torn; the fingerprint is looked at in `Check`, the source read in `Parse`, and only then
  the guard is taken, as in the code. `raced` (history) is set when a good cache is built
  again or the source changed while it was parsed.
- `RateLimiter`: time in seconds, tokens refilled at the rate of the moment; `room`
  (history) is what burst and highest rate leave of calls.
- `RunLog`: a thread looks whether the writer is over and then queues its line or writes
  it itself; `close()` is flag, last item, join with a timeout. `owed` (history) are the
  lines that must reach their file.

### ResetSessions

A session is a number: the order of the requests. `status`, `started` and the
columns `account`, `persona`, `mode` are its row; `kind` tells how it came about (mode
decided, mode named by the caller, upload). `pc` is where the request or its task
is; every `await` of the service is a boundary between two values of it: `Request`
(the read behind `_decide_mode`), `Create`/`Refuse`/`CreateFails` (the insert under the unique
index), `Acquire` (the semaphore of the class), `MarkRunning`, the engine's thread,
`RecordResult`, `RecordPersona`, and for each database call its failure. `StartUpload`
and `OAuthCallback` are the first upload. `Reap` is the reaper, `Crash` the death of the
process, which loses every task but not the rows nor a pending consent.
`content[a]` is what the account holds: a persona's baseline, nothing, a
half-done wipe ("broken") or a mixture. A successful reseed leaves the baseline; a
delta on an account that is not on its baseline is refused by the engine and
repeated as a reseed by the adapter; a seed wipes nothing. A run that fails leaves nothing,
a part or all of its work (`CutContents`): the time-out may kill it at the end, and the
read-back may fail behind a whole baseline (`engine.py:562`, `:569`).

`backend` is what runs: the engine's commands or, without an engine config, the seeder's
pipeline (`engine.py:525`), over one store for an account and a persona that is kept for
good (`store[a][p]`). What a run finds there decides what it does: nothing over a finished
store (`FindsNothing`), a wipe and then for ever waiting when a delta follows a seed
(`RunHangs`, pc "hung"), the failure of an earlier run again (`RunFindsFailed`). A "partial"
result, or none, counts as success (`RunIsPartial`, `engine.py:481`).

Assumptions of the runs, named in the module: with `Prompt`, the end of a run
(minutes) does not overtake another session's single pending database call
(`_safe_update` retries after half a second). `MaxFaults` is one budget for failed
calls, failed runs, runs that outlast the reaper's limit and deaths of the
process. The variables `reaped`, `unread`, `raced`, `unwritten` and `idled` are history: no
action reads them. `unwritten` are accounts a run changed without its persona being
recorded (it failed, died, or could not write), `idled` those where the seeder met a
finished store; `LastIsContent` and `SeedsOnlyNew` except these two and say what is true of all others.

## Runs and bounds

| Run | Shows | Bounds |
|---|---|---|
| QueueRace | serialization, what COMPLETED is written on, no hand-out of a running job, refinement of `AccountTurns` | 2 workers, 2 jobs of 1 account, no read-back, 1 retry, 1 fault |
| QueueModes | retry bound, RESUME only after its own reset | 1 job of any mode, read-back, late `now`, slow calls, 1 fault |
| QueueLive | RUNNING ends, QUEUED is served whatever the account's other job does | 1 worker, 2 jobs of 1 account (a console request and a hand-written preview), late `now`, fair scheduling, 1 fault |
| PipelineCore | one token per job, no orphan, SUCCESS is true, no spare copies, no failure without a failed call, quiet stop, a wipe removes all it may | cache, wipe, folder, file in it; 2 drive workers; 1 fault (a failed call or a wipe that passes over files), 1 crash, 2 pushes, the user edits between them |
| PipelineEnds | a push ends, next to another push too | 2 pushes, message, reply and another account's message; fair threads, 1 fault |
| PipelineRestores | finding 1 | a push without and a push with a wipe |
| Sessions | runs do not meet, the recorded persona is the content, a seed goes to new accounts only, runs end, queued sessions start | 3 sessions of 1 account, 2 personas, engine or seeder, 1 slot a class, 1 fault, fair tasks |
| SessionsBlocked | finding 2 | 1 session, engine, 1 fault |
| SessionsRoute | finding 3 | 2 sessions, engine, 1 fault |
| Engine | delta restores, settles and resumes, verification is sound, seeds restore and resume, manifest entries come to coincide in one way only, baseline objects stay | 7 personas of 1 or 2 items a service, up to 4 commands and 2 edits as the persona says, 1 death |
| Seeder | an idle account not left in doubt holds one persona, pushes take turns (`AccountTurns`), locks are freed unless rows wait in no queue | 2 rows of 1 email with 2 personas, a persona of an earlier run or none, 3 jobs, one change of a folder, 1 failure or restart |
| SeederParts | the promises of the six smaller systems | see `SeederParts.cfg`: 2 threads each, 2 readers, all plans of up to 3 items of a kind, 3 source versions, 5 seconds of 2 workers, 1 engine thread with 2 calls on 1 log file |

The bounds are enough for the hazards: every race needs two actors on one row, one
account or one file (three sessions or jobs: two that meet and one that is routed by
what they leave); one fault reaches every error branch, and with `MaxRetries` 1 or 2
both the retry and its exhaustion; a crash and a second push reach every reuse of the
store. Three jobs of the seeder are a push, one of the other persona whose wipe uses up the
store, and one that finds it so. Engine's personas have a folder with a file beside a file, a letter with its
answer, two events, and two services that are reset and seeded apart: the shapes
the planner distinguishes; four commands are a seed, one that dies, one that
resumes, and one that must find nothing left. The queue's ages saturate at the limits
the code compares them with. `RunLog` is checked for `common/all.log` alone (`Services`
is empty): files meet only in the one queue, which keeps the order of its items
whatever file they are for.

`MCSeederParts` chooses one of the six systems in its initial state and runs it. They
have no state in common, so each behaviour of all together is an interleaving of
behaviours of the parts, and a property of one part holds in all if it holds in its own.

`CHECK_DEADLOCK` is off: jobs, pushes, commands and sessions are bounded, and a system
whose work is done stops.

**Fairness.** Threads, processes and tasks are scheduled (weak fairness of each
worker, pump, reaper, main loop and task), claims, back-offs and ages run out, a
run of the engine ends (its commands have timeouts). Faults, crashes, pushes,
requests and the user are never obliged to act. A seeder's run has no time-out: in
`ResetSessions` one that hangs returns only if another run over its store finishes the rows,
and `QueuedStarts` excepts it; in `SeederPushes` a push has to end only while no row of the
store waits in no queue, and `LocksAreFreed` says so. A worker's fair action set
excludes the failing call, so a call is answered in the end. In `ResetQueue` time passes
and the claim lock is given to a waiter infinitely often (strong fairness): the
operating system's lock is not kept from a process for ever. The asyncio
semaphore is first in, first out; weak fairness asks less of it, which the bounded
number of sessions makes enough.

## Findings

`PROJECT.json` quotes the line each one contradicts.

1. A wipe planned over SUCCESS rows makes them PENDING with nobody to run them:
   the push hangs (PipelineRestores).
2. A row left queued by a restart or a lost answer is never reaped and blocks its
   account (SessionsBlocked).
3. A failed look-up of the last persona routes to a seed over another persona's
   content (SessionsRoute).

## Divergences

Other places where the code and its texts, or the code and what one would expect,
come apart. Where a property is named, it is defined in the module, is in no run,
and TLC finds the behaviour when it is added to the cfg of the run in brackets.

*Queue and worker*

- COMPLETED says "restored and verified" (`reset_worker.py:329`) although nothing was read back:
  `verify_persona` answers ok unless `GAB_SKIP_VERIFY` is 0 (`seeder.py:350`), so a replay that ended
  without the baseline is COMPLETED too (`CompletedIsBaseline`, QueueRace).
- A heartbeat in flight turns COMPLETED back into RUNNING; recovery then fails a
  completed job (`RecoveryIsOfUnreported`, QueueRace).
- A failed capacity heartbeat after COMPLETED writes FAILED (`reset_worker.py:342`).
- A recovered worker that is alive writes RETRY_WAIT later, and its replay then
  continues on the content of another job of the account.

*Engine*

- An adopted Drive file is written to the manifest before it is replaced
  (`drive.py:971`); after a death in between its own bytes are the reference of the
  next delta, although `docs/PLATFORM_LOGIC_REFERENCE.md:26` says "revert modified"
  (`DeltaRevertsModified`, Engine).
- One object can stand for two paths. A delta adopts an object without a mark at p and dies
  before it marks it; the user moves it to q; the next delta keeps it for p by its id and
  adopts it again at q, as `matched_ids`, written at `drive.py:621`, is asked only when the extras
  are collected (`drive.py:701`).
  Its two patches follow each other, one file is missing, and the command reports ok
  when the read-back is skipped. `DeltaRestores` and `DeltaSettles` except such runs
  (`twice`); `BookStaysInjective` says that there is no other way to them.
- A delta that died while it replaced a file may be refused (`drive.py:1043`), although
  `engine/README.md:112` says retryable failures resume in the same mode
  (`RetryableDeltaResumes`, Engine).
- `reset_drive_all` deletes every item the account owns; the document speaks of
  platform-owned ones.
- A reset of one service forgets the manifest entries of all; a seed after a torn
  reset reports ok without restoring what the reset had deleted.
- The first object is created before the first checkpoint, and a mail import is not
  idempotent: a lost answer leaves a message twice (`stray` in `SeedRestores`).
- A seed refuses a new copy of the archive file, which a delta accepts.

*Pipeline and planner*

- Two accounts of one run pushed at once fail each other's rows
  (`NoFailureUncalled` with `CalendarPlan`, `TwoPipes` and no fault; `pipeline.py:142`).
- The second same-persona reset over an account's store, all rows SUCCESS, runs
  nothing and reports ok; a push again never retries a PERMANENT_FAILURE row.
- A call that outlasts `stale_processing_s` is reclaimed and done twice
  (`LiveReclaim = TRUE` violates `OneToken` and `NoSpareCopies`).
- A Drive wipe that could not trash everything returns as if it had, and the push reports the
  account ok; `wipe_seed_folder` says it lists "until none remain" (`drive_sync.py:121`), but
  leaves when a round trashed nothing. A calendar wipe whose `clear()` is denied and that
  meets an event that cannot be deleted lists the same events for ever.
- Two pushes over one store can hang when one of them wipes, even if no call fails.
- Two messages with one id can wait for each other, and ids cut at 240 characters can
  make a deep folder depend on itself: the push never ends. So does a top-level folder of the
  repository called `Github`, or of the files called like the root folder: it has the root's id
  (`planner.py:421`, `:518`, `:196`), its row takes the place of the root's, and waits for itself.
  `EveryRowGetsItsTurn` is stated for records without these (`WellFormed`); folders with
  the other root's name, or with the own one's deeper down, are in the run.
- One refused answer among more than twenty, five seconds after an adjustment, does
  not cut the rate and may even raise it (`limiter.py:103`).

*File cache*

- The fingerprint is compared before the guard is taken: a second builder clears a
  good cache under its readers, and one that fails leaves a "hit" with missing files
  (`HitIsWhole`, SeederParts).
- The row of the "generate" job stays SUCCESS over the pushes of a run, so a source
  that changed is not unpacked again and uploads send the old contents
  (`ReadingIsVouched`, SeederParts).

*Seeder application*

- A push that failed, or whose wipe failed, still has its persona recorded in
  Supabase (`app.py:931`; `OPERATOR_GUIDE.md:375`; `ColumnFollowsSuccess`, Seeder). A
  push of the old persona is then a delta over foreign content.
- The second reseed of an account over a run's store, its wipe done before, wipes nothing and
  reports ok: the account holds both personas and is remembered as the new one's.
- The first reseed after a push of the same run hangs: its wipe sets the rows of that push
  back to PENDING, in no queue (finding 1), and its lock stays taken until a restart
  (what `LocksAreFreed` excepts).
- A wipe is planned for the services of the row's sources only (`app.py:684`, `planner.py:230`): what the
  old persona had in a service the new one has no file for stays.
- Rows left by a dead or failed push are taken by the next push of the run, of whatever
  account, which has no credentials for them and fails them for good (`pipeline.py:228`).
- If Supabase does not answer about an account this run has not seeded, the account counts as new and
  is seeded over what it holds (`route.py:17`).
- A row can stay "running" with no thread behind it: the thread could not be started,
  an unnamed push became ambiguous, settling a child raised, or `provision_accounts`
  raised, which also leaves the children's jobs and their streams open.
- The second row of one email in a push-all is always reported failed (busy).
- A skipped-only push of one persona adds to another's items.
- A partial result is remembered as seeded; a restart between the run's memory and
  Supabase leaves them apart, and Supabase wins.
- A mismatching answer deletes the good token an account already has.
- A job is done in memory before its last line is in the file (`torn`).

*Reset API*

- A run that fails behind its whole baseline (killed at the end, read-back failed) leaves the
  account filled and no persona recorded: the next request of another persona is routed as a
  seed, over it. This is what `unwritten` excepts.
- With the seeder as backend, a second run of a persona finds all rows SUCCESS, does nothing and
  reports success, whatever the account holds by then. A delta after a seed wipes the
  account, then waits for rows nobody queued: the run never ends, keeps its slot, and its row is
  failed by the reaper. A run with failed items, or with no status at all, counts as success.
- An upload's "running" write is refused by the index when a reset of the account is
  active, and the engine runs all the same.
- `upload.py` says the caller of `complete_callback` marks the row failed; it does not.
- A request that races with the end of a run is routed by the older persona.
- Threads share one temporary file for `progress.json`: two writers at once can leave a
  mixture (`ProgressIsReadable`), and a late one replaces the final status
  (`OutcomeStays`; both SeederParts, as definitions of `RunLog`).
- Lines queued between the writer's last item and its end are lost.

## Proofs

A theorem holds for every value of the constants that satisfies the named assumptions
of its module (`QueueAssumption`, `SessionsAssumption`, `PushesAssumption`,
`PipelineAssumption`, `PlannerAssumption`, `CacheAssumption`, `LimiterAssumption`,
`ConsentAssumption`, `LogAssumption`, `ArchivesAssumption`): any numbers of workers, accounts, rows, jobs, sessions,
threads, files, faults and crashes. TLC evaluates the assumptions in the runs. Some
theorems have a hypothesis of their own; it is named below, with what the code does
about it. Every invariant was first checked by TLC on the constants of a run.

| Theorems | Hypothesis |
|---|---|
| `EngineProofs`: `EngineInvariant`, `ReadBackIsSound`, `BookIsInjective`, `SavedObjectsKept` | none |
| `EngineDeltaProofs`: `DeltaAlwaysRestores`, `DeltaConverges` | none |
| `EngineProofs`: `ReadBackDeltaRestores` | `Readbacks = {TRUE}` |
| `ResetQueueProofs`: `TypeCorrect`, `Serialized`, `ResumeIsOwn`, `CompletedRestored`, `QueueImplementsTurns` | none |
| `ResetQueueProofs`: `RunningIsSafe`, `RetriesStayBounded` | `CallsAreShort` |
| `ResetSessionsProofs`: `SessionsTyped`, `RunsDoNotMeet` | none |
| `ResetSessionsProofs`: `RecordIsTrue`, `SeedsGoToNewAccounts` | `Prompt` |
| `SeederPushesProofs`: `TypeCorrect`, `PushesImplementTurns`, `IdleIsPure` | none |
| `ProvisionPipelineProofs`: `TypeCorrect` | none |
| `ProvisionPipelineProofs`: `TokensAreSingle`, `StopsAreQuiet` | `OnePush`, no `LiveReclaim` |
| `ProvisionPipelineProofs`: `NothingIsOrphaned`, `SuccessMeansThere`, `CopiesAreBounded`, `FailuresAreCalls`, `WipesAreReal` | `Quietly` |
| `DriveCacheProofs`: `CacheTypes`, `CacheStaysTrue` | none |
| `SeederPartsProofs`: `CallsStayInTheRate`, `TokensAreConsented`, `LinesAndCountsAreKept`, `PartsDoNotMeet`, `PartsKeepTheirPromises` | none |

**Engine.** `IInv` ties the manifest to the account and the plan to both. A mark on an object
that the manifest names is one of this seed, for a path under which the manifest names it
(`OwnMarks`); a message that is entered is a copy of the letter it is entered under, and no
message is entered twice (`OwnMail`); an event id that the engine made is entered under the source
it was made for (`OwnIds`), because the id is a hash of the source; only its user can make
another event, under an id of Google's. A plan creates only what is not known and mends only
what is entered, one call per path (`DriveTodo`, `MailTodo`, `CalendarTodo`); what is in memory is what
is on disk, but for a new seed that has not saved anything yet (`IsRun`). The calls keep this
because a new object has an id nothing refers to: that such ids exist is proved from the
finiteness of the account and of the manifest.

The read-back is sound by counting. It finds the objects of all paths, letters or events
under the ids of the manifest, and nothing else; their marks, letters or sources tell them
apart, so the entries are a bijection of the baseline onto the account. `BookStaysInjective`
follows from what one adoption can add: two entries of one object need an object
without a mark, because the marked ones are found by their own path.

With the read-back on (`GAB_SKIP_VERIFY=0`), a delta that ends well leaves the baseline by the
same counting (`ReadBackDeltaRestores`): a running delta has a manifest file (`DeltaBook`), and what
it has in memory is what the file says, because only calls that are followed by a checkpoint
change the manifest; so the read-back, which goes by the file, vouches for what the delta leaves,
even by a manifest that names an object twice.

`SavedObjectsStay` is about the order of a plan. To delete a folder deletes what is in it, so
the manifest's objects are safe only if all of them have left a folder before it goes.
`TInv` says that Drive is a tree below its root, that what the manifest enters as a file is a
file and has its folders entered too (`GoodTree`), and that a plan is ranked so that, while
anything is to be made or moved, the folders above it are there or come first and nothing
is deleted (`PlanDue`). `DriveSaved` adds that every path is in its place or has a call
waiting (`Whole`), so that at the first deletion no object of the manifest is below the one
that goes. A set that holds an object and all that is above it holds its line (`LineWithin`), by
the least counterexample. Gmail and Calendar have no folders: there it is
enough that nothing left to delete is entered (`MailSaved`, `CalendarSaved`). TLC checked all of
these on the personas of the run before they were proved. Two objects of one entry make
`Whole` false, which is what `twice` excepts.

With the read-back skipped, the default, the plan alone has to be right. `Owed(s, todo)` says that the
calls of `todo` do what service `s` still lacks: what is not as the baseline has it, or is not
there, has a call waiting that will make it so, and everything else in the account has a call that takes it
away (`DriveDue`, `MailDue`, `CalendarDue`). A plan owes what it is made for (`DrivePlanDue`,
`MailPlanDue`, `CalendarPlanDue`), each call pays its part without spoiling what the others rely on
(`DriveCallDue`, ...), and an account to which nothing is owed passes the read-back (`DrivePaid`, ...)
and gives an empty plan (`DriveSettled`, ...). The difficulty is what calls owe each other:
a file in a folder that is yet to be moved or made has its place only when the folder has (so the
ranks again), and an answer is sent into the thread of its letter, which a letter sent anew opens
anew, so that every answer to it must be waiting too; the first letter of a thread is the same for all
in it, because parents come first. `DueInv` carries this through the services in their turns: the one at
work owes what its plan does, those before it nothing. `DeltaRestores` and `DeltaSettles` then
hold at the end (`EndInv`), for every order of calls that the ranks allow.

**Accounts of the queue.** Serialization needs that a worker in `process` holds its
account's lock and that the lock names it (`LockInv`). What COMPLETED is written on needs what the
account holds at each step of the lock's holder (`EndInv`): from the report of VERIFYING on
what the replay left, and the baseline once a read-back has passed. It is proved for both
values of `Readback`; with it COMPLETED implies the baseline, without it only that nobody else
has touched the account since. The refinement of `AccountTurns` maps
the holder of each account's lock.

**Rows of the queue.** A whole row is written back from what was read earlier, by a
worker and by its heartbeat thread, so neither property is inductive. `RowsInv` says
who may have a row: one claimant per job (`OneClaimant`), the claim lock with who scans
(`ClaimSerial`), and what the row and the buffers of the threads hold while one of them
works (`RowOfClaimant`, `WriteIsOwn`, `BeatIsOwn`). `CountInv` says that every copy of the
retry count that may still be written is no smaller than the attempts it stands
for. Both rest on the waiting time of a retry: the row becomes claimable again only when
no write of the earlier attempt is in flight. That is `CallsAreShort`
(`RetryAfter > 2 * CallMax`), and TLC finds the properties violated at
`RetryAfter = 2 * CallMax`. In the code a `gws` call is at most four attempts of 120
seconds and their back-off (`reset_queue.py:79`), and `retry_after_seconds` is 1800; the
wait for the lock that all `gws` calls of a host share comes on top, so the code does not
enforce it.

**Sessions.** `OneEngine` alone is not inductive; `Inv` adds what the code relies on without
saying so: at most one row of an account is active (`OneActive`), a request has no row
before its insert (`NotYetThere`), from the insert to the result an unreaped request's
row is active whatever writes were lost (`RunIsActive`), and only uploads wait for a
consent (`ConsentIsOfUpload`). Two unreaped requests at work would then both hold the
active row. The recorded persona is the content because one run at a time is being
recorded (`OneRecording`), a good run left its persona, or a mixture or half of it
(`GoodLeftItsPersona`), and an account where none is being recorded agrees with its record
(`RecordAgrees`), but for accounts in `unwritten` and `idled`. A hung run is of the latter (`HungIsIdled`)
and reports its result whenever the store lets it. A request
that was routed is the only active one of its account and what it was routed by still
holds (`RoutedIsAlone`, `RoutedIsNew`). The hypothesis `Prompt` says that no run ends while
another session's decision or result is still being written (minutes against one
database call, which `_safe_update` repeats after half a second); the divergences say
what happens without it.

**Pushes of the seeder.** `ThreadInv`: a job is a task or a push-all, never both
(`OneKind`); a child belongs to a push-all that is at work (`ChildOf`); a task or push-all at
work has its account's lock (`Locked`); two tasks of one account are the same
(`Alone`, `Apart`). From this follows the refinement of `AccountTurns`, action by action.
`PureInv`, for accounts not in doubt: what a task was told to do fits what its account
contains (`ModeFits`); while it is seeded the account holds the persona, or nothing yet and then a
row of it is to come or the push cannot end well (`Filling`); once judged it holds the persona and no
row of the store is left to do (`Full`, `Fits`); and an account nobody works on is at rest
(`AtRest`): content, memories and store agree. A step is of one of two kinds: it changes no
account (`Quiet`), or one task's own account and the leftover rows of others (`Touches`). That
the run may hang is no matter here: a push that hangs keeps its lock.

**Pipeline.** `TokenInv` is the whole of who has a job: of the list, the queues, the heap,
the checksums and the threads at most one has it, and has it once (`Held`); the status of
its row fits the place it is in (`JobSafe`) and the step of its worker (`ThreadSafe`); a
pipe has nothing before it lists its rows, and stops when all rows are done (`PhaseSafe`). Lemmas about
`FairQueue` say that a put and a take move one job and keep the order of the others.
`StoreInv` adds that the rows are those of one plan (`Rows`), that a SUCCESS row's
dependencies, and the wipe it comes after, are SUCCESS (`Order`), that an unfinished row is
kept by somebody (`Kept`), how many objects of a job there are for its status (`Objects`),
that a failure had its failed call (`Failures`), and what a wipe left (`Wipes`: after its last
answer nothing, but for a Drive where Google spared something). The hypotheses are needed:

- `OnePush`: one push at a time over a store. The code does not enforce it: only pushes
  of one account exclude each other, two accounts of one run share its store. With two
  (`CalendarPlan`, `TwoPipes`) TLC still finds `OneToken` true, and `StoppedQuiet`, `NoOrphan`, `SuccessIsThere`,
  `NoSpareCopies` and `NoFailureUncalled` violated.
- no `LiveReclaim`: no call outlasts `stale_processing_s` (see the divergences).
- `OneMode` (with these, `Quietly`): the pushes over a store all wipe, or none does. The
  run PipelineCore has wipes only. With both kinds TLC finds `NoOrphan`, `SuccessIsThere` and `LeftoversRemoved` violated, for the
  reason of finding 1; the others hold.

**File cache.** `IInv` adds to the property that a manifest is never younger than the
source (`NotAhead`), that who clears or writes has the guard (`BuilderHasGuard`), that what
was written so far is of the version that was parsed (`BuildIsTrue`), and the reason why
readers need no lock: without a race, who builds does so over a manifest that vouches
for nothing (`BuildIsNeeded`), so a reader that counts on its manifest meets no builder
(`ReaderIsCalm`).

**Rate limiter.** `RateInv`: what a bucket holds, or will when it is next asked, is
covered by what the highest rate leaves of calls (`Covered`), although it is refilled late
and at the rate of that moment. `LimiterAssumption` is what `limiters_from_config` and the
constructors clamp.

**Sign-in.** `ConsentInv`: a thread that is about to store a token has either the account's
own, to refresh, or the answer to a consent that nobody used before, and the answer is of
the account that asked (`Honest`).

**Run log.** `LogInv`: a line that is owed is in its file, or in the queue before the last
item while the writer works (`Debts`); the lines of a thread in a file are older than
those in the queue, and these than the one it has yet to queue (`FileOrder`,
`QueueOrder`), so that a thread that writes itself, after the writer's end, comes
last; nothing ends the queue before `close()` (`Course`); who writes `progress.json` alone
writes the latest counts (`CountsTrue`).

`PartsDoNotMeet` carries the last three, and the cache, over to the composition that the
run `SeederParts` checks.

Only model-checked:

- `TornDeltaResumes`, `SeedRestores` and `SeedResumes` of the engine: what an account looks like after
  any number of deaths of a seed, or of a delta, is as much again to be described.
- `StreamIsTrue` of the job log (`SelectSeq`, of which the provers know nothing) and
  `EveryRowGetsItsTurn` of the planner (`Turns`, a recursion over the rows).
- All liveness.

Where a definition is recursive over data, what it computes is proved only as far as a least
counterexample reaches (`AtMeets`, `LineBegins`: that one object lies at one path only, that
the line above an object begins with it).

## Not modelled

`PROJECT.json` gives the reason for each component: pages, deployment, command lines,
archive reading, conversions, metrics and configuration carry no state of their own
or only read. Within modelled parts these are left out: the attachment repair and
GitHub pushes of the seeder, `state.json` of each account and the `.bak` files, tokens
under older file names, the service-account backend, the copy cache of
`drive_cache.py`, attachments and pacing of mail, the time zone of the calendar's settings
(`calendar_seed.py:849`, which no step of the engine changes), two baseline events of equal title
and times, DELTA look-ups of the executors, signed links, the file of pending
OAuth states, the local JSON store, mode "reset" and the configured default mode of
the API, accounts not in `gab_accounts`, an engine process that survives the server.

## Plan

1. Proofs: `SeedResumes`, then `SeedRestores` and `TornDeltaResumes`.
2. The executors' DELTA look-ups, and `state.json` with its backup files.
3. An abstract specification of a run of the engine (baseline, refused, torn),
   implemented by `Engine` and used by `ResetQueue` and `ResetSessions`.

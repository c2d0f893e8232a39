---------------------------- MODULE SeederPushes ----------------------------
(***************************************************************************)
(* The pushes of the seeder's web application: the rows of a run in its    *)
(* manifest, one lock per Google account, single pushes, push-all, the     *)
(* choice between seed, delta and reseed from what is remembered of the    *)
(* account, and a restart of the server.                                   *)
(*                                                                         *)
(* A task seeds one row: it is the thread of a single push, or a child of  *)
(* a push-all, which prepares its children one by one, hands them to the   *)
(* provisioning pipeline together and settles them one by one.  The locks, *)
(* the jobs and the threads die with the process; the manifest, the store  *)
(* of the run, Supabase and what Google holds do not.                      *)
(*                                                                         *)
(* All pushes of a run share one store.  How a pipeline works its rows off *)
(* is the business of ProvisionPipeline; here the rows of an account are   *)
(* told apart by the persona they are of, and those of one persona are     *)
(* planned together.  A row done or failed for good is never run again, a  *)
(* wipe's row neither, and a push ends when no row of the store, whoever's *)
(* it is, is left to do.                                                   *)
(***************************************************************************)
EXTENDS Integers, Sequences

CONSTANTS
    NRows,        \* the rows 1..NRows in the order of user_id_sort_key
    EmailOf,      \* Rows -> the account of a row
    Folder,       \* Rows -> the persona folder a row is matched with at first
    Uploaded,     \* the rows of the CSV; the others may be added by hand
    Recorded,     \* accounts that have a row in gab_accounts
    NoPersona,
    Earlier,      \* what earlier runs may have left in an account: a persona or nothing
    NJobs,        \* bound: jobs
    MaxTroubles   \* bound: calls that fail and restarts of the server

Rows     == 1..NRows
JobIds   == 1..NJobs
Emails   == {EmailOf[r] : r \in Rows}
Personas == {Folder[r] : r \in Rows}

ASSUME PushesAssumption ==
    /\ NRows \in Nat \ {0} /\ NJobs \in Nat
    /\ MaxTroubles \in Nat
    /\ NoPersona \notin Personas
    /\ Earlier \subseteq Personas \cup {NoPersona}
    /\ Uploaded \subseteq Rows /\ Recorded \subseteq Emails

VARIABLES
    present, row,      \* manifest: the accounts list, and per row its folder and push
    local, batchJob,   \* manifest: last_persona_by_email, batch_job_id
    remote,            \* Supabase: gab_accounts.last_reset_persona
    store,             \* provision.sqlite: what became of each account's rows
    lock,              \* ACCOUNT_LOCKS: the emails whose lock is taken
    jobs,              \* JOBS: the status of each job created
    task, batch,       \* the threads: one task or one batch per job
    content,           \* Google: the personas an account holds items of
    tainted,           \* history: accounts that a push left in doubt
    troubles           \* counter for the bound

manifest == <<present, row, local, batchJob>>
threads  == <<task, batch>>
vars == <<manifest, remote, store, lock, jobs, threads, content, tainted, troubles>>

NoTask  == [pc |-> "off", row |-> 1, named |-> TRUE, skip |-> FALSE, mode |-> "seed",
            target |-> NoPersona, status |-> "none", of |-> 0]
\* The personas of an account's rows: in a queue or with a worker, PENDING in no
\* queue, SUCCESS and PERMANENT_FAILURE; and the row of its wipe.
NoRows  == [open |-> {}, left |-> {}, done |-> {}, lost |-> {}, wipe |-> "none"]
NoBatch == [pc |-> "off", todo |-> {}, skip |-> FALSE, held |-> {}, seen |-> {}]

\* A new run; an earlier one may have seeded the accounts, which only Supabase knows.
Init ==
    /\ present = Uploaded
    /\ row = [r \in Rows |-> [folder |-> Folder[r], state |-> "idle", job |-> 0, last |-> NoPersona]]
    /\ local = [e \in Emails |-> NoPersona]
    /\ \E earlier \in [Emails -> Earlier] :
           /\ content = [e \in Emails |-> {earlier[e]} \ {NoPersona}]
           /\ remote = [e \in Emails |-> IF e \in Recorded THEN earlier[e] ELSE NoPersona]
           /\ tainted = {e \in Emails \ Recorded : earlier[e] # NoPersona}
    /\ store = [e \in Emails |-> NoRows]
    /\ batchJob = 0
    /\ lock = {}
    /\ jobs = << >>
    /\ task = [j \in JobIds |-> NoTask]
    /\ batch = [j \in JobIds |-> NoBatch]
    /\ troubles = 0

-----------------------------------------------------------------------------
(* Steps of a task and what they write *)

Who(j)       == EmailOf[task[j].row]
Single(j)    == task[j].of = 0
Good(j)      == task[j].status # "failed"
Works(b)     == {j \in JobIds : task[j].of = b /\ task[j].pc # "off"}
Goto(j, pc)  == task' = [task EXCEPT ![j].pc = pc]
Off(j)       == task' = [task EXCEPT ![j] = NoTask]
Fault        == troubles < MaxTroubles /\ troubles' = troubles + 1
NoFault      == UNCHANGED troubles
Taint(e)     == tainted' = tainted \cup {e}
\* create_job: the next job is running.
NewJob       == Len(jobs) + 1
\* finish: a job that is done stays as it is.
Closed(j, st) == [jobs EXCEPT ![j] = IF @ = "running" THEN st ELSE @]

\* find_account: without a persona the email must have one row.
Found(r, named) ==
    r \in present /\ (named \/ \A q \in present : EmailOf[q] = EmailOf[r] => q = r)

\* update_account: the row is looked up and written back under the lock of the manifest.
UpdateAccount(r, named, new) == IF Found(r, named) THEN [row EXCEPT ![r] = new] ELSE row

\* _owns_job
OwnsJob(j) == row[task[j].row].job = j

\* mark_running of _execute_push and of a push-all's child.
Running(r, j) == [row EXCEPT ![r].state = "running", ![r].job = j]

\* Variant: only the row's own last persona.
NotedByRow(r) == row[r].last
\* last_seeded_persona: Supabase first; what the manifest knows when Supabase
\* has nothing or does not answer.
Noted(r) == IF local[EmailOf[r]] # NoPersona THEN local[EmailOf[r]] ELSE row[r].last
LastSeeded(r) ==
    {Noted(r)} \cup ({remote[EmailOf[r]]} \ {NoPersona})
\* Supabase does not answer about an account this run has not seeded itself.
Missed(r, last) ==
    LET e == EmailOf[r]
    IN  local[e] = NoPersona /\ last # remote[e] /\ remote[e] # NoPersona
Asked(r, last) ==
    IF Missed(r, last) THEN Fault /\ Taint(EmailOf[r]) ELSE NoFault /\ UNCHANGED tainted

\* decide_provision_mode
ModeFor(skip, last, target) ==
    IF skip THEN "delta"
    ELSE IF last = NoPersona THEN "seed"
    ELSE IF last = target THEN "delta" ELSE "reseed"

\* batch_status
BatchStatus(seen) ==
    IF seen \subseteq {"ok"} THEN "ok" ELSE IF seen = {"failed"} THEN "failed" ELSE "partial"

-----------------------------------------------------------------------------
(* A single push *)

\* The handler: the lock is taken or the push refused, the row gets a new push
\* without its last persona, the thread starts.  When it cannot be started the
\* lock is given back and the row left as it is.
Push(r, named, skip) ==
    /\ Found(r, named) /\ EmailOf[r] \notin lock /\ Len(jobs) < NJobs
    /\ row' = [row EXCEPT ![r].state = "running", ![r].job = NewJob, ![r].last = NoPersona]
    /\ jobs' = Append(jobs, "running")
    /\ \/ /\ lock' = lock \cup {EmailOf[r]}
          /\ task' = [task EXCEPT ![NewJob] = [NoTask EXCEPT !.pc = "start", !.row = r,
                                                 !.named = named, !.skip = skip]]
          /\ NoFault
       \/ Fault /\ UNCHANGED <<lock, task>>
    /\ UNCHANGED <<present, local, batchJob, remote, store, batch, content, tainted>>

\* What a task will do to its account: the folder its row has now, the mode from
\* the persona seeded last.
Routed(j, r, last) ==
    [task[j] EXCEPT !.pc = "queued", !.row = r, !.named = TRUE,
                    !.target = row[r].folder,
                    !.mode = ModeFor(task[j].skip, last, row[r].folder)]

\* _execute_push up to mark_running.  The row is looked up again.
Start(j) ==
    /\ Single(j) /\ task[j].pc = "start"
    /\ LET r == task[j].row
       IN  IF Found(r, task[j].named)
           THEN \E last \in LastSeeded(r) :
                    /\ task' = [task EXCEPT ![j] = Routed(j, r, last)]
                    /\ row' = Running(r, j)
                    /\ Asked(r, last)
           ELSE Goto(j, "fail") /\ UNCHANGED <<row, tainted, troubles>>
    /\ UNCHANGED <<present, local, batchJob, remote, store, lock, jobs, batch, content>>

\* What a push was doing waits in no queue when it ends before its time.
Dropped(s) == [s EXCEPT !.left = @ \cup s.open, !.open = {}]

\* An exception in _execute_push.
Raise(j) ==
    /\ Single(j) /\ task[j].pc \in {"start", "queued", "seeding", "seeded", "verdict", "remember"}
    /\ Found(task[j].row, task[j].named)
    /\ task' = [task EXCEPT ![j].pc = "fail", ![j].named = TRUE]
    /\ Fault
    /\ IF task[j].pc \in {"start", "queued"} THEN UNCHANGED tainted ELSE Taint(Who(j))
    /\ store' = [store EXCEPT ![Who(j)] = Dropped(@)]
    /\ UNCHANGED <<manifest, remote, lock, jobs, batch, content>>

\* mark_failed
Failed(j) ==
    LET r == task[j].row
    IN  UpdateAccount(r, task[j].named,
                      IF OwnsJob(j) THEN [row[r] EXCEPT !.state = "failed"] ELSE row[r])

\* Variant: a row that cannot be found ends the thread before its release.
FailMarkLeaks(j) ==
    /\ task[j].pc = "fail"
    /\ row' = Failed(j)
    /\ IF Found(task[j].row, task[j].named) THEN Goto(j, "release") ELSE Off(j)
    /\ jobs' = Closed(j, "failed")
    /\ UNCHANGED <<present, local, batchJob, remote, store, lock, batch, content, tainted, troubles>>

\* Variant: the handler of the exception gives the lock back, as the end does.
FailMarkUnlocks(j) ==
    /\ task[j].pc = "fail"
    /\ row' = Failed(j)
    /\ jobs' = Closed(j, "failed")
    /\ lock' = lock \ {Who(j)}
    /\ Goto(j, "release")
    /\ UNCHANGED <<present, local, batchJob, remote, store, batch, content, tainted, troubles>>

\* The handler of the exception: mark_failed if the row can be found and is still
\* this job's.
FailMark(j) ==
    /\ task[j].pc = "fail"
    /\ row' = Failed(j)
    /\ jobs' = Closed(j, "failed")
    /\ Goto(j, "release")
    /\ UNCHANGED <<present, local, batchJob, remote, store, lock, batch, content, tainted, troubles>>

Release(j) ==
    /\ task[j].pc = "release"
    /\ lock' = lock \ {Who(j)}
    /\ Off(j)
    /\ UNCHANGED <<manifest, remote, store, jobs, batch, content, tainted, troubles>>

-----------------------------------------------------------------------------
(* Seeding and settling, of a single push and of a child of a push-all *)

\* The pipeline runs the children of a push-all together; they are settled one by
\* one when it is done.
MaySeed(j)   == IF Single(j) THEN TRUE ELSE batch[task[j].of].pc = "provision"
MaySettle(j) == IF Single(j) THEN TRUE
                ELSE /\ batch[task[j].of].pc = "verify"
                     /\ \A c \in Works(task[j].of) : j <= c

\* Rows that wait in no queue are taken by the next push, whosever they are; it has
\* credentials for its own accounts only, and the others' rows fail for good.
Together(j, a) == ~Single(j) /\ a \in batch[task[j].of].held
Orphaned(s)    == [s EXCEPT !.lost = @ \cup s.left, !.left = {}]
Queued(j, s) ==
    store' = [a \in Emails |-> IF a = Who(j) THEN s
                               ELSE IF Together(j, a) THEN store[a] ELSE Orphaned(store[a])]

\* The rows of a persona the store has not seen.
Unseen(s, p) == {p} \ (s.done \cup s.lost)

\* The first reseed of the account over this store: its rows that were done are
\* PENDING again, in no queue; rows left by an earlier push may run before the wipe.
\* The wipe may pass over items, leave a service the new persona has no file for, or
\* fail for good, and with it the rows that depend on it.
Wipe(j) ==
    /\ task[j].pc = "queued" /\ MaySeed(j)
    /\ task[j].mode = "reseed" /\ store[Who(j)].wipe = "none"
    /\ LET e == Who(j)
           p == task[j].target
           s == store[e]
       IN  \E kept \in SUBSET content[e], early \in SUBSET (s.left \ {p}), wipe \in {"done", "lost"} :
               /\ content' = [content EXCEPT ![e] = kept]
               /\ Queued(j, [open |-> (s.left \ early) \cup Unseen(s, p), left |-> s.done \cup early,
                             done |-> {}, lost |-> IF wipe = "lost" THEN s.lost \cup {p} ELSE s.lost,
                             wipe |-> wipe])
               /\ IF kept = {} /\ wipe = "done" THEN NoFault /\ UNCHANGED tainted ELSE Fault /\ Taint(e)
    /\ Goto(j, "seeding")
    /\ UNCHANGED <<manifest, remote, lock, jobs, batch>>

\* No wipe: a seed or a delta, or a reseed over a store whose wipe is done, or has
\* failed.  A skipped-only push may plan no row of its persona, or, when nothing was
\* left out, not reach the pipeline.
SeedBegin(j) ==
    /\ task[j].pc = "queued" /\ MaySeed(j)
    /\ LET e == Who(j)
           p == task[j].target
           s == store[e]
       IN  /\ task[j].mode = "reseed" => s.wipe # "none"
           /\ \/ /\ \E new \in {Unseen(s, p)} \cup (IF task[j].skip THEN {{}} ELSE {}) :
                         Queued(j, [s EXCEPT !.open = @ \cup s.left \cup new, !.left = {},
                                             !.lost = IF task[j].mode = "reseed" /\ s.wipe = "lost"
                                                      THEN @ \cup new ELSE @])
                 /\ Goto(j, "seeding")
              \/ /\ task[j].skip /\ Single(j)
                 /\ task' = [task EXCEPT ![j].pc = "verdict", ![j].status = "ok"]
                 /\ UNCHANGED store
           /\ IF task[j].mode = "reseed" \/ (task[j].skip /\ content[e] # {p})
              THEN Taint(e) ELSE UNCHANGED tainted
    /\ UNCHANGED <<manifest, remote, lock, jobs, batch, content, troubles>>

\* The first row of a persona is done.
SeedSome(j) ==
    /\ task[j].pc = "seeding"
    /\ LET e == Who(j)
       IN  \E q \in store[e].open \ store[e].done :
               /\ store' = [store EXCEPT ![e].done = @ \cup {q}]
               /\ content' = [content EXCEPT ![e] = @ \cup {q}]
    /\ UNCHANGED <<manifest, remote, lock, jobs, threads, tainted, troubles>>

\* The last of the push's rows is done or has failed for good: its wipe failed, a
\* call did, or the push of another account took it.
SeedRows(j) ==
    /\ task[j].pc = "seeding"
    /\ LET e == Who(j)
           s == store[e]
       IN  \E bad \in SUBSET s.open :
               /\ store' = [store EXCEPT ![e] = [s EXCEPT !.open = {}, !.done = @ \cup (s.open \ bad),
                                                          !.lost = @ \cup bad]]
               /\ content' = [content EXCEPT ![e] = @ \cup (s.open \ bad)]
               /\ IF bad \subseteq s.lost THEN NoFault ELSE Fault
    /\ Goto(j, "seeded")
    /\ UNCHANGED <<manifest, remote, lock, jobs, batch, tainted>>

\* unfinished: rows of any account of the run.
Unfinished == \E a \in Emails : store[a].open \cup store[a].left # {}

\* The status of an account, from all its rows, this push's or not.
StatusOf(s) == IF s.lost = {} THEN "ok" ELSE IF s.done = {} THEN "failed" ELSE "partial"

\* The pipeline ends when no row of the store is left to do.
SeedEnd(j) ==
    /\ task[j].pc = "seeded" /\ ~Unfinished
    /\ Single(j) \/ \A c \in Works(task[j].of) : task[c].pc # "queued"
    /\ task' = [task EXCEPT ![j].pc = "verdict", ![j].status = StatusOf(store[Who(j)])]
    /\ IF StatusOf(store[Who(j)]) = "failed" THEN Taint(Who(j)) ELSE UNCHANGED tainted
    /\ UNCHANGED <<manifest, remote, store, lock, jobs, batch, content, troubles>>

\* finish_ok: a single push only while the row is its own, a push-all always.
Verdict(j) ==
    /\ task[j].pc = "verdict" /\ MaySettle(j)
    /\ LET r == task[j].row
       IN  row' = IF Single(j) /\ ~OwnsJob(j) THEN row
                  ELSE [row EXCEPT ![r].state = task[j].status,
                                   ![r].last = IF Good(j) THEN task[j].target ELSE @,
                                   ![r].job = j]
    /\ Goto(j, IF Good(j) THEN "remember" ELSE "finish")
    /\ UNCHANGED <<present, local, batchJob, remote, store, lock, jobs, batch, content, tainted, troubles>>

Remember(j) ==
    /\ task[j].pc = "remember" /\ MaySettle(j)
    /\ local' = [local EXCEPT ![Who(j)] = task[j].target]
    /\ Goto(j, "finish")
    /\ UNCHANGED <<present, row, batchJob, remote, store, lock, jobs, batch, content, tainted, troubles>>

\* The status of a child goes into the list of its push-all.
Settled(j, status) ==
    batch' = IF Single(j) THEN batch ELSE [batch EXCEPT ![task[j].of].seen = @ \cup {status}]

\* finish, then on_push_success, whatever the push came to: the persona goes to the
\* account's row in Supabase, if it has one and Supabase answers.
Finish(j) ==
    /\ task[j].pc = "finish" /\ MaySettle(j)
    /\ jobs' = Closed(j, task[j].status)
    /\ \/ /\ remote' = IF Who(j) \in Recorded THEN [remote EXCEPT ![Who(j)] = task[j].target]
                       ELSE remote
          /\ NoFault /\ UNCHANGED tainted
       \/ Fault /\ Taint(Who(j)) /\ UNCHANGED remote
    /\ IF Single(j) THEN Goto(j, "release") ELSE Off(j)
    /\ Settled(j, task[j].status)
    /\ UNCHANGED <<manifest, store, lock, content>>

\* An exception while a child is settled: its job fails, its row stays as it is.
ChildRaises(j) ==
    /\ ~Single(j) /\ task[j].pc \in {"verdict", "remember"} /\ MaySettle(j)
    /\ jobs' = Closed(j, "failed")
    /\ Off(j)
    /\ Settled(j, "failed")
    /\ Fault /\ Taint(Who(j))
    /\ UNCHANGED <<manifest, remote, store, lock, content>>

-----------------------------------------------------------------------------
(* Push-all *)

\* summarize_run_skips: a row whose last push, not a running one, left something out.
HasSkips(r) == row[r].state \in {"ok", "partial", "failed"}

\* All the rows, or those with skipped items that are not running.  Nobody notices
\* when the thread cannot be started.
PushAll(skip, rows) ==
    /\ rows \subseteq present /\ rows # {} /\ Len(jobs) < NJobs
    /\ IF skip THEN \A r \in rows : HasSkips(r) ELSE rows = present
    /\ batchJob' = NewJob
    /\ jobs' = Append(jobs, "running")
    /\ \/ /\ batch' = [batch EXCEPT ![NewJob] = [NoBatch EXCEPT !.pc = "take", !.skip = skip,
                                                   !.todo = rows]]
          /\ NoFault
       \/ Fault /\ UNCHANGED batch
    /\ UNCHANGED <<present, row, local, remote, store, lock, task, content, tainted>>

\* Rows are in the order of user_id_sort_key.
NextRow(b) == CHOOSE r \in batch[b].todo : \A q \in batch[b].todo : r <= q

\* The next row: busy, prepared as a child, or its preparation fails.
TakeRow(b) ==
    /\ batch[b].pc = "take" /\ batch[b].todo # {}
    /\ LET r == NextRow(b)
           e == EmailOf[r]
           rest == [batch EXCEPT ![b].todo = @ \ {r}]
           lost == [rest EXCEPT ![b].seen = @ \cup {"failed"}]
       IN  \/ /\ e \in lock
              /\ batch' = lost
              /\ NoFault /\ UNCHANGED <<row, lock, jobs, task, tainted>>
           \/ /\ e \notin lock /\ Len(jobs) < NJobs
              /\ lock' = lock \cup {e}
              /\ jobs' = Append(jobs, "running")
              /\ \E last \in LastSeeded(r) :
                     /\ task' = [task EXCEPT ![NewJob] =
                                    [NoTask EXCEPT !.pc = "queued", !.row = r, !.of = b,
                                        !.skip = batch[b].skip, !.target = row[r].folder,
                                        !.mode = ModeFor(batch[b].skip, last, row[r].folder)]]
                     /\ Asked(r, last)
              /\ row' = Running(r, NewJob)
              /\ batch' = [rest EXCEPT ![b].held = @ \cup {e}]
           \/ /\ e \notin lock /\ Len(jobs) < NJobs
              /\ jobs' = Append(jobs, "failed")
              /\ batch' = lost
              /\ Fault /\ UNCHANGED <<row, lock, task, tainted>>
    /\ UNCHANGED <<present, local, batchJob, remote, store, content>>

Provision(b) ==
    /\ batch[b].pc = "take" /\ batch[b].todo = {}
    /\ batch' = [batch EXCEPT ![b].pc = IF Works(b) = {} THEN "verify" ELSE "provision"]
    /\ UNCHANGED <<manifest, remote, store, lock, jobs, task, content, tainted, troubles>>

\* provision_accounts refuses the plan of one account: the thread gives the locks
\* back and ends; rows and jobs stay as they are.
ProvisionRaises(b) ==
    /\ batch[b].pc = "provision" /\ \A c \in Works(b) : task[c].pc = "queued"
    /\ Fault
    /\ task' = [c \in JobIds |-> IF c \in Works(b) THEN NoTask ELSE task[c]]
    /\ batch' = [batch EXCEPT ![b].pc = "release"]
    /\ UNCHANGED <<manifest, remote, store, lock, jobs, content, tainted>>

Provisioned(b) ==
    /\ batch[b].pc = "provision" /\ \A c \in Works(b) : task[c].pc = "verdict"
    /\ batch' = [batch EXCEPT ![b].pc = "verify"]
    /\ UNCHANGED <<manifest, remote, store, lock, jobs, task, content, tainted, troubles>>

BatchEnd(b) ==
    /\ batch[b].pc = "verify" /\ Works(b) = {}
    /\ jobs' = Closed(b, BatchStatus(batch[b].seen))
    /\ batch' = [batch EXCEPT ![b].pc = "release"]
    /\ UNCHANGED <<manifest, remote, store, lock, task, content, tainted, troubles>>

BatchRelease(b) ==
    /\ batch[b].pc = "release"
    /\ \E e \in batch[b].held :
           /\ lock' = lock \ {e}
           /\ batch' = [batch EXCEPT ![b].held = @ \ {e}]
    /\ UNCHANGED <<manifest, remote, store, jobs, task, content, tainted, troubles>>

\* clear_batch: the run forgets this push-all, not a later one.
BatchClear(b) ==
    /\ batch[b].pc = "release" /\ batch[b].held = {}
    /\ batchJob' = IF batchJob = b THEN 0 ELSE batchJob
    /\ batch' = [batch EXCEPT ![b] = NoBatch]
    /\ UNCHANGED <<present, row, local, remote, store, lock, jobs, task, content, tainted, troubles>>

-----------------------------------------------------------------------------
(* The operator and the server *)

\* merge_accounts
AddRow(r) ==
    /\ r \in Rows \ present
    /\ present' = present \cup {r}
    /\ UNCHANGED <<row, local, batchJob, remote, store, lock, jobs, threads, content, tainted, troubles>>

\* set_persona, also while the row is pushed; bound: once.
SetFolder(r, p) ==
    /\ r \in present /\ p # Folder[r] /\ \A q \in Rows : row[q].folder = Folder[q]
    /\ row' = [row EXCEPT ![r].folder = p]
    /\ UNCHANGED <<present, local, batchJob, remote, store, lock, jobs, threads, content, tainted, troubles>>

\* The process dies; recover_interrupted_runs runs before the next one serves.
Restart ==
    /\ Fault
    /\ row' = [r \in Rows |-> IF r \in present /\ row[r].state = "running"
                              THEN [row[r] EXCEPT !.state = "failed", !.job = 0] ELSE row[r]]
    /\ batchJob' = 0
    /\ lock' = {}
    /\ jobs' = [i \in DOMAIN jobs |-> IF jobs[i] = "running" THEN "gone" ELSE jobs[i]]
    /\ tainted' = tainted \cup {Who(j) : j \in {i \in JobIds :
                       task[i].pc \in {"seeding", "seeded", "verdict", "remember", "finish"}}}
    /\ store' = [e \in Emails |-> Dropped(store[e])]
    /\ task' = [j \in JobIds |-> NoTask]
    /\ batch' = [j \in JobIds |-> NoBatch]
    /\ UNCHANGED <<present, local, remote, content>>

TaskStep(j) ==
    \/ Start(j) \/ FailMark(j) \/ Release(j)
    \/ Wipe(j) \/ SeedBegin(j) \/ SeedSome(j) \/ SeedRows(j) \/ SeedEnd(j)
    \/ Verdict(j) \/ Remember(j) \/ Finish(j)
BatchStep(b) ==
    \/ TakeRow(b) \/ Provision(b) \/ Provisioned(b)
    \/ BatchEnd(b) \/ BatchRelease(b) \/ BatchClear(b)

Next ==
    \/ \E r \in Rows, named, skip \in BOOLEAN : Push(r, named, skip)
    \/ \E j \in JobIds : TaskStep(j) \/ Raise(j) \/ ChildRaises(j)
    \/ \E skip \in BOOLEAN, rows \in SUBSET Rows : PushAll(skip, rows)
    \/ \E b \in JobIds : BatchStep(b) \/ ProvisionRaises(b)
    \/ \E r \in Rows : AddRow(r)
    \/ \E r \in Rows, p \in Personas : SetFolder(r, p)
    \/ Restart

Spec == Init /\ [][Next]_vars
\* A thread that can go on goes on, and a call to Google returns.
FairSpec ==
    Spec /\ \A j \in JobIds : WF_vars(TaskStep(j) \/ BatchStep(j))

-----------------------------------------------------------------------------
(* Properties *)

States   == {"idle", "running", "ok", "partial", "failed"}
JobStates == {"running", "ok", "partial", "failed", "gone"}
Statuses == {"none", "ok", "partial", "failed"}
PCs      == {"off", "start", "queued", "seeding", "seeded", "verdict", "remember", "finish", "fail", "release"}
ARow     == [folder : Personas, state : States, job : 0..NJobs, last : Personas \cup {NoPersona}]
ATask    == [pc : PCs, row : Rows, named : BOOLEAN, skip : BOOLEAN, mode : {"seed", "delta", "reseed"},
             target : Personas \cup {NoPersona}, status : Statuses, of : 0..NJobs]
Rowset   == [open : SUBSET Personas, left : SUBSET Personas, done : SUBSET Personas,
             lost : SUBSET Personas, wipe : {"none", "done", "lost"}]
ABatch   == [pc : {"off", "take", "provision", "verify", "release"}, todo : SUBSET Rows,
             skip : BOOLEAN, held : SUBSET Emails, seen : SUBSET {"ok", "partial", "failed"}]

\* Every variable has its type: the manifest, the locks, jobs and threads of the
\* server, and the accounts.
TypeOK ==
    /\ present \subseteq Rows
    /\ row \in [Rows -> ARow]
    /\ local \in [Emails -> Personas \cup {NoPersona}]
    /\ remote \in [Emails -> Personas \cup {NoPersona}]
    /\ store \in [Emails -> Rowset]
    /\ batchJob \in 0..NJobs
    /\ lock \subseteq Emails
    /\ jobs \in Seq(JobStates) /\ Len(jobs) <= NJobs
    /\ task \in [JobIds -> ATask]
    /\ batch \in [JobIds -> ABatch]
    /\ content \in [Emails -> SUBSET Personas]
    /\ tainted \subseteq Emails
    /\ troubles \in 0..MaxTroubles

Holds(j, e) == \/ task[j].pc # "off" /\ Single(j) /\ Who(j) = e
               \/ e \in batch[j].held
Holder(e)   == IF \E j \in JobIds : Holds(j, e) THEN CHOOSE j \in JobIds : Holds(j, e) ELSE 0

\* The pushes of an account take turns: between a push that took its lock and the
\* release nothing else changes the account, although a lock can be released by any
\* thread, a push-all holds several and a restart drops them all.
Turns == INSTANCE AccountTurns WITH Workers <- JobIds, Accounts <- Emails, Contents <- SUBSET Personas,
                                    Nobody <- 0, user <- [e \in Emails |-> Holder(e)]
AccountsTakeTurns == Turns!TurnsSpec

\* An account nobody pushes holds the persona remembered of it, by the run or else by
\* Supabase, and nothing of another, however often it was handed from one persona to
\* another, whichever memory was asked and whichever row of the email was pushed.
\* Left out are accounts a push left in doubt: a call failed, a wipe left something
\* behind or was not made because this store's wipe was used up, or a skipped-only
\* push was asked for over something else.
Remembered(e) == IF local[e] # NoPersona THEN local[e] ELSE remote[e]
IdleAccountIsPure ==
    \A e \in Emails \ (lock \cup tainted) : content[e] = {Remembered(e)} \ {NoPersona}

\* Every lock that is taken is released in the end, also when a row became ambiguous
\* or a call failed; but no push ends while rows of the run wait that a wipe or a death
\* left in no queue.
LocksAreFreed ==
    \A e \in Emails : []<>(e \notin lock \/ \E a \in Emails : store[a].left # {})

\* Supabase's column changes by a push that seeded the account.
ColumnFollowsSuccess ==
    [][\A e \in Emails : remote'[e] # remote[e] =>
           \E j \in JobIds : task[j].pc = "finish" /\ Who(j) = e /\ Good(j)]_vars
=============================================================================

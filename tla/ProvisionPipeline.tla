------------------------- MODULE ProvisionPipeline --------------------------
(***************************************************************************)
(* The provisioning pipeline of the seeder: the SQLite job store of a run, *)
(* the planner that upserts the jobs of an account, and the Pipeline that  *)
(* executes them with worker threads per service, a retry heap, a reaper   *)
(* for stale claims, a checksum worker and a main loop that stops them.    *)
(*                                                                         *)
(* A pipe is one Pipeline object, made for one push.  Two pushes of the    *)
(* same run are two pipes over one store: the path of the store is that of *)
(* the run (_store_path), and only pushes of one account exclude each      *)
(* other.  A crash takes the process with all its pipes; the store and     *)
(* what Google holds survive it.                                           *)
(***************************************************************************)
EXTENDS Integers, FairQueue

CONSTANTS
    Plan,        \* the rows the planner makes, in its order: records
                 \* [account, service, action, deps], deps a sequence of indices
    Pipes,       \* pushes that share the store of a run
    Emails,      \* Pipes -> the accounts it holds credentials for
    Pool,        \* workers of each service: [service -> number]
    MaxRetries,  \* max_retries
    Wiping,      \* choices of work.wipe
    Drift,       \* <<account, service>> whose content the account's user changes
    LiveReclaim, \* whether a call can outlast stale_processing_s
    MaxFaults,   \* bound: failed calls
    MaxCrashes,  \* bound: process crashes
    MaxPushes,   \* bound: pushes per pipe
    MaxReclaims  \* bound: retry_count past MaxRetries
CONSTANT Shared  \* the account "*" of the generate jobs

Jobs == 1..Len(Plan)
Actions == {"materialize", "wipe", "create_folder", "ensure_label",
            "upload", "insert_event", "insert_message"}
Ensures == {"materialize", "create_folder", "ensure_label"}
Services == {Plan[j].service : j \in Jobs}
Accounts == {Plan[j].account : j \in Jobs}
Retries  == 0..(MaxRetries + MaxReclaims)
Entry    == [job : Jobs, retry : Retries]
Threads  == UNION {Pipes \X {s} \X (1..Pool[s]) : s \in Services}
Pipe(w)    == w[1]
Service(w) == w[2]

ASSUME PipelineAssumption ==
    /\ Len(Plan) \in Nat
    /\ \A j \in Jobs : /\ Plan[j].action \in Actions
                       /\ \A i \in DOMAIN Plan[j].deps : Plan[j].deps[i] \in Jobs \ {j}
    /\ \A p \in Pipes : Emails[p] \subseteq Accounts \ {Shared}
    /\ MaxRetries \in Nat \ {0}
    /\ \A s \in Services : Pool[s] \in Nat \ {0}
    /\ {MaxFaults, MaxCrashes, MaxPushes, MaxReclaims} \subseteq Nat
    /\ Drift \subseteq {<<Plan[j].account, Plan[j].service>> : j \in Jobs}
    /\ Wiping \subseteq BOOLEAN /\ LiveReclaim \in BOOLEAN

Slot(j) == <<Plan[j].account, Plan[j].service>>
Children(j) == {k \in Jobs : Slot(k) = Slot(j) /\ Plan[k].action \notin {"wipe", "materialize"}}

\* What the planner makes of the dependencies: a row waits for rows of its own
\* account and the shared ones, and what a wipe clears comes after it: the events,
\* the label and the root folder wait for the wipe, the messages for the label,
\* folders and files for their folder.
ASSUME PlannerAssumption ==
    \A j \in Jobs :
        /\ \A i \in DOMAIN Plan[j].deps :
              Plan[Plan[j].deps[i]].account \in {Plan[j].account, Shared}
        /\ Plan[j].action = "wipe" =>
              \A k \in Children(j) : \E i \in DOMAIN Plan[k].deps :
                  Plan[k].deps[i] \in Children(j) \cup {j}

Statuses == {"NONE", "PENDING", "PROCESSING", "SUCCESS", "RETRY", "PERMANENT_FAILURE"}
Unfinished == {"PENDING", "PROCESSING", "RETRY"}
PCs == {"idle", "deps", "check", "reset", "mark", "exec", "finish", "transient", "permanent"}
Calling == {"exec", "finish", "transient", "permanent"}
MaxCopies == 1 + MaxFaults + MaxCrashes + MaxReclaims

VARIABLES
    status, retry, claim, deps,  \* the store: Jobs -> columns; claim is the age of claimed_at
    phase, wiping, idle,         \* Pipes -> state of run(), work.wipe, idle_ticks
    listed,                      \* Pipes -> rows read from the store and yet to be queued
    queue, heap, sums,           \* Pipes -> FairQueues by service, RetryHeap (how often it has
                                 \* an entry), checksum queue
    pc, cur, unread,             \* Threads -> step of _run_one, entry, dependencies to look at
    live, dirty, stray,          \* Google: objects of a job, leftovers, uploads outside their folder
    spared,                      \* history: slots whose last wipe passed over something
    result,                      \* Accounts -> AccountResult.status of its last push
    faults, crashes, pushes,     \* counters for the bounds
    tried                        \* history: jobs attempted since their account's push began

store   == <<status, retry, claim, deps>>
control == <<phase, wiping, idle>>
tokens  == <<listed, queue, heap, sums>>
threads == <<pc, cur, unread>>
google  == <<live, dirty, stray, spared>>
bounds  == <<crashes, pushes>>
vars == <<store, control, tokens, threads, google, result, faults, bounds, tried>>

NoEntry == [job |-> CHOOSE j \in Jobs : TRUE, retry |-> 0]
NoHeap  == [e \in Entry |-> 0]
NoQueues == [s \in Services |-> NewQueue(Accounts)]
Job(w) == cur[w].job

Init ==
    /\ status = [j \in Jobs |-> "NONE"]
    /\ retry = [j \in Jobs |-> 0]
    /\ claim = [j \in Jobs |-> "none"]
    /\ deps = [j \in Jobs |-> {}]
    /\ phase = [p \in Pipes |-> "off"]
    /\ wiping = [p \in Pipes |-> FALSE]
    /\ idle = [p \in Pipes |-> 0]
    /\ listed = [p \in Pipes |-> {}]
    /\ queue = [p \in Pipes |-> NoQueues]
    /\ heap = [p \in Pipes |-> NoHeap]
    /\ sums = [p \in Pipes |-> {}]
    /\ pc = [w \in Threads |-> "idle"]
    /\ cur = [w \in Threads |-> NoEntry]
    /\ unread = [w \in Threads |-> {}]
    /\ live = [j \in Jobs |-> 0]
    /\ dirty = {}
    /\ stray = {} /\ spared = {}
    /\ result = [a \in Accounts |-> "none"]
    /\ faults = 0 /\ crashes = 0
    /\ pushes = [p \in Pipes |-> 0]
    /\ tried = {}

-----------------------------------------------------------------------------
(* A push: plan the jobs, queue the runnable ones, start the threads *)

\* The jobs of a push: all of its accounts' and the shared ones, wipes on request.
Planned(p, wipe) ==
    {j \in Jobs : /\ Plan[j].account \in Emails[p] \cup {Shared}
                  /\ Plan[j].action = "wipe" => wipe}

\* depends_on names a wipe only when this push plans it; a dependency is known by
\* its place in the plan's list.
DepsOf(j, planned) == {i \in DOMAIN Plan[j].deps : Plan[j].deps[i] \in planned}

\* upsert: a new row is PENDING, a SUCCESS row stays as it is, any other keeps
\* its status and gets the new depends_on.
PlanJobs(p, wipe) ==
    /\ phase[p] = "off" /\ pushes[p] < MaxPushes
    /\ \A w \in Threads : Pipe(w) = p => pc[w] = "idle"
    /\ LET planned == Planned(p, wipe)
           kept    == {j \in planned : status[j] = "SUCCESS"}
       IN  /\ status' = [j \in Jobs |-> IF j \in planned /\ status[j] = "NONE"
                                        THEN "PENDING" ELSE status[j]]
           /\ deps' = [j \in Jobs |-> IF j \in planned \ kept
                                      THEN DepsOf(j, planned) ELSE deps[j]]
           /\ tried' = tried \ planned
    /\ phase' = [phase EXCEPT ![p] = "planned"]
    /\ wiping' = [wiping EXCEPT ![p] = wipe]
    /\ pushes' = [pushes EXCEPT ![p] = @ + 1]
    /\ result' = [a \in Accounts |-> IF a \in Emails[p] THEN "none" ELSE result[a]]
    /\ UNCHANGED <<retry, claim, idle, tokens, threads, google, faults, crashes>>

\* What is first in the order of the plan, of created_at and of depends_on.
First(n, S) == \A m \in S : n <= m

\* list_runnable: every PENDING or RETRY row of the store, of any account.
ListRunnable(p) ==
    /\ phase[p] = "planned"
    /\ phase' = [phase EXCEPT ![p] = "filling"]
    /\ listed' = [listed EXCEPT ![p] = {[job |-> j, retry |-> retry[j]] :
                                           j \in {k \in Jobs : status[k] \in {"PENDING", "RETRY"}}}]
    /\ UNCHANGED <<store, wiping, idle, queue, heap, sums, threads, google, result,
                   faults, bounds, tried>>

\* _enqueue_runnable and _reaper put the rows they have read into the queues, one
\* by one in the order of the store.
Enqueue(p) ==
    /\ phase[p] \in {"filling", "up"}
    /\ \E e \in listed[p] :
           /\ First(e.job, {f.job : f \in listed[p]})
           /\ listed' = [listed EXCEPT ![p] = @ \ {e}]
           /\ queue' = [queue EXCEPT ![p][Plan[e.job].service] = Put(@, Plan[e.job].account, e)]
    /\ UNCHANGED <<store, control, heap, sums, threads, google, result, faults, bounds, tried>>

\* The threads start.
StartThreads(p) ==
    /\ phase[p] = "filling" /\ listed[p] = {}
    /\ phase' = [phase EXCEPT ![p] = "up"]
    /\ idle' = [idle EXCEPT ![p] = 0]
    /\ UNCHANGED <<store, wiping, tokens, threads, google, result, faults, bounds, tried>>

-----------------------------------------------------------------------------
(* A worker: queue.get, then _run_one step by step *)

Goto(w, step) == pc' = [pc EXCEPT ![w] = step]
Forget(w)  == unread' = [unread EXCEPT ![w] = {}]

\* mark: the status of a row and, if told to, its claim; unconditional.
Mark(j, st, cl) ==
    /\ status' = [status EXCEPT ![j] = st]
    /\ claim' = [claim EXCEPT ![j] = cl]
    /\ UNCHANGED deps

Take(w) ==
    LET p == Pipe(w)
        q == queue[p][Service(w)]
    IN  /\ pc[w] = "idle" /\ phase[p] = "up" /\ Waiting(q)
        /\ cur' = [cur EXCEPT ![w] = NextOf(q)]
        /\ queue' = [queue EXCEPT ![p][Service(w)] = AfterGet(q)]
        /\ unread' = [unread EXCEPT ![w] = deps[NextOf(q).job]]
        /\ Goto(w, IF deps[NextOf(q).job] = {} THEN "check" ELSE "deps")
        /\ UNCHANGED <<store, control, listed, heap, sums, google, result, faults, bounds, tried>>

\* The dependency _deps_ready looks at next has this place in the list and this status.
Reads(w, i, st) ==
    /\ pc[w] = "deps" /\ i \in unread[w] /\ First(i, unread[w])
    /\ st = status[Plan[Job(w)].deps[i]]

\* Variant: anything but a failure counts as ready.
DepReadyUnlessFailed(w) ==
    \E i \in unread[w], st \in Statuses \ {"PERMANENT_FAILURE"} :
        /\ Reads(w, i, st)
        /\ unread' = [unread EXCEPT ![w] = @ \ {i}]
        /\ Goto(w, IF unread[w] = {i} THEN "check" ELSE "deps")
        /\ UNCHANGED <<store, control, tokens, cur, google, result, faults, bounds, tried>>
\* Variant: a dependency that has not run yet counts as failed.
DepFailedEarly(w) ==
    \E i \in unread[w], st \in Statuses \ {"SUCCESS"} :
        /\ Reads(w, i, st)
        /\ Mark(Job(w), "PERMANENT_FAILURE", "none")
        /\ Goto(w, "idle") /\ Forget(w)
        /\ UNCHANGED <<retry, control, tokens, cur, google, result, faults, bounds, tried>>
\* Variant: a waiting job is marked PENDING and not put on the heap.
DepWaitsDropped(w) ==
    \E i \in unread[w], st \in Statuses \ {"SUCCESS", "PERMANENT_FAILURE"} :
        /\ Reads(w, i, st)
        /\ Mark(Job(w), "PENDING", "none")
        /\ Goto(w, "idle") /\ Forget(w)
        /\ UNCHANGED <<retry, control, tokens, cur, google, result, faults, bounds, tried>>

\* _deps_ready reads one dependency at a time and stops at the first that is
\* not SUCCESS: a failed one fails the job, any other sends it back to wait.
DepReady(w) ==
    \E i \in unread[w] :
        /\ Reads(w, i, "SUCCESS")
        /\ unread' = [unread EXCEPT ![w] = @ \ {i}]
        /\ Goto(w, IF unread[w] = {i} THEN "check" ELSE "deps")
        /\ UNCHANGED <<store, control, tokens, cur, google, result, faults, bounds, tried>>

DepFailed(w) ==
    \E i \in unread[w] :
        /\ Reads(w, i, "PERMANENT_FAILURE")
        /\ Mark(Job(w), "PERMANENT_FAILURE", "none")
        /\ Goto(w, "idle") /\ Forget(w)
        /\ UNCHANGED <<retry, control, tokens, cur, google, result, faults, bounds, tried>>

PushRetry(p, e) == heap' = [heap EXCEPT ![p][e] = @ + 1]

DepWaits(w) ==
    \E i \in unread[w], st \in Statuses \ {"SUCCESS", "PERMANENT_FAILURE"} :
        /\ Reads(w, i, st)
        /\ Mark(Job(w), "PENDING", "none")
        /\ PushRetry(Pipe(w), cur[w])
        /\ Goto(w, "idle") /\ Forget(w)
        /\ UNCHANGED <<retry, control, listed, queue, sums, cur, google, result, faults, bounds, tried>>

\* A job that is SUCCESS already is dropped.
CheckDone(w) ==
    /\ pc[w] = "check"
    /\ Goto(w, IF status[Job(w)] = "SUCCESS" THEN "idle"
               ELSE IF Plan[Job(w)].action = "wipe" THEN "reset" ELSE "mark")
    /\ UNCHANGED <<store, control, tokens, cur, unread, google, result, faults, bounds, tried>>

\* reset_children_after_wipe: what had been restored must be restored again.
ResetChildren(w) ==
    LET again == {k \in Children(Job(w)) : status[k] = "SUCCESS"}
    IN  /\ pc[w] = "reset"
        /\ status' = [k \in Jobs |-> IF k \in again THEN "PENDING" ELSE status[k]]
        /\ claim' = [k \in Jobs |-> IF k \in again THEN "none" ELSE claim[k]]
        /\ Goto(w, "mark")
        /\ UNCHANGED <<retry, deps, control, tokens, cur, unread, google, result, faults, bounds, tried>>

MarkProcessing(w) ==
    /\ pc[w] = "mark"
    /\ Mark(Job(w), "PROCESSING", "fresh")
    /\ tried' = tried \cup {Job(w)}
    /\ Goto(w, "exec")
    /\ UNCHANGED <<retry, control, tokens, cur, unread, google, result, faults, bounds>>

-----------------------------------------------------------------------------
(* The Google call of a job (executors.py) and what it leaves there *)

\* The folder an upload goes to; "root" when that row has no id at the moment.
Folders(j) == {k \in Jobs : /\ \E i \in DOMAIN Plan[j].deps : Plan[j].deps[i] = k
                            /\ Plan[k].action = "create_folder"}

Applied(j) ==
    CASE Plan[j].action = "wipe" ->
            /\ live' = [k \in Jobs |-> IF k \in Children(j) THEN 0 ELSE live[k]]
            /\ dirty' = dirty \ {Slot(j)} /\ spared' = spared \ {Slot(j)}
            /\ stray' = stray
      [] Plan[j].action \in Ensures ->
            /\ live' = [live EXCEPT ![j] = 1]
            /\ UNCHANGED <<dirty, stray, spared>>
      [] OTHER ->
            /\ live' = [live EXCEPT ![j] = IF @ < MaxCopies THEN @ + 1 ELSE @]
            /\ stray' = IF \E k \in Folders(j) : status[k] # "SUCCESS"
                        THEN stray \cup {j} ELSE stray
            /\ UNCHANGED <<dirty, spared>>

\* wipe_seed_folder counts what Google lets it trash and returns as soon as a round
\* trashes nothing: any of the objects and leftovers may be there still.  The wipes of
\* mail and calendar return only when nothing is listed any more.
PassesOver(j) ==
    /\ Plan[j].action = "wipe" /\ Plan[j].service = "drive"
    /\ \E kept \in SUBSET Children(j) :
           live' = [k \in Jobs |-> IF k \in Children(j) \ kept THEN 0 ELSE live[k]]
    /\ dirty' \in {dirty, dirty \ {Slot(j)}}
    /\ spared' = spared \cup {Slot(j)}
    /\ stray' = stray

\* A job of an account the pipe holds no credentials for raises KeyError.
Foreign(w) == Plan[Job(w)].account \notin Emails[Pipe(w)] \cup {Shared}

\* Files a wipe may not trash are failed calls the job does not fail of.
CallSucceeds(w) ==
    /\ pc[w] = "exec" /\ ~Foreign(w)
    /\ \/ Applied(Job(w)) /\ UNCHANGED faults
       \/ PassesOver(Job(w)) /\ faults < MaxFaults /\ faults' = faults + 1
    /\ Goto(w, IF phase[Pipe(w)] = "off" THEN "idle" ELSE "finish")
    /\ UNCHANGED <<store, control, tokens, cur, unread, result, bounds, tried>>

\* A transient error may hide a call that took effect, or part of it.
CallFails(w) ==
    /\ pc[w] = "exec" /\ ~Foreign(w) /\ faults < MaxFaults
    /\ faults' = faults + 1
    /\ \/ /\ Goto(w, "transient")
          /\ Applied(Job(w)) \/ PassesOver(Job(w)) \/ UNCHANGED google
       \/ Goto(w, "permanent") /\ UNCHANGED google
    /\ phase[Pipe(w)] # "off"
    /\ UNCHANGED <<store, control, tokens, cur, unread, result, bounds, tried>>

CallRefused(w) ==
    /\ pc[w] = "exec" /\ Foreign(w)
    /\ Goto(w, "permanent")
    /\ UNCHANGED <<store, control, tokens, cur, unread, google, result, faults, bounds, tried>>

\* Variant: the checksum of an upload is part of the job and its error a failure of it.
FinishJobChecked(w) ==
    /\ pc[w] = "finish"
    /\ \/ /\ Mark(Job(w), "SUCCESS", "none")
          /\ Goto(w, "idle")
       \/ /\ Plan[Job(w)].action = "upload"
          /\ UNCHANGED <<status, claim, deps>>
          /\ Goto(w, "transient")
    /\ UNCHANGED <<retry, control, tokens, cur, unread, google, result, faults, bounds, tried>>
\* _finish_job: persist_success, and an upload is queued for its checksum.
FinishJob(w) ==
    /\ pc[w] = "finish"
    /\ Mark(Job(w), "SUCCESS", "none")
    /\ sums' = IF Plan[Job(w)].action = "upload"
               THEN [sums EXCEPT ![Pipe(w)] = @ \cup {Job(w)}] ELSE sums
    /\ Goto(w, "idle")
    /\ UNCHANGED <<retry, control, listed, queue, heap, cur, unread, google, result, faults, bounds, tried>>

\* _fail_job: give up, or mark RETRY and push the fresh row on the heap.
Exhausted(e) == e.retry + 1 >= MaxRetries

\* Variant: a push goes on after a wipe that failed.
GiveUpTolerant(w) ==
    /\ pc[w] = "permanent" \/ (pc[w] = "transient" /\ Exhausted(cur[w]))
    /\ Mark(Job(w), IF Plan[Job(w)].action = "wipe" THEN "SUCCESS" ELSE "PERMANENT_FAILURE", "none")
    /\ Goto(w, "idle")
    /\ UNCHANGED <<retry, control, tokens, cur, unread, google, result, faults, bounds, tried>>

GiveUp(w) ==
    /\ pc[w] = "permanent" \/ (pc[w] = "transient" /\ Exhausted(cur[w]))
    /\ Mark(Job(w), "PERMANENT_FAILURE", "none")
    /\ Goto(w, "idle")
    /\ UNCHANGED <<retry, control, tokens, cur, unread, google, result, faults, bounds, tried>>

RetryLater(w) ==
    /\ pc[w] = "transient" /\ ~Exhausted(cur[w])
    /\ Mark(Job(w), "RETRY", "none")
    /\ retry' = [retry EXCEPT ![Job(w)] = cur[w].retry + 1]
    /\ PushRetry(Pipe(w), [cur[w] EXCEPT !.retry = @ + 1])
    /\ Goto(w, "idle")
    /\ UNCHANGED <<control, listed, queue, sums, cur, unread, google, result, faults, bounds, tried>>

Worker(w) ==
    \/ Take(w) \/ DepReady(w) \/ DepFailed(w) \/ DepWaits(w) \/ CheckDone(w)
    \/ ResetChildren(w) \/ MarkProcessing(w) \/ CallSucceeds(w) \/ CallRefused(w)
    \/ FinishJob(w) \/ GiveUp(w) \/ RetryLater(w)

-----------------------------------------------------------------------------
(* The other threads of a pipe *)

\* pop_ready: backoffs are of any length, so any entry may be the next one.
PopReady(p) == {e \in Entry : heap[p][e] > 0}

\* _retry_pump
Pump(p, e) ==
    /\ phase[p] = "up" /\ e \in PopReady(p)
    /\ heap' = [heap EXCEPT ![p][e] = @ - 1]
    /\ queue' = [queue EXCEPT ![p][Plan[e.job].service] = Put(@, Plan[e.job].account, e)]
    /\ UNCHANGED <<store, control, listed, sums, threads, google, result, faults, bounds, tried>>

\* _checksum_worker marks the row SUCCESS with its digest, whatever it has
\* become; it does nothing when the content cannot be read.
Checksum(p, j) ==
    /\ phase[p] = "up" /\ j \in sums[p]
    /\ sums' = [sums EXCEPT ![p] = @ \ {j}]
    /\ status' = [status EXCEPT ![j] = "SUCCESS"] \/ UNCHANGED status
    /\ UNCHANGED <<retry, claim, deps, control, listed, queue, heap, threads, google, result,
                   faults, bounds, tried>>

\* reclaim_stale: these rows are to be run again.
Reclaim(p, old) ==
    /\ phase[p] = "up" /\ listed[p] = {} /\ old # {}
    /\ \A j \in old : retry[j] + 1 \in Retries
    /\ status' = [j \in Jobs |-> IF j \in old THEN "RETRY" ELSE status[j]]
    /\ claim' = [j \in Jobs |-> IF j \in old THEN "none" ELSE claim[j]]
    /\ retry' = [j \in Jobs |-> IF j \in old THEN retry[j] + 1 ELSE retry[j]]
    /\ listed' = [listed EXCEPT ![p] = {[job |-> j, retry |-> retry[j] + 1] : j \in old}]
    /\ UNCHANGED <<deps, control, queue, heap, sums, threads, google, result, faults, bounds, tried>>

\* Variant: the age of the claim is not looked at.
ReaperEager(p) == Reclaim(p, {j \in Jobs : status[j] = "PROCESSING" /\ claim[j] # "none"})
\* _reaper; the rows go back into the queues (Enqueue).
Reaper(p) == Reclaim(p, {j \in Jobs : status[j] = "PROCESSING" /\ claim[j] = "stale"})

\* A claim grows older than stale_processing_s: one that no thread works on
\* any more, or, when calls can be that slow, any.
Expire(j) ==
    /\ claim[j] = "fresh"
    /\ LiveReclaim \/ \A w \in Threads : pc[w] \in Calling => Job(w) # j
    /\ claim' = [claim EXCEPT ![j] = "stale"]
    /\ UNCHANGED <<status, retry, deps, control, tokens, threads, google, result, faults, bounds, tried>>

\* Variant: rows being processed are not counted.
AllTaken == \A j \in Jobs : status[j] \notin {"PENDING", "RETRY"}
AllDone == \A j \in Jobs : status[j] \notin Unfinished

\* The loop of run(): two ticks in a row without an unfinished row stop the threads.
Tick(p) ==
    /\ phase[p] = "up"
    /\ IF AllDone
       THEN /\ idle' = [idle EXCEPT ![p] = 1]
            /\ phase' = [phase EXCEPT ![p] = IF idle[p] = 1 THEN "stopping" ELSE "up"]
       ELSE idle' = [idle EXCEPT ![p] = 0] /\ UNCHANGED phase
    /\ UNCHANGED <<store, wiping, tokens, threads, google, result, faults, bounds, tried>>

\* The AccountResult of an account, from the rows of the store.
ResultOf(a) ==
    LET rows   == {j \in Jobs : Plan[j].account = a /\ status[j] # "NONE"}
        failed == {j \in rows : status[j] = "PERMANENT_FAILURE"}
    IN  IF failed = {} THEN "ok"
        ELSE IF \E j \in rows : status[j] = "SUCCESS" /\ Plan[j].action # "wipe"
             THEN "partial" ELSE "failed"

\* After the joins (which time out) the results are read and the store closed:
\* a thread still at work dies at its next access, its call may yet land.
Report(p) ==
    /\ phase[p] = "stopping"
    /\ phase' = [phase EXCEPT ![p] = "off"]
    /\ result' = [a \in Accounts |-> IF a \in Emails[p] THEN ResultOf(a) ELSE result[a]]
    /\ pc' = [w \in Threads |-> IF Pipe(w) = p /\ pc[w] # "exec" THEN "idle" ELSE pc[w]]
    /\ unread' = [w \in Threads |-> IF pc'[w] = "idle" THEN {} ELSE unread[w]]
    /\ listed' = [listed EXCEPT ![p] = {}]
    /\ queue' = [queue EXCEPT ![p] = NoQueues]
    /\ heap' = [heap EXCEPT ![p] = NoHeap]
    /\ sums' = [sums EXCEPT ![p] = {}]
    /\ UNCHANGED <<store, wiping, idle, cur, google, faults, bounds, tried>>

\* The process dies.
Crash ==
    /\ crashes < MaxCrashes
    /\ \E p \in Pipes : phase[p] # "off"
    /\ crashes' = crashes + 1
    /\ phase' = [p \in Pipes |-> "off"]
    /\ pc' = [w \in Threads |-> "idle"]
    /\ unread' = [w \in Threads |-> {}]
    /\ listed' = [p \in Pipes |-> {}]
    /\ queue' = [p \in Pipes |-> NoQueues]
    /\ heap' = [p \in Pipes |-> NoHeap]
    /\ sums' = [p \in Pipes |-> {}]
    /\ UNCHANGED <<store, wiping, idle, cur, google, result, faults, pushes, tried>>

\* Between pushes the account is used: whatever a wipe would clear appears.
Use(s) ==
    /\ s \in Drift
    /\ \A p \in Pipes : phase[p] = "off"
    /\ dirty' = dirty \cup {s}
    /\ UNCHANGED <<store, control, tokens, threads, live, stray, spared, result, faults, bounds, tried>>

Pushing(p) ==
    \/ \E wipe \in Wiping : PlanJobs(p, wipe)
    \/ ListRunnable(p) \/ Enqueue(p) \/ StartThreads(p)
    \/ Reaper(p) \/ Tick(p) \/ Report(p)
    \/ \E e \in Entry : Pump(p, e)
    \/ \E j \in Jobs : Checksum(p, j)

Next ==
    \/ \E p \in Pipes : Pushing(p)
    \/ \E w \in Threads : Worker(w) \/ CallFails(w)
    \/ \E j \in Jobs : Expire(j)
    \/ \E s \in Drift : Use(s)
    \/ Crash

Spec == Init /\ [][Next]_vars

\* Threads run, backoffs and claims run out; pushes, faults and crashes may not come.
Fairness ==
    /\ \A p \in Pipes :
          /\ WF_vars(ListRunnable(p)) /\ WF_vars(Enqueue(p)) /\ WF_vars(StartThreads(p))
          /\ WF_vars(Reaper(p)) /\ WF_vars(Tick(p)) /\ WF_vars(Report(p))
          /\ \A e \in Entry : WF_vars(Pump(p, e))
    /\ \A w \in Threads : WF_vars(Worker(w))
    /\ \A j \in Jobs : WF_vars(Expire(j))

FairSpec == Spec /\ Fairness

-----------------------------------------------------------------------------
(* Properties *)

Positions == UNION {DOMAIN Plan[j].deps : j \in Jobs}

\* Every variable has its type: the columns of the store, the tokens of each
\* pipe (a queue entry is a row with the retry_count read when it was put), the
\* threads and what Google holds.
TypeOK ==
    /\ status \in [Jobs -> Statuses] /\ retry \in [Jobs -> Retries]
    /\ claim \in [Jobs -> {"none", "fresh", "stale"}]
    /\ deps \in [Jobs -> SUBSET Positions]
    /\ phase \in [Pipes -> {"off", "planned", "filling", "up", "stopping"}]
    /\ wiping \in [Pipes -> BOOLEAN] /\ idle \in [Pipes -> 0..1]
    /\ listed \in [Pipes -> SUBSET Entry] /\ sums \in [Pipes -> SUBSET Jobs]
    /\ queue \in [Pipes -> [Services -> [order : Seq(Accounts), bucket : [Accounts -> Seq(Entry)]]]]
    /\ heap \in [Pipes -> [Entry -> Nat]]
    /\ pc \in [Threads -> PCs] /\ cur \in [Threads -> Entry]
    /\ unread \in [Threads -> SUBSET Positions]
    /\ live \in [Jobs -> 0..MaxCopies] /\ dirty \cup spared \subseteq {Slot(j) : j \in Jobs}
    /\ stray \subseteq Jobs /\ tried \subseteq Jobs
    /\ result \in [Accounts -> {"none", "ok", "partial", "failed"}]
    /\ faults \in 0..MaxFaults /\ crashes \in 0..MaxCrashes
    /\ pushes \in [Pipes -> 0..MaxPushes]

\* Where a pipe has a job: read from the store, queued, on the heap, or with a thread.
Bucket(p, j) == queue[p][Plan[j].service].bucket[Plan[j].account]
Places(p, j) ==
    {<<"listed", e>> : e \in {e \in listed[p] : e.job = j}}
    \cup {<<"queued", i>> : i \in {i \in DOMAIN Bucket(p, j) : Bucket(p, j)[i].job = j}}
    \cup (UNION {{<<"on heap", e, n>> : n \in 1..heap[p][e]} : e \in {e \in Entry : e.job = j}})
    \cup {<<"with thread", w>> : w \in {w \in Threads : Pipe(w) = p /\ pc[w] # "idle" /\ Job(w) = j}}

\* A job is never in two places of a pipe at once (queue, retry heap, worker), so
\* no two workers push it: the UNIQUE row and the single hand-over in _fail_job,
\* _retry_pump and _reaper, across retries, crashes and a second push.
OneToken == \A p \in Pipes, j \in Jobs : \A x, y \in Places(p, j) : x = y

\* No unfinished row is left that nobody will run: while a push runs, each is
\* held by it, or is a claim of a dead process that the reaper will take back.
\* The loop of run() ends only when no row is unfinished, so a lost one hangs it.
NoOrphan ==
    \A j \in Jobs : status[j] \in Unfinished =>
        \/ \A p \in Pipes : phase[p] # "up"
        \/ \E p \in Pipes : phase[p] = "up" /\ Places(p, j) # {}
        \/ status[j] = "PROCESSING" /\ claim[j] # "none"

\* What a SUCCESS row says is there: the object exists in Google, it depends only
\* on rows that are SUCCESS, and no upload missed its folder (parent_folder_id
\* falls back to "root" when the folder's row is not SUCCESS).
SuccessIsThere ==
    /\ stray = {}
    /\ \A j \in Jobs : status[j] = "SUCCESS" =>
           /\ Plan[j].action # "wipe" => live[j] >= 1
           /\ \A i \in deps[j] : status[Plan[j].deps[i]] = "SUCCESS"

\* An object is pushed twice only when the answer to a call was lost (a failed
\* call that took effect, a crash) or a wipe was not let to clear it: retries and
\* second pushes add no copies.
NoSpareCopies == \A j \in Jobs : live[j] <= 1 + faults + crashes

\* When the threads are told to stop none of them is talking to Google, so none
\* is cut off by the two-second join nor finds the store closed.
StoppedQuiet ==
    \A w \in Threads : phase[Pipe(w)] \in {"stopping", "off"} => pc[w] \notin Calling

\* Without a failed call no job fails: failing is always a verdict of Google on
\* one of the push's own accounts.
NoFailureUncalled ==
    faults = 0 => \A j \in Jobs : status[j] # "PERMANENT_FAILURE"

\* "Same-persona baseline reset must remove leftovers, so wipe then restore": a
\* push that has run the wipe of an account and reports it restored has removed
\* its leftovers, whatever failed or was restarted in between, unless they are in
\* its Drive and Google did not let that last wipe trash them.
LeftoversRemoved ==
    [][\A p \in Pipes : Report(p) =>
          \A j \in tried :
              (Plan[j].action = "wipe" /\ result'[Plan[j].account] = "ok")
                  => Slot(j) \notin dirty \ spared]_vars

\* The restore after the wipe: a push that wipes gets to report its accounts.
WipeThenRestore ==
    \A p \in Pipes : (phase[p] = "up" /\ wiping[p]) ~>
        (phase[p] = "off" /\ \A a \in Emails[p] : result[a] # "none")

\* Every push ends when it has the store of the run to itself, whatever fails.
\* Next to another push it ends as long as no call fails and no row of the other
\* account is left unfinished: its loop waits for all rows of the store.
PushEnds ==
    \A p \in Pipes : phase[p] = "up" ~>
        \/ phase[p] = "off"
        \/ \E q \in Pipes \ {p} : pushes[q] > 0 /\ faults > 0
        \/ \E j \in Jobs : status[j] \in Unfinished /\ Plan[j].account \notin Emails[p] \cup {Shared}
=============================================================================

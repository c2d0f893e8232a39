-------------------------- MODULE ResetQueueProofs --------------------------
(***************************************************************************)
(* Proofs about the reset queue, for any number of workers, accounts and   *)
(* jobs and any values of the time bounds.                                 *)
(***************************************************************************)
EXTENDS ResetQueue, TLAPS

USE DEF Jobs

\* A worker in process, holding the account lock or about to try, has claimed
\* a job, and only a worker that holds the lock beats.
InProcess == {"process"} \union Holding
ClaimsAJob ==
    /\ \A w \in Workers : pc[w] \in InProcess => job[w].id \in Jobs
    /\ \A w \in beating : pc[w] \in Holding

TypeInv == TypeOK /\ ClaimsAJob

LEMMA BoundsType == /\ MaxAge \in Nat /\ MaxAge >= LagMax
                    /\ LagMax \in Nat /\ Cooldown \in Nat /\ MaxRetries \in Nat
                    /\ CallMax \in Nat /\ MaxFaults \in Nat /\ WorkerFresh \in Nat
                    /\ NJobs \in Nat /\ 0 \in 0..NJobs
BY QueueAssumption DEF QueueAssumption, MaxAge

LEMMA BlankType == Blank \in Row /\ NoWrite \in Write /\ NoClaim \in Claim
<1>1. Blank.acct \in Accounts
    BY QueueAssumption DEF QueueAssumption, Blank
<1>2. Blank \in Row
    BY <1>1, BoundsType DEF Blank, Row, Statuses, Modes
<1>. QED BY <1>2, BoundsType DEF NoWrite, Write, NoClaim, Claim, Row

LEMMA OlderType == ASSUME NEW cap \in Nat, NEW n \in 0..cap PROVE Older(n, cap) \in 0..cap
BY DEF Older

LEMMA AgedType == ASSUME NEW r \in Row PROVE Aged(r) \in Row
<1>1. Older(r.age, MaxAge) \in 0..MaxAge /\ Older(r.done, Cooldown) \in 0..Cooldown
    BY OlderType, BoundsType DEF Row
<1>. QED BY <1>1 DEF Aged, Row

LEMMA AgedWriteType == ASSUME NEW b \in Write PROVE AgedWrite(b) \in Write
<1>1. b.row \in Row
    BY DEF Write
<1>. QED BY <1>1, AgedType DEF AgedWrite, Write

\* The updates of the code turn rows into rows.
LEMMA MergeAge == \A r \in Row, n \in 0..MaxAge : [r EXCEPT !.age = n] \in Row
BY DEF Row
LEMMA MergeStatus ==
    \A r \in Row, st \in Statuses, n \in 0..MaxAge : [r EXCEPT !.status = st, !.age = n] \in Row
BY DEF Row
LEMMA MergeEnd ==
    \A r \in Row, st \in Statuses, n \in 0..MaxAge, d \in 0..Cooldown :
        [r EXCEPT !.status = st, !.age = n, !.done = d] \in Row
BY DEF Row
LEMMA MergeResult ==
    \A r \in Row, st \in Statuses, n \in 0..MaxAge, d \in 0..Cooldown, k \in 0..MaxRetries :
        [r EXCEPT !.status = st, !.age = n, !.done = d, !.retries = k] \in Row
BY DEF Row
LEMMA MergeRetry ==
    \A r \in Row, st \in Statuses, n \in 0..MaxAge, m \in Modes, k \in 0..MaxRetries :
        [r EXCEPT !.status = st, !.age = n, !.mode = m, !.retries = k] \in Row
BY DEF Row

LEMMA ZeroType == /\ 0 \in 0..MaxAge /\ 0 \in 0..Cooldown /\ 0 \in 0..MaxRetries
                  /\ 0..LagMax \subseteq 0..MaxAge
BY BoundsType

\* What a read leaves in buf, and a write puts in the table, are rows.
LEMMA ReadType ==
    ASSUME TypeOK, NEW w \in Workers, NEW j \in Jobs, NEW r \in Row, Read(w, j, r)
    PROVE  buf' \in [Workers -> Write]
BY BoundsType DEF TypeOK, Read, Write

LEMMA WriteBackType ==
    ASSUME TypeOK, NEW w \in Workers, WriteBack(w)
    PROVE  rows' \in [Jobs -> Row] /\ buf' \in [Workers -> Write]
BY BlankType DEF TypeOK, WriteBack, Write

THEOREM TypeInit == Init => TypeInv
BY BlankType, BoundsType, QueueAssumption
   DEF Init, TypeInv, TypeOK, ClaimsAJob, QueueAssumption, PCs, InProcess, Holding, Phases, Contents

\* Every action keeps the types and the claims.
LEMMA TypeStep == TypeInv /\ [Next]_vars => TypeInv'
<1>. SUFFICES ASSUME TypeInv, [Next]_vars PROVE TypeInv'
    OBVIOUS
<1>. USE DEF TypeInv
<1>. USE BoundsType, BlankType
<1>1. ASSUME NEW a \in Accounts, NEW m \in Modes, AppendRow(a, m) PROVE TypeInv'
    <2>1. [Blank EXCEPT !.status = "QUEUED", !.mode = m, !.acct = a] \in Row
        BY <1>1 DEF Row, Statuses
    <2>2. rows' \in [Jobs -> Row]
        BY <1>1, <2>1 DEF AppendRow, TypeOK
    <2>. QED BY <1>1, <2>2 DEF AppendRow, TypeOK, ClaimsAJob, locks, local, history, InProcess
<1>2. ASSUME NEW w \in Workers, Start(w) PROVE TypeInv'
    BY <1>2 DEF Start, TypeOK, ClaimsAJob, locks, history, InProcess, Holding, PCs
<1>3. ASSUME NEW w \in Workers, TakeClaimLock(w) PROVE TypeInv'
    BY <1>3 DEF TakeClaimLock, TypeOK, ClaimsAJob, sheet, history, InProcess, Holding, PCs
<1>4. ASSUME NEW w \in Workers, RecoverRead(w) PROVE TypeInv'
    <2>1. PICK j \in Jobs : Read(w, j, [rows[j] EXCEPT !.status = "FAILED", !.age = lag[w],
                                 !.done = IF lag[w] < Cooldown THEN lag[w] ELSE Cooldown])
        BY <1>4 DEF RecoverRead, TypeOK
    <2>2. lag[w] \in 0..MaxAge /\ (IF lag[w] < Cooldown THEN lag[w] ELSE Cooldown) \in 0..Cooldown
        BY DEF TypeOK
    <2>3. [rows[j] EXCEPT !.status = "FAILED", !.age = lag[w],
                          !.done = IF lag[w] < Cooldown THEN lag[w] ELSE Cooldown] \in Row
        <3>1. rows[j] \in Row /\ "FAILED" \in Statuses /\ lag[w] \in 0..MaxAge
            BY <2>2, ZeroType DEF TypeOK, Statuses
        <3>. QED BY <2>2, <3>1, ZeroType, MergeEnd, Zenon
    <2>4. buf' \in [Workers -> Write]
        BY <2>1, <2>3, ReadType
    <2>. QED BY <1>4, <2>4 DEF RecoverRead, TypeOK, ClaimsAJob, sheet, locks, history, InProcess
<1>5. ASSUME NEW w \in Workers, RecoverWrite(w) PROVE TypeInv'
    <2>1. rows' \in [Jobs -> Row] /\ buf' \in [Workers -> Write]
        BY <1>5, WriteBackType DEF RecoverWrite
    <2>. QED BY <1>5, <2>1 DEF RecoverWrite, TypeOK, ClaimsAJob, locks, history, InProcess
<1>6. ASSUME NEW w \in Workers, ClaimNothing(w) PROVE TypeInv'
    BY <1>6 DEF ClaimNothing, TypeOK, ClaimsAJob, sheet, history, InProcess, Holding, PCs
<1>7. ASSUME NEW w \in Workers, ClaimPick(w) PROVE TypeInv'
    BY <1>7 DEF ClaimPick, Claimable, TypeOK, ClaimsAJob, sheet, locks, history, InProcess, Holding, PCs
<1>8. ASSUME NEW w \in Workers, ClaimRead(w) PROVE TypeInv'
    <2>1. PICK j \in Jobs : Read(w, j, [rows[j] EXCEPT !.status = "RUNNING", !.age = lag[w]])
        BY <1>8 DEF ClaimRead, TypeOK
    <2>2. [rows[j] EXCEPT !.status = "RUNNING", !.age = lag[w]] \in Row
        <3>1. rows[j] \in Row /\ "RUNNING" \in Statuses /\ lag[w] \in 0..MaxAge
            BY ZeroType DEF TypeOK, Statuses
        <3>. QED BY <3>1, ZeroType, MergeStatus, Zenon
    <2>3. buf' \in [Workers -> Write]
        BY <2>1, <2>2, ReadType
    <2>. QED BY <1>8, <2>3 DEF ClaimRead, TypeOK, ClaimsAJob, sheet, locks, history, InProcess
<1>9. ASSUME NEW w \in Workers, ClaimWrite(w) PROVE TypeInv'
    <2>1. rows' \in [Jobs -> Row] /\ buf' \in [Workers -> Write] /\ buf[w].id \in Jobs
        BY <1>9, WriteBackType DEF ClaimWrite, WriteBack
    <2>2. job' \in [Workers -> Claim] /\ job'[w].id \in Jobs
        BY <1>9, <2>1 DEF ClaimWrite, TypeOK, Claim, Write, Row
    <2>. QED BY <1>9, <2>1, <2>2 DEF ClaimWrite, TypeOK, ClaimsAJob, history, InProcess, Holding, PCs
<1>10. ASSUME NEW w \in Workers, AccountBusy(w) PROVE TypeInv'
    <2>1. job[w].id \in Jobs
        BY <1>10 DEF AccountBusy, ClaimsAJob, InProcess
    <2>2. [rows[job[w].id] EXCEPT !.status = "QUEUED", !.age = 0] \in Row
        <3>1. rows[job[w].id] \in Row /\ "QUEUED" \in Statuses
            BY <2>1, ZeroType DEF TypeOK, Statuses
        <3>. QED BY <3>1, ZeroType, MergeStatus, Zenon
    <2>3. buf' \in [Workers -> Write]
        BY <1>10, <2>1, <2>2, ReadType DEF AccountBusy
    <2>. QED BY <1>10, <2>3 DEF AccountBusy, TypeOK, ClaimsAJob, sheet, locks, history, InProcess, Holding, PCs
<1>11. ASSUME NEW w \in Workers, RequeueWrite(w) PROVE TypeInv'
    <2>1. rows' \in [Jobs -> Row] /\ buf' \in [Workers -> Write]
        BY <1>11, WriteBackType DEF RequeueWrite
    <2>. QED BY <1>11, <2>1 DEF RequeueWrite, TypeOK, ClaimsAJob, locks, history, InProcess, Holding, PCs
<1>12. ASSUME NEW w \in Workers, AccountTaken(w) PROVE TypeInv'
    <2>1. job[w].acct \in Accounts
        BY DEF TypeOK, Claim
    <2>. QED BY <1>12, <2>1 DEF AccountTaken, Account, TypeOK, ClaimsAJob, sheet, history, InProcess, Holding, PCs, Phases
<1>13. ASSUME NEW w \in Workers, Report(w) PROVE TypeInv'
    <2>1. job[w].id \in Jobs
        BY <1>13 DEF Report, ClaimsAJob, InProcess, Holding
    <2>2. [rows[job[w].id] EXCEPT !.age = 0] \in Row
        <3>1. rows[job[w].id] \in Row
            BY <2>1, ZeroType DEF TypeOK
        <3>. QED BY <3>1, ZeroType, MergeAge, Zenon
    <2>3. buf' \in [Workers -> Write]
        BY <1>13, <2>1, <2>2, ReadType DEF Report
    <2>4. PICK p \in NextPhases(Mode(w), phase[w]) :
              /\ phase' = [phase EXCEPT ![w] = p]
              /\ content' \in Moved(Account(w), phase[w], p)
        BY <1>13 DEF Report
    <2>5. p \in Phases
        BY DEF NextPhases, Phases
    <2>6. content' \in [Accounts -> Contents]
        BY <2>4 DEF Moved, Account, TypeOK, Contents, Claim
    <2>. QED BY <1>13, <2>1, <2>3, <2>4, <2>5, <2>6
            DEF Report, TypeOK, ClaimsAJob, sheet, locks, InProcess
<1>14. ASSUME NEW w \in Workers, ReportWrite(w) PROVE TypeInv'
    <2>1. rows' \in [Jobs -> Row] /\ buf' \in [Workers -> Write]
        BY <1>14, WriteBackType DEF ReportWrite
    <2>. QED BY <1>14, <2>1 DEF ReportWrite, TypeOK, ClaimsAJob, locks, history, InProcess
<1>15. ASSUME NEW w \in Workers, EngineDone(w) PROVE TypeInv'
    <2>1. job[w].id \in Jobs
        BY <1>15 DEF EngineDone, ClaimsAJob, InProcess, Holding
    <2>2. [rows[job[w].id] EXCEPT !.status = "COMPLETED", !.age = 0, !.done = 0, !.retries = 0] \in Row
        <3>1. rows[job[w].id] \in Row /\ "COMPLETED" \in Statuses
            BY <2>1, ZeroType DEF TypeOK, Statuses
        <3>. QED BY <3>1, ZeroType, MergeResult, Zenon
    <2>3. buf' \in [Workers -> Write]
        BY <1>15, <2>1, <2>2, ReadType DEF EngineDone
    <2>. QED BY <1>15, <2>3 DEF EngineDone, TypeOK, ClaimsAJob, sheet, locks, history, InProcess, Holding, PCs
<1>16. ASSUME NEW w \in Workers, CompleteWrite(w) PROVE TypeInv'
    <2>1. rows' \in [Jobs -> Row] /\ buf' \in [Workers -> Write]
        BY <1>16, WriteBackType DEF CompleteWrite
    <2>2. job[w].id \in Jobs
        BY <1>16 DEF CompleteWrite, ClaimsAJob, InProcess, Holding
    <2>. QED BY <1>16, <2>1, <2>2 DEF CompleteWrite, TypeOK, ClaimsAJob, locks, InProcess, Holding, PCs
<1>17. ASSUME NEW w \in Workers, CapacityOk(w) PROVE TypeInv'
    BY <1>17 DEF CapacityOk, TypeOK, ClaimsAJob, locks, history, InProcess, Holding, PCs
<1>18. ASSUME NEW w \in Workers, RetryableError(w) \/ FatalError(w) PROVE TypeInv'
    <2>1. job[w].id \in Jobs /\ pc[w] = "run"
        BY <1>18 DEF RetryableError, FatalError, ClaimsAJob, InProcess, Holding
    <2>2. [rows[job[w].id] EXCEPT !.status = "FAILED", !.age = 0, !.done = 0] \in Row
        <3>1. rows[job[w].id] \in Row /\ "FAILED" \in Statuses
            BY <2>1, ZeroType DEF TypeOK, Statuses
        <3>. QED BY <3>1, ZeroType, MergeEnd, Zenon
    <2>3. ASSUME job[w].retries + 1 <= MaxRetries
          PROVE  [rows[job[w].id] EXCEPT !.status = "RETRY_WAIT", !.age = 0,
                     !.mode = RetryMode(Mode(w), phase[w]), !.retries = job[w].retries + 1] \in Row
        <3>1. job[w].retries + 1 \in 0..MaxRetries /\ Mode(w) \in Modes
            BY <2>3 DEF TypeOK, Claim, Mode
        <3>2. RetryMode(Mode(w), phase[w]) \in Modes
            BY <3>1 DEF RetryMode, Modes
        <3>3. rows[job[w].id] \in Row /\ "RETRY_WAIT" \in Statuses
            BY <2>1 DEF TypeOK, Statuses
        <3>. QED BY <3>1, <3>2, <3>3, ZeroType, MergeRetry, Zenon
    <2>4. buf' \in [Workers -> Write]
        BY <1>18, <2>1, <2>2, <2>3, ReadType DEF RetryableError, FatalError, Failing
    <2>. QED BY <1>18, <2>1, <2>4
            DEF RetryableError, FatalError, Failing, TypeOK, ClaimsAJob, sheet, locks, history,
                InProcess, Holding, PCs
<1>19. ASSUME NEW w \in Workers, RetryWrite(w) PROVE TypeInv'
    <2>1. rows' \in [Jobs -> Row] /\ buf' \in [Workers -> Write]
        BY <1>19, WriteBackType DEF RetryWrite
    <2>2. job[w].id \in Jobs
        BY <1>19 DEF RetryWrite, ClaimsAJob, InProcess, Holding
    <2>3. attempts' \in [Jobs -> Nat] /\ statusAge' \in 0..WorkerFresh
        BY <1>19, <2>2 DEF RetryWrite, TypeOK
    <2>4. /\ pc' = [pc EXCEPT ![w] = "finally"] /\ pc[w] = "retry"
          /\ UNCHANGED <<locks, lag, todo, job, phase, beating, hbuf, faults, content, wiped, reported>>
        BY <1>19 DEF RetryWrite
    <2>. QED BY <2>1, <2>3, <2>4 DEF TypeOK, ClaimsAJob, locks, InProcess, Holding, PCs
<1>20. ASSUME NEW w \in Workers, FailWrite(w) \/ TouchWrite(w) PROVE TypeInv'
    <2>1. rows' \in [Jobs -> Row] /\ buf' \in [Workers -> Write]
        BY <1>20, WriteBackType DEF FailWrite, TouchWrite
    <2>. QED BY <1>20, <2>1 DEF FailWrite, TouchWrite, TypeOK, ClaimsAJob, locks, history, InProcess, Holding, PCs
<1>21. ASSUME NEW w \in Workers, TouchRead(w) PROVE TypeInv'
    <2>1. job[w].id \in Jobs
        BY <1>21 DEF TouchRead, ClaimsAJob, InProcess, Holding
    <2>2. [rows[job[w].id] EXCEPT !.age = 0] \in Row
        <3>1. rows[job[w].id] \in Row
            BY <2>1, ZeroType DEF TypeOK
        <3>. QED BY <3>1, ZeroType, MergeAge, Zenon
    <2>3. buf' \in [Workers -> Write]
        BY <1>21, <2>1, <2>2, ReadType DEF TouchRead
    <2>4. statusAge' = 0 /\ UNCHANGED <<rows, locks, pc, lag, todo, job, phase, beating, hbuf, faults, content, history>>
        BY <1>21 DEF TouchRead
    <2>. QED BY <2>3, <2>4 DEF TypeOK, ClaimsAJob, locks, history, InProcess
<1>22. ASSUME NEW w \in Workers, Finish(w) PROVE TypeInv'
    BY <1>22 DEF Finish, Account, TypeOK, ClaimsAJob, sheet, history, InProcess, Holding, PCs
<1>23. ASSUME NEW w \in Workers, HeartbeatRead(w) PROVE TypeInv'
    <2>1. job[w].id \in Jobs
        BY <1>23 DEF HeartbeatRead, ClaimsAJob, InProcess
    <2>2. [rows[job[w].id] EXCEPT !.age = 0] \in Row
        <3>1. rows[job[w].id] \in Row
            BY <2>1, ZeroType DEF TypeOK
        <3>. QED BY <3>1, ZeroType, MergeAge, Zenon
    <2>3. hbuf' \in [Workers -> Write]
        BY <1>23, <2>1, <2>2 DEF HeartbeatRead, TypeOK, Write
    <2>4. statusAge' = 0 /\ UNCHANGED <<rows, locks, pc, lag, todo, job, phase, beating, buf, faults, content, history>>
        BY <1>23 DEF HeartbeatRead
    <2>. QED BY <2>3, <2>4 DEF TypeOK, ClaimsAJob, locks, history, InProcess
<1>24. ASSUME NEW w \in Workers, HeartbeatWrite(w) \/ HeartbeatLost(w) PROVE TypeInv'
    <2>1. rows' \in [Jobs -> Row] /\ hbuf' \in [Workers -> Write]
        BY <1>24 DEF HeartbeatWrite, HeartbeatLost, TypeOK, Write, sheet
    <2>2. faults' \in 0..MaxFaults
        BY <1>24 DEF HeartbeatWrite, HeartbeatLost, TypeOK
    <2>. QED BY <1>24, <2>1, <2>2
            DEF HeartbeatWrite, HeartbeatLost, TypeOK, ClaimsAJob, sheet, locks, history, InProcess
<1>25. ASSUME NEW w \in Workers, Crash(w) \/ CallFailsOutside(w) PROVE TypeInv'
    <2>1. Die(w) /\ faults' \in 0..MaxFaults /\ UNCHANGED <<sheet, phase, hbuf, content, history>>
        BY <1>25 DEF Crash, CallFailsOutside, TypeOK
    <2>2. 0 \in 0..LagMax /\ "off" \in PCs
        BY DEF PCs
    <2>. QED BY <2>1, <2>2 DEF Die, TypeOK, ClaimsAJob, sheet, history, InProcess, Holding
<1>26. ASSUME NEW w \in Workers, CallFailsInside(w) \/ CallFailsInExcept(w) PROVE TypeInv'
    <2>1. job[w].id \in Jobs /\ pc[w] \in Holding
        BY <1>26 DEF CallFailsInside, CallFailsInExcept, ClaimsAJob, InProcess, Holding
    <2>2. [rows[job[w].id] EXCEPT !.status = "FAILED", !.age = 0, !.done = 0] \in Row
        <3>1. rows[job[w].id] \in Row /\ "FAILED" \in Statuses
            BY <2>1, ZeroType DEF TypeOK, Statuses
        <3>. QED BY <3>1, ZeroType, MergeEnd, Zenon
    <2>3. PICK b \in Write : buf' = [buf EXCEPT ![w] = b]
        <3>1. CASE CallFailsInExcept(w)
            BY <3>1 DEF CallFailsInExcept
        <3>2. CASE CallFailsInside(w)
            <4>1. [id |-> job[w].id, row |-> [rows[job[w].id] EXCEPT !.status = "FAILED",
                                                                    !.age = 0, !.done = 0]] \in Write
                BY <2>1, <2>2 DEF Write
            <4>. QED BY <3>2, <4>1 DEF CallFailsInside
        <3>. QED BY <1>26, <3>1, <3>2
    <2>4. /\ faults' \in 0..MaxFaults
          /\ pc' = [pc EXCEPT ![w] = "fail"] \/ pc' = [pc EXCEPT ![w] = "finally"]
          /\ UNCHANGED <<sheet, locks, lag, todo, job, phase, beating, hbuf, content, history>>
        BY <1>26 DEF CallFailsInside, CallFailsInExcept, TypeOK
    <2>. QED BY <2>1, <2>3, <2>4 DEF TypeOK, ClaimsAJob, sheet, locks, history, InProcess, Holding, PCs
<1>27. ASSUME Tick PROVE TypeInv'
    <2>1. rows' \in [Jobs -> Row]
        BY <1>27, AgedType DEF Tick, TypeOK
    <2>2. buf' \in [Workers -> Write] /\ hbuf' \in [Workers -> Write]
        BY <1>27, AgedWriteType DEF Tick, TypeOK
    <2>3. lag' \in [Workers -> 0..LagMax]
        BY <1>27 DEF Tick, TypeOK
    <2>4. statusAge' \in 0..WorkerFresh
        BY <1>27, OlderType DEF Tick, TypeOK
    <2>. QED BY <1>27, <2>1, <2>2, <2>3, <2>4 DEF Tick, TypeOK, ClaimsAJob, locks, history, InProcess
<1>28. ASSUME UNCHANGED vars PROVE TypeInv'
    BY <1>28 DEF vars, TypeOK, ClaimsAJob, sheet, locks, local, history, InProcess
<1>29. ASSUME NEW a \in Accounts, CreateResetRequest(a) PROVE TypeInv'
    BY <1>1, <1>29 DEF CreateResetRequest, Modes
<1>30. ASSUME NEW a \in Accounts, NEW m \in HandModes, EnterRow(a, m) PROVE TypeInv'
    <2>1. m \in Modes
        BY QueueAssumption DEF QueueAssumption, Modes
    <2>. QED BY <1>1, <1>30, <2>1 DEF EnterRow
<1>. QED
    BY <1>2, <1>3, <1>4, <1>5, <1>6, <1>7, <1>8, <1>9, <1>10, <1>11, <1>12, <1>13, <1>14, <1>15,
       <1>16, <1>17, <1>18, <1>19, <1>20, <1>21, <1>22, <1>23, <1>24, <1>25, <1>26, <1>27, <1>28,
       <1>29, <1>30
       DEF Next, Queue, Process, Heartbeat, Fault

\* TypeOK holds of every reachable state, for every value of the constants.
THEOREM TypeCorrect == Spec => []TypeOK
<1>1. Spec => []TypeInv
    BY TypeInit, TypeStep, PTL DEF Spec
<1>2. TypeInv => TypeOK
    BY DEF TypeInv
<1>. QED BY <1>1, <1>2, PTL

-----------------------------------------------------------------------------
(* The account lock *)

\* A worker between the lock and its release holds the lock of its account.
LockInv == \A w \in Workers : pc[w] \in Holding => accountLock[Account(w)] = w

LEMMA LockInit == Init => LockInv
BY DEF Init, LockInv, Holding

LEMMA LockStep == TypeInv /\ LockInv /\ [Next]_vars => LockInv'
<1>. SUFFICES ASSUME TypeInv, LockInv, [Next]_vars PROVE LockInv'
    OBVIOUS
<1>. USE DEF TypeInv
<1>1. ASSUME UNCHANGED <<accountLock, job>>,
             \A v \in Workers : pc'[v] \in Holding => pc[v] \in Holding
      PROVE  LockInv'
    BY <1>1 DEF LockInv, Account
<1>2. ASSUME NEW w \in Workers, Queue(w) PROVE LockInv'
    <2>1. CASE ClaimWrite(w)
        BY <2>1 DEF ClaimWrite, LockInv, Account, TypeOK, Holding
    <2>2. CASE ~ClaimWrite(w)
        <3>1. UNCHANGED <<accountLock, job>>
            BY <1>2, <2>2 DEF Queue, TakeClaimLock, RecoverRead, RecoverWrite, ClaimNothing,
                              ClaimPick, ClaimRead, locks
        <3>2. \A v \in Workers : pc'[v] \in Holding => pc[v] \in Holding
            BY <1>2, <2>2 DEF Queue, TakeClaimLock, RecoverRead, RecoverWrite, ClaimNothing,
                              ClaimPick, ClaimRead, TypeOK, Holding
        <3>. QED BY <1>1, <3>1, <3>2
    <2>. QED BY <2>1, <2>2
<1>3. ASSUME NEW w \in Workers, AccountTaken(w) PROVE LockInv'
    <2>1. job[w].acct \in Accounts
        BY DEF TypeOK, Claim
    <2>. QED BY <1>3, <2>1, QueueAssumption DEF AccountTaken, LockInv, Account, TypeOK, Holding, QueueAssumption
<1>4. ASSUME NEW w \in Workers, Finish(w) PROVE LockInv'
    <2>1. \A v \in Workers : pc'[v] \in Holding => v # w /\ pc[v] \in Holding /\ job'[v] = job[v]
        BY <1>4 DEF Finish, TypeOK, Holding
    <2>2. \A v \in Workers : pc[v] \in Holding /\ v # w => Account(v) # Account(w)
        BY <1>4 DEF Finish, LockInv, Holding
    <2>3. \A v \in Workers : Account(v) \in Accounts
        BY DEF TypeOK, Claim, Account
    <2>. QED BY <1>4, <2>1, <2>2, <2>3 DEF Finish, LockInv, Account, TypeOK
<1>5. ASSUME NEW w \in Workers, RequeueWrite(w) PROVE LockInv'
    BY <1>5 DEF RequeueWrite, LockInv, Account, TypeOK, Holding, locks
<1>6. ASSUME NEW w \in Workers, Die(w) PROVE LockInv'
    <2>1. \A v \in Workers : pc'[v] \in Holding => v # w /\ pc[v] \in Holding /\ job'[v] = job[v]
        BY <1>6 DEF Die, TypeOK, Holding
    <2>2. \A v \in Workers : Account(v) \in Accounts
        BY DEF TypeOK, Claim, Account
    <2>. QED BY <1>6, <2>1, <2>2 DEF Die, LockInv, Account, TypeOK
<1>7. ASSUME NEW w \in Workers, Process(w), ~AccountTaken(w), ~Finish(w), ~RequeueWrite(w) PROVE LockInv'
    <2>1. UNCHANGED <<accountLock, job>>
        BY <1>7 DEF Process, AccountBusy, Report, ReportWrite, EngineDone, CompleteWrite, CapacityOk,
                    RetryableError, FatalError, RetryWrite, FailWrite, TouchRead, TouchWrite, locks
    <2>2. pc' = pc \/ pc[w] \in Holding \/ pc' = [pc EXCEPT ![w] = "requeue"]
        BY <1>7 DEF Process, AccountBusy, Report, ReportWrite, EngineDone, CompleteWrite, CapacityOk,
                    RetryableError, FatalError, RetryWrite, FailWrite, TouchRead, TouchWrite, Holding
    <2>3. \E p : pc' = [pc EXCEPT ![w] = p]
        <3>1. pc = [pc EXCEPT ![w] = pc[w]]
            BY DEF TypeOK
        <3>. QED BY <1>7, <3>1
             DEF Process, AccountBusy, Report, ReportWrite, EngineDone, CompleteWrite, CapacityOk,
                 RetryableError, FatalError, Failing, RetryWrite, FailWrite, TouchRead, TouchWrite
    <2>4. \A v \in Workers : pc'[v] \in Holding => pc[v] \in Holding
        BY <2>2, <2>3 DEF TypeOK, Holding
    <2>. QED BY <1>1, <2>1, <2>4
<1>8. ASSUME NEW w \in Workers, CallFailsInside(w) \/ CallFailsInExcept(w) PROVE LockInv'
    <2>1. UNCHANGED <<accountLock, job>>
        BY <1>8 DEF CallFailsInside, CallFailsInExcept, locks
    <2>2. \A v \in Workers : pc'[v] \in Holding => pc[v] \in Holding
        BY <1>8 DEF CallFailsInside, CallFailsInExcept, TypeOK, Holding
    <2>. QED BY <1>1, <2>1, <2>2
<1>9. ASSUME NEW w \in Workers, Start(w) \/ Heartbeat(w) PROVE LockInv'
    <2>1. UNCHANGED <<accountLock, job>>
        BY <1>9 DEF Start, Heartbeat, HeartbeatRead, HeartbeatWrite, HeartbeatLost, locks
    <2>2. \A v \in Workers : pc'[v] \in Holding => pc[v] \in Holding
        BY <1>9 DEF Start, Heartbeat, HeartbeatRead, HeartbeatWrite, HeartbeatLost, TypeOK, Holding
    <2>. QED BY <1>1, <2>1, <2>2
<1>10. ASSUME UNCHANGED <<accountLock, job, pc>> PROVE LockInv'
    BY <1>10 DEF LockInv, Account
<1>11. ASSUME NEW a \in Accounts, NEW m, AppendRow(a, m) PROVE UNCHANGED <<accountLock, job, pc>>
    BY <1>11 DEF AppendRow, locks, local
<1>12. ASSUME Tick \/ UNCHANGED vars PROVE UNCHANGED <<accountLock, job, pc>>
    BY <1>12 DEF Tick, vars, locks, local
<1>. QED
    BY <1>2, <1>3, <1>4, <1>5, <1>6, <1>7, <1>8, <1>9, <1>10, <1>11, <1>12
       DEF Next, Fault, Crash, CallFailsOutside, CreateResetRequest, EnterRow

\* Same-account jobs are serialized, however many workers, accounts and jobs
\* there are and whatever becomes of the rows.
THEOREM Serialized == Spec => []SameAccountSerialized
<1>1. Spec => [](TypeInv /\ LockInv)
    BY TypeInit, TypeStep, LockInit, LockStep, PTL DEF Spec
<1>2. LockInv => SameAccountSerialized
    BY DEF LockInv, SameAccountSerialized
<1>. QED BY <1>1, <1>2, PTL

-----------------------------------------------------------------------------
(* RESUME follows the job's own reset *)

\* Wherever a row, a write in flight or a claim says RESUME, the reset of its
\* job has returned; and a worker past the reset phase of a job that is not
\* sparse has seen it return or has claimed a RESUME.
ReplayPhases == {"SEED_AUTH", "SEED", "VERIFYING"}
ResumeInv ==
    /\ \A j \in Jobs : rows[j].mode = "RESUME" => j \in wiped
    /\ \A w \in Workers :
        /\ buf[w].row.mode = "RESUME" => buf[w].id \in wiped
        /\ hbuf[w].row.mode = "RESUME" => hbuf[w].id \in wiped
        /\ job[w].mode = "RESUME" => job[w].id \in wiped
        /\ pc[w] = "run" /\ phase[w] \in ReplayPhases => Mode(w) = "DELTA" \/ job[w].id \in wiped

LEMMA NoResume == NoWrite.row.mode # "RESUME" /\ NoClaim.mode # "RESUME"
BY DEF NoWrite, NoClaim, Blank

LEMMA ResumeInit == Init => ResumeInv
BY DEF Init, ResumeInv, Blank, NoWrite, NoClaim

\* The two halves of update_job carry the mode they found or were given.
LEMMA ResumeRead ==
    ASSUME TypeInv, ResumeInv, NEW w \in Workers, NEW j \in Jobs, NEW r \in Row, Read(w, j, r),
           r.mode = "RESUME" => j \in wiped
    PROVE  \A v \in Workers : buf'[v].row.mode = "RESUME" => buf'[v].id \in wiped
BY DEF Read, ResumeInv, TypeInv, TypeOK

LEMMA ResumeWrite ==
    ASSUME TypeInv, ResumeInv, NEW w \in Workers, WriteBack(w)
    PROVE  /\ \A j \in Jobs : rows'[j].mode = "RESUME" => j \in wiped
           /\ \A v \in Workers : buf'[v].row.mode = "RESUME" => buf'[v].id \in wiped
BY DEF WriteBack, ResumeInv, TypeInv, TypeOK, NoWrite, Blank

LEMMA ResumeStep == TypeInv /\ TypeInv' /\ ResumeInv /\ [Next]_vars => ResumeInv'
<1>. SUFFICES ASSUME TypeInv, TypeInv', ResumeInv, [Next]_vars PROVE ResumeInv'
    OBVIOUS
<1>1. ASSUME NEW a \in Accounts, NEW m \in Modes, m # "RESUME", AppendRow(a, m) PROVE ResumeInv'
    <2>1. PICK j \in Jobs :
             rows' = [rows EXCEPT ![j] = [Blank EXCEPT !.status = "QUEUED", !.mode = m, !.acct = a]]
        BY <1>1 DEF AppendRow
    <2>2. [Blank EXCEPT !.status = "QUEUED", !.mode = m, !.acct = a].mode = m
        BY DEF Blank
    <2>3. UNCHANGED <<buf, hbuf, job, pc, phase, wiped>>
        BY <1>1 DEF AppendRow, local, history
    <2>. QED BY <1>1, <2>1, <2>2, <2>3 DEF ResumeInv, Mode, TypeInv, TypeOK
<1>2. ASSUME NEW w \in Workers,
             Start(w) \/ TakeClaimLock(w) \/ ClaimNothing(w) \/ ClaimPick(w) \/ CapacityOk(w)
      PROVE  ResumeInv'
    <2>1. UNCHANGED <<rows, buf, hbuf, job, phase, wiped>>
        BY <1>2 DEF Start, TakeClaimLock, ClaimNothing, ClaimPick, CapacityOk, sheet, history
    <2>2. \A v \in Workers : pc'[v] = "run" => pc[v] = "run"
        BY <1>2 DEF Start, TakeClaimLock, ClaimNothing, ClaimPick, CapacityOk, TypeInv, TypeOK
    <2>. QED BY <2>1, <2>2 DEF ResumeInv, Mode
<1>3. ASSUME NEW w \in Workers, NEW j \in Jobs, NEW r \in Row, Read(w, j, r),
             r.mode = "RESUME" => j \in wiped,
             UNCHANGED <<rows, hbuf, job, phase, wiped>>,
             \A v \in Workers : pc'[v] = "run" => pc[v] = "run"
      PROVE  ResumeInv'
    <2>1. \A v \in Workers : buf'[v].row.mode = "RESUME" => buf'[v].id \in wiped
        BY <1>3, ResumeRead
    <2>. QED BY <1>3, <2>1 DEF ResumeInv, Mode
<1>4. ASSUME NEW w \in Workers, RecoverRead(w) \/ ClaimRead(w) \/ AccountBusy(w) \/ EngineDone(w)
                               \/ FatalError(w) \/ TouchRead(w) \/ RetryableError(w)
      PROVE  ResumeInv'
    <2>1. UNCHANGED <<rows, hbuf, job, phase, wiped>>
        BY <1>4 DEF RecoverRead, ClaimRead, AccountBusy, EngineDone, FatalError, TouchRead,
                    RetryableError, sheet, history
    <2>2. \A v \in Workers : pc'[v] = "run" => pc[v] = "run"
        BY <1>4 DEF RecoverRead, ClaimRead, AccountBusy, EngineDone, FatalError, TouchRead,
                    RetryableError, Failing, TypeInv, TypeOK
    <2>3. PICK j, r : Read(w, j, r) /\ j \in Jobs /\ (r.mode = rows[j].mode \/
                         (j = job[w].id /\ r.mode = RetryMode(Mode(w), phase[w]) /\ pc[w] = "run"))
        <3>1. CASE RecoverRead(w)
            <4>1. PICK i \in Jobs : Read(w, i, [rows[i] EXCEPT !.status = "FAILED", !.age = lag[w],
                                       !.done = IF lag[w] < Cooldown THEN lag[w] ELSE Cooldown])
                BY <3>1 DEF RecoverRead, TypeInv, TypeOK
            <4>. DEFINE q == [rows[i] EXCEPT !.status = "FAILED", !.age = lag[w],
                                       !.done = IF lag[w] < Cooldown THEN lag[w] ELSE Cooldown]
            <4>2. q.mode = rows[i].mode
                BY DEF TypeInv, TypeOK, Row
            <4>. QED BY <4>1, <4>2
        <3>2. CASE ClaimRead(w)
            <4>1. PICK i \in Jobs : Read(w, i, [rows[i] EXCEPT !.status = "RUNNING", !.age = lag[w]])
                BY <3>2 DEF ClaimRead, TypeInv, TypeOK
            <4>2. [rows[i] EXCEPT !.status = "RUNNING", !.age = lag[w]].mode = rows[i].mode
                BY DEF TypeInv, TypeOK, Row
            <4>. QED BY <4>1, <4>2
        <3>. DEFINE i == job[w].id
        <3>3. CASE AccountBusy(w)
            <4>1. i \in Jobs /\ Read(w, i, [rows[i] EXCEPT !.status = "QUEUED", !.age = 0])
                BY <3>3 DEF AccountBusy, TypeInv, ClaimsAJob, InProcess
            <4>2. [rows[i] EXCEPT !.status = "QUEUED", !.age = 0].mode = rows[i].mode
                BY <4>1 DEF TypeInv, TypeOK, Row
            <4>. QED BY <4>1, <4>2
        <3>4. CASE EngineDone(w)
            <4>1. i \in Jobs /\ Read(w, i, [rows[i] EXCEPT !.status = "COMPLETED", !.age = 0,
                                                           !.done = 0, !.retries = 0])
                BY <3>4 DEF EngineDone, TypeInv, ClaimsAJob, InProcess, Holding
            <4>2. [rows[i] EXCEPT !.status = "COMPLETED", !.age = 0, !.done = 0, !.retries = 0].mode
                  = rows[i].mode
                BY <4>1 DEF TypeInv, TypeOK, Row
            <4>. QED BY <4>1, <4>2
        <3>5. ASSUME pc[w] = "run", Failing(w) PROVE i \in Jobs /\ \E r : Read(w, i, r) /\ r.mode = rows[i].mode
            <4>1. i \in Jobs /\ Read(w, i, [rows[i] EXCEPT !.status = "FAILED", !.age = 0, !.done = 0])
                BY <3>5 DEF Failing, TypeInv, ClaimsAJob, InProcess, Holding
            <4>2. [rows[i] EXCEPT !.status = "FAILED", !.age = 0, !.done = 0].mode = rows[i].mode
                BY <4>1 DEF TypeInv, TypeOK, Row
            <4>. QED BY <4>1, <4>2
        <3>6. CASE FatalError(w)
            BY <3>5, <3>6 DEF FatalError
        <3>7. CASE TouchRead(w)
            <4>1. i \in Jobs /\ Read(w, i, [rows[i] EXCEPT !.age = 0])
                BY <3>7 DEF TouchRead, TypeInv, ClaimsAJob, InProcess, Holding
            <4>2. [rows[i] EXCEPT !.age = 0].mode = rows[i].mode
                BY <4>1 DEF TypeInv, TypeOK, Row
            <4>. QED BY <4>1, <4>2
        <3>8. CASE RetryableError(w)
            <4>1. CASE job[w].retries + 1 <= MaxRetries
                <5>. DEFINE q == [rows[i] EXCEPT !.status = "RETRY_WAIT", !.age = 0,
                             !.mode = RetryMode(Mode(w), phase[w]), !.retries = job[w].retries + 1]
                <5>1. i \in Jobs /\ pc[w] = "run" /\ Read(w, i, q)
                    BY <3>8, <4>1 DEF RetryableError, TypeInv, ClaimsAJob, InProcess, Holding
                <5>2. q.mode = RetryMode(Mode(w), phase[w])
                    BY <5>1 DEF TypeInv, TypeOK, Row
                <5>. QED BY <5>1, <5>2
            <4>2. CASE ~(job[w].retries + 1 <= MaxRetries)
                BY <3>5, <3>8, <4>2 DEF RetryableError
            <4>. QED BY <4>1, <4>2
        <3>. QED BY <1>4, <3>1, <3>2, <3>3, <3>4, <3>6, <3>7, <3>8
    <2>4. r.mode = "RESUME" => j \in wiped
        <3>1. CASE r.mode = rows[j].mode
            BY <2>3, <3>1 DEF ResumeInv
        <3>2. CASE j = job[w].id /\ r.mode = RetryMode(Mode(w), phase[w]) /\ pc[w] = "run"
            BY <3>2 DEF ResumeInv, RetryMode, Mode, ReplayPhases
        <3>. QED BY <2>3, <3>1, <3>2
    <2>5. r \in Row
        <3>1. buf'[w].row = r
            BY <2>3 DEF Read, TypeInv, TypeOK
        <3>. QED BY <3>1 DEF TypeInv, TypeOK, Write
    <2>. QED BY <1>3, <2>1, <2>2, <2>3, <2>4, <2>5
<1>5. ASSUME NEW w \in Workers, WriteBack(w), UNCHANGED <<hbuf, job, phase>>, wiped \subseteq wiped',
             \A v \in Workers : pc'[v] = "run" => pc[v] = "run"
      PROVE  ResumeInv'
    <2>1. /\ \A j \in Jobs : rows'[j].mode = "RESUME" => j \in wiped
          /\ \A v \in Workers : buf'[v].row.mode = "RESUME" => buf'[v].id \in wiped
        BY <1>5, ResumeWrite
    <2>. QED BY <1>5, <2>1 DEF ResumeInv, Mode
<1>6. ASSUME NEW w \in Workers, RecoverWrite(w) \/ ReportWrite(w) \/ CompleteWrite(w)
                               \/ RetryWrite(w) \/ FailWrite(w) \/ TouchWrite(w)
      PROVE  ResumeInv'
    <2>1. WriteBack(w) /\ UNCHANGED <<hbuf, job, phase, wiped>>
        BY <1>6 DEF RecoverWrite, ReportWrite, CompleteWrite, RetryWrite, FailWrite, TouchWrite, history
    <2>2. \A v \in Workers : pc'[v] = "run" => pc[v] = "run"
        BY <1>6 DEF RecoverWrite, ReportWrite, CompleteWrite, RetryWrite, FailWrite, TouchWrite,
                    TypeInv, TypeOK
    <2>. QED BY <1>5, <2>1, <2>2
<1>7. ASSUME NEW w \in Workers, ClaimWrite(w) \/ RequeueWrite(w) PROVE ResumeInv'
    <2>1. WriteBack(w) /\ UNCHANGED <<hbuf, phase, wiped>>
        BY <1>7 DEF ClaimWrite, RequeueWrite, history
    <2>2. /\ \A j \in Jobs : rows'[j].mode = "RESUME" => j \in wiped
          /\ \A v \in Workers : buf'[v].row.mode = "RESUME" => buf'[v].id \in wiped
        BY <2>1, ResumeWrite
    <2>3. \A v \in Workers : pc'[v] = "run" => pc[v] = "run" /\ job'[v] = job[v]
        BY <1>7 DEF ClaimWrite, RequeueWrite, TypeInv, TypeOK
    <2>4. \A v \in Workers : job'[v].mode = "RESUME" => job'[v].id \in wiped
        <3>1. CASE ClaimWrite(w)
            <4>1. job'[w].mode = buf[w].row.mode /\ job'[w].id = buf[w].id
                BY <3>1 DEF ClaimWrite, TypeInv, TypeOK
            <4>2. \A v \in Workers : v # w => job'[v] = job[v]
                BY <3>1 DEF ClaimWrite, TypeInv, TypeOK
            <4>. QED BY <2>1, <4>1, <4>2 DEF ResumeInv
        <3>2. CASE RequeueWrite(w)
            <4>1. job'[w] = NoClaim /\ \A v \in Workers : v # w => job'[v] = job[v]
                BY <3>2 DEF RequeueWrite, TypeInv, TypeOK
            <4>. QED BY <2>1, <4>1, NoResume DEF ResumeInv
        <3>. QED BY <1>7, <3>1, <3>2
    <2>. QED BY <2>1, <2>2, <2>3, <2>4 DEF ResumeInv, Mode
<1>8. ASSUME NEW w \in Workers, AccountTaken(w) PROVE ResumeInv'
    BY <1>8 DEF AccountTaken, ResumeInv, ReplayPhases, Mode, TypeInv, TypeOK, sheet, history
<1>9. ASSUME NEW w \in Workers, Report(w) PROVE ResumeInv'
    <2>. DEFINE i == job[w].id
    <2>1. i \in Jobs /\ Read(w, i, [rows[i] EXCEPT !.age = 0]) /\ pc[w] = "run"
        BY <1>9 DEF Report, TypeInv, ClaimsAJob, InProcess, Holding
    <2>2. [rows[i] EXCEPT !.age = 0].mode = rows[i].mode
        BY <2>1 DEF TypeInv, TypeOK, Row
    <2>3. [rows[i] EXCEPT !.age = 0] \in Row
        <3>1. buf'[w].row = [rows[i] EXCEPT !.age = 0]
            BY <2>1 DEF Read, TypeInv, TypeOK
        <3>. QED BY <3>1 DEF TypeInv, TypeOK, Write
    <2>4. \A v \in Workers : buf'[v].row.mode = "RESUME" => buf'[v].id \in wiped
        BY <2>1, <2>2, <2>3, ResumeRead DEF ResumeInv
    <2>5. wiped' = (IF phase[w] = "RESET" THEN wiped \union {i} ELSE wiped)
          /\ UNCHANGED <<rows, hbuf, job, pc>>
        BY <1>9 DEF Report, sheet
    <2>6. PICK p \in NextPhases(Mode(w), phase[w]) : phase' = [phase EXCEPT ![w] = p]
        BY <1>9 DEF Report
    <2>7. ASSUME p \in ReplayPhases, Mode(w) # "DELTA" PROVE i \in wiped'
        <3>1. phase[w] = "RESET" \/ Mode(w) = "RESUME" \/ phase[w] \in ReplayPhases
            BY <2>6, <2>7 DEF NextPhases, ReplayPhases
        <3>. QED BY <2>1, <2>5, <2>7, <3>1 DEF ResumeInv, Mode
    <2>8. phase'[w] = p /\ \A v \in Workers : v # w => phase'[v] = phase[v]
        BY <2>6 DEF TypeInv, TypeOK
    <2>9. wiped \subseteq wiped'
        BY <2>5
    <2>10. \A v \in Workers : pc'[v] = "run" /\ phase'[v] \in ReplayPhases
                                => Mode(v)' = "DELTA" \/ job'[v].id \in wiped'
        BY <2>5, <2>7, <2>8, <2>9 DEF ResumeInv, Mode
    <2>. QED BY <2>4, <2>5, <2>9, <2>10 DEF ResumeInv
<1>10. ASSUME NEW w \in Workers, Finish(w) PROVE ResumeInv'
    BY <1>10 DEF Finish, ResumeInv, Mode, NoClaim, Blank, TypeInv, TypeOK, sheet, history
<1>11. ASSUME NEW w \in Workers, HeartbeatRead(w) PROVE ResumeInv'
    <2>. DEFINE i == job[w].id
    <2>1. i \in Jobs /\ hbuf' = [hbuf EXCEPT ![w] = [id |-> i, row |-> [rows[i] EXCEPT !.age = 0]]]
        BY <1>11 DEF HeartbeatRead, TypeInv, ClaimsAJob, InProcess
    <2>2. [rows[i] EXCEPT !.age = 0].mode = rows[i].mode
        BY <2>1 DEF TypeInv, TypeOK, Row
    <2>3. \A v \in Workers : hbuf'[v].row.mode = "RESUME" => hbuf'[v].id \in wiped
        <3>1. hbuf'[w].id = i /\ hbuf'[w].row = [rows[i] EXCEPT !.age = 0]
            BY <2>1 DEF TypeInv, TypeOK
        <3>2. \A v \in Workers : v # w => hbuf'[v] = hbuf[v]
            BY <2>1 DEF TypeInv, TypeOK
        <3>. QED BY <2>1, <2>2, <3>1, <3>2 DEF ResumeInv
    <2>4. UNCHANGED <<rows, buf, job, pc, phase, wiped>>
        BY <1>11 DEF HeartbeatRead, history
    <2>. QED BY <2>3, <2>4 DEF ResumeInv, Mode
<1>12. ASSUME NEW w \in Workers, HeartbeatWrite(w) \/ HeartbeatLost(w) PROVE ResumeInv'
    <2>1. UNCHANGED <<buf, job, pc, phase, wiped>>
        BY <1>12 DEF HeartbeatWrite, HeartbeatLost, history
    <2>2. \A v \in Workers : hbuf'[v].row.mode = "RESUME" => hbuf'[v].id \in wiped
        <3>1. hbuf'[w] = NoWrite /\ \A v \in Workers : v # w => hbuf'[v] = hbuf[v]
            BY <1>12 DEF HeartbeatWrite, HeartbeatLost, TypeInv, TypeOK
        <3>. QED BY <2>1, <3>1, NoResume DEF ResumeInv
    <2>3. \A j \in Jobs : rows'[j].mode = "RESUME" => j \in wiped
        BY <1>12 DEF HeartbeatWrite, HeartbeatLost, ResumeInv, TypeInv, TypeOK, sheet
    <2>. QED BY <2>1, <2>2, <2>3 DEF ResumeInv, Mode
<1>13. ASSUME NEW w \in Workers, Die(w), UNCHANGED <<sheet, phase, hbuf, content, history>> PROVE ResumeInv'
    BY <1>13 DEF Die, ResumeInv, Mode, NoWrite, NoClaim, Blank, TypeInv, TypeOK, sheet, history
<1>14. ASSUME NEW w \in Workers, CallFailsInside(w) \/ CallFailsInExcept(w) PROVE ResumeInv'
    <2>. DEFINE i == job[w].id
    <2>1. UNCHANGED <<rows, hbuf, job, phase, wiped>>
        BY <1>14 DEF CallFailsInside, CallFailsInExcept, sheet, history
    <2>2. \A v \in Workers : pc'[v] = "run" => pc[v] = "run"
        BY <1>14 DEF CallFailsInside, CallFailsInExcept, TypeInv, TypeOK
    <2>3. i \in Jobs /\ [rows[i] EXCEPT !.status = "FAILED", !.age = 0, !.done = 0].mode = rows[i].mode
        BY <1>14 DEF CallFailsInside, CallFailsInExcept, TypeInv, TypeOK, ClaimsAJob, InProcess, Holding, Row
    <2>4. \A v \in Workers : buf'[v].row.mode = "RESUME" => buf'[v].id \in wiped
        <3>1. CASE CallFailsInExcept(w)
            BY <3>1 DEF CallFailsInExcept, ResumeInv, NoWrite, Blank, TypeInv, TypeOK
        <3>2. CASE CallFailsInside(w)
            <4>1. buf' = [buf EXCEPT ![w] = [id |-> i, row |-> [rows[i] EXCEPT !.status = "FAILED",
                                                                              !.age = 0, !.done = 0]]]
                BY <3>2 DEF CallFailsInside
            <4>2. buf'[w].id = i /\ buf'[w].row = [rows[i] EXCEPT !.status = "FAILED", !.age = 0, !.done = 0]
                BY <4>1 DEF TypeInv, TypeOK
            <4>3. \A v \in Workers : v # w => buf'[v] = buf[v]
                BY <4>1 DEF TypeInv, TypeOK
            <4>4. buf'[w].row.mode = rows[i].mode
                BY <2>3, <4>2, Zenon
            <4>. QED BY <2>3, <4>2, <4>3, <4>4 DEF ResumeInv
        <3>. QED BY <1>14, <3>1, <3>2
    <2>. QED BY <2>1, <2>2, <2>4 DEF ResumeInv, Mode
<1>15. ASSUME Tick PROVE ResumeInv'
    <2>1. UNCHANGED <<job, pc, phase, wiped>>
        BY <1>15 DEF Tick, history
    <2>2. \A r \in Row : Aged(r).mode = r.mode
        BY DEF Aged, Row
    <2>3. \A b \in Write : AgedWrite(b).id = b.id /\ AgedWrite(b).row.mode = b.row.mode
        BY <2>2 DEF AgedWrite, Write
    <2>4. \A v \in Workers : /\ buf'[v] = AgedWrite(buf[v]) /\ hbuf'[v] = AgedWrite(hbuf[v])
                             /\ buf[v] \in Write /\ hbuf[v] \in Write
        BY <1>15 DEF Tick, TypeInv, TypeOK
    <2>5. \A j \in Jobs : rows'[j].mode = rows[j].mode
        BY <1>15, <2>2 DEF Tick, TypeInv, TypeOK
    <2>. QED BY <2>1, <2>3, <2>4, <2>5 DEF ResumeInv, Mode
<1>16. ASSUME UNCHANGED vars PROVE ResumeInv'
    BY <1>16 DEF ResumeInv, Mode, vars, sheet, local, history
<1>17. ASSUME NEW a \in Accounts, CreateResetRequest(a) PROVE ResumeInv'
    BY <1>1, <1>17 DEF CreateResetRequest, Modes
<1>18. ASSUME NEW a \in Accounts, NEW m \in HandModes, EnterRow(a, m) PROVE ResumeInv'
    <2>1. m \in Modes /\ m # "RESUME"
        BY QueueAssumption DEF QueueAssumption, Modes
    <2>. QED BY <1>1, <1>18, <2>1 DEF EnterRow
<1>. QED
    BY <1>2, <1>4, <1>6, <1>7, <1>8, <1>9, <1>10, <1>11, <1>12, <1>13, <1>14, <1>15, <1>16, <1>17, <1>18
       DEF Next, Queue, Process, Heartbeat, Fault, Crash, CallFailsOutside

\* A job becomes a RESUME only after its own reset_fn has returned.
THEOREM ResumeIsOwn == Spec => []ResumeFollowsOwnReset
<1>1. Spec => [](TypeInv /\ ResumeInv)
    BY TypeInit, TypeStep, ResumeInit, ResumeStep, PTL DEF Spec
<1>2. ResumeInv => ResumeFollowsOwnReset
    BY DEF ResumeInv, ResumeFollowsOwnReset
<1>. QED BY <1>1, <1>2, PTL

-----------------------------------------------------------------------------
(* COMPLETED is written on what the job left *)

\* Only a stage of the worker that has the account changes what it holds.
LEMMA ContentStep ==
    ASSUME TypeInv, [Next]_vars
    PROVE  UNCHANGED content \/ \E w \in Workers : Report(w)
<1>1. ASSUME NEW w \in Workers, Queue(w) PROVE UNCHANGED content
    BY <1>1 DEF Queue, TakeClaimLock, RecoverRead, RecoverWrite, ClaimNothing, ClaimPick, ClaimRead,
                ClaimWrite
<1>2. ASSUME NEW w \in Workers, Process(w), ~Report(w) PROVE UNCHANGED content
    BY <1>2 DEF Process, AccountBusy, RequeueWrite, AccountTaken, ReportWrite, EngineDone,
                CompleteWrite, CapacityOk, RetryableError, FatalError, RetryWrite, FailWrite,
                TouchRead, TouchWrite, Finish
<1>3. ASSUME NEW w \in Workers, Start(w) \/ Heartbeat(w) \/ Fault(w) PROVE UNCHANGED content
    BY <1>3 DEF Start, Heartbeat, HeartbeatRead, HeartbeatWrite, HeartbeatLost, Fault, Crash,
                CallFailsOutside, CallFailsInside, CallFailsInExcept
<1>4. ASSUME NEW a \in Accounts, NEW m, AppendRow(a, m) PROVE UNCHANGED content
    BY <1>4 DEF AppendRow
<1>5. ASSUME Tick \/ UNCHANGED vars PROVE UNCHANGED content
    BY <1>5 DEF Tick, vars
<1>. QED
    BY <1>1, <1>2, <1>3, <1>4, <1>5 DEF Next, CreateResetRequest, EnterRow

\* A worker is at work in process, and in a phase of it, through these steps alone.
LEMMA WorkStep ==
    ASSUME TypeInv, [Next]_vars, NEW w \in Workers, pc'[w] \in {"run", "complete"}
    PROVE  \/ AccountTaken(w) \/ Report(w) \/ EngineDone(w)
           \/ pc'[w] = pc[w] /\ phase'[w] = phase[w] /\ job'[w] = job[w]
<1>. DEFINE Same == pc'[w] = pc[w] /\ phase'[w] = phase[w] /\ job'[w] = job[w]
<1>1. ASSUME NEW v \in Workers, Queue(v) PROVE Same
    BY <1>1 DEF Queue, TakeClaimLock, RecoverRead, RecoverWrite, ClaimNothing, ClaimPick, ClaimRead,
                ClaimWrite, TypeInv, TypeOK
<1>2. ASSUME NEW v \in Workers, Process(v), ~AccountTaken(w), ~Report(w), ~EngineDone(w) PROVE Same
    <2>1. CASE v = w
        BY <1>2, <2>1 DEF Process, AccountBusy, RequeueWrite, ReportWrite, CompleteWrite, CapacityOk,
                    RetryableError, FatalError, Failing, RetryWrite, FailWrite, TouchRead,
                    TouchWrite, Finish, TypeInv, TypeOK
    <2>2. CASE v # w
        BY <1>2, <2>2 DEF Process, AccountBusy, RequeueWrite, AccountTaken, Report, ReportWrite,
                    EngineDone, CompleteWrite, CapacityOk, RetryableError, FatalError, Failing,
                    RetryWrite, FailWrite, TouchRead, TouchWrite, Finish, TypeInv, TypeOK
    <2>. QED BY <2>1, <2>2
<1>3. ASSUME NEW v \in Workers, Start(v) \/ Heartbeat(v) \/ Fault(v) PROVE Same
    <2>1. CASE Start(v) \/ Heartbeat(v)
        BY <2>1 DEF Start, Heartbeat, HeartbeatRead, HeartbeatWrite, HeartbeatLost, TypeInv, TypeOK
    <2>2. CASE Crash(v) \/ CallFailsOutside(v)
        BY <2>2 DEF Crash, CallFailsOutside, Die, TypeInv, TypeOK
    <2>3. CASE CallFailsInside(v) \/ CallFailsInExcept(v)
        BY <2>3 DEF CallFailsInside, CallFailsInExcept, TypeInv, TypeOK
    <2>. QED BY <1>3, <2>1, <2>2, <2>3 DEF Fault
<1>4. ASSUME NEW a \in Accounts, NEW m, AppendRow(a, m) PROVE Same
    BY <1>4 DEF AppendRow, local
<1>5. ASSUME Tick \/ UNCHANGED vars PROVE Same
    BY <1>5 DEF Tick, vars, local
<1>. QED
    BY <1>1, <1>2, <1>3, <1>4, <1>5 DEF Next, CreateResetRequest, EnterRow

\* From the last stage of a restore to its COMPLETED the account holds what the stage
\* left, and the baseline once a read-back has passed.
EndInv ==
    \A w \in Workers : Mode(w) # "PREVIEW" =>
        /\ pc[w] = "run" /\ phase[w] = "VERIFYING" => content[Account(w)] \in {"replayed", "baseline"}
        /\ pc[w] = "complete" => content[Account(w)] \in Restored

LEMMA EndStep == TypeInv /\ LockInv /\ EndInv /\ [Next]_vars => EndInv'
<1>. SUFFICES ASSUME TypeInv, LockInv, EndInv, [Next]_vars, NEW w \in Workers, Mode(w)' # "PREVIEW",
                     pc'[w] \in {"run", "complete"}
              PROVE  /\ pc'[w] = "run" /\ phase'[w] = "VERIFYING"
                            => content'[Account(w)'] \in {"replayed", "baseline"}
                     /\ pc'[w] = "complete" => content'[Account(w)'] \in Restored
    BY DEF EndInv, Restored
<1>1. CASE AccountTaken(w)
    BY <1>1 DEF AccountTaken, TypeInv, TypeOK
<1>2. CASE Report(w)
    <2>1. pc'[w] = "run" /\ Account(w)' = Account(w) /\ Account(w) \in Accounts
        BY <1>2 DEF Report, Account, TypeInv, TypeOK, Claim
    <2>2. CASE phase'[w] = "VERIFYING"
        <3>1. \/ content' = [content EXCEPT ![Account(w)] = "replayed"]
              \/ content' = [content EXCEPT ![Account(w)] = "baseline"]
            BY <1>2, <2>2 DEF Report, Moved, TypeInv, TypeOK
        <3>. QED BY <2>1, <3>1 DEF TypeInv, TypeOK
    <2>. QED BY <2>1, <2>2
<1>3. CASE EngineDone(w)
    <2>1. /\ pc'[w] = "complete" /\ UNCHANGED <<content, job>>
          /\ pc[w] = "run" /\ phase[w] = LastPhase(Mode(w)) /\ Verified(w)
        BY <1>3 DEF EngineDone, history, TypeInv, TypeOK
    <2>2. Mode(w) # "PREVIEW" /\ phase[w] = "VERIFYING" /\ content'[Account(w)'] = content[Account(w)]
        BY <2>1 DEF Mode, Account, LastPhase
    <2>3. content[Account(w)] \in {"replayed", "baseline"}
        BY <2>1, <2>2 DEF EndInv
    <2>. QED BY <2>1, <2>2, <2>3 DEF Verified, Restored
<1>4. CASE ~Report(w) /\ pc'[w] = pc[w] /\ phase'[w] = phase[w] /\ job'[w] = job[w]
    <2>1. ASSUME NEW v \in Workers, Report(v) PROVE content'[Account(w)] = content[Account(w)]
        <3>1. Account(v) # Account(w) /\ Account(w) \in Accounts
            BY <1>4, <2>1 DEF Report, LockInv, Holding, TypeInv, TypeOK, Claim, Account
        <3>. QED BY <2>1, <3>1 DEF Report, Moved, TypeInv, TypeOK
    <2>2. content'[Account(w)] = content[Account(w)]
        BY <2>1, ContentStep
    <2>3. Account(w)' = Account(w) /\ Mode(w) # "PREVIEW"
        BY <1>4 DEF Account, Mode
    <2>. QED BY <1>4, <2>2, <2>3 DEF EndInv
<1>. QED BY <1>1, <1>2, <1>3, <1>4, WorkStep

\* While COMPLETED of a restore is reported, the account holds what its last stage left,
\* whether process has read it back or not.
THEOREM CompletedRestored == Spec => []CompletedIsRestored
<1>1. Init => EndInv
    BY DEF Init, EndInv
<1>2. EndInv => CompletedIsRestored
    BY DEF EndInv, CompletedIsRestored
<1>. QED BY <1>1, <1>2, TypeInit, TypeStep, LockInit, LockStep, EndStep, PTL DEF Spec

-----------------------------------------------------------------------------
(* The queue implements AccountTurns *)

\* The lock of an account is held by a worker that is in process for it.
HeldInv == \A a \in Accounts : accountLock[a] # NoWorker =>
               pc[accountLock[a]] \in Holding /\ Account(accountLock[a]) = a

\* Only these actions move a worker into process with the lock, or out of it.
LEMMA HoldingStep ==
    ASSUME TypeInv, [Next]_vars
    PROVE  \/ UNCHANGED content /\ \E w \in Workers : AccountTaken(w) \/ Finish(w) \/ Die(w)
           \/ /\ UNCHANGED accountLock
              /\ \A v \in Workers : pc[v] \in Holding => pc'[v] \in Holding /\ job'[v] = job[v]
<1>. DEFINE Kept == /\ UNCHANGED accountLock
                    /\ \A v \in Workers : pc[v] \in Holding => pc'[v] \in Holding /\ job'[v] = job[v]
<1>1. ASSUME NEW w \in Workers, Queue(w) PROVE Kept
    BY <1>1 DEF Queue, TakeClaimLock, RecoverRead, RecoverWrite, ClaimNothing, ClaimPick, ClaimRead,
                ClaimWrite, TypeInv, TypeOK, Holding, locks
<1>2. ASSUME NEW w \in Workers, Process(w), ~AccountTaken(w), ~Finish(w) PROVE Kept
    <2>1. UNCHANGED accountLock
        BY <1>2 DEF Process, AccountBusy, RequeueWrite, Report, ReportWrite, EngineDone,
                    CompleteWrite, CapacityOk, RetryableError, FatalError, RetryWrite, FailWrite,
                    TouchRead, TouchWrite, locks
    <2>2. ASSUME NEW v \in Workers, pc[v] \in Holding PROVE pc'[v] \in Holding /\ job'[v] = job[v]
        <3>1. CASE AccountBusy(w) \/ RequeueWrite(w)
            BY <2>2, <3>1 DEF AccountBusy, RequeueWrite, TypeInv, TypeOK, Holding
        <3>2. CASE ~(AccountBusy(w) \/ RequeueWrite(w))
            BY <1>2, <2>2, <3>2 DEF Process, Report, ReportWrite, EngineDone, CompleteWrite,
                    CapacityOk, RetryableError, FatalError, Failing, RetryWrite, FailWrite,
                    TouchRead, TouchWrite, TypeInv, TypeOK, Holding
        <3>. QED BY <3>1, <3>2
    <2>. QED BY <2>1, <2>2
<1>3. ASSUME NEW w \in Workers, Start(w) \/ Heartbeat(w) PROVE Kept
    BY <1>3 DEF Start, Heartbeat, HeartbeatRead, HeartbeatWrite, HeartbeatLost, TypeInv, TypeOK,
                Holding, locks
<1>4. ASSUME NEW w \in Workers, CallFailsInside(w) \/ CallFailsInExcept(w) PROVE Kept
    BY <1>4 DEF CallFailsInside, CallFailsInExcept, TypeInv, TypeOK, Holding, locks
<1>5. ASSUME NEW a \in Accounts, NEW m, AppendRow(a, m) PROVE Kept
    BY <1>5 DEF AppendRow, local, locks
<1>6. ASSUME Tick \/ UNCHANGED vars PROVE Kept
    BY <1>6 DEF Tick, vars, local, locks
<1>7. ASSUME NEW w \in Workers, Crash(w) \/ CallFailsOutside(w) PROVE Die(w) /\ UNCHANGED content
    BY <1>7 DEF Crash, CallFailsOutside
<1>8. ASSUME NEW w \in Workers, AccountTaken(w) \/ Finish(w) PROVE UNCHANGED content
    BY <1>8 DEF AccountTaken, Finish
<1>. QED
    BY <1>1, <1>2, <1>3, <1>4, <1>5, <1>6, <1>7, <1>8 DEF Next, Fault, CreateResetRequest, EnterRow

LEMMA HeldStep == TypeInv /\ HeldInv /\ [Next]_vars => HeldInv'
<1>. SUFFICES ASSUME TypeInv, HeldInv, [Next]_vars,
                     NEW a \in Accounts, accountLock'[a] # NoWorker
              PROVE  pc'[accountLock'[a]] \in Holding /\ job'[accountLock'[a]].acct = a
    BY DEF HeldInv, Account
<1>. USE DEF TypeInv
<1>0. \A w \in Workers : Account(w) \in Accounts /\ w # NoWorker
    BY QueueAssumption DEF TypeOK, Claim, Account, QueueAssumption
<1>1. ASSUME NEW w \in Workers, AccountTaken(w) PROVE pc'[accountLock'[a]] \in Holding /\ job'[accountLock'[a]].acct = a
    <2>1. accountLock'[a] = (IF a = Account(w) THEN w ELSE accountLock[a])
        BY <1>0, <1>1 DEF AccountTaken, TypeOK
    <2>2. accountLock'[a] \in Workers /\ UNCHANGED job
        BY <1>1, <2>1 DEF AccountTaken, TypeOK
    <2>3. pc' = [pc EXCEPT ![w] = "run"]
        BY <1>1 DEF AccountTaken
    <2>. QED BY <2>1, <2>2, <2>3 DEF HeldInv, TypeOK, Holding, Account
<1>2. ASSUME NEW w \in Workers, Finish(w) \/ Die(w) PROVE pc'[accountLock'[a]] \in Holding /\ job'[accountLock'[a]].acct = a
    <2>1. accountLock'[a] = accountLock[a] /\ accountLock[a] # w
        BY <1>0, <1>2 DEF Finish, Die, TypeOK, HeldInv
    <2>2. \A v \in Workers : v # w => pc'[v] = pc[v] /\ job'[v] = job[v]
        BY <1>2 DEF Finish, Die, TypeOK
    <2>3. accountLock[a] \in Workers
        BY <2>1 DEF TypeOK
    <2>. QED BY <2>1, <2>2, <2>3 DEF HeldInv, Account
<1>3. CASE UNCHANGED accountLock /\ \A v \in Workers : pc[v] \in Holding => pc'[v] \in Holding /\ job'[v] = job[v]
    <2>1. accountLock[a] \in Workers
        BY <1>3 DEF TypeOK
    <2>. QED BY <1>3, <2>1 DEF HeldInv, Account
<1>. QED BY <1>1, <1>2, <1>3, HoldingStep

\* So the user of an account, as the refinement computes it, is the lock holder.
UserIsHolder == [a \in Accounts |-> UserOf(a)] = accountLock

LEMMA HolderKnown == TypeInv /\ LockInv /\ HeldInv => UserIsHolder
<1>. SUFFICES ASSUME TypeInv, LockInv, HeldInv PROVE UserIsHolder
    OBVIOUS
<1>1. ASSUME NEW a \in Accounts PROVE UserOf(a) = accountLock[a]
    <2>1. CASE \E w \in Workers : pc[w] \in Holding /\ Account(w) = a
        <3>1. UserOf(a) \in Workers /\ pc[UserOf(a)] \in Holding /\ Account(UserOf(a)) = a
            BY <2>1 DEF UserOf
        <3>. QED BY <3>1 DEF LockInv
    <2>2. CASE ~\E w \in Workers : pc[w] \in Holding /\ Account(w) = a
        BY <2>2 DEF UserOf, HeldInv, TypeInv, TypeOK
    <2>. QED BY <2>1, <2>2
<1>. QED BY <1>1 DEF UserIsHolder, TypeInv, TypeOK

LEMMA TurnsStep ==
    TypeInv /\ LockInv /\ HeldInv /\ UserIsHolder /\ UserIsHolder' /\ [Next]_vars
        => [Turns!TurnsNext]_<<[a \in Accounts |-> UserOf(a)], content>>
<1>. DEFINE U == [a \in Accounts |-> UserOf(a)]
<1>. SUFFICES ASSUME TypeInv, LockInv, HeldInv, UserIsHolder, UserIsHolder', [Next]_vars
              PROVE  Turns!TurnsNext \/ (U' = U /\ content' = content)
    OBVIOUS
<1>1. U = accountLock /\ U' = accountLock'
    BY DEF UserIsHolder
<1>2. \A w \in Workers : Account(w) \in Accounts /\ w # NoWorker
    BY QueueAssumption DEF TypeInv, TypeOK, Claim, Account, QueueAssumption
<1>3. ASSUME NEW w \in Workers, AccountTaken(w) PROVE Turns!TurnsNext
    <2>1. U[Account(w)] = NoWorker /\ U' = [U EXCEPT ![Account(w)] = w] /\ UNCHANGED content
        BY <1>1, <1>3 DEF AccountTaken
    <2>. HIDE DEF U
    <2>2. Turns!Take(w, Account(w))
        BY <2>1 DEF Turns!Take, U
    <2>. QED BY <1>2, <2>2 DEF Turns!TurnsNext
<1>4. ASSUME NEW w \in Workers, Finish(w) \/ (Die(w) /\ pc[w] \in Holding), UNCHANGED content
      PROVE  Turns!TurnsNext
    <2>1. accountLock[Account(w)] = w
        BY <1>4 DEF Finish, LockInv, Holding
    <2>2. accountLock' = [accountLock EXCEPT ![Account(w)] = NoWorker]
        <3>1. CASE Finish(w)
            BY <3>1 DEF Finish
        <3>2. CASE Die(w)
            BY <1>2, <2>1, <3>2 DEF Die, HeldInv, TypeInv, TypeOK
        <3>. QED BY <1>4, <3>1, <3>2
    <2>3. U[Account(w)] # NoWorker /\ U' = [U EXCEPT ![Account(w)] = NoWorker]
        BY <1>1, <1>2, <2>1, <2>2
    <2>. HIDE DEF U
    <2>4. U' = [a \in Accounts |-> IF a \in {Account(w)} THEN NoWorker ELSE U[a]]
        <3>1. U = [a \in Accounts |-> U[a]]
            BY DEF U
        <3>. QED BY <2>3, <3>1
    <2>5. Turns!GiveBack({Account(w)})
        BY <1>4, <2>3, <2>4 DEF Turns!GiveBack, U
    <2>. QED BY <1>2, <2>5 DEF Turns!TurnsNext
<1>5. ASSUME NEW w \in Workers, Die(w), pc[w] \notin Holding PROVE U' = U
    <2>1. \A a \in Accounts : accountLock[a] # w
        BY <1>2, <1>5 DEF HeldInv
    <2>. QED BY <1>1, <1>5, <2>1 DEF Die, TypeInv, TypeOK
<1>6. ASSUME NEW w \in Workers, Report(w) PROVE Turns!TurnsNext
    <2>1. U[Account(w)] # NoWorker /\ U' = U
        BY <1>1, <1>2, <1>6 DEF Report, LockInv, Holding, locks
    <2>2. PICK c \in Contents : content' = [content EXCEPT ![Account(w)] = c]
        <3>1. content[Account(w)] \in Contents /\ content = [content EXCEPT ![Account(w)] = content[Account(w)]]
            BY <1>2 DEF TypeInv, TypeOK
        <3>. QED BY <1>6, <3>1 DEF Report, Moved, Contents
    <2>3. Turns!Work(Account(w))
        BY <2>1, <2>2 DEF Turns!Work
    <2>. QED BY <1>2, <2>3 DEF Turns!TurnsNext
<1>. QED
    BY <1>1, <1>3, <1>4, <1>5, <1>6, ContentStep, HoldingStep

\* The reset queue implements AccountTurns: an account is taken by one worker
\* at a time and changes only while it is taken.
THEOREM QueueImplementsTurns == Spec => AccountsTakeTurns
<1>1. Init => HeldInv /\ Turns!TurnsInit
    <2>1. ASSUME Init PROVE HeldInv /\ content \in [Accounts -> Contents]
        BY <2>1 DEF Init, HeldInv, Contents
    <2>2. ASSUME Init PROVE [a \in Accounts |-> UserOf(a)] = [a \in Accounts |-> NoWorker]
        BY <2>2 DEF Init, UserOf, Holding
    <2>. QED BY <2>1, <2>2 DEF Turns!TurnsInit
<1>2. Spec => [](TypeInv /\ LockInv /\ HeldInv)
    BY <1>1, TypeInit, TypeStep, LockInit, LockStep, HeldStep, PTL DEF Spec
<1>. QED BY <1>1, <1>2, HolderKnown, TurnsStep, PTL DEF Spec, AccountsTakeTurns, Turns!TurnsSpec

-----------------------------------------------------------------------------
(***************************************************************************)
(* The rows of the queue: whole rows are written back from what a worker   *)
(* or its heartbeat thread read earlier, and still the row of a job at     *)
(* work is not claimable and the retry count never falls behind.  Both     *)
(* rest on the waiting time of a retry: a row becomes claimable again only *)
(* when no write of the earlier attempt is in flight.                      *)
(***************************************************************************)

HIDE DEF Jobs

\* A write stays in flight for less than half of the waiting time (two minutes of
\* timeout per call against retry_after_seconds = 1800).
CallsAreShort == RetryAfter > 2 * CallMax

Engaged == InProcess \union {"requeue"}
Settled == {"RUNNING", "COMPLETED", "FAILED"}   \* nobody claims such a row
Waiting == {"QUEUED", "RETRY_WAIT"}

\* The worker has picked the row, or has the job.
Claimed(w, j) ==
    \/ pc[w] = "claim" /\ j \in todo[w]
    \/ pc[w] \in Engaged /\ job[w].id = j

ClaimSerial == \A w \in Workers : pc[w] \in ClaimSection => claimLock = w
OneClaimant == \A v, w \in Workers, j \in Jobs : Claimed(v, j) /\ Claimed(w, j) => v = w

\* What a picked row, and the row of a job at work, look like.
RowOfPicked ==
    \A w \in Workers : pc[w] = "claim" => \A j \in todo[w] : rows[j].status \in Waiting
RowOfClaimant ==
    \A w \in Workers : pc[w] \in Engaged =>
        /\ job[w].id \in Jobs
        /\ \/ rows[job[w].id].status \in Settled
           \/ /\ pc[w] = "finally" /\ rows[job[w].id].status = "RETRY_WAIT"
              /\ rows[job[w].id].age <= CallMax

\* What the main thread's write in flight may do to the row.
WriteIsOwn ==
    \A w \in Workers : buf[w].id # 0 =>
        \/ pc[w] = "recover" /\ buf[w].row.status = "FAILED"
        \/ pc[w] = "claim" /\ buf[w].id \in todo[w] /\ buf[w].row.status = "RUNNING"
        \/ pc[w] = "requeue" /\ buf[w].id = job[w].id /\ buf[w].row.status = "QUEUED"
        \/ /\ pc[w] = "retry" /\ buf[w].id = job[w].id /\ buf[w].row.status = "RETRY_WAIT"
           /\ buf[w].row.age <= CallMax /\ buf[w].row.retries = job[w].retries + 1
        \/ /\ pc[w] \in {"run", "complete", "fail", "touch"} /\ buf[w].id = job[w].id
           /\ buf[w].row.status \in Settled

\* A heartbeat in flight belongs to the job at work or to a job nobody has claimed
\* since, whose row is too young to be claimed.
BeatIsOwn ==
    \A u \in Workers, j \in Jobs : hbuf[u].id = j =>
        /\ \A w \in Workers : Claimed(w, j) => w = u /\ pc[w] \in Holding
        /\ rows[j].status \notin {"NONE", "QUEUED"}
        /\ rows[j].status = "RETRY_WAIT" => rows[j].age <= hbuf[u].row.age + CallMax
        /\ hbuf[u].row.age <= CallMax
        /\ \/ hbuf[u].row.status \in Settled
           \/ /\ hbuf[u].row.status = "RETRY_WAIT"
              /\ \A w \in Workers : Claimed(w, j) => pc[w] = "finally"

RowsInv ==
    ClaimSerial /\ OneClaimant /\ RowOfPicked /\ RowOfClaimant /\ WriteIsOwn /\ BeatIsOwn

\* Wherever the retry count may still be read for a decision, it is not behind.
CountInRow ==
    \A j \in Jobs : /\ rows[j].status = "NONE" => attempts[j] = 0
                    /\ rows[j].status \in Waiting => attempts[j] <= rows[j].retries
CountInJob ==
    \A w \in Workers : /\ pc[w] \in Engaged \ {"finally"} => attempts[job[w].id] <= job[w].retries
                       /\ pc[w] = "process" => attempts[job[w].id] <= rows[job[w].id].retries
CountInFlight ==
    \A w \in Workers :
        /\ buf[w].id # 0 /\ pc[w] \in {"claim", "requeue"} => attempts[buf[w].id] <= buf[w].row.retries
        /\ hbuf[w].id # 0 /\ hbuf[w].row.status = "RETRY_WAIT"
             => attempts[hbuf[w].id] <= hbuf[w].row.retries
CountInRecovery ==
    \A v, w \in Workers :
        pc[v] = "recover" /\ buf[v].id # 0 /\ pc[w] = "process" /\ job[w].id = buf[v].id
            => attempts[buf[v].id] <= buf[v].row.retries

CountInv == RetriesBounded /\ CountInRow /\ CountInJob /\ CountInFlight /\ CountInRecovery

ClaimInv == TypeInv /\ RowsInv /\ CountInv

LEMMA ClaimInit == Init => ClaimInv
<1>. SUFFICES ASSUME Init PROVE ClaimInv
    OBVIOUS
<1>1. NoWrite.id = 0
    BY DEF NoWrite
<1>2. RowsInv
    BY <1>1, BoundsType DEF Jobs, Init, RowsInv, ClaimSerial, OneClaimant, Claimed, RowOfPicked, RowOfClaimant, WriteIsOwn,
                BeatIsOwn, ClaimSection, Engaged, InProcess, Holding
<1>3. \A j \in Jobs : rows[j].status = "NONE" /\ attempts[j] = 0
    BY DEF Init, Blank
<1>4. CountInv
    BY <1>1, <1>3, BoundsType DEF Init, CountInv, RetriesBounded, CountInRow, CountInJob, CountInFlight, CountInRecovery,
                      Waiting, Engaged, InProcess, Holding
<1>. QED BY <1>2, <1>4, TypeInit DEF ClaimInv

-----------------------------------------------------------------------------
(* What the steps of a worker do, in the terms of the invariant *)

Alone(w) == \A v \in Workers \ {w} : /\ pc'[v] = pc[v] /\ todo'[v] = todo[v]
                                     /\ job'[v] = job[v] /\ buf'[v] = buf[v]

\* A row is read and merged.
Reads(w) ==
    LET new == buf'[w]
        row == rows[new.id]
    IN  /\ Alone(w) /\ UNCHANGED <<rows, hbuf, todo, job, claimLock, attempts>>
        /\ new.id \in Jobs
        /\ \/ /\ pc[w] = "recover" /\ pc'[w] = "recover"
              /\ new.row.status = "FAILED" /\ new.row.retries = row.retries
           \/ /\ pc[w] = "claim" /\ pc'[w] = "claim" /\ new.id \in todo[w]
              /\ new.row.status = "RUNNING" /\ new.row.retries = row.retries
           \/ /\ pc[w] = "process" /\ pc'[w] = "requeue" /\ new.id = job[w].id
              /\ new.row.status = "QUEUED" /\ new.row.retries = row.retries
           \/ /\ pc[w] = "run" /\ pc'[w] = "retry" /\ new.id = job[w].id
              /\ new.row.status = "RETRY_WAIT" /\ new.row.age = 0
              /\ new.row.retries = job[w].retries + 1 /\ new.row.retries <= MaxRetries
           \/ /\ pc[w] \in {"run", "complete", "capacity", "touch"} /\ new.id = job[w].id
              /\ pc'[w] \in {"run", "complete", "fail", "touch"}
              /\ new.row.status \in {row.status, "COMPLETED", "FAILED"}

\* The merged row is written.
Writes(w) ==
    LET old == buf[w]
    IN  /\ Alone(w) /\ UNCHANGED hbuf
        /\ old.id \in Jobs /\ rows' = [rows EXCEPT ![old.id] = old.row] /\ buf'[w].id = 0
        /\ \/ pc[w] = "recover" /\ UNCHANGED <<pc, job, claimLock, attempts>>
           \/ /\ pc[w] = "claim" /\ pc'[w] = "process" /\ claimLock' = NoWorker /\ UNCHANGED attempts
              /\ job'[w].id = old.id /\ job'[w].retries = old.row.retries
           \/ pc[w] = "requeue" /\ pc'[w] = "off" /\ UNCHANGED <<claimLock, attempts>>
           \/ /\ pc[w] = "retry" /\ pc'[w] = "finally" /\ UNCHANGED <<job, claimLock>>
              /\ attempts' = [attempts EXCEPT ![job[w].id] = @ + 1]
           \/ /\ pc[w] \in {"run", "complete", "fail", "touch"} /\ UNCHANGED <<job, claimLock, attempts>>
              /\ pc'[w] \in {"run", "capacity", "touch", "finally"}

\* The worker goes on, gives up or dies; it reads and writes nothing.
Moves(w) ==
    /\ Alone(w) /\ UNCHANGED <<rows, hbuf, attempts>>
    /\ buf'[w] = buf[w] \/ buf'[w].id = 0
    /\ \/ pc'[w] = "off" /\ buf'[w].id = 0 /\ claimLock' \in {claimLock, NoWorker}
          /\ (claimLock' # claimLock => claimLock = w)
       \/ pc[w] = "off" /\ pc'[w] = "start" /\ UNCHANGED claimLock
       \/ pc[w] = "start" /\ pc'[w] = "recover" /\ claimLock = NoWorker /\ claimLock' = w
       \/ pc[w] = "process" /\ pc'[w] = "run" /\ UNCHANGED <<job, claimLock>>
       \/ pc[w] = "capacity" /\ pc'[w] = "finally" /\ UNCHANGED <<job, claimLock>>
       \/ /\ pc[w] \in {"retry", "fail", "touch"} /\ pc'[w] = "finally" /\ buf'[w].id = 0
          /\ UNCHANGED <<job, claimLock>>

\* Merges, field by field.
LEMMA MergedAge == \A r \in Row, n \in Int :
    LET m == [r EXCEPT !.age = n] IN m.status = r.status /\ m.age = n /\ m.retries = r.retries
BY DEF Row
LEMMA MergedStatus == \A r \in Row, st \in Statuses, n \in Int :
    LET m == [r EXCEPT !.status = st, !.age = n] IN m.status = st /\ m.age = n /\ m.retries = r.retries
BY DEF Row
LEMMA MergedEnd == \A r \in Row, st \in Statuses, n, d \in Int :
    LET m == [r EXCEPT !.status = st, !.age = n, !.done = d]
    IN  m.status = st /\ m.age = n /\ m.retries = r.retries
BY DEF Row
LEMMA MergedResult == \A r \in Row, st \in Statuses, n, d, k \in Int :
    LET m == [r EXCEPT !.status = st, !.age = n, !.done = d, !.retries = k]
    IN  m.status = st /\ m.age = n /\ m.retries = k
BY DEF Row
LEMMA MergedRetry == \A r \in Row, st \in Statuses, n, k \in Int, m \in Modes :
    LET new == [r EXCEPT !.status = st, !.age = n, !.mode = m, !.retries = k]
    IN  new.status = st /\ new.age = n /\ new.retries = k
BY DEF Row

LEMMA ReadAlone ==
    ASSUME TypeInv, NEW w \in Workers, NEW j \in Jobs, NEW r, Read(w, j, r)
    PROVE  /\ buf'[w].id = j /\ buf'[w].row = r
           /\ \A v \in Workers \ {w} : buf'[v] = buf[v]
BY DEF Read, TypeInv, TypeOK

LEMMA ReadsHold ==
    ASSUME TypeInv, NEW w \in Workers,
           \/ RecoverRead(w) \/ ClaimRead(w) \/ AccountBusy(w) \/ Report(w) \/ EngineDone(w)
           \/ RetryableError(w) \/ FatalError(w) \/ TouchRead(w) \/ CallFailsInside(w)
    PROVE  Reads(w)
<1>. USE DEF TypeInv
<1>0. /\ \A j \in Jobs : rows[j] \in Row
      /\ {"FAILED", "RUNNING", "QUEUED", "RETRY_WAIT", "COMPLETED"} \subseteq Statuses
      /\ \A v \in Workers : lag[v] \in Int /\ todo[v] \subseteq Jobs
      /\ Cooldown \in Int
    BY BoundsType DEF TypeOK, Statuses
<1>1. CASE RecoverRead(w)
    <2>1. PICK j \in Jobs : Read(w, j, [rows[j] EXCEPT !.status = "FAILED", !.age = lag[w],
                                 !.done = IF lag[w] < Cooldown THEN lag[w] ELSE Cooldown])
        BY <1>0, <1>1 DEF RecoverRead
    <2> DEFINE d == IF lag[w] < Cooldown THEN lag[w] ELSE Cooldown
               m == [rows[j] EXCEPT !.status = "FAILED", !.age = lag[w], !.done = d]
    <2>2. buf'[w].id = j /\ buf'[w].row.status = "FAILED" /\ buf'[w].row.retries = rows[j].retries
        <3>1. buf'[w].id = j /\ buf'[w].row = m
            BY <2>1, ReadAlone
        <3>2. d \in Int
            BY <1>0
        <3>3. m.status = "FAILED" /\ m.retries = rows[j].retries
            <4>. HIDE DEF d
            <4>. QED BY <1>0, <3>2, MergedEnd
        <3>. QED BY <3>1, <3>3
    <2>3. Alone(w) /\ UNCHANGED <<rows, hbuf, todo, job, claimLock, attempts>>
        BY <1>1, <2>1, ReadAlone DEF RecoverRead, Alone, sheet, locks, history
    <2>. QED BY <1>1, <2>2, <2>3 DEF RecoverRead, Reads
<1>2. CASE ClaimRead(w)
    <2>1. PICK j \in todo[w] : Read(w, j, [rows[j] EXCEPT !.status = "RUNNING", !.age = lag[w]])
        BY <1>2 DEF ClaimRead
    <2>2. buf'[w].id = j /\ buf'[w].row.status = "RUNNING" /\ buf'[w].row.retries = rows[j].retries
        <3>1. buf'[w].id = j /\ buf'[w].row = [rows[j] EXCEPT !.status = "RUNNING", !.age = lag[w]]
            BY <1>0, <2>1, ReadAlone
        <3>2. LET m == [rows[j] EXCEPT !.status = "RUNNING", !.age = lag[w]]
              IN  m.status = "RUNNING" /\ m.retries = rows[j].retries
            BY <1>0, MergedStatus
        <3>. QED BY <3>1, <3>2
    <2>3. Alone(w) /\ UNCHANGED <<rows, hbuf, todo, job, claimLock, attempts>>
        BY <1>0, <1>2, <2>1, ReadAlone DEF ClaimRead, Alone, sheet, locks, history
    <2>. QED BY <1>0, <1>2, <2>2, <2>3 DEF ClaimRead, Reads
<1>3. CASE AccountBusy(w)
    <2>1. job[w].id \in Jobs
        BY <1>3 DEF AccountBusy, ClaimsAJob, InProcess
    <2>2. buf'[w].id = job[w].id /\ buf'[w].row.status = "QUEUED"
          /\ buf'[w].row.retries = rows[job[w].id].retries
        <3>1. buf'[w].id = job[w].id
              /\ buf'[w].row = [rows[job[w].id] EXCEPT !.status = "QUEUED", !.age = 0]
            BY <1>3, <2>1, ReadAlone DEF AccountBusy
        <3>2. LET m == [rows[job[w].id] EXCEPT !.status = "QUEUED", !.age = 0]
              IN  m.status = "QUEUED" /\ m.retries = rows[job[w].id].retries
            BY <1>0, <2>1, MergedStatus
        <3>. QED BY <3>1, <3>2
    <2>3. Alone(w) /\ UNCHANGED <<rows, hbuf, todo, job, claimLock, attempts>>
        BY <1>3, <2>1, ReadAlone DEF AccountBusy, Alone, sheet, locks, history, TypeOK
    <2>. QED BY <1>3, <2>1, <2>2, <2>3 DEF AccountBusy, Reads, TypeOK
<1>4. CASE Report(w)
    <2>1. job[w].id \in Jobs
        BY <1>4 DEF Report, ClaimsAJob, InProcess, Holding
    <2>2. buf'[w].id = job[w].id /\ buf'[w].row.status = rows[job[w].id].status
        <3>1. buf'[w].id = job[w].id /\ buf'[w].row = [rows[job[w].id] EXCEPT !.age = 0]
            BY <1>4, <2>1, ReadAlone DEF Report
        <3>2. [rows[job[w].id] EXCEPT !.age = 0].status = rows[job[w].id].status
            BY <1>0, <2>1, MergedAge
        <3>. QED BY <3>1, <3>2
    <2>3. Alone(w) /\ UNCHANGED <<rows, hbuf, todo, job, claimLock, attempts, pc>>
        BY <1>4, <2>1, ReadAlone DEF Report, Alone, sheet, locks
    <2>. QED BY <1>4, <2>1, <2>2, <2>3 DEF Report, Reads
<1>5. CASE EngineDone(w)
    <2>1. job[w].id \in Jobs
        BY <1>5 DEF EngineDone, ClaimsAJob, InProcess, Holding
    <2>2. buf'[w].id = job[w].id /\ buf'[w].row.status = "COMPLETED"
        <3> DEFINE m == [rows[job[w].id] EXCEPT !.status = "COMPLETED", !.age = 0, !.done = 0, !.retries = 0]
        <3>1. buf'[w].id = job[w].id /\ buf'[w].row = m
            BY <1>5, <2>1, ReadAlone DEF EngineDone
        <3>2. m.status = "COMPLETED"
            BY <1>0, <2>1, MergedResult
        <3>. QED BY <3>1, <3>2
    <2>3. Alone(w) /\ UNCHANGED <<rows, hbuf, todo, job, claimLock, attempts>>
        BY <1>5, <2>1, ReadAlone DEF EngineDone, Alone, sheet, locks, history, TypeOK
    <2>. QED BY <1>5, <2>1, <2>2, <2>3 DEF EngineDone, Reads, TypeOK
<1>6. ASSUME pc[w] = "run", Failing(w), UNCHANGED <<sheet, locks, todo, job, hbuf, history>>
      PROVE  Reads(w)
    <2>1. job[w].id \in Jobs
        BY <1>6 DEF ClaimsAJob, InProcess, Holding
    <2>2. buf'[w].id = job[w].id /\ buf'[w].row.status = "FAILED"
        <3> DEFINE m == [rows[job[w].id] EXCEPT !.status = "FAILED", !.age = 0, !.done = 0]
        <3>1. buf'[w].id = job[w].id /\ buf'[w].row = m
            BY <1>6, <2>1, ReadAlone DEF Failing
        <3>2. m.status = "FAILED"
            BY <1>0, <2>1, MergedEnd
        <3>. QED BY <3>1, <3>2
    <2>3. Alone(w) /\ UNCHANGED <<rows, hbuf, todo, job, claimLock, attempts>> /\ pc'[w] = "fail"
        BY <1>6, <2>1, ReadAlone DEF Failing, Alone, sheet, locks, history, TypeOK
    <2>. QED BY <1>6, <2>1, <2>2, <2>3 DEF Reads
<1>7. CASE FatalError(w)
    BY <1>6, <1>7 DEF FatalError
<1>8. CASE RetryableError(w) /\ ~(job[w].retries + 1 <= MaxRetries)
    BY <1>6, <1>8 DEF RetryableError
<1>9. CASE RetryableError(w) /\ job[w].retries + 1 <= MaxRetries
    <2>1. job[w].id \in Jobs
        BY <1>9 DEF RetryableError, ClaimsAJob, InProcess, Holding
    <2>2. RetryMode(Mode(w), phase[w]) \in Modes /\ job[w].retries + 1 \in Int
        BY BoundsType DEF RetryMode, Mode, Modes, TypeOK, Claim
    <2>3. buf'[w].id = job[w].id /\ buf'[w].row.status = "RETRY_WAIT" /\ buf'[w].row.age = 0
          /\ buf'[w].row.retries = job[w].retries + 1
        <3> DEFINE m == [rows[job[w].id] EXCEPT !.status = "RETRY_WAIT", !.age = 0,
                             !.mode = RetryMode(Mode(w), phase[w]), !.retries = job[w].retries + 1]
        <3>1. buf'[w].id = job[w].id /\ buf'[w].row = m
            BY <1>9, <2>1, ReadAlone DEF RetryableError
        <3>2. m.status = "RETRY_WAIT" /\ m.age = 0 /\ m.retries = job[w].retries + 1
            BY <1>0, <2>1, <2>2, MergedRetry
        <3>. QED BY <3>1, <3>2
    <2>4. Alone(w) /\ UNCHANGED <<rows, hbuf, todo, job, claimLock, attempts>> /\ pc'[w] = "retry"
        BY <1>9, <2>1, ReadAlone DEF RetryableError, Alone, sheet, locks, history, TypeOK
    <2>. QED BY <1>9, <2>1, <2>3, <2>4 DEF RetryableError, Reads
<1>10. CASE TouchRead(w)
    <2>1. job[w].id \in Jobs
        BY <1>10 DEF TouchRead, ClaimsAJob, InProcess, Holding
    <2>2. buf'[w].id = job[w].id /\ buf'[w].row.status = rows[job[w].id].status
        <3>1. buf'[w].id = job[w].id /\ buf'[w].row = [rows[job[w].id] EXCEPT !.age = 0]
            BY <1>10, <2>1, ReadAlone DEF TouchRead
        <3>2. [rows[job[w].id] EXCEPT !.age = 0].status = rows[job[w].id].status
            BY <1>0, <2>1, MergedAge
        <3>. QED BY <3>1, <3>2
    <2>3. Alone(w) /\ UNCHANGED <<rows, hbuf, todo, job, claimLock, attempts, pc>>
        BY <1>10, <2>1, ReadAlone DEF TouchRead, Alone, sheet, locks, history
    <2>. QED BY <1>10, <2>1, <2>2, <2>3 DEF TouchRead, Reads
<1>11. CASE CallFailsInside(w)
    <2>1. job[w].id \in Jobs
        BY <1>11 DEF CallFailsInside, ClaimsAJob, InProcess, Holding
    <2>2. [rows[job[w].id] EXCEPT !.status = "FAILED", !.age = 0, !.done = 0].status = "FAILED"
        BY <1>0, <2>1, MergedEnd
    <2>3. buf'[w].id = job[w].id /\ buf'[w].row.status = "FAILED"
        BY <1>11, <2>2 DEF CallFailsInside, TypeOK
    <2>4. Alone(w) /\ UNCHANGED <<rows, hbuf, todo, job, claimLock, attempts>>
        BY <1>11 DEF CallFailsInside, Alone, sheet, locks, history, TypeOK
    <2>. QED BY <1>11, <2>1, <2>3, <2>4 DEF CallFailsInside, Reads, TypeOK
<1>. QED BY <1>1, <1>2, <1>3, <1>4, <1>5, <1>7, <1>8, <1>9, <1>10, <1>11

LEMMA WritesHold ==
    ASSUME TypeInv, NEW w \in Workers,
           \/ RecoverWrite(w) \/ ClaimWrite(w) \/ RequeueWrite(w) \/ ReportWrite(w)
           \/ CompleteWrite(w) \/ RetryWrite(w) \/ FailWrite(w) \/ TouchWrite(w)
    PROVE  Writes(w)
<1>. USE DEF TypeInv
<1>1. WriteBack(w)
    BY DEF RecoverWrite, ClaimWrite, RequeueWrite, ReportWrite, CompleteWrite, RetryWrite, FailWrite,
           TouchWrite
<1>2. /\ buf[w].id \in Jobs /\ rows' = [rows EXCEPT ![buf[w].id] = buf[w].row] /\ buf'[w].id = 0
      /\ \A v \in Workers \ {w} : buf'[v] = buf[v]
    BY <1>1 DEF WriteBack, TypeOK, NoWrite
<1>3. Alone(w) /\ UNCHANGED hbuf
    BY <1>2 DEF RecoverWrite, ClaimWrite, RequeueWrite, ReportWrite, CompleteWrite, RetryWrite, FailWrite,
                TouchWrite, Alone, TypeOK
<1>4. CASE ClaimWrite(w)
    BY <1>2, <1>3, <1>4 DEF ClaimWrite, Writes, history, TypeOK
<1>5. CASE RetryWrite(w)
    BY <1>2, <1>3, <1>5 DEF RetryWrite, Writes, locks, TypeOK
<1>6. CASE RecoverWrite(w) \/ RequeueWrite(w)
    BY <1>2, <1>3, <1>6 DEF RecoverWrite, RequeueWrite, Writes, locks, history, TypeOK
<1>7. CASE ReportWrite(w) \/ CompleteWrite(w) \/ FailWrite(w) \/ TouchWrite(w)
    BY <1>2, <1>3, <1>7 DEF ReportWrite, CompleteWrite, FailWrite, TouchWrite, Writes, locks, history, TypeOK
<1>. QED BY <1>4, <1>5, <1>6, <1>7

LEMMA MovesHold ==
    ASSUME TypeInv, ClaimSerial, WriteIsOwn, NEW w \in Workers,
           \/ Start(w) \/ TakeClaimLock(w) \/ ClaimNothing(w) \/ AccountTaken(w) \/ CapacityOk(w)
           \/ Finish(w) \/ Crash(w) \/ CallFailsOutside(w) \/ CallFailsInExcept(w)
    PROVE  Moves(w)
<1>. USE DEF TypeInv
<1>0. NoWrite.id = 0
    BY DEF NoWrite
<1>1. CASE Start(w)
    BY <1>1 DEF Start, Moves, Alone, locks, history, TypeOK
<1>2. CASE TakeClaimLock(w)
    BY <1>2 DEF TakeClaimLock, Moves, Alone, sheet, history, TypeOK
<1>3. CASE ClaimNothing(w)
    BY <1>0, <1>3 DEF ClaimNothing, ClaimSerial, ClaimSection, Moves, Alone, sheet, history, TypeOK
<1>4. CASE AccountTaken(w)
    BY <1>4 DEF AccountTaken, Moves, Alone, sheet, history, TypeOK
<1>5. CASE CapacityOk(w)
    BY <1>5 DEF CapacityOk, Moves, Alone, locks, history, TypeOK
<1>6. CASE Finish(w)
    <2>1. buf[w].id = 0
        BY <1>6 DEF Finish, WriteIsOwn
    <2>. QED BY <1>6, <2>1 DEF Finish, Moves, Alone, sheet, history, TypeOK
<1>7. CASE Crash(w) \/ CallFailsOutside(w)
    <2>1. Die(w) /\ UNCHANGED <<rows, hbuf, attempts>>
        BY <1>7 DEF Crash, CallFailsOutside, sheet, history
    <2>. QED BY <1>0, <2>1 DEF Die, Moves, Alone, TypeOK
<1>8. CASE CallFailsInExcept(w)
    BY <1>0, <1>8 DEF CallFailsInExcept, Moves, Alone, sheet, locks, history, TypeOK
<1>. QED BY <1>1, <1>2, <1>3, <1>4, <1>5, <1>6, <1>7, <1>8

-----------------------------------------------------------------------------
(* The steps keep the invariant *)

\* Nobody else writes to a row somebody has picked or works on, except recovery.
LEMMA OthersRecover ==
    ASSUME RowsInv, NEW v \in Workers, NEW w \in Workers \ {v}, NEW j \in Jobs,
           Claimed(v, j), buf[w].id = j, j # 0
    PROVE  pc[w] = "recover" /\ buf[w].row.status = "FAILED"
BY DEF RowsInv, WriteIsOwn, OneClaimant, Claimed, Engaged, InProcess, Holding

LEMMA ReadsKeep == ASSUME ClaimInv, NEW w \in Workers, Reads(w) PROVE RowsInv' /\ CountInv'
<1>. USE DEF ClaimInv, RowsInv, CountInv
<1>1. Alone(w) /\ UNCHANGED <<rows, hbuf, todo, job, claimLock, attempts>> /\ buf'[w].id \in Jobs
    BY DEF Reads
<1>2. /\ pc[w] # "finally" /\ pc'[w] # "finally" /\ pc'[w] # "process"
      /\ pc[w] \in ClaimSection \/ pc'[w] \in ClaimSection => pc'[w] = pc[w]
      /\ pc[w] \in Engaged <=> pc'[w] \in Engaged
      /\ pc[w] \in Holding => pc'[w] \in Holding
    BY DEF Reads, ClaimSection, Engaged, InProcess, Holding
<1>3. \A v \in Workers, j \in Jobs : Claimed(v, j)' <=> Claimed(v, j)
    BY <1>1, <1>2 DEF Claimed, Alone, ClaimSection
<1>4. ClaimSerial' /\ OneClaimant'
    BY <1>1, <1>2, <1>3 DEF ClaimSerial, OneClaimant, Alone
<1>5. RowOfPicked' /\ RowOfClaimant'
    BY <1>1, <1>2 DEF RowOfPicked, RowOfClaimant, Alone, ClaimSection
<1>6. WriteIsOwn'
    <2>1. pc[w] \in Engaged => rows[job[w].id].status \in Settled
        BY <1>2 DEF RowOfClaimant
    <2>2. \A v \in Workers \ {w} : buf'[v] = buf[v] /\ pc'[v] = pc[v] /\ todo'[v] = todo[v] /\ job'[v] = job[v]
        BY <1>1 DEF Alone
    <2>3. buf'[w].row.age = 0 \/ pc'[w] # "retry"
        BY DEF Reads
    <2>4. 0 <= CallMax
        BY BoundsType
    <2>. QED BY <1>1, <2>1, <2>2, <2>3, <2>4
             DEF WriteIsOwn, Reads, Settled, Engaged, InProcess, Holding
<1>7. BeatIsOwn'
    <2>1. \A v \in Workers \ {w} : pc'[v] = pc[v]
        BY <1>1 DEF Alone
    <2>. QED BY <1>1, <1>2, <1>3, <2>1 DEF BeatIsOwn
<1>8. RetriesBounded' /\ CountInRow'
    BY <1>1 DEF RetriesBounded, CountInRow
<1>9. CountInJob'
    BY <1>1, <1>2 DEF CountInJob, Alone
<1>10. CountInFlight'
    <2>1. \A v \in Workers \ {w} : buf'[v] = buf[v] /\ pc'[v] = pc[v]
        BY <1>1 DEF Alone
    <2>2. pc'[w] = "claim" => attempts[buf'[w].id] <= buf'[w].row.retries
        BY DEF Reads, RowOfPicked, CountInRow
    <2>3. pc'[w] = "requeue" => attempts[buf'[w].id] <= buf'[w].row.retries
        BY DEF Reads, CountInJob
    <2>. QED BY <1>1, <2>1, <2>2, <2>3 DEF CountInFlight
<1>11. CountInRecovery'
    <2>1. \A v \in Workers \ {w} : buf'[v] = buf[v] /\ pc'[v] = pc[v] /\ job'[v] = job[v]
        BY <1>1 DEF Alone
    <2>2. pc'[w] = "recover" => buf'[w].row.retries = rows[buf'[w].id].retries
        BY DEF Reads
    <2>. QED BY <1>1, <1>2, <2>1, <2>2 DEF CountInRecovery, CountInJob
<1>. QED BY <1>4, <1>5, <1>6, <1>7, <1>8, <1>9, <1>10, <1>11

LEMMA WritesKeep == ASSUME ClaimInv, NEW w \in Workers, Writes(w) PROVE RowsInv' /\ CountInv'
<1>. USE DEF ClaimInv, RowsInv, CountInv
<1>. DEFINE j == buf[w].id
<1>1. Alone(w) /\ UNCHANGED hbuf /\ j \in Jobs /\ j # 0 /\ buf'[w].id = 0
      /\ rows'[j] = buf[w].row /\ \A i \in Jobs \ {j} : rows'[i] = rows[i]
    <2>1. Alone(w) /\ UNCHANGED hbuf /\ j \in Jobs /\ buf'[w].id = 0
          /\ rows' = [rows EXCEPT ![j] = buf[w].row]
        BY DEF Writes
    <2>2. DOMAIN rows = Jobs
        BY DEF TypeInv, TypeOK
    <2>. QED BY <2>1, <2>2, BoundsType DEF Jobs
<1>. HIDE DEF j
<1>2. buf[w].row.status # "NONE"
      /\ (buf[w].row.status = "QUEUED" => pc[w] = "requeue" /\ job[w].id = j)
      /\ (buf[w].row.status = "RETRY_WAIT" => pc[w] = "retry" /\ job[w].id = j /\ buf[w].row.age <= CallMax
                                   /\ buf[w].row.retries = job[w].retries + 1)
    BY <1>1 DEF WriteIsOwn, Settled, j
<1>3. pc[w] # "recover" => Claimed(w, j)
    BY <1>1 DEF WriteIsOwn, Claimed, Engaged, InProcess, Holding, j
<1>4. \A v \in Workers, i \in Jobs : Claimed(v, i)' => Claimed(v, i)
    BY <1>1, <1>3 DEF Writes, Alone, Claimed, Engaged, InProcess, Holding, j
<1>5. ClaimSerial'
    BY <1>1 DEF Writes, Alone, ClaimSerial, ClaimSection
<1>6. OneClaimant'
    BY <1>4 DEF OneClaimant
<1>7. ASSUME NEW v \in Workers, NEW i \in Jobs, Claimed(v, i)', v # w, i = j
      PROVE  pc[w] = "recover" /\ buf[w].row.status = "FAILED"
    BY <1>1, <1>4, <1>7, OthersRecover DEF j
<1>8. RowOfPicked'
    <2> SUFFICES ASSUME NEW v \in Workers, pc'[v] = "claim", NEW i \in todo'[v]
                 PROVE  rows'[i].status \in Waiting
        BY DEF RowOfPicked
    <2>1. v # w /\ pc[v] = "claim" /\ i \in todo[v] /\ i \in Jobs
        BY <1>1 DEF Writes, Alone, TypeInv, TypeOK
    <2>2. i # j
        BY <1>7, <2>1, <1>1 DEF ClaimSerial, ClaimSection, Claimed, Alone
    <2>. QED BY <1>1, <2>1, <2>2 DEF RowOfPicked
<1>9. RowOfClaimant'
    <2> SUFFICES ASSUME NEW v \in Workers, pc'[v] \in Engaged
                 PROVE  /\ job'[v].id \in Jobs
                        /\ \/ rows'[job'[v].id].status \in Settled
                           \/ /\ pc'[v] = "finally" /\ rows'[job'[v].id].status = "RETRY_WAIT"
                              /\ rows'[job'[v].id].age <= CallMax
        BY DEF RowOfClaimant
    <2>1. CASE v # w
        <3>1. pc[v] = pc'[v] /\ job[v] = job'[v] /\ job[v].id \in Jobs
            BY <1>1, <2>1 DEF Alone, RowOfClaimant
        <3>2. CASE job[v].id = j
            BY <1>1, <1>7, <2>1, <3>1, <3>2 DEF Claimed, Settled
        <3>3. CASE job[v].id # j
            BY <1>1, <3>1, <3>3 DEF RowOfClaimant
        <3>. QED BY <3>2, <3>3
    <2>2. CASE v = w
        <3>1. job'[w].id = j
            BY <1>1, <2>2 DEF Writes, WriteIsOwn, Engaged, InProcess, Holding, j
        <3>2. pc'[w] = "finally" \/ pc[w] # "retry"
            BY DEF Writes
        <3>3. pc[w] # "requeue"
            BY <2>2 DEF Writes, Engaged, InProcess, Holding
        <3>. QED BY <1>1, <1>2, <2>2, <3>1, <3>2, <3>3 DEF WriteIsOwn, Settled, j
    <2>. QED BY <2>1, <2>2
<1>10. WriteIsOwn'
    BY <1>1 DEF WriteIsOwn, Alone
<1>11. BeatIsOwn'
    <2> SUFFICES ASSUME NEW u \in Workers, NEW i \in Jobs, hbuf[u].id = i
                 PROVE  /\ \A v \in Workers : Claimed(v, i)' => v = u /\ pc'[v] \in Holding
                        /\ rows'[i].status \notin {"NONE", "QUEUED"}
                        /\ rows'[i].status = "RETRY_WAIT" => rows'[i].age <= hbuf[u].row.age + CallMax
                        /\ hbuf[u].row.age <= CallMax
                        /\ \/ hbuf[u].row.status \in Settled
                           \/ /\ hbuf[u].row.status = "RETRY_WAIT"
                              /\ \A v \in Workers : Claimed(v, i)' => pc'[v] = "finally"
        BY <1>1 DEF BeatIsOwn
    <2>1. \A v \in Workers \ {w} : pc'[v] = pc[v]
        BY <1>1 DEF Alone
    <2>2. Claimed(w, i)' => (pc[w] \in Holding => pc'[w] \in Holding) /\ pc[w] # "finally"
        BY DEF Writes, Claimed, Engaged, InProcess, Holding
    <2>3. \A v \in Workers : Claimed(v, i)' => v = u /\ pc'[v] \in Holding
        BY <1>4, <2>1, <2>2 DEF BeatIsOwn
    <2>4. \A v \in Workers : Claimed(v, i)' /\ hbuf[u].row.status = "RETRY_WAIT" => pc'[v] = "finally"
        BY <1>4, <2>1, <2>2 DEF BeatIsOwn, Settled
    <2>5. CASE i # j
        BY <1>1, <2>3, <2>4, <2>5 DEF BeatIsOwn
    <2>6. CASE i = j
        <3>1. pc[w] # "requeue"
            BY <1>3, <2>6 DEF BeatIsOwn, Holding
        <3>2. hbuf[u].row.age \in Nat
            BY BoundsType DEF TypeInv, TypeOK, Write, Row
        <3>3. buf[w].row.age \in Nat /\ CallMax \in Nat
            BY BoundsType DEF TypeInv, TypeOK, Write, Row
        <3>. QED BY <1>1, <1>2, <2>3, <2>4, <2>6, <3>1, <3>2, <3>3 DEF BeatIsOwn
    <2>. QED BY <2>5, <2>6
<1>12. \/ UNCHANGED attempts
       \/ pc[w] = "retry" /\ attempts' = [attempts EXCEPT ![j] = @ + 1]
    BY <1>1 DEF Writes, WriteIsOwn, j
<1>13. pc[w] = "retry" => buf[w].row.retries <= MaxRetries /\ attempts[j] + 1 <= buf[w].row.retries
                          /\ pc'[w] = "finally" /\ job[w].id = j
    <2>1. pc[w] = "retry" => buf[w].row.retries = job[w].retries + 1 /\ job[w].id = j
        BY <1>1 DEF WriteIsOwn, j
    <2>2. pc[w] = "retry" => attempts[job[w].id] <= job[w].retries
        BY DEF CountInJob, Engaged, InProcess, Holding
    <2>3. buf[w].row.retries <= MaxRetries /\ attempts[j] \in Nat /\ job[w].retries \in Nat
        BY <1>1, BoundsType DEF TypeInv, TypeOK, Write, Row, Claim
    <2>4. pc[w] = "retry" => pc'[w] = "finally"
        BY DEF Writes
    <2>. QED BY <2>1, <2>2, <2>3, <2>4
<1>14. /\ \A i \in Jobs : attempts'[i] = attempts[i] \/ (pc[w] = "retry" /\ i = j)
       /\ pc[w] = "retry" => attempts'[j] <= buf[w].row.retries /\ buf[w].row.retries <= MaxRetries
    <2>1. attempts \in [Jobs -> Nat]
        BY DEF TypeInv, TypeOK
    <2>2. pc[w] = "retry" => attempts'[j] = attempts[j] \/ attempts'[j] = attempts[j] + 1
        BY <1>1, <1>12, <2>1
    <2>3. attempts[j] \in Nat /\ buf[w].row.retries \in Nat
        BY <1>1, <2>1, BoundsType DEF TypeInv, TypeOK, Write, Row
    <2>4. \A i \in Jobs : attempts'[i] = attempts[i] \/ (pc[w] = "retry" /\ i = j)
        BY <1>1, <1>12, <2>1
    <2>. QED BY <1>13, <2>2, <2>3, <2>4
<1>15. RetriesBounded'
    <2> SUFFICES ASSUME NEW i \in Jobs PROVE attempts'[i] <= MaxRetries
        BY DEF RetriesBounded
    <2>1. attempts'[i] \in Nat /\ MaxRetries \in Nat /\ buf[w].row.retries \in Nat
        BY <1>12, BoundsType, <1>1 DEF TypeInv, TypeOK, Write, Row
    <2>. QED BY <1>14, <2>1 DEF RetriesBounded
<1>16. CountInRow'
    <2>1. buf[w].row.status = "QUEUED" => attempts[j] <= buf[w].row.retries
        BY <1>1, <1>2 DEF CountInFlight, j
    <2>2. \A i \in Jobs \ {j} : rows'[i] = rows[i] /\ attempts'[i] = attempts[i]
        BY <1>1, <1>14
    <2>. QED BY <1>1, <1>2, <1>14, <2>1, <2>2 DEF CountInRow, Waiting
<1>17. CountInJob'
    <2> SUFFICES ASSUME NEW v \in Workers, pc'[v] \in Engaged \ {"finally"}
                 PROVE  /\ attempts'[job'[v].id] <= job'[v].retries
                        /\ pc'[v] = "process" => attempts'[job'[v].id] <= rows'[job'[v].id].retries
        BY DEF CountInJob, Engaged, InProcess
    <2>1. CASE v # w
        <3>1. pc'[v] = pc[v] /\ job'[v] = job[v] /\ job[v].id \in Jobs
            BY <1>1, <2>1 DEF Alone, RowOfClaimant
        <3>2. CASE job[v].id = j
            <4>1. pc[w] = "recover" /\ attempts'[j] = attempts[j]
                BY <1>1, <1>7, <1>12, <2>1, <3>1, <3>2 DEF Claimed
            <4>2. pc[v] = "process" => attempts[j] <= buf[w].row.retries
                BY <1>1, <3>2, <4>1 DEF CountInRecovery, j
            <4>. QED BY <1>1, <3>1, <3>2, <4>1, <4>2 DEF CountInJob
        <3>3. CASE job[v].id # j
            BY <1>1, <1>14, <3>1, <3>3 DEF CountInJob
        <3>. QED BY <3>2, <3>3
    <2>2. CASE v = w /\ pc[w] = "claim"
        <3>1. job'[w].id = j /\ job'[w].retries = buf[w].row.retries /\ attempts' = attempts
            BY <2>2 DEF Writes, j
        <3>2. attempts[j] <= buf[w].row.retries
            BY <1>1, <2>2 DEF CountInFlight, j
        <3>. QED BY <1>1, <2>2, <3>1, <3>2
    <2>3. CASE v = w /\ pc[w] # "claim"
        <3>1. pc[w] \in Engaged \ {"finally"} /\ job' = job /\ attempts' = attempts /\ pc'[w] # "process"
            BY <2>3 DEF Writes, Engaged, InProcess, Holding
        <3>. QED BY <2>3, <3>1 DEF CountInJob
    <2>. QED BY <2>1, <2>2, <2>3
<1>18. CountInFlight'
    <2>1. ASSUME NEW v \in Workers, buf'[v].id # 0, pc'[v] \in {"claim", "requeue"}
          PROVE  attempts'[buf'[v].id] <= buf'[v].row.retries
        <3>1. v # w /\ buf'[v] = buf[v] /\ pc'[v] = pc[v]
            BY <1>1, <2>1 DEF Alone
        <3>2. buf[v].id \in Jobs /\ Claimed(v, buf[v].id)
            <4>1. buf[v].id # 0 /\ pc[v] \in {"claim", "requeue"} /\ buf[v].id \in Jobs
                BY <2>1, <3>1 DEF TypeInv, TypeOK, Write, Jobs
            <4>. QED BY <4>1 DEF WriteIsOwn, Claimed, Engaged
        <3>3. attempts'[buf[v].id] = attempts[buf[v].id]
            BY <1>1, <1>3, <1>14, <3>1, <3>2 DEF OneClaimant
        <3>. QED BY <2>1, <3>1, <3>3 DEF CountInFlight
    <2>2. ASSUME NEW v \in Workers, hbuf[v].id # 0, hbuf[v].row.status = "RETRY_WAIT"
          PROVE  attempts'[hbuf[v].id] <= hbuf[v].row.retries
        <3>1. hbuf[v].id \in Jobs
            BY <2>2 DEF TypeInv, TypeOK, Write, Jobs
        <3>2. attempts'[hbuf[v].id] = attempts[hbuf[v].id]
            BY <1>3, <1>14, <2>2, <3>1 DEF BeatIsOwn, Settled
        <3>. QED BY <2>2, <3>2 DEF CountInFlight
    <2>. QED BY <1>1, <2>1, <2>2 DEF CountInFlight
<1>19. CountInRecovery'
    <2> SUFFICES ASSUME NEW v \in Workers, NEW x \in Workers, pc'[v] = "recover", buf'[v].id # 0,
                        pc'[x] = "process", job'[x].id = buf'[v].id
                 PROVE  attempts'[buf'[v].id] <= buf'[v].row.retries
        BY DEF CountInRecovery
    <2>1. v # w /\ buf'[v] = buf[v] /\ pc[v] = "recover" /\ buf[v].id \in Jobs
        BY <1>1 DEF Alone, TypeInv, TypeOK, Write, Jobs
    <2>2. x # w
        BY <2>1 DEF Writes, ClaimSerial, ClaimSection
    <2>3. pc[x] = "process" /\ job[x] = job'[x] /\ Claimed(x, buf[v].id)
        BY <1>1, <2>1, <2>2 DEF Alone, Claimed, Engaged, InProcess
    <2>4. attempts'[buf[v].id] = attempts[buf[v].id]
        BY <1>1, <1>3, <1>14, <2>1, <2>2, <2>3 DEF OneClaimant
    <2>. QED BY <2>1, <2>3, <2>4 DEF CountInRecovery
<1>. QED BY <1>5, <1>6, <1>8, <1>9, <1>10, <1>11, <1>15, <1>16, <1>17, <1>18, <1>19

LEMMA MovesKeep == ASSUME ClaimInv, NEW w \in Workers, Moves(w) PROVE RowsInv' /\ CountInv'
<1>. USE DEF ClaimInv, RowsInv, CountInv
<1>1. Alone(w) /\ UNCHANGED <<rows, hbuf, attempts>>
    BY DEF Moves
<1>2. buf'[w].id = 0
    BY DEF Moves, WriteIsOwn
<1>3. /\ pc'[w] \notin {"claim", "process", "requeue"}
      /\ pc'[w] \in Engaged => pc[w] \in Engaged /\ pc[w] # "finally" /\ job' = job
      /\ pc'[w] \in Holding \/ pc[w] \notin Holding \/ pc'[w] = "off"
    BY DEF Moves, Engaged, InProcess, Holding
<1>4. \A v \in Workers, i \in Jobs : Claimed(v, i)' => Claimed(v, i)
    BY <1>1, <1>3 DEF Claimed, Alone
<1>5. ClaimSerial'
    BY <1>1, QueueAssumption DEF Moves, Alone, ClaimSerial, ClaimSection
<1>6. OneClaimant'
    BY <1>4 DEF OneClaimant
<1>7. RowOfPicked' /\ RowOfClaimant'
    BY <1>1, <1>3 DEF RowOfPicked, RowOfClaimant, Alone
<1>8. WriteIsOwn'
    BY <1>1, <1>2 DEF WriteIsOwn, Alone
<1>9. BeatIsOwn'
    <2>1. \A v \in Workers, i \in Jobs : Claimed(v, i)' =>
              /\ pc[v] \in Holding => pc'[v] \in Holding
              /\ pc[v] = "finally" => pc'[v] = "finally"
        BY <1>1, <1>3 DEF Alone, Claimed, Engaged, InProcess, Holding
    <2>. QED BY <1>1, <1>4, <2>1 DEF BeatIsOwn
<1>10. RetriesBounded' /\ CountInRow'
    BY <1>1 DEF RetriesBounded, CountInRow
<1>11. CountInJob' /\ CountInFlight' /\ CountInRecovery'
    BY <1>1, <1>2, <1>3 DEF CountInJob, CountInFlight, CountInRecovery, Alone
<1>. QED BY <1>5, <1>6, <1>7, <1>8, <1>9, <1>10, <1>11

\* The picked row is nobody's: it is queued, or has waited longer than any write of
\* its last attempt can have stayed in flight.
LEMMA PickKeeps ==
    ASSUME ClaimInv, CallsAreShort, NEW w \in Workers, ClaimPick(w)
    PROVE  RowsInv' /\ CountInv'
<1>. USE DEF ClaimInv, RowsInv, CountInv
<1>1. PICK j \in Jobs : j \in Claimable(lag[w]) /\ todo' = [todo EXCEPT ![w] = {j}]
    BY DEF ClaimPick, Claimable
<1>2. /\ pc[w] = "recover" /\ pc' = [pc EXCEPT ![w] = "claim"] /\ buf[w].id = 0
      /\ UNCHANGED <<rows, claimLock, job, buf, hbuf, attempts>>
    BY DEF ClaimPick, NoWrite, sheet, locks, history
<1>3. pc'[w] = "claim" /\ todo'[w] = {j}
      /\ \A v \in Workers \ {w} : pc'[v] = pc[v] /\ todo'[v] = todo[v]
    BY <1>1, <1>2 DEF TypeInv, TypeOK
<1>4. rows[j].status = "QUEUED" \/ (rows[j].status = "RETRY_WAIT" /\ rows[j].age > 2 * CallMax)
    <2>1. rows[j].age \in Nat /\ lag[w] \in Nat /\ RetryAfter \in Nat /\ CallMax \in Nat
        BY QueueAssumption, BoundsType DEF TypeInv, TypeOK, Row
    <2>. QED BY <1>1, <2>1 DEF Claimable, Ripe, CallsAreShort
<1>5. CallMax \in Nat /\ rows[j].age \in Nat
    BY BoundsType DEF TypeInv, TypeOK, Row
<1>6. \A v \in Workers : ~Claimed(v, j)
    <2> SUFFICES ASSUME NEW v \in Workers, Claimed(v, j) PROVE FALSE
        OBVIOUS
    <2>1. CASE pc[v] = "claim"
        BY <1>2, <2>1 DEF ClaimSerial, ClaimSection
    <2>2. CASE pc[v] # "claim"
        BY <1>4, <1>5, <2>2 DEF Claimed, RowOfClaimant, Settled
    <2>. QED BY <2>1, <2>2
<1>7. \A u \in Workers : hbuf[u].id # j
    <2> SUFFICES ASSUME NEW u \in Workers, hbuf[u].id = j PROVE FALSE
        OBVIOUS
    <2>1. hbuf[u].row.age \in Nat
        BY BoundsType DEF TypeInv, TypeOK, Write, Row
    <2>. QED BY <1>4, <1>5, <2>1 DEF BeatIsOwn
<1>8. \A v \in Workers, i \in Jobs : Claimed(v, i)' => Claimed(v, i) \/ (v = w /\ i = j)
    BY <1>2, <1>3 DEF Claimed, Engaged, InProcess, Holding
<1>9. ClaimSerial' /\ OneClaimant'
    BY <1>2, <1>3, <1>6, <1>8 DEF ClaimSerial, ClaimSection, OneClaimant
<1>10. RowOfPicked' /\ RowOfClaimant'
    BY <1>2, <1>3, <1>4 DEF RowOfPicked, RowOfClaimant, Waiting, Engaged, InProcess, Holding
<1>11. WriteIsOwn'
    BY <1>2, <1>3 DEF WriteIsOwn
<1>12. BeatIsOwn'
    <2>1. \A v \in Workers, u \in Workers, i \in Jobs : hbuf[u].id = i /\ Claimed(v, i)' =>
              Claimed(v, i) /\ (pc[v] \in Holding => pc'[v] = pc[v])
        BY <1>2, <1>3, <1>7, <1>8 DEF Holding
    <2>. QED BY <1>2, <2>1 DEF BeatIsOwn, Holding
<1>13. CountInv'
    BY <1>2, <1>3 DEF RetriesBounded, CountInRow, CountInJob, CountInFlight, CountInRecovery, Engaged,
                      InProcess, Holding
<1>. QED BY <1>9, <1>10, <1>11, <1>12, <1>13

LEMMA BeatReadKeeps ==
    ASSUME ClaimInv, NEW w \in Workers, HeartbeatRead(w)
    PROVE  RowsInv' /\ CountInv'
<1>. USE DEF ClaimInv, RowsInv, CountInv
<1>. DEFINE j == job[w].id
            m == [rows[j] EXCEPT !.age = 0]
<1>1. /\ UNCHANGED <<rows, claimLock, pc, todo, job, buf, attempts>> /\ pc[w] \in Holding /\ j \in Jobs
      /\ hbuf' = [hbuf EXCEPT ![w] = [id |-> j, row |-> m]]
    BY DEF HeartbeatRead, TypeInv, ClaimsAJob, InProcess, locks, history
<1>2. m.status = rows[j].status /\ m.age = 0 /\ m.retries = rows[j].retries
    <2>1. rows[j] \in Row
        BY <1>1 DEF TypeInv, TypeOK
    <2>. QED BY <2>1, MergedAge
<1>3. hbuf'[w].id = j /\ hbuf'[w].row = m /\ \A u \in Workers \ {w} : hbuf'[u] = hbuf[u]
    BY <1>1 DEF TypeInv, TypeOK
<1>. HIDE DEF m
<1>4. Claimed(w, j) /\ \A v \in Workers : Claimed(v, j) => v = w
    BY <1>1 DEF OneClaimant, Claimed, Engaged, InProcess
<1>5. rows[j].status \in Settled \/ (pc[w] = "finally" /\ rows[j].status = "RETRY_WAIT" /\ rows[j].age <= CallMax)
    BY <1>1 DEF RowOfClaimant, Engaged, InProcess
<1>6. \A v \in Workers, i \in Jobs : Claimed(v, i)' <=> Claimed(v, i)
    BY <1>1 DEF Claimed
<1>7. BeatIsOwn'
    <2>1. CallMax \in Nat
        BY BoundsType
    <2>2. ASSUME NEW u \in Workers \ {w}, NEW i \in Jobs, hbuf'[u].id = i
          PROVE  /\ \A v \in Workers : Claimed(v, i)' => v = u /\ pc'[v] \in Holding
                 /\ rows'[i].status \notin {"NONE", "QUEUED"}
                 /\ rows'[i].status = "RETRY_WAIT" => rows'[i].age <= hbuf'[u].row.age + CallMax
                 /\ hbuf'[u].row.age <= CallMax
                 /\ \/ hbuf'[u].row.status \in Settled
                    \/ /\ hbuf'[u].row.status = "RETRY_WAIT"
                       /\ \A v \in Workers : Claimed(v, i)' => pc'[v] = "finally"
        BY <1>1, <1>3, <1>6, <2>2 DEF BeatIsOwn
    <2>3. /\ \A v \in Workers : Claimed(v, j) => v = w /\ pc'[v] \in Holding
          /\ rows'[j].status \notin {"NONE", "QUEUED"}
          /\ rows'[j].status = "RETRY_WAIT" => rows'[j].age <= hbuf'[w].row.age + CallMax
          /\ hbuf'[w].row.age <= CallMax
          /\ \/ hbuf'[w].row.status \in Settled
             \/ /\ hbuf'[w].row.status = "RETRY_WAIT"
                /\ \A v \in Workers : Claimed(v, j) => pc'[v] = "finally"
        BY <1>1, <1>2, <1>3, <1>4, <1>5, <2>1 DEF Settled
    <2>4. ASSUME NEW i \in Jobs, hbuf'[w].id = i PROVE i = j
        BY <1>3, <2>4
    <2>. QED BY <1>6, <2>2, <2>3, <2>4 DEF BeatIsOwn
<1>8. /\ ClaimSerial' /\ OneClaimant' /\ RowOfPicked' /\ RowOfClaimant' /\ WriteIsOwn'
      /\ RetriesBounded' /\ CountInRow' /\ CountInJob' /\ CountInRecovery'
    BY <1>1, <1>6 DEF ClaimSerial, OneClaimant, RowOfPicked, RowOfClaimant, WriteIsOwn, RetriesBounded,
                      CountInRow, CountInJob, CountInRecovery
<1>9. CountInFlight'
    <2>1. rows[j].status = "RETRY_WAIT" => attempts[j] <= rows[j].retries
        BY <1>1 DEF CountInRow, Waiting
    <2>. QED BY <1>1, <1>2, <1>3, <2>1 DEF CountInFlight
<1>. QED BY <1>7, <1>8, <1>9

LEMMA BeatEndKeeps ==
    ASSUME ClaimInv, NEW w \in Workers, HeartbeatWrite(w) \/ HeartbeatLost(w)
    PROVE  RowsInv' /\ CountInv'
<1>. USE DEF ClaimInv, RowsInv, CountInv
<1>. DEFINE j == hbuf[w].id
            r == hbuf[w].row
<1>1. /\ UNCHANGED <<claimLock, pc, todo, job, buf, attempts>> /\ j \in Jobs
      /\ hbuf' = [hbuf EXCEPT ![w] = NoWrite]
      /\ UNCHANGED rows \/ rows' = [rows EXCEPT ![j] = r]
    BY DEF HeartbeatWrite, HeartbeatLost, sheet, locks, history
<1>2. hbuf'[w].id = 0 /\ \A u \in Workers \ {w} : hbuf'[u] = hbuf[u]
    BY <1>1 DEF TypeInv, TypeOK, NoWrite
<1>3. /\ rows'[j] = rows[j] \/ rows'[j] = r
      /\ \A i \in Jobs \ {j} : rows'[i] = rows[i]
    BY <1>1 DEF TypeInv, TypeOK
<1>4. /\ \A v \in Workers : Claimed(v, j) => v = w /\ pc[v] \in Holding
      /\ r.age <= CallMax
      /\ \/ r.status \in Settled
         \/ r.status = "RETRY_WAIT" /\ (\A v \in Workers : Claimed(v, j) => pc[v] = "finally")
    BY <1>1 DEF BeatIsOwn
<1>5. r.status = "RETRY_WAIT" => attempts[j] <= r.retries
    BY <1>1, BoundsType DEF CountInFlight, Jobs
<1>. HIDE DEF j, r
<1>6. \A v \in Workers, i \in Jobs : Claimed(v, i)' <=> Claimed(v, i)
    BY <1>1 DEF Claimed
<1>7. ClaimSerial' /\ OneClaimant' /\ WriteIsOwn' /\ RetriesBounded' /\ CountInRecovery'
    BY <1>1, <1>6 DEF ClaimSerial, OneClaimant, WriteIsOwn, RetriesBounded, CountInRecovery
<1>8. RowOfPicked'
    <2>1. \A v \in Workers : pc[v] = "claim" => j \notin todo[v]
        BY <1>4 DEF Claimed, Holding
    <2>2. \A v \in Workers : todo[v] \subseteq Jobs
        BY DEF TypeInv, TypeOK
    <2>. QED BY <1>1, <1>3, <2>1, <2>2 DEF RowOfPicked
<1>9. RowOfClaimant'
    BY <1>1, <1>3, <1>4 DEF RowOfClaimant, Claimed
<1>10. BeatIsOwn'
    <2> SUFFICES ASSUME NEW u \in Workers, NEW i \in Jobs, hbuf'[u].id = i
                 PROVE  /\ \A v \in Workers : Claimed(v, i) => v = u /\ pc'[v] \in Holding
                        /\ rows'[i].status \notin {"NONE", "QUEUED"}
                        /\ rows'[i].status = "RETRY_WAIT" => rows'[i].age <= hbuf'[u].row.age + CallMax
                        /\ hbuf'[u].row.age <= CallMax
                        /\ \/ hbuf'[u].row.status \in Settled
                           \/ /\ hbuf'[u].row.status = "RETRY_WAIT"
                              /\ \A v \in Workers : Claimed(v, i) => pc'[v] = "finally"
        BY <1>6 DEF BeatIsOwn
    <2>1. u # w /\ hbuf'[u] = hbuf[u]
        BY <1>2, BoundsType DEF Jobs
    <2>2. hbuf[u].row.age \in Nat /\ CallMax \in Nat
        BY BoundsType DEF TypeInv, TypeOK, Write, Row
    <2>3. r.age \in Nat
        BY BoundsType DEF TypeInv, TypeOK, Write, Row, r
    <2>. QED BY <1>1, <1>3, <1>4, <2>1, <2>2, <2>3 DEF BeatIsOwn, Settled
<1>11. CountInRow'
    BY <1>1, <1>3, <1>4, <1>5 DEF CountInRow, Settled, Waiting
<1>12. CountInJob'
    BY <1>1, <1>3, <1>4 DEF CountInJob, RowOfClaimant, Claimed, Engaged, InProcess, Holding
<1>13. CountInFlight'
    BY <1>1, <1>2 DEF CountInFlight
<1>. QED BY <1>7, <1>8, <1>9, <1>10, <1>11, <1>12, <1>13

LEMMA AppendKeeps ==
    ASSUME ClaimInv, NEW a \in Accounts, NEW m \in Modes, AppendRow(a, m)
    PROVE  RowsInv' /\ CountInv'
<1>. USE DEF ClaimInv, RowsInv, CountInv
<1>. DEFINE new == [Blank EXCEPT !.status = "QUEUED", !.mode = m, !.acct = a]
<1>1. PICK j \in Jobs : rows[j].status = "NONE" /\ rows' = [rows EXCEPT ![j] = new]
                        /\ UNCHANGED <<claimLock, pc, todo, job, buf, hbuf, attempts>>
    BY DEF AppendRow, locks, local, history
<1>2. new.status = "QUEUED" /\ new.retries = 0
    BY DEF Blank
<1>. HIDE DEF new
<1>3. rows'[j] = new /\ \A i \in Jobs \ {j} : rows'[i] = rows[i]
    BY <1>1 DEF TypeInv, TypeOK
<1>4. \A v \in Workers, i \in Jobs : Claimed(v, i)' <=> Claimed(v, i)
    BY <1>1 DEF Claimed
<1>5. ClaimSerial' /\ OneClaimant' /\ WriteIsOwn' /\ RetriesBounded' /\ CountInFlight' /\ CountInRecovery'
    BY <1>1, <1>4 DEF ClaimSerial, OneClaimant, WriteIsOwn, RetriesBounded, CountInFlight, CountInRecovery
<1>6. RowOfPicked'
    <2>1. \A v \in Workers : todo[v] \subseteq Jobs
        BY DEF TypeInv, TypeOK
    <2>. QED BY <1>1, <1>2, <1>3, <2>1 DEF RowOfPicked, Waiting
<1>7. \A v \in Workers : pc[v] \in Engaged => job[v].id # j /\ job[v].id \in Jobs
    BY <1>1 DEF RowOfClaimant, Settled
<1>8. RowOfClaimant' /\ CountInJob'
    BY <1>1, <1>3, <1>7 DEF RowOfClaimant, CountInJob, Engaged, InProcess
<1>9. BeatIsOwn'
    BY <1>1, <1>3, <1>4 DEF BeatIsOwn
<1>10. CountInRow'
    BY <1>1, <1>2, <1>3 DEF CountInRow
<1>. QED BY <1>5, <1>6, <1>8, <1>9, <1>10

LEMMA AgedFields == \A r \in Row :
    Aged(r).status = r.status /\ Aged(r).age = Older(r.age, MaxAge) /\ Aged(r).retries = r.retries
BY DEF Aged, Row

LEMMA TickKeeps == ASSUME ClaimInv, Tick PROVE RowsInv' /\ CountInv'
<1>. USE DEF ClaimInv, RowsInv, CountInv
<1>1. UNCHANGED <<claimLock, pc, todo, job, attempts>>
    BY DEF Tick, locks, history
<1>2. \A i \in Jobs : /\ rows'[i].status = rows[i].status /\ rows'[i].retries = rows[i].retries
                      /\ rows[i].status # "NONE" => rows'[i].age = Older(rows[i].age, MaxAge)
    <2> SUFFICES ASSUME NEW i \in Jobs
                 PROVE  /\ rows'[i].status = rows[i].status /\ rows'[i].retries = rows[i].retries
                        /\ rows[i].status # "NONE" => rows'[i].age = Older(rows[i].age, MaxAge)
        OBVIOUS
    <2>1. rows'[i] = IF rows[i].status = "NONE" THEN rows[i] ELSE Aged(rows[i])
        BY DEF Tick
    <2>2. rows[i] \in Row
        BY DEF TypeInv, TypeOK
    <2>. QED BY <2>1, <2>2, AgedFields
<1>3. \A b \in Write : b.id # 0 =>
          /\ AgedWrite(b).row.status = b.row.status /\ AgedWrite(b).row.retries = b.row.retries
          /\ AgedWrite(b).row.age = Older(b.row.age, MaxAge)
    <2> SUFFICES ASSUME NEW b \in Write, b.id # 0
                 PROVE  /\ AgedWrite(b).row.status = b.row.status /\ AgedWrite(b).row.retries = b.row.retries
                        /\ AgedWrite(b).row.age = Older(b.row.age, MaxAge)
        OBVIOUS
    <2>1. b.row \in Row
        BY DEF Write
    <2>2. AgedWrite(b).row = Aged(b.row)
        BY DEF AgedWrite, Write
    <2>. QED BY <2>1, <2>2, AgedFields
<1>4. \A b \in Write : AgedWrite(b).id = b.id
    BY DEF AgedWrite, Write
<1>5. \A w \in Workers :
          /\ buf[w] \in Write /\ hbuf[w] \in Write
          /\ buf'[w] = AgedWrite(buf[w]) /\ hbuf'[w] = AgedWrite(hbuf[w])
    BY DEF Tick, TypeInv, TypeOK
<1>6. \A v \in Workers, i \in Jobs : Claimed(v, i)' <=> Claimed(v, i)
    BY <1>1 DEF Claimed
<1>7. ClaimSerial' /\ OneClaimant' /\ RetriesBounded' /\ CountInRow'
    BY <1>1, <1>2, <1>6 DEF ClaimSerial, OneClaimant, RetriesBounded, CountInRow
<1>8. RowOfPicked'
    <2>1. \A v \in Workers : todo[v] \subseteq Jobs
        BY DEF TypeInv, TypeOK
    <2>. QED BY <1>1, <1>2, <2>1 DEF RowOfPicked
<1>9. RowOfClaimant'
    <2>1. \A v \in Workers : pc[v] # "finally"
        BY DEF Tick
    <2>. QED BY <1>1, <1>2, <2>1 DEF RowOfClaimant
<1>10. ASSUME NEW n \in Nat, NEW M \in Nat, n < M PROVE Older(n, MaxAge) <= M
    BY <1>10, BoundsType DEF Older
<1>11. WriteIsOwn'
    <2> SUFFICES ASSUME NEW w \in Workers, buf[w].id # 0
                 PROVE  \/ pc[w] = "recover" /\ buf'[w].row.status = "FAILED"
                        \/ pc[w] = "claim" /\ buf'[w].id \in todo[w] /\ buf'[w].row.status = "RUNNING"
                        \/ pc[w] = "requeue" /\ buf'[w].id = job[w].id /\ buf'[w].row.status = "QUEUED"
                        \/ /\ pc[w] = "retry" /\ buf'[w].id = job[w].id /\ buf'[w].row.status = "RETRY_WAIT"
                           /\ buf'[w].row.age <= CallMax /\ buf'[w].row.retries = job[w].retries + 1
                        \/ /\ pc[w] \in {"run", "complete", "fail", "touch"} /\ buf'[w].id = job[w].id
                           /\ buf'[w].row.status \in Settled
        BY <1>1, <1>4, <1>5 DEF WriteIsOwn
    <2>1. /\ buf'[w].id = buf[w].id /\ buf'[w].row.status = buf[w].row.status
          /\ buf'[w].row.retries = buf[w].row.retries
          /\ buf'[w].row.age = Older(buf[w].row.age, MaxAge)
        BY <1>3, <1>4, <1>5
    <2>2. pc[w] = "retry" => buf[w].row.age < CallMax
        BY DEF Tick, ClaimSection
    <2>3. buf[w].row.age \in Nat /\ CallMax \in Nat
        BY BoundsType DEF TypeInv, TypeOK, Write, Row
    <2>4. pc[w] = "retry" => buf'[w].row.age <= CallMax
        BY <1>10, <2>1, <2>2, <2>3
    <2>. QED BY <2>1, <2>4 DEF WriteIsOwn
<1>12. BeatIsOwn'
    <2> SUFFICES ASSUME NEW u \in Workers, NEW i \in Jobs, hbuf'[u].id = i
                 PROVE  /\ \A v \in Workers : Claimed(v, i) => v = u /\ pc[v] \in Holding
                        /\ rows'[i].status \notin {"NONE", "QUEUED"}
                        /\ rows'[i].status = "RETRY_WAIT" => rows'[i].age <= hbuf'[u].row.age + CallMax
                        /\ hbuf'[u].row.age <= CallMax
                        /\ \/ hbuf'[u].row.status \in Settled
                           \/ /\ hbuf'[u].row.status = "RETRY_WAIT"
                              /\ \A v \in Workers : Claimed(v, i) => pc[v] = "finally"
        BY <1>1, <1>6 DEF BeatIsOwn
    <2>1. i # 0 /\ hbuf[u].id = i
        BY <1>4, <1>5 DEF Jobs
    <2>2. hbuf'[u].row.status = hbuf[u].row.status /\ hbuf'[u].row.age = Older(hbuf[u].row.age, MaxAge)
        BY <1>3, <1>5, <2>1
    <2>3. hbuf[u].row.age \in 0..MaxAge /\ rows[i].age \in 0..MaxAge /\ CallMax \in Nat /\ MaxAge \in Nat
        BY BoundsType DEF TypeInv, TypeOK, Write, Row
    <2>4. hbuf'[u].row.age <= CallMax
        <3>1. hbuf[u].row.age < CallMax
            BY <2>1 DEF Tick
        <3>. QED BY <1>10, <2>2, <2>3, <3>1
    <2>5. rows[i].age <= hbuf[u].row.age + CallMax
            => Older(rows[i].age, MaxAge) <= Older(hbuf[u].row.age, MaxAge) + CallMax
        BY <2>3 DEF Older
    <2>6. rows'[i].status = "RETRY_WAIT" => rows'[i].age <= hbuf'[u].row.age + CallMax
        BY <1>2, <2>1, <2>2, <2>5 DEF BeatIsOwn
    <2>. QED BY <1>2, <2>1, <2>2, <2>4, <2>6 DEF BeatIsOwn
<1>13. CountInJob'
    BY <1>1, <1>2 DEF CountInJob, RowOfClaimant, Engaged, InProcess
<1>14. CountInFlight' /\ CountInRecovery'
    BY <1>1, <1>3, <1>4, <1>5 DEF CountInFlight, CountInRecovery
<1>. QED BY <1>7, <1>8, <1>9, <1>11, <1>12, <1>13, <1>14

LEMMA ClaimStep == ASSUME CallsAreShort PROVE ClaimInv /\ [Next]_vars => ClaimInv'
<1>. SUFFICES ASSUME ClaimInv, [Next]_vars PROVE ClaimInv'
    OBVIOUS
<1>1. TypeInv'
    BY TypeStep DEF ClaimInv
<1>2. RowsInv' /\ CountInv'
    <2>1. CASE UNCHANGED vars
        BY <2>1 DEF vars, sheet, locks, local, history, ClaimInv, RowsInv, CountInv, ClaimSerial, OneClaimant,
                    Claimed, RowOfPicked, RowOfClaimant, WriteIsOwn, BeatIsOwn, RetriesBounded,
                    CountInRow, CountInJob, CountInFlight, CountInRecovery
    <2>2. ASSUME NEW a \in Accounts, CreateResetRequest(a) PROVE RowsInv' /\ CountInv'
        BY <2>2, AppendKeeps DEF CreateResetRequest, Modes
    <2>3. ASSUME NEW a \in Accounts, NEW m \in HandModes, EnterRow(a, m) PROVE RowsInv' /\ CountInv'
        <3>1. m \in Modes
            BY QueueAssumption DEF Modes
        <3>. QED BY <2>3, <3>1, AppendKeeps DEF EnterRow
    <2>4. ASSUME NEW w \in Workers, Reads(w) \/ Writes(w) \/ Moves(w) PROVE RowsInv' /\ CountInv'
        BY <2>4, ReadsKeep, WritesKeep, MovesKeep
    <2>5. ASSUME NEW w \in Workers, Start(w) \/ Queue(w) \/ Process(w) \/ Fault(w)
          PROVE  RowsInv' /\ CountInv'
        <3>1. CASE ClaimPick(w)
            BY <3>1, PickKeeps
        <3>2. CASE ~ClaimPick(w)
            <4>1. TypeInv /\ ClaimSerial /\ WriteIsOwn
                BY DEF ClaimInv, RowsInv
            <4>. QED BY <2>4, <2>5, <3>2, <4>1, ReadsHold, WritesHold, MovesHold DEF Queue, Process, Fault
        <3>. QED BY <3>1, <3>2
    <2>6. ASSUME NEW w \in Workers, Heartbeat(w) PROVE RowsInv' /\ CountInv'
        BY <2>6, BeatReadKeeps, BeatEndKeeps DEF Heartbeat
    <2>. QED BY <2>1, <2>2, <2>3, <2>5, <2>6, TickKeeps DEF Next
<1>. QED BY <1>1, <1>2 DEF ClaimInv

\* When a write stays in flight for less than half of the waiting time of a retry,
\* the row of a job at work is never one that can be claimed, although every update
\* writes a whole row that was read earlier.
THEOREM RunningIsSafe == ASSUME CallsAreShort PROVE Spec => []RunningIsNotClaimable
<1>1. ClaimInv /\ [Next]_vars => ClaimInv'
    BY ClaimStep
<1>2. ClaimInv => RunningIsNotClaimable
    BY DEF ClaimInv, RowsInv, RowOfClaimant, RunningIsNotClaimable, Engaged, InProcess, Holding, Settled
<1>. QED BY ClaimInit, <1>1, <1>2, PTL DEF Spec

\* Under the same condition no job is granted more retries than
\* MAX_CHECKPOINTED_RETRIES: no stale row brings back a lower count.
THEOREM RetriesStayBounded == ASSUME CallsAreShort PROVE Spec => []RetriesBounded
<1>1. ClaimInv /\ [Next]_vars => ClaimInv'
    BY ClaimStep
<1>2. ClaimInv => RetriesBounded
    BY DEF ClaimInv, CountInv
<1>. QED BY ClaimInit, <1>1, <1>2, PTL DEF Spec
=============================================================================

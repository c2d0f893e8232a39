------------------------- MODULE SeederPushesProofs --------------------------
(***************************************************************************)
(* Proofs about the pushes of the seeder's web application, for any rows,  *)
(* accounts and persona folders, any number of jobs and any number of      *)
(* failed calls and restarts.                                              *)
(***************************************************************************)
EXTENDS SeederPushes, SequenceTheorems, WellFoundedInduction, TLAPS

-----------------------------------------------------------------------------
(* Types *)

LEMMA Bounds ==
    /\ NJobs \in Nat /\ 0 \in 0..NJobs /\ MaxTroubles \in Nat /\ 1 \in Rows
    /\ \A r \in Rows : EmailOf[r] \in Emails /\ Folder[r] \in Personas
    /\ NoPersona \notin Personas /\ Uploaded \subseteq Rows
    /\ Earlier \subseteq Personas \cup {NoPersona}
    /\ \A j \in JobIds : j \in 0..NJobs /\ j # 0
BY PushesAssumption DEF PushesAssumption, Rows, JobIds, Emails, Personas

LEMMA NoTaskType == NoTask \in ATask /\ NoTask.pc = "off"
BY Bounds DEF NoTask, ATask, PCs, Statuses

LEMMA NoBatchType == NoBatch \in ABatch /\ NoBatch.pc = "off" /\ NoBatch.held = {}
BY DEF NoBatch, ABatch

\* What the steps do to a task, a row and a push-all keeps their types.
LEMMA TaskMoves == \A t \in ATask, pc \in PCs :
    LET new == [t EXCEPT !.pc = pc] IN new \in ATask /\ new.pc = pc /\ new.row = t.row /\ new.of = t.of
BY DEF ATask

LEMMA TaskFails == \A t \in ATask :
    LET new == [t EXCEPT !.pc = "fail", !.named = TRUE]
    IN  new \in ATask /\ new.pc = "fail" /\ new.row = t.row /\ new.of = t.of
BY DEF ATask, PCs

LEMMA TaskJudged == \A t \in ATask, st \in Statuses :
    LET new == [t EXCEPT !.pc = "verdict", !.status = st]
    IN  /\ new \in ATask /\ new.pc = "verdict" /\ new.status = st
        /\ new.row = t.row /\ new.of = t.of /\ new.target = t.target
BY DEF ATask, PCs

LEMMA NoRowsType == NoRows \in Rowset
BY DEF NoRows, Rowset
LEMMA DroppedType == \A s \in Rowset : Dropped(s) \in Rowset
BY DEF Dropped, Rowset
LEMMA OrphanedType == \A s \in Rowset : Orphaned(s) \in Rowset
BY DEF Orphaned, Rowset
LEMMA QueuedType ==
    ASSUME TypeOK, NEW j \in JobIds, NEW s \in Rowset, Queued(j, s)
    PROVE  store' \in [Emails -> Rowset]
BY OrphanedType DEF TypeOK, Queued

LEMMA RowRuns == \A r \in ARow, j \in 0..NJobs : [r EXCEPT !.state = "running", !.job = j] \in ARow
BY DEF ARow, States
LEMMA RowClears == \A r \in ARow, j \in 0..NJobs :
    [r EXCEPT !.state = "running", !.job = j, !.last = NoPersona] \in ARow
BY DEF ARow, States
LEMMA RowEnds == \A r \in ARow, st \in States, p \in Personas \cup {NoPersona}, j \in 0..NJobs :
    [r EXCEPT !.state = st, !.last = p, !.job = j] \in ARow
BY DEF ARow
LEMMA RowFails == \A r \in ARow : /\ [r EXCEPT !.state = "failed"] \in ARow
                                  /\ [r EXCEPT !.state = "failed", !.job = 0] \in ARow
BY Bounds DEF ARow, States
LEMMA RowMoves == \A r \in ARow, f \in Personas : [r EXCEPT !.folder = f] \in ARow
BY DEF ARow

LEMMA ModeType == ASSUME NEW skip, NEW last, NEW p PROVE ModeFor(skip, last, p) \in {"seed", "delta", "reseed"}
BY DEF ModeFor

LEMMA LastType == ASSUME TypeOK, NEW r \in Rows PROVE LastSeeded(r) \subseteq Personas \cup {NoPersona}
BY Bounds DEF TypeOK, LastSeeded, Noted, ARow

LEMMA AskedType ==
    ASSUME TypeOK, NEW r \in Rows, NEW last, Asked(r, last)
    PROVE  tainted' \subseteq Emails /\ troubles' \in 0..MaxTroubles
BY Bounds DEF TypeOK, Asked, Fault, NoFault, Taint

LEMMA RoutedType ==
    ASSUME TypeOK, NEW j \in JobIds, NEW r \in Rows, NEW last
    PROVE  /\ Routed(j, r, last) \in ATask /\ Routed(j, r, last).pc = "queued"
           /\ Routed(j, r, last).row = r /\ Routed(j, r, last).of = task[j].of
           /\ Routed(j, r, last).target = row[r].folder
           /\ Routed(j, r, last).mode = ModeFor(task[j].skip, last, row[r].folder)
           /\ Routed(j, r, last).skip = task[j].skip
<1>1. row[r].folder \in Personas /\ task[j] \in ATask
    BY DEF TypeOK, ARow
<1> DEFINE m == ModeFor(task[j].skip, last, row[r].folder)
<1>2. m \in {"seed", "delta", "reseed"}
    BY ModeType
<1> HIDE DEF m
<1>3. LET new == [task[j] EXCEPT !.pc = "queued", !.row = r, !.named = TRUE,
                                 !.target = row[r].folder, !.mode = m]
      IN  /\ new \in ATask /\ new.pc = "queued" /\ new.row = r /\ new.of = task[j].of
          /\ new.target = row[r].folder /\ new.mode = m /\ new.skip = task[j].skip
    BY <1>1, <1>2 DEF ATask, PCs
<1>. QED BY <1>3 DEF Routed, m

\* A new single push, and a new child of a push-all.
LEMMA SingleType ==
    ASSUME NEW r \in Rows, NEW named \in BOOLEAN, NEW skip \in BOOLEAN
    PROVE  LET new == [NoTask EXCEPT !.pc = "start", !.row = r, !.named = named, !.skip = skip]
           IN  new \in ATask /\ new.pc = "start" /\ new.row = r /\ new.of = 0
BY Bounds DEF NoTask, ATask, PCs, Statuses

LEMMA ChildType ==
    ASSUME NEW r \in Rows, NEW b \in JobIds, NEW skip \in BOOLEAN, NEW p \in Personas,
           NEW m \in {"seed", "delta", "reseed"}
    PROVE  LET new == [NoTask EXCEPT !.pc = "queued", !.row = r, !.of = b, !.skip = skip,
                                     !.target = p, !.mode = m]
           IN  /\ new \in ATask /\ new.pc = "queued" /\ new.row = r /\ new.of = b
               /\ new.target = p /\ new.mode = m /\ new.skip = skip
BY Bounds DEF NoTask, ATask, PCs, Statuses

LEMMA ClosedType ==
    ASSUME jobs \in Seq(JobStates), NEW j, NEW st \in JobStates
    PROVE  Closed(j, st) \in Seq(JobStates) /\ Len(Closed(j, st)) = Len(jobs)
<1>1. jobs \in [1..Len(jobs) -> JobStates] /\ Len(jobs) \in Nat
    BY ElementOfSeq, LenProperties
<1>2. Closed(j, st) \in [1..Len(jobs) -> JobStates]
    BY <1>1 DEF Closed
<1>. QED BY <1>1, <1>2

LEMMA JobsType ==
    ASSUME jobs \in Seq(JobStates), Len(jobs) < NJobs, NEW st \in JobStates
    PROVE  /\ Append(jobs, st) \in Seq(JobStates) /\ Len(Append(jobs, st)) = Len(jobs) + 1
           /\ NewJob \in JobIds /\ NewJob = Len(jobs) + 1 /\ Len(Append(jobs, st)) <= NJobs
BY Bounds DEF NewJob, JobIds

LEMMA BatchMoves == \A b \in ABatch, pc \in {"off", "take", "provision", "verify", "release"} :
    [b EXCEPT !.pc = pc] \in ABatch
BY DEF ABatch
LEMMA BatchSees == \A b \in ABatch, st \in {"ok", "partial", "failed"} :
    [b EXCEPT !.seen = @ \cup {st}] \in ABatch
BY DEF ABatch
LEMMA BatchReturns == \A e : \A b \in ABatch : [b EXCEPT !.held = @ \ {e}] \in ABatch
BY DEF ABatch
LEMMA BatchLoses == \A r : \A b \in ABatch, st \in {"ok", "partial", "failed"} :
    [b EXCEPT !.todo = @ \ {r}, !.seen = @ \cup {st}] \in ABatch
BY DEF ABatch
LEMMA BatchTakes == \A r : \A b \in ABatch, e \in Emails :
    [b EXCEPT !.todo = @ \ {r}, !.held = @ \cup {e}] \in ABatch
BY DEF ABatch
LEMMA BatchStarts == \A rows \in SUBSET Rows, skip \in BOOLEAN :
    [NoBatch EXCEPT !.pc = "take", !.skip = skip, !.todo = rows] \in ABatch
BY DEF ABatch, NoBatch

LEMMA SettledType ==
    ASSUME TypeOK, NEW j \in JobIds, NEW st \in {"ok", "partial", "failed"}, Settled(j, st)
    PROVE  batch' \in [JobIds -> ABatch]
<1>1. batch \in [JobIds -> ABatch]
    BY DEF TypeOK
<1> DEFINE b == task[j].of
<1>2. batch' = batch \/ batch' = [batch EXCEPT ![b] = [batch[b] EXCEPT !.seen = @ \cup {st}]]
    BY DEF Settled
<1>3. b \in JobIds => batch[b] \in ABatch
    BY <1>1
<1>. QED BY <1>1, <1>2, <1>3, BatchSees

LEMMA UpdateType ==
    ASSUME TypeOK, NEW r \in Rows, NEW named, NEW new \in ARow
    PROVE  UpdateAccount(r, named, new) \in [Rows -> ARow]
BY DEF UpdateAccount, TypeOK

\* A set of natural numbers that is not empty has a least element.
LEMMA LeastNatural == ASSUME NEW S \in SUBSET Nat, S # {} PROVE \E n \in S : \A m \in S : n <= m
<1> DEFINE R == OpToRel(<, Nat)
<1>1. \E n \in S : \A m \in S : ~ (<<m, n>> \in R)
    <2>1. IsWellFoundedOn(R, Nat)
        BY NatLessThanWellFounded
    <2> HIDE DEF R
    <2>. QED BY <2>1, WFMin
<1>2. \A m, n \in Nat : m < n => <<m, n>> \in R
    BY DEF OpToRel
<1>3. PICK n \in S : \A m \in S : ~ (<<m, n>> \in R)
    BY <1>1
<1>4. \A m \in S : ~ (m < n)
    BY <1>2, <1>3
<1>. QED BY <1>4

LEMMA NextRowType == ASSUME TypeOK, NEW b \in JobIds, batch[b].todo # {} PROVE NextRow(b) \in batch[b].todo
<1> DEFINE S == batch[b].todo
<1>1. S \subseteq Rows /\ S # {}
    BY DEF TypeOK, ABatch
<1>2. \E r \in S : \A q \in S : r <= q
    BY <1>1, LeastNatural DEF Rows
<1>. QED BY <1>2 DEF NextRow

THEOREM TypeInit == Init => TypeOK
<1> SUFFICES ASSUME Init PROVE TypeOK
    OBVIOUS
<1>1. row \in [Rows -> ARow]
    BY Bounds DEF Init, ARow, States
<1>2. task \in [JobIds -> ATask] /\ batch \in [JobIds -> ABatch]
    BY NoTaskType, NoBatchType DEF Init
<1>3. jobs \in Seq(JobStates) /\ Len(jobs) <= NJobs
    BY Bounds DEF Init
<1>4. /\ content \in [Emails -> SUBSET Personas] /\ tainted \subseteq Emails
      /\ remote \in [Emails -> Personas \cup {NoPersona}]
    <2>1. PICK earlier \in [Emails -> Earlier] :
              /\ content = [e \in Emails |-> {earlier[e]} \ {NoPersona}]
              /\ remote = [e \in Emails |-> IF e \in Recorded THEN earlier[e] ELSE NoPersona]
              /\ tainted = {e \in Emails \ Recorded : earlier[e] # NoPersona}
        BY DEF Init
    <2>2. \A e \in Emails : earlier[e] \in Personas \cup {NoPersona}
        BY Bounds
    <2>. QED BY <2>1, <2>2
<1>5. store \in [Emails -> Rowset]
    BY NoRowsType DEF Init
<1>. QED BY <1>1, <1>2, <1>3, <1>4, <1>5, Bounds DEF Init, TypeOK

\* A task knows its folder once it is queued, and what it came to once it is done.
Targeted == {"queued", "seeding", "seeded", "verdict", "remember", "finish"}
Judged   == {"verdict", "remember", "finish"}
TaskData ==
    \A j \in JobIds : /\ task[j].pc \in Targeted => task[j].target \in Personas
                      /\ task[j].pc \in Judged => task[j].status \in {"ok", "partial", "failed"}

LEMMA SeedTypes ==
    ASSUME TypeOK, TaskData, NEW j \in JobIds,
           Wipe(j) \/ SeedBegin(j) \/ SeedSome(j) \/ SeedRows(j) \/ SeedEnd(j)
    PROVE  TypeOK'
<1>0. /\ task \in [JobIds -> ATask] /\ store \in [Emails -> Rowset] /\ tainted \subseteq Emails
      /\ content \in [Emails -> SUBSET Personas] /\ Who(j) \in Emails
    BY Bounds DEF TypeOK, ATask, Who
<1>1. ASSUME NEW pc \in PCs, Goto(j, pc) PROVE task' \in [JobIds -> ATask]
    BY <1>0, <1>1, TaskMoves DEF Goto
<1>2. ASSUME NEW st \in Statuses, task' = [task EXCEPT ![j].pc = "verdict", ![j].status = st]
      PROVE  task' \in [JobIds -> ATask]
    <2>1. task' = [task EXCEPT ![j] = [task[j] EXCEPT !.pc = "verdict", !.status = st]]
        BY <1>2
    <2>. QED BY <1>0, <2>1, TaskJudged
<1>3. Fault \/ NoFault => troubles' \in 0..MaxTroubles
    BY Bounds DEF TypeOK, Fault, NoFault
<1>4. Taint(Who(j)) \/ UNCHANGED tainted => tainted' \subseteq Emails
    BY <1>0 DEF Taint
<1> DEFINE e == Who(j)
           p == task[j].target
           s == store[e]
<1>5. /\ s \in Rowset /\ s.open \in SUBSET Personas /\ s.left \in SUBSET Personas
      /\ s.done \in SUBSET Personas /\ s.lost \in SUBSET Personas
    BY <1>0 DEF Rowset
<1>6. CASE Wipe(j)
    <2>1. p \in Personas
        BY <1>6 DEF Wipe, TaskData, Targeted
    <2>2. PICK kept \in SUBSET content[e] :
              /\ content' = [content EXCEPT ![e] = kept]
              /\ \E early \in SUBSET (s.left \ {p}), wipe \in {"done", "lost"} :
                    /\ Queued(j, [open |-> (s.left \ early) \cup Unseen(s, p), left |-> s.done \cup early,
                             done |-> {}, lost |-> IF wipe = "lost" THEN s.lost \cup {p} ELSE s.lost,
                             wipe |-> wipe])
                    /\ IF kept = {} /\ wipe = "done" THEN NoFault /\ UNCHANGED tainted ELSE Fault /\ Taint(e)
        BY <1>6 DEF Wipe
    <2>3. PICK early \in SUBSET (s.left \ {p}) : \E wipe \in {"done", "lost"} :
                    /\ Queued(j, [open |-> (s.left \ early) \cup Unseen(s, p), left |-> s.done \cup early,
                             done |-> {}, lost |-> IF wipe = "lost" THEN s.lost \cup {p} ELSE s.lost,
                             wipe |-> wipe])
                    /\ IF kept = {} /\ wipe = "done" THEN NoFault /\ UNCHANGED tainted ELSE Fault /\ Taint(e)
        BY <2>2
    <2>4. PICK wipe \in {"done", "lost"} :
                    /\ Queued(j, [open |-> (s.left \ early) \cup Unseen(s, p), left |-> s.done \cup early,
                             done |-> {}, lost |-> IF wipe = "lost" THEN s.lost \cup {p} ELSE s.lost,
                             wipe |-> wipe])
                    /\ IF kept = {} /\ wipe = "done" THEN NoFault /\ UNCHANGED tainted ELSE Fault /\ Taint(e)
        BY <2>3
    <2> DEFINE new == [open |-> (s.left \ early) \cup Unseen(s, p), left |-> s.done \cup early,
                       done |-> {}, lost |-> IF wipe = "lost" THEN s.lost \cup {p} ELSE s.lost, wipe |-> wipe]
    <2>5. new \in Rowset
        BY <1>5, <2>1 DEF Rowset, Unseen
    <2> HIDE DEF new
    <2>6. store' \in [Emails -> Rowset]
        <3>1. Queued(j, new)
            BY <2>4 DEF new
        <3>. QED BY <2>5, <3>1, QueuedType
    <2>7. content' \in [Emails -> SUBSET Personas] /\ task' \in [JobIds -> ATask]
        BY <1>0, <1>1, <1>6, <2>2 DEF Wipe, PCs
    <2>8. tainted' \subseteq Emails /\ troubles' \in 0..MaxTroubles
        BY <1>3, <1>4, <2>4
    <2> HIDE DEF e, p, s
    <2>. QED BY <1>6, <2>6, <2>7, <2>8 DEF Wipe, TypeOK, manifest
<1>7. CASE SeedBegin(j)
    <2>1. p \in Personas
        BY <1>7 DEF SeedBegin, TaskData, Targeted
    <2>2. store' \in [Emails -> Rowset]
        <3>1. CASE UNCHANGED store
            BY <1>0, <3>1
        <3>2. ASSUME NEW new \in {Unseen(s, p)} \cup (IF task[j].skip THEN {{}} ELSE {}),
                     Queued(j, [s EXCEPT !.open = @ \cup s.left \cup new, !.left = {},
                                         !.lost = IF task[j].mode = "reseed" /\ s.wipe = "lost"
                                                  THEN @ \cup new ELSE @])
              PROVE  store' \in [Emails -> Rowset]
            <4>1. new \in SUBSET Personas
                BY <2>1 DEF Unseen
            <4> DEFINE x == IF task[j].mode = "reseed" /\ s.wipe = "lost" THEN s.lost \cup new ELSE s.lost
                       y == s.open \cup s.left \cup new
            <4>2. x \in SUBSET Personas /\ y \in SUBSET Personas
                BY <1>5, <4>1
            <4> DEFINE z == [s EXCEPT !.open = y, !.left = {}, !.lost = x]
            <4>3. z = [s EXCEPT !.open = @ \cup s.left \cup new, !.left = {},
                                         !.lost = IF task[j].mode = "reseed" /\ s.wipe = "lost"
                                                  THEN @ \cup new ELSE @]
                BY <1>5 DEF Rowset
            <4>4. z \in Rowset
                <5> HIDE DEF x, y, s
                <5>. QED BY <1>5, <4>2 DEF Rowset
            <4>5. Queued(j, z)
                BY <3>2, <4>3
            <4>. QED BY <4>4, <4>5, QueuedType
        <3>. QED BY <1>7, <3>1, <3>2 DEF SeedBegin
    <2>3. task' \in [JobIds -> ATask]
        <3>1. \/ Goto(j, "seeding")
              \/ task' = [task EXCEPT ![j].pc = "verdict", ![j].status = "ok"]
            BY <1>7 DEF SeedBegin
        <3>. QED BY <1>1, <1>2, <3>1 DEF PCs, Statuses
    <2>4. tainted' \subseteq Emails
        BY <1>4, <1>7 DEF SeedBegin
    <2> HIDE DEF e, p, s
    <2>. QED BY <1>7, <2>2, <2>3, <2>4 DEF SeedBegin, TypeOK, manifest
<1>8. CASE SeedSome(j)
    <2>1. PICK q \in s.open : /\ store' = [store EXCEPT ![e].done = @ \cup {q}]
                              /\ content' = [content EXCEPT ![e] = @ \cup {q}]
        BY <1>8 DEF SeedSome
    <2>2. q \in Personas
        BY <1>5
    <2>3. store' \in [Emails -> Rowset]
        <3>1. store' = [store EXCEPT ![e] = [s EXCEPT !.done = s.done \cup {q}]]
            BY <2>1
        <3>2. [s EXCEPT !.done = s.done \cup {q}] \in Rowset
            <4> HIDE DEF s
            <4>. QED BY <1>5, <2>2 DEF Rowset
        <3>. QED BY <1>0, <3>1, <3>2
    <2>4. content' \in [Emails -> SUBSET Personas]
        BY <1>0, <2>1, <2>2
    <2> HIDE DEF e, p, s
    <2>. QED BY <1>8, <2>3, <2>4 DEF SeedSome, TypeOK, manifest, threads
<1>9. CASE SeedRows(j)
    <2>1. PICK bad \in SUBSET s.open :
              /\ store' = [store EXCEPT ![e] = [s EXCEPT !.open = {}, !.done = @ \cup (s.open \ bad),
                                                         !.lost = @ \cup bad]]
              /\ content' = [content EXCEPT ![e] = @ \cup (s.open \ bad)]
              /\ IF bad \subseteq s.lost THEN NoFault ELSE Fault
        BY <1>9 DEF SeedRows
    <2>2. store' \in [Emails -> Rowset]
        <3>1. [s EXCEPT !.open = {}, !.done = @ \cup (s.open \ bad), !.lost = @ \cup bad] \in Rowset
            <4> HIDE DEF s
            <4>. QED BY <1>5 DEF Rowset
        <3>. QED BY <1>0, <2>1, <3>1
    <2>3. content' \in [Emails -> SUBSET Personas] /\ task' \in [JobIds -> ATask] /\ troubles' \in 0..MaxTroubles
        BY <1>0, <1>1, <1>3, <1>5, <1>9, <2>1 DEF SeedRows, PCs
    <2> HIDE DEF e, p, s
    <2>. QED BY <1>9, <2>2, <2>3 DEF SeedRows, TypeOK, manifest
<1>10. CASE SeedEnd(j)
    <2>1. StatusOf(s) \in Statuses
        BY DEF StatusOf, Statuses
    <2>2. task' \in [JobIds -> ATask]
        BY <1>2, <1>10, <2>1 DEF SeedEnd
    <2>3. tainted' \subseteq Emails
        BY <1>4, <1>10 DEF SeedEnd
    <2> HIDE DEF e, p, s
    <2>. QED BY <1>10, <2>2, <2>3 DEF SeedEnd, TypeOK, manifest
<1>. QED BY <1>6, <1>7, <1>8, <1>9, <1>10

LEMMA TypeStep == TypeOK /\ TaskData /\ [Next]_vars => TypeOK'
<1> SUFFICES ASSUME TypeOK, TaskData, [Next]_vars PROVE TypeOK'
    OBVIOUS
<1>0. /\ row \in [Rows -> ARow] /\ task \in [JobIds -> ATask] /\ batch \in [JobIds -> ABatch]
      /\ jobs \in Seq(JobStates) /\ Len(jobs) <= NJobs
      /\ lock \subseteq Emails /\ tainted \subseteq Emails /\ content \in [Emails -> SUBSET Personas]
      /\ store \in [Emails -> Rowset]
    BY DEF TypeOK
<1>1. \A j \in JobIds : task[j].row \in Rows /\ Who(j) \in Emails
    BY <1>0, Bounds DEF ATask, Who
<1>2. ASSUME NEW r \in Rows, NEW named \in BOOLEAN, NEW skip \in BOOLEAN, Push(r, named, skip)
      PROVE  TypeOK'
    <2>1. jobs' \in Seq(JobStates) /\ Len(jobs') <= NJobs /\ NewJob \in JobIds
        BY <1>0, <1>2, JobsType DEF Push, JobStates
    <2>2. row' \in [Rows -> ARow]
        <3>1. row' = [row EXCEPT ![r] = [row[r] EXCEPT !.state = "running", !.job = NewJob, !.last = NoPersona]]
            BY <1>2 DEF Push
        <3>. QED BY <1>0, <2>1, <3>1, RowClears, Bounds
    <2>3. task' \in [JobIds -> ATask]
        <3>1. [NoTask EXCEPT !.pc = "start", !.row = r, !.named = named, !.skip = skip] \in ATask
            BY SingleType
        <3>. QED BY <1>0, <1>2, <2>1, <3>1 DEF Push
    <2>4. lock' \subseteq Emails /\ troubles' \in 0..MaxTroubles
        BY <1>0, <1>2, Bounds DEF Push, TypeOK, Fault, NoFault
    <2>. QED BY <1>2, <2>1, <2>2, <2>3, <2>4 DEF Push, TypeOK
<1>3. ASSUME NEW j \in JobIds, Start(j) PROVE TypeOK'
    <2> DEFINE r == task[j].row
    <2>1. row' \in [Rows -> ARow]
        <3>1. row' = row \/ row' = [row EXCEPT ![r] = [row[r] EXCEPT !.state = "running", !.job = j]]
            BY <1>3 DEF Start, Running
        <3>2. row[r] \in ARow /\ j \in 0..NJobs
            BY <1>0, <1>1, Bounds
        <3>. QED BY <1>0, <1>1, <3>1, <3>2, RowRuns
    <2>2. task' \in [JobIds -> ATask]
        <3>1. \/ \E last \in LastSeeded(r) : task' = [task EXCEPT ![j] = Routed(j, r, last)]
              \/ task' = [task EXCEPT ![j] = [task[j] EXCEPT !.pc = "fail"]]
            BY <1>3 DEF Start, Goto
        <3>2. \A last \in LastSeeded(r) : Routed(j, r, last) \in ATask
            BY <1>1, RoutedType
        <3>3. [task[j] EXCEPT !.pc = "fail"] \in ATask
            BY <1>0, TaskMoves DEF PCs
        <3>. QED BY <1>0, <3>1, <3>2, <3>3
    <2>3. tainted' \subseteq Emails /\ troubles' \in 0..MaxTroubles
        <3>1. (\E last \in LastSeeded(r) : Asked(r, last)) \/ UNCHANGED <<tainted, troubles>>
            BY <1>3 DEF Start
        <3>. QED BY <1>0, <1>1, <3>1, AskedType DEF TypeOK
    <2>. QED BY <1>3, <2>1, <2>2, <2>3 DEF Start, TypeOK
<1>4. ASSUME NEW j \in JobIds, Raise(j) PROVE TypeOK'
    <2>1. task' = [task EXCEPT ![j] = [task[j] EXCEPT !.pc = "fail", !.named = TRUE]]
        BY <1>4 DEF Raise
    <2>2. task' \in [JobIds -> ATask]
        BY <1>0, <2>1, TaskFails
    <2>3. store' \in [Emails -> Rowset]
        BY <1>0, <1>4, DroppedType DEF Raise
    <2>. QED BY <1>0, <1>1, <1>4, <2>2, <2>3, Bounds DEF Raise, TypeOK, Fault, Taint, manifest
<1>5. ASSUME NEW j \in JobIds, FailMark(j) PROVE TypeOK'
    <2> DEFINE r == task[j].row
    <2>1. row' \in [Rows -> ARow]
        <3>1. [row[r] EXCEPT !.state = "failed"] \in ARow /\ row[r] \in ARow
            BY <1>0, <1>1, RowFails
        <3>. QED BY <1>1, <1>5, <3>1, UpdateType DEF FailMark, Failed
    <2>2. task' \in [JobIds -> ATask]
        BY <1>0, <1>5, TaskMoves DEF FailMark, Goto, PCs
    <2>3. jobs' \in Seq(JobStates) /\ Len(jobs') <= NJobs
        BY <1>0, <1>5, ClosedType DEF FailMark, JobStates
    <2>. QED BY <1>5, <2>1, <2>2, <2>3 DEF FailMark, TypeOK
<1>6. ASSUME NEW j \in JobIds, Release(j) PROVE TypeOK'
    BY <1>0, <1>6, NoTaskType DEF Release, Off, TypeOK, manifest
<1>7. ASSUME NEW j \in JobIds, Wipe(j) \/ SeedBegin(j) \/ SeedSome(j) \/ SeedRows(j) \/ SeedEnd(j) PROVE TypeOK'
    BY <1>7, SeedTypes
<1>9. ASSUME NEW j \in JobIds, Verdict(j) PROVE TypeOK'
    <2> DEFINE r == task[j].row
               l == IF Good(j) THEN task[j].target ELSE row[r].last
    <2>1. task' \in [JobIds -> ATask]
        BY <1>0, <1>9, TaskMoves DEF Verdict, Goto, PCs
    <2>2. row' \in [Rows -> ARow]
        <3>1. row' = row \/ row' = [row EXCEPT ![r] = [row[r] EXCEPT !.state = task[j].status, !.last = l, !.job = j]]
            BY <1>9 DEF Verdict
        <3>2. row[r] \in ARow /\ l \in Personas \cup {NoPersona} /\ task[j].status \in States
            <4>1. task[j].status \in States
                BY <1>9 DEF Verdict, TaskData, Judged, States
            <4>. QED BY <1>0, <1>1, <4>1 DEF ATask, ARow
        <3>3. j \in 0..NJobs
            BY Bounds
        <3> HIDE DEF l
        <3>4. [row[r] EXCEPT !.state = task[j].status, !.last = l, !.job = j] \in ARow
            BY <3>2, <3>3, RowEnds
        <3>. QED BY <1>0, <1>1, <3>1, <3>4
    <2>. QED BY <1>9, <2>1, <2>2 DEF Verdict, TypeOK
<1>10. ASSUME NEW j \in JobIds, Remember(j) PROVE TypeOK'
    <2>1. task' \in [JobIds -> ATask] /\ task[j].target \in Personas \cup {NoPersona}
        <3>1. task' = [task EXCEPT ![j] = [task[j] EXCEPT !.pc = "finish"]]
            BY <1>10 DEF Remember, Goto
        <3>2. [task[j] EXCEPT !.pc = "finish"] \in ATask
            BY <1>0, TaskMoves DEF PCs
        <3>. QED BY <1>0, <3>1, <3>2 DEF ATask
    <2>. QED BY <1>10, <2>1 DEF Remember, TypeOK
<1>11. ASSUME NEW j \in JobIds, Finish(j) PROVE TypeOK'
    <2>1. task' \in [JobIds -> ATask]
        <3>1. \/ task' = [task EXCEPT ![j] = [task[j] EXCEPT !.pc = "release"]]
              \/ task' = [task EXCEPT ![j] = NoTask]
            BY <1>11 DEF Finish, Goto, Off
        <3>2. [task[j] EXCEPT !.pc = "release"] \in ATask
            BY <1>0, TaskMoves DEF PCs
        <3>. QED BY <1>0, <3>1, <3>2, NoTaskType
    <2>2. task[j].status \in {"ok", "partial", "failed"}
        BY <1>11 DEF Finish, TaskData, Judged
    <2>3. jobs' \in Seq(JobStates) /\ Len(jobs') <= NJobs
        BY <1>0, <1>11, <2>2, ClosedType DEF Finish, JobStates
    <2>4. batch' \in [JobIds -> ABatch]
        BY <1>0, <1>11, <2>2, SettledType DEF Finish
    <2>5. remote' \in [Emails -> Personas \cup {NoPersona}]
        BY <1>0, <1>11 DEF Finish, TypeOK, ATask
    <2>6. tainted' \subseteq Emails /\ troubles' \in 0..MaxTroubles
        BY <1>0, <1>1, <1>11, Bounds DEF Finish, TypeOK, Fault, NoFault, Taint
    <2>. QED BY <1>11, <2>1, <2>3, <2>4, <2>5, <2>6 DEF Finish, TypeOK, manifest
<1>12. ASSUME NEW j \in JobIds, ChildRaises(j) PROVE TypeOK'
    <2>1. task' \in [JobIds -> ATask]
        BY <1>0, <1>12, NoTaskType DEF ChildRaises, Off
    <2>3. jobs' \in Seq(JobStates) /\ Len(jobs') <= NJobs
        BY <1>0, <1>12, ClosedType DEF ChildRaises, JobStates
    <2>4. batch' \in [JobIds -> ABatch]
        BY <1>0, <1>12, SettledType DEF ChildRaises
    <2>6. tainted' \subseteq Emails /\ troubles' \in 0..MaxTroubles
        BY <1>0, <1>1, <1>12, Bounds DEF ChildRaises, TypeOK, Fault, Taint
    <2>. QED BY <1>12, <2>1, <2>3, <2>4, <2>6 DEF ChildRaises, TypeOK, manifest
<1>13. ASSUME NEW skip \in BOOLEAN, NEW rows \in SUBSET Rows, PushAll(skip, rows) PROVE TypeOK'
    <2>1. jobs' \in Seq(JobStates) /\ Len(jobs') <= NJobs /\ NewJob \in JobIds
        BY <1>0, <1>13, JobsType DEF PushAll, JobStates
    <2>2. batch' \in [JobIds -> ABatch]
        <3>1. [NoBatch EXCEPT !.pc = "take", !.skip = skip, !.todo = rows] \in ABatch
            BY BatchStarts
        <3>. QED BY <1>0, <1>13, <2>1, <3>1 DEF PushAll
    <2>. QED BY <1>13, <2>1, <2>2, Bounds DEF PushAll, TypeOK, Fault, NoFault
<1>14. ASSUME NEW b \in JobIds, TakeRow(b) PROVE TypeOK'
    <2> DEFINE r == NextRow(b)
               rest == [batch EXCEPT ![b] = [batch[b] EXCEPT !.todo = @ \ {r}]]
               lost == [batch EXCEPT ![b] = [batch[b] EXCEPT !.todo = @ \ {r}, !.seen = @ \cup {"failed"}]]
               taken == [batch EXCEPT ![b] = [batch[b] EXCEPT !.todo = @ \ {r}, !.held = @ \cup {EmailOf[r]}]]
    <2>1. r \in Rows
        BY <1>0, <1>14, NextRowType DEF TakeRow, ABatch
    <2>2. batch' \in [JobIds -> ABatch]
        <3>1. batch' = lost \/ batch' = taken
            <4>1. ASSUME NEW x PROVE
                      [[batch EXCEPT ![b].todo = @ \ {r}] EXCEPT ![b].seen = @ \cup x]
                       = [batch EXCEPT ![b] = [batch[b] EXCEPT !.todo = @ \ {r}, !.seen = @ \cup x]]
                BY <1>0 DEF ABatch
            <4>2. ASSUME NEW x PROVE
                      [[batch EXCEPT ![b].todo = @ \ {r}] EXCEPT ![b].held = @ \cup x]
                       = [batch EXCEPT ![b] = [batch[b] EXCEPT !.todo = @ \ {r}, !.held = @ \cup x]]
                BY <1>0 DEF ABatch
            <4>. QED BY <1>14, <4>1, <4>2 DEF TakeRow
        <3>2. batch[b] \in ABatch /\ EmailOf[r] \in Emails
            BY <1>0, <2>1, Bounds
        <3>3. lost \in [JobIds -> ABatch]
            <4>1. [batch[b] EXCEPT !.todo = @ \ {r}, !.seen = @ \cup {"failed"}] \in ABatch
                BY <3>2, BatchLoses
            <4>. QED BY <1>0, <4>1
        <3>4. taken \in [JobIds -> ABatch]
            <4>1. [batch[b] EXCEPT !.todo = @ \ {r}, !.held = @ \cup {EmailOf[r]}] \in ABatch
                BY <3>2, BatchTakes
            <4>. QED BY <1>0, <4>1
        <3>. QED BY <3>1, <3>3, <3>4
    <2>3. jobs' \in Seq(JobStates) /\ Len(jobs') <= NJobs
        BY <1>0, <1>14, JobsType DEF TakeRow, JobStates
    <2>4. row' \in [Rows -> ARow]
        <3>1. row' = row \/ (Len(jobs) < NJobs /\
                   row' = [row EXCEPT ![r] = [row[r] EXCEPT !.state = "running", !.job = NewJob]])
            BY <1>14 DEF TakeRow, Running
        <3>2. row[r] \in ARow /\ (Len(jobs) < NJobs => NewJob \in 0..NJobs)
            BY <1>0, <2>1, JobsType, Bounds DEF JobStates
        <3>. QED BY <1>0, <2>1, <3>1, <3>2, RowRuns
    <2>5. task' \in [JobIds -> ATask]
        <3>1. CASE task' = task
            BY <1>0, <3>1
        <3>2. CASE Len(jobs) < NJobs /\ task' # task
            <4>1. NewJob \in JobIds
                BY <1>0, <3>2, JobsType DEF JobStates
            <4>2. PICK last \in LastSeeded(r) : task' = [task EXCEPT ![NewJob] =
                                 [NoTask EXCEPT !.pc = "queued", !.row = r, !.of = b,
                                     !.skip = batch[b].skip, !.target = row[r].folder,
                                     !.mode = ModeFor(batch[b].skip, last, row[r].folder)]]
                BY <1>14, <3>2 DEF TakeRow
            <4>3. row[r].folder \in Personas /\ batch[b].skip \in BOOLEAN
                BY <1>0, <2>1 DEF ARow, ABatch
            <4> DEFINE m == ModeFor(batch[b].skip, last, row[r].folder)
            <4>4. m \in {"seed", "delta", "reseed"}
                BY ModeType
            <4>5. [NoTask EXCEPT !.pc = "queued", !.row = r, !.of = b, !.skip = batch[b].skip,
                                 !.target = row[r].folder, !.mode = m] \in ATask
                <5> DEFINE sk == batch[b].skip
                           f  == row[r].folder
                <5>1. sk \in BOOLEAN /\ f \in Personas
                    BY <4>3
                <5> HIDE DEF m, r, sk, f
                <5>2. [NoTask EXCEPT !.pc = "queued", !.row = r, !.of = b, !.skip = sk,
                                     !.target = f, !.mode = m] \in ATask
                    BY <2>1, <4>4, <5>1, Bounds DEF NoTask, ATask, PCs, Statuses
                <5>. QED BY <5>2 DEF m, r, sk, f
            <4>. QED BY <1>0, <4>1, <4>2, <4>5
        <3>. QED BY <1>14, <3>1, <3>2 DEF TakeRow
    <2>6. lock' \subseteq Emails /\ troubles' \in 0..MaxTroubles /\ tainted' \subseteq Emails
        <3>1. lock' = lock \/ lock' = lock \cup {EmailOf[r]}
            BY <1>14 DEF TakeRow
        <3>2. ((Fault \/ NoFault) /\ UNCHANGED tainted) \/ \E last \in LastSeeded(r) : Asked(r, last)
            BY <1>14 DEF TakeRow
        <3>3. troubles' \in 0..MaxTroubles /\ tainted' \subseteq Emails
            <4>1. CASE (Fault \/ NoFault) /\ UNCHANGED tainted
                BY <1>0, <4>1, Bounds DEF TypeOK, Fault, NoFault
            <4>. QED BY <2>1, <3>2, <4>1, AskedType
        <3>. QED BY <1>0, <2>1, <3>1, <3>3, Bounds
    <2>. QED BY <1>14, <2>2, <2>3, <2>4, <2>5, <2>6 DEF TakeRow, TypeOK
<1>15. ASSUME NEW b \in JobIds, Provision(b) \/ Provisioned(b) PROVE TypeOK'
    <2>1. batch' \in [JobIds -> ABatch]
        <3>1. \E pc \in {"verify", "provision"} : batch' = [batch EXCEPT ![b] = [batch[b] EXCEPT !.pc = pc]]
            BY <1>15 DEF Provision, Provisioned
        <3>2. \A pc \in {"verify", "provision"} : [batch[b] EXCEPT !.pc = pc] \in ABatch
            BY <1>0, BatchMoves
        <3>. QED BY <1>0, <3>1, <3>2
    <2>. QED BY <1>15, <2>1 DEF Provision, Provisioned, TypeOK, manifest
<1>16. ASSUME NEW b \in JobIds, ProvisionRaises(b) PROVE TypeOK'
    <2>1. batch' \in [JobIds -> ABatch]
        <3>1. batch' = [batch EXCEPT ![b] = [batch[b] EXCEPT !.pc = "release"]]
            BY <1>16 DEF ProvisionRaises
        <3>2. [batch[b] EXCEPT !.pc = "release"] \in ABatch
            BY <1>0, BatchMoves
        <3>. QED BY <1>0, <3>1, <3>2
    <2>2. task' \in [JobIds -> ATask]
        BY <1>0, <1>16, NoTaskType DEF ProvisionRaises
    <2>. QED BY <1>16, <2>1, <2>2, Bounds DEF ProvisionRaises, TypeOK, manifest, Fault
<1>17. ASSUME NEW b \in JobIds, BatchEnd(b) PROVE TypeOK'
    <2>1. batch' \in [JobIds -> ABatch]
        <3>1. batch' = [batch EXCEPT ![b] = [batch[b] EXCEPT !.pc = "release"]]
            BY <1>17 DEF BatchEnd
        <3>2. [batch[b] EXCEPT !.pc = "release"] \in ABatch
            BY <1>0, BatchMoves
        <3>. QED BY <1>0, <3>1, <3>2
    <2>2. jobs' \in Seq(JobStates) /\ Len(jobs') <= NJobs
        BY <1>0, <1>17, ClosedType DEF BatchEnd, JobStates, BatchStatus
    <2>. QED BY <1>17, <2>1, <2>2 DEF BatchEnd, TypeOK, manifest
<1>18. ASSUME NEW b \in JobIds, BatchRelease(b) PROVE TypeOK'
    <2>1. PICK e \in batch[b].held :
              lock' = lock \ {e} /\ batch' = [batch EXCEPT ![b] = [batch[b] EXCEPT !.held = @ \ {e}]]
        BY <1>18 DEF BatchRelease
    <2>2. batch' \in [JobIds -> ABatch]
        BY <1>0, <2>1, BatchReturns
    <2>. QED BY <1>0, <1>18, <2>1, <2>2 DEF BatchRelease, TypeOK, manifest
<1>19. ASSUME NEW b \in JobIds, BatchClear(b) PROVE TypeOK'
    BY <1>0, <1>19, NoBatchType, Bounds DEF BatchClear, TypeOK
<1>20. ASSUME NEW r \in Rows, AddRow(r) PROVE TypeOK'
    BY <1>20 DEF AddRow, TypeOK, threads
<1>21. ASSUME NEW r \in Rows, NEW p \in Personas, SetFolder(r, p) PROVE TypeOK'
    <2>1. row' = [row EXCEPT ![r] = [row[r] EXCEPT !.folder = p]]
        BY <1>21 DEF SetFolder
    <2>2. row' \in [Rows -> ARow]
        BY <1>0, <2>1, RowMoves
    <2>. QED BY <1>21, <2>2 DEF SetFolder, TypeOK, threads
<1>22. ASSUME Restart PROVE TypeOK'
    <2>1. row' \in [Rows -> ARow]
        <3>1. \A r \in Rows : [row[r] EXCEPT !.state = "failed", !.job = 0] \in ARow
            BY <1>0, RowFails
        <3>. QED BY <1>0, <1>22, <3>1 DEF Restart
    <2>2. jobs' \in Seq(JobStates) /\ Len(jobs') <= NJobs
        <3>1. jobs \in [1..Len(jobs) -> JobStates] /\ Len(jobs) \in Nat
            BY <1>0, ElementOfSeq, LenProperties
        <3>2. jobs' \in [1..Len(jobs) -> JobStates]
            BY <1>22, <3>1 DEF Restart, JobStates
        <3>. QED BY <1>0, <3>1, <3>2
    <2>3. tainted' \subseteq Emails
        BY <1>0, <1>1, <1>22 DEF Restart
    <2>4. task' \in [JobIds -> ATask] /\ batch' \in [JobIds -> ABatch]
        BY <1>22, NoTaskType, NoBatchType DEF Restart
    <2>5. batchJob' \in 0..NJobs /\ lock' \subseteq Emails
        BY <1>22, Bounds DEF Restart
    <2>6. troubles' \in 0..MaxTroubles
        <3>1. Fault
            BY <1>22 DEF Restart
        <3>. QED BY <3>1, Bounds DEF TypeOK, Fault
    <2>7. store' \in [Emails -> Rowset]
        BY <1>0, <1>22, DroppedType DEF Restart
    <2>. QED BY <1>22, <2>1, <2>2, <2>3, <2>4, <2>5, <2>6, <2>7 DEF Restart, TypeOK
<1>23. ASSUME UNCHANGED vars PROVE TypeOK'
    BY <1>23 DEF vars, manifest, threads, TypeOK
<1>. QED BY <1>2, <1>3, <1>4, <1>5, <1>6, <1>7, <1>9, <1>10, <1>11, <1>12, <1>13, <1>14, <1>15,
            <1>16, <1>17, <1>18, <1>19, <1>20, <1>21, <1>22, <1>23 DEF Next, TaskStep, BatchStep

-----------------------------------------------------------------------------
(* Who works on an account *)

On(j) == task[j].pc # "off"

\* Jobs that do not exist do nothing, and a job is a task or a push-all.
Unused  == \A j \in JobIds : j > Len(jobs) => ~On(j) /\ batch[j].pc = "off"
OneKind == \A j \in JobIds : On(j) => batch[j].pc = "off"

\* A child has a push-all at work, which holds the lock of its account.
ChildOf ==
    \A j \in JobIds : On(j) /\ ~Single(j) =>
        /\ task[j].of \in JobIds /\ task[j].pc \in Targeted
        /\ batch[task[j].of].pc \in {"take", "provision", "verify"}
        /\ Who(j) \in batch[task[j].of].held

\* Who has an account has its lock, and a push-all that is over has none.
Locked ==
    /\ \A j \in JobIds : On(j) => Who(j) \in lock
    /\ \A b \in JobIds : /\ batch[b].held \subseteq lock
                         /\ batch[b].pc = "off" => batch[b].held = {}

\* No account is in two hands.
Alone == \A i, j \in JobIds : On(i) /\ On(j) /\ Who(i) = Who(j) => i = j
Apart ==
    /\ \A b, c \in JobIds, e \in Emails : e \in batch[b].held /\ e \in batch[c].held => b = c
    /\ \A j, b \in JobIds : On(j) /\ Who(j) \in batch[b].held => task[j].of = b

ThreadInv == /\ TypeOK /\ TaskData
             /\ Unused /\ OneKind /\ ChildOf /\ Locked /\ Alone /\ Apart

-----------------------------------------------------------------------------
(* The kinds of steps *)

Others(j)   == \A k \in JobIds \ {j} : task'[k] = task[k]
SameBatch(b) == batch'[b].pc = batch[b].pc /\ batch'[b].held = batch[b].held
SameBatches == \A b \in JobIds : SameBatch(b)
SameCount   == Len(jobs') = Len(jobs)

\* A task goes on, ends, or nothing of this happens.
Goes(j) ==
    /\ On(j) /\ On(j)' /\ task'[j].row = task[j].row /\ task'[j].of = task[j].of
    /\ ~Single(j) => task'[j].pc \in Targeted
    /\ task'[j].pc \in Targeted => task'[j].target \in Personas
    /\ task'[j].pc \in Judged => task'[j].status \in {"ok", "partial", "failed"}
    /\ Others(j) /\ SameBatches /\ SameCount /\ UNCHANGED lock
Ends(j) ==
    /\ On(j) /\ task'[j] = NoTask
    /\ Others(j) /\ SameBatches /\ SameCount
    /\ \/ ~Single(j) /\ UNCHANGED lock
       \/ Single(j) /\ lock' = lock \ {Who(j)}
Idles == /\ \A j \in JobIds : task'[j] = task[j]
         /\ SameBatches /\ Len(jobs') \in Nat /\ Len(jobs') >= Len(jobs) /\ UNCHANGED lock
Begins(j) ==
    /\ j = NewJob /\ j \in JobIds /\ Len(jobs') = NewJob
    /\ On(j)' /\ Who(j)' \notin lock /\ lock' = lock \cup {Who(j)'}
    /\ Others(j)
    /\ task'[j].pc \in Targeted => task'[j].target \in Personas
    /\ task'[j].pc \notin Judged
    /\ \/ Single(j)' /\ SameBatches
       \/ \E b \in JobIds :
              /\ task'[j].of = b /\ task'[j].pc \in Targeted /\ batch[b].pc = "take"
              /\ batch'[b].pc = "take" /\ batch'[b].held = batch[b].held \cup {Who(j)'}
              /\ \A c \in JobIds \ {b} : SameBatch(c)

\* A push-all begins, goes on, gives a lock back, or ends.
BatchBegins(b) ==
    /\ b = NewJob /\ b \in JobIds /\ Len(jobs') = NewJob
    /\ batch'[b].pc = "take" /\ batch'[b].held = {}
    /\ \A c \in JobIds \ {b} : SameBatch(c)
    /\ \A j \in JobIds : task'[j] = task[j]
    /\ UNCHANGED lock
BatchGoes(b) ==
    /\ batch[b].pc # "off" /\ batch'[b].pc \in {"provision", "verify", "release"}
    /\ batch'[b].held = batch[b].held
    /\ \A c \in JobIds \ {b} : SameBatch(c)
    /\ SameCount /\ UNCHANGED lock
    /\ \/ /\ \A j \in JobIds : task'[j] = task[j]
          /\ batch'[b].pc = "release" => Works(b) = {}
       \/ \A j \in JobIds : task'[j] = IF j \in Works(b) THEN NoTask ELSE task[j]
BatchGives(b, e) ==
    /\ batch[b].pc = "release" /\ e \in batch[b].held
    /\ lock' = lock \ {e}
    /\ batch'[b].pc = "release" /\ batch'[b].held = batch[b].held \ {e}
    /\ \A c \in JobIds \ {b} : SameBatch(c)
    /\ \A j \in JobIds : task'[j] = task[j]
    /\ SameCount
BatchEnds(b) ==
    /\ batch[b].held = {} /\ batch[b].pc = "release" /\ batch'[b].pc = "off" /\ batch'[b].held = {}
    /\ \A c \in JobIds \ {b} : SameBatch(c)
    /\ \A j \in JobIds : task'[j] = task[j]
    /\ SameCount /\ UNCHANGED lock
Dies ==
    /\ lock' = {} /\ SameCount
    /\ \A j \in JobIds : task'[j] = NoTask /\ batch'[j] = NoBatch

LEMMA GoesKeeps == ASSUME ThreadInv, TypeOK', NEW j \in JobIds, Goes(j) PROVE ThreadInv'
<1>1. \A k \in JobIds : On(k)' = On(k) /\ Who(k)' = Who(k) /\ Single(k)' = Single(k) /\ task'[k].of = task[k].of
    BY DEF Goes, Others, On, Who, Single
<1>2. TaskData'
    BY DEF Goes, Others, ThreadInv, TaskData
<1>3. Unused' /\ OneKind' /\ Locked' /\ Alone' /\ Apart'
    BY <1>1 DEF ThreadInv, Goes, SameBatches, SameBatch, SameCount, Unused, OneKind, Locked, Alone, Apart
<1>4. ChildOf'
    BY <1>1 DEF ThreadInv, Goes, SameBatches, SameBatch, Others, ChildOf
<1>. QED BY <1>2, <1>3, <1>4 DEF ThreadInv

LEMMA NoTaskOff == NoTask.pc = "off" /\ "off" \notin Targeted /\ "off" \notin Judged
BY DEF NoTask, Targeted, Judged

LEMMA WhoType == ASSUME TypeOK, NEW j \in JobIds PROVE Who(j) \in Emails /\ task[j].of \in 0..NJobs
BY Bounds DEF TypeOK, ATask, Who

LEMMA EndsKeeps == ASSUME ThreadInv, TypeOK', NEW j \in JobIds, Ends(j) PROVE ThreadInv'
<1>1. \A k \in JobIds \ {j} : /\ On(k)' = On(k) /\ Who(k)' = Who(k) /\ Single(k)' = Single(k)
                              /\ task'[k].of = task[k].of /\ task'[k].pc = task[k].pc
    BY DEF Ends, Others, On, Who, Single
<1>2. ~On(j)'
    BY NoTaskOff DEF Ends, On
<1>3. \A b \in JobIds : /\ batch'[b].pc = batch[b].pc /\ batch'[b].held = batch[b].held
                        /\ Single(j) => Who(j) \notin batch[b].held
    BY DEF Ends, SameBatches, SameBatch, ThreadInv, Apart, Single, JobIds
<1>4. TaskData'
    BY NoTaskOff DEF Ends, Others, ThreadInv, TaskData
<1>5. Unused' /\ OneKind' /\ Alone' /\ ChildOf'
    BY <1>1, <1>2, <1>3 DEF Ends, SameCount, ThreadInv, Unused, OneKind, Alone, ChildOf
<1>6. Locked'
    BY <1>1, <1>2, <1>3 DEF Ends, ThreadInv, Locked, Alone
<1>7. Apart'
    BY <1>1, <1>2, <1>3 DEF ThreadInv, Apart
<1>. QED BY <1>4, <1>5, <1>6, <1>7 DEF ThreadInv

LEMMA IdlesKeeps == ASSUME ThreadInv, TypeOK', Idles PROVE ThreadInv'
<1>1. \A k \in JobIds : /\ On(k)' = On(k) /\ Who(k)' = Who(k) /\ Single(k)' = Single(k)
                        /\ task'[k] = task[k]
    BY DEF Idles, On, Who, Single
<1>2. \A b \in JobIds : batch'[b].pc = batch[b].pc /\ batch'[b].held = batch[b].held
    BY DEF Idles, SameBatches, SameBatch
<1>3. \A k \in JobIds : k > Len(jobs') => k > Len(jobs)
    <2>1. Len(jobs) \in Nat
        BY LenProperties DEF ThreadInv, TypeOK
    <2>. QED BY <2>1 DEF Idles, JobIds
<1>4. TaskData' /\ Unused' /\ OneKind' /\ ChildOf'
    BY <1>1, <1>2, <1>3 DEF ThreadInv, TaskData, Unused, OneKind, ChildOf
<1>5. Locked' /\ Alone' /\ Apart'
    BY <1>1, <1>2 DEF Idles, ThreadInv, Locked, Alone, Apart
<1>. QED BY <1>4, <1>5 DEF ThreadInv

LEMMA BeginsKeeps == ASSUME ThreadInv, TypeOK', NEW j \in JobIds, Begins(j) PROVE ThreadInv'
<1>1. \A k \in JobIds \ {j} : /\ On(k)' = On(k) /\ Who(k)' = Who(k) /\ Single(k)' = Single(k)
                              /\ task'[k] = task[k]
    BY DEF Begins, Others, On, Who, Single
<1>2. Len(jobs) \in Nat /\ j = Len(jobs) + 1 /\ Len(jobs') = j
    BY LenProperties DEF ThreadInv, TypeOK, Begins, NewJob
<1>3. ~On(j) /\ batch[j].pc = "off" /\ batch[j].held = {}
    BY <1>2 DEF ThreadInv, Unused, Locked
<1>4. On(j)' /\ Who(j)' \notin lock /\ lock' = lock \cup {Who(j)'} /\ Who(j)' \in Emails
    BY Bounds DEF Begins, TypeOK, ATask, Who
<1>5. TaskData'
    BY <1>1 DEF Begins, Others, ThreadInv, TaskData
<1>6. Alone'
    BY <1>1, <1>4 DEF ThreadInv, Alone, Locked
<1>7. CASE Single(j)' /\ SameBatches
    <2>1. \A b \in JobIds : batch'[b].pc = batch[b].pc /\ batch'[b].held = batch[b].held
        BY <1>7 DEF SameBatches, SameBatch
    <2>2. Unused' /\ OneKind' /\ ChildOf' /\ Locked'
        BY <1>1, <1>2, <1>3, <1>4, <1>7, <2>1 DEF ThreadInv, Unused, OneKind, ChildOf, Locked, JobIds
    <2>3. Apart'
        BY <1>1, <1>4, <2>1 DEF ThreadInv, Apart, Locked
    <2>. QED BY <1>5, <1>6, <2>2, <2>3 DEF ThreadInv
<1>8. ASSUME NEW b \in JobIds,
             task'[j].of = b, task'[j].pc \in Targeted, batch[b].pc = "take", batch'[b].pc = "take",
             batch'[b].held = batch[b].held \cup {Who(j)'}, \A c \in JobIds \ {b} : SameBatch(c)
      PROVE  ThreadInv'
    <2>1. b # j /\ b # 0
        BY <1>3, <1>8 DEF JobIds
    <2>2. \A c \in JobIds : batch'[c].pc = batch[c].pc
        BY <1>8 DEF SameBatch
    <2>3. \A c \in JobIds \ {b} : batch'[c].held = batch[c].held
        BY <1>8 DEF SameBatch
    <2>4. Unused' /\ OneKind' /\ Locked'
        BY <1>1, <1>2, <1>3, <1>4, <1>8, <2>1, <2>2, <2>3 DEF ThreadInv, Unused, OneKind, Locked, JobIds
    <2>5. ChildOf'
        BY <1>1, <1>3, <1>4, <1>8, <2>1, <2>2, <2>3 DEF ThreadInv, ChildOf
    <2>6. Apart'
        BY <1>1, <1>3, <1>4, <1>8, <2>1, <2>2, <2>3 DEF ThreadInv, Apart, Locked
    <2>. QED BY <1>5, <1>6, <2>4, <2>5, <2>6 DEF ThreadInv
<1>. QED BY <1>7, <1>8 DEF Begins

LEMMA BatchStepKeeps ==
    ASSUME ThreadInv, TypeOK', NEW b \in JobIds,
           BatchBegins(b) \/ BatchGoes(b) \/ (\E e \in Emails : BatchGives(b, e)) \/ BatchEnds(b)
    PROVE  ThreadInv'
<1>1. CASE BatchBegins(b)
    <2>1. \A k \in JobIds : /\ On(k)' = On(k) /\ Who(k)' = Who(k) /\ Single(k)' = Single(k)
                            /\ task'[k] = task[k]
        BY <1>1 DEF BatchBegins, On, Who, Single
    <2>2. Len(jobs) \in Nat /\ b = Len(jobs) + 1 /\ Len(jobs') = b
        BY <1>1, LenProperties DEF ThreadInv, TypeOK, BatchBegins, NewJob
    <2>3. ~On(b) /\ batch[b].pc = "off" /\ batch[b].held = {}
        BY <2>2 DEF ThreadInv, Unused, Locked
    <2>4. \A c \in JobIds : /\ batch'[c].held = batch[c].held /\ (c # b => batch'[c].pc = batch[c].pc)
        BY <1>1, <2>3 DEF BatchBegins, SameBatch
    <2>5. TaskData' /\ Alone' /\ Apart'
        BY <2>1, <2>4 DEF ThreadInv, TaskData, Alone, Apart
    <2>6. Unused' /\ OneKind' /\ ChildOf' /\ Locked'
        BY <1>1, <2>1, <2>2, <2>3, <2>4 DEF BatchBegins, ThreadInv, Unused, OneKind, ChildOf, Locked, JobIds
    <2>. QED BY <2>5, <2>6 DEF ThreadInv
<1>2. CASE BatchGoes(b)
    <2>1. \A k \in JobIds : \/ task'[k] = task[k] /\ On(k)' = On(k) /\ Who(k)' = Who(k) /\ Single(k)' = Single(k)
                            \/ ~On(k)' /\ task'[k] = NoTask
        BY <1>2, NoTaskOff DEF BatchGoes, On, Who, Single
    <2>2. \A c \in JobIds : batch'[c].held = batch[c].held /\ (c # b => batch'[c].pc = batch[c].pc)
        BY <1>2 DEF BatchGoes, SameBatch
    <2>3. \A k \in JobIds : On(k)' /\ task'[k].of = b => batch'[b].pc \in {"provision", "verify"}
        BY <1>2, NoTaskOff DEF BatchGoes, Works, On
    <2>4. TaskData' /\ Alone' /\ Apart'
        BY <2>1, <2>2, NoTaskOff DEF ThreadInv, TaskData, Alone, Apart
    <2>5. Unused' /\ OneKind' /\ Locked'
        BY <1>2, <2>1, <2>2 DEF BatchGoes, ThreadInv, Unused, OneKind, Locked, SameCount, On
    <2>6. ChildOf'
        BY <2>1, <2>2, <2>3 DEF ThreadInv, ChildOf, On
    <2>. QED BY <2>4, <2>5, <2>6 DEF ThreadInv
<1>3. ASSUME NEW e \in Emails, BatchGives(b, e) PROVE ThreadInv'
    <2>1. \A k \in JobIds : /\ On(k)' = On(k) /\ Who(k)' = Who(k) /\ Single(k)' = Single(k)
                            /\ task'[k] = task[k]
        BY <1>3 DEF BatchGives, On, Who, Single
    <2>2. \A c \in JobIds : /\ batch'[c].pc = batch[c].pc
                            /\ c # b => batch'[c].held = batch[c].held /\ e \notin batch[c].held
        BY <1>3 DEF BatchGives, SameBatch, ThreadInv, Apart
    <2>3. \A k \in JobIds : On(k) => Who(k) # e
        BY <1>3 DEF BatchGives, ThreadInv, Apart, ChildOf, Single, JobIds
    <2>4. TaskData' /\ Alone' /\ Unused' /\ OneKind'
        BY <1>3, <2>1, <2>2 DEF BatchGives, SameCount, ThreadInv, TaskData, Alone, Unused, OneKind
    <2>5. ChildOf' /\ Locked' /\ Apart'
        BY <1>3, <2>1, <2>2, <2>3 DEF BatchGives, ThreadInv, ChildOf, Locked, Apart
    <2>. QED BY <2>4, <2>5 DEF ThreadInv
<1>4. CASE BatchEnds(b)
    <2>1. \A k \in JobIds : /\ On(k)' = On(k) /\ Who(k)' = Who(k) /\ Single(k)' = Single(k)
                            /\ task'[k] = task[k]
        BY <1>4 DEF BatchEnds, On, Who, Single
    <2>2. \A c \in JobIds : batch'[c].held = batch[c].held /\ (c # b => batch'[c].pc = batch[c].pc)
        BY <1>4 DEF BatchEnds, SameBatch
    <2>3. TaskData' /\ Alone' /\ Apart'
        BY <2>1, <2>2 DEF ThreadInv, TaskData, Alone, Apart
    <2>4. Unused' /\ OneKind' /\ ChildOf' /\ Locked'
        BY <1>4, <2>1, <2>2 DEF BatchEnds, SameCount, ThreadInv, Unused, OneKind, ChildOf, Locked
    <2>. QED BY <2>3, <2>4 DEF ThreadInv
<1>. QED BY <1>1, <1>2, <1>3, <1>4

LEMMA DiesKeeps == ASSUME ThreadInv, TypeOK', Dies PROVE ThreadInv'
<1>1. \A j \in JobIds : ~On(j)' /\ task'[j].pc = "off" /\ batch'[j].pc = "off" /\ batch'[j].held = {}
    BY NoTaskOff, NoBatchType DEF Dies, On
<1>. QED BY <1>1, NoTaskOff DEF ThreadInv, TaskData, Unused, OneKind, ChildOf, Locked, Alone, Apart, Dies

\* Every step is of one of these kinds.
StepKind ==
    \/ \E j \in JobIds : Goes(j) \/ Ends(j) \/ Begins(j)
    \/ Idles
    \/ \E b \in JobIds : BatchBegins(b) \/ BatchGoes(b) \/ (\E e \in Emails : BatchGives(b, e)) \/ BatchEnds(b)
    \/ Dies

\* A task moves to another step.
LEMMA Moved ==
    ASSUME ThreadInv, NEW j \in JobIds, NEW pc \in PCs \ {"off"}, Goto(j, pc),
           On(j), ~Single(j) => pc \in Targeted,
           pc \in Targeted => task[j].pc \in Targeted,
           pc \in Judged => task[j].pc \in Judged,
           SameBatches, SameCount, UNCHANGED lock
    PROVE  Goes(j)
<1>1. task \in [JobIds -> ATask]
    BY DEF ThreadInv, TypeOK
<1>2. task' = [task EXCEPT ![j] = [task[j] EXCEPT !.pc = pc]] /\ task[j] \in ATask
    BY <1>1 DEF Goto
<1>3. Others(j) /\ task'[j] = [task[j] EXCEPT !.pc = pc]
    BY <1>1, <1>2 DEF Others
<1>4. /\ task'[j].pc = pc /\ task'[j].row = task[j].row /\ task'[j].of = task[j].of
      /\ task'[j].target = task[j].target /\ task'[j].status = task[j].status
    BY <1>2, <1>3 DEF ATask
<1>5. task[j].pc \in Targeted => task[j].target \in Personas
    BY DEF ThreadInv, TaskData
<1>6. task[j].pc \in Judged => task[j].status \in {"ok", "partial", "failed"}
    BY DEF ThreadInv, TaskData
<1>. QED BY <1>3, <1>4, <1>5, <1>6 DEF Goes, On

\* A seeding is judged.
LEMMA GoesJudged ==
    ASSUME ThreadInv, NEW j \in JobIds, NEW st \in {"ok", "partial", "failed"}, On(j), task[j].pc \in Targeted,
           task' = [task EXCEPT ![j] = [task[j] EXCEPT !.pc = "verdict", !.status = st]],
           SameBatches, SameCount, UNCHANGED lock
    PROVE  Goes(j)
<1>1. task \in [JobIds -> ATask] /\ task[j].target \in Personas
    BY DEF ThreadInv, TypeOK, TaskData
<1>2. task'[j] = [task[j] EXCEPT !.pc = "verdict", !.status = st] /\ Others(j) /\ task[j] \in ATask
    BY <1>1 DEF Others
<1>3. /\ task'[j].pc = "verdict" /\ task'[j].row = task[j].row /\ task'[j].of = task[j].of
      /\ task'[j].target = task[j].target /\ task'[j].status = st
    <2> DEFINE new == [task[j] EXCEPT !.pc = "verdict", !.status = st]
    <2>1. /\ new.pc = "verdict" /\ new.row = task[j].row /\ new.of = task[j].of
          /\ new.target = task[j].target /\ new.status = st
        <3>1. task[j] \in ATask
            BY <1>2
        <3>. QED BY <3>1 DEF ATask
    <2> HIDE DEF new
    <2>2. task'[j] = new
        BY <1>2 DEF new
    <2>. QED BY <2>1, <2>2
<1>. QED BY <1>1, <1>2, <1>3 DEF Goes, On, Targeted, Judged

LEMMA SettledSame ==
    ASSUME ThreadInv, NEW j \in JobIds, NEW st, Settled(j, st) PROVE SameBatches
<1>1. batch \in [JobIds -> ABatch]
    BY DEF ThreadInv, TypeOK
<1> DEFINE b == task[j].of
<1>2. batch' = batch \/ batch' = [batch EXCEPT ![b] = [batch[b] EXCEPT !.seen = @ \cup {st}]]
    BY DEF Settled
<1>. QED BY <1>1, <1>2 DEF SameBatches, SameBatch, ABatch

LEMMA SameIfUnchanged ==
    /\ UNCHANGED batch => SameBatches
    /\ UNCHANGED jobs => SameCount
    /\ UNCHANGED task => \A j \in JobIds : task'[j] = task[j]
BY DEF SameBatches, SameBatch, SameCount

Seeds(j) == Wipe(j) \/ SeedBegin(j) \/ SeedSome(j) \/ SeedRows(j) \/ SeedEnd(j)

LEMMA SeedingGoes == ASSUME ThreadInv, NEW j \in JobIds, Seeds(j) PROVE Goes(j)
<1>1. SameBatches /\ SameCount /\ lock' = lock /\ On(j) /\ task[j].pc \in Targeted
    BY SameIfUnchanged DEF Seeds, Wipe, SeedBegin, SeedSome, SeedRows, SeedEnd, On, Targeted, threads
<1>2. CASE Goto(j, "seeding") \/ Goto(j, "seeded")
    BY <1>1, <1>2, Moved DEF PCs, Targeted, Judged
<1>3. ASSUME NEW st \in {"ok", "partial", "failed"}, task' = [task EXCEPT ![j].pc = "verdict", ![j].status = st]
      PROVE  Goes(j)
    <2>1. task' = [task EXCEPT ![j] = [task[j] EXCEPT !.pc = "verdict", !.status = st]]
        BY <1>3
    <2>. QED BY <1>1, <2>1, GoesJudged
<1>4. CASE UNCHANGED task
    <2>1. task'[j].pc \in Targeted => task'[j].target \in Personas
        BY <1>4 DEF ThreadInv, TaskData
    <2>2. task'[j].pc \in Judged => task'[j].status \in {"ok", "partial", "failed"}
        BY <1>4 DEF ThreadInv, TaskData
    <2>. QED BY <1>1, <1>4, <2>1, <2>2 DEF Goes, On, Others
<1>5. StatusOf(store[Who(j)]) \in {"ok", "partial", "failed"}
    BY DEF StatusOf
<1>. QED BY <1>2, <1>3, <1>4, <1>5 DEF Seeds, Wipe, SeedBegin, SeedSome, SeedRows, SeedEnd, threads

LEMMA Kinds == ASSUME ThreadInv, [Next]_vars PROVE StepKind
<1>0. /\ row \in [Rows -> ARow] /\ task \in [JobIds -> ATask] /\ batch \in [JobIds -> ABatch]
      /\ jobs \in Seq(JobStates) /\ Len(jobs) <= NJobs /\ lock \subseteq Emails
      /\ Len(jobs) \in Nat
    BY LenProperties DEF ThreadInv, TypeOK
<1>1. \A j \in JobIds : task[j].row \in Rows /\ Who(j) \in Emails
    BY <1>0, Bounds DEF ATask, Who
<1>2. ASSUME NEW r \in Rows, NEW named \in BOOLEAN, NEW skip \in BOOLEAN, Push(r, named, skip) PROVE StepKind
    <2>1. PICK n \in JobIds : n = NewJob
        BY <1>0, <1>2, JobsType DEF Push, JobStates
    <2>2. SameBatches /\ Len(jobs') = n
        BY <1>0, <1>2, <2>1, SameIfUnchanged, JobsType DEF Push, JobStates
    <2> DEFINE new == [NoTask EXCEPT !.pc = "start", !.row = r, !.named = named, !.skip = skip]
    <2>3. CASE lock' = lock \cup {EmailOf[r]} /\ task' = [task EXCEPT ![n] = new]
        <3>1. new.pc = "start" /\ new.row = r /\ new.of = 0
            BY SingleType
        <3>2. task'[n] = new /\ Others(n)
            BY <1>0, <2>1, <2>3 DEF Others
        <3>3. On(n)' /\ Who(n)' = EmailOf[r] /\ Single(n)'
            BY <3>1, <3>2 DEF On, Who, Single
        <3> HIDE DEF new
        <3>4. task'[n].pc \notin Targeted /\ task'[n].pc \notin Judged
            BY <3>1, <3>2 DEF Targeted, Judged
        <3>5. Begins(n)
            BY <1>2, <2>1, <2>2, <2>3, <3>2, <3>3, <3>4 DEF Begins, Push
        <3>. QED BY <2>1, <3>5 DEF StepKind
    <2>4. CASE lock' = lock /\ task' = task
        BY <1>0, <2>1, <2>2, <2>4 DEF StepKind, Idles, NewJob
    <2>. QED BY <1>2, <2>1, <2>3, <2>4 DEF Push
<1>3. ASSUME NEW j \in JobIds, Start(j) PROVE StepKind
    <2> DEFINE r == task[j].row
    <2>1. SameBatches /\ SameCount /\ lock' = lock
        BY <1>3, SameIfUnchanged DEF Start
    <2>2. On(j) /\ Single(j)
        BY <1>3 DEF Start, On
    <2>3. CASE Goto(j, "fail")
        BY <2>1, <2>2, <2>3, Moved DEF StepKind, PCs, Targeted, Judged
    <2>4. ASSUME NEW last \in LastSeeded(r), task' = [task EXCEPT ![j] = Routed(j, r, last)] PROVE StepKind
        <3>1. task'[j] = Routed(j, r, last) /\ Others(j)
            BY <1>0, <2>4 DEF Others
        <3>2. /\ task'[j].pc = "queued" /\ task'[j].row = r /\ task'[j].of = task[j].of
              /\ task'[j].target = row[r].folder
            BY <1>1, <3>1, RoutedType DEF ThreadInv
        <3>3. row[r].folder \in Personas
            BY <1>0, <1>1 DEF ARow
        <3>4. Goes(j)
            BY <2>1, <2>2, <3>1, <3>2, <3>3 DEF Goes, On, Targeted, Judged
        <3>. QED BY <3>4 DEF StepKind
    <2>. QED BY <1>3, <2>3, <2>4 DEF Start
<1>4. ASSUME NEW j \in JobIds, Raise(j) PROVE StepKind
    <2>1. SameBatches /\ SameCount /\ lock' = lock
        BY <1>4, SameIfUnchanged DEF Raise
    <2>2. On(j) /\ Single(j)
        BY <1>4 DEF Raise, On
    <2>3. task' = [task EXCEPT ![j] = [task[j] EXCEPT !.pc = "fail", !.named = TRUE]]
        BY <1>4 DEF Raise
    <2>4. /\ task'[j].pc = "fail" /\ task'[j].row = task[j].row /\ task'[j].of = task[j].of
          /\ Others(j)
        BY <1>0, <2>3, TaskFails DEF Others
    <2>5. Goes(j)
        BY <2>1, <2>2, <2>4 DEF Goes, On, Targeted, Judged
    <2>. QED BY <2>5 DEF StepKind
<1>5. ASSUME NEW j \in JobIds, FailMark(j) PROVE StepKind
    <2>1. SameBatches /\ SameCount /\ lock' = lock
        BY <1>0, <1>5, SameIfUnchanged, ClosedType DEF FailMark, SameCount, JobStates
    <2>2. On(j) /\ Single(j)
        BY <1>5 DEF FailMark, On, ThreadInv, ChildOf, Targeted
    <2>. QED BY <1>5, <2>1, <2>2, Moved DEF FailMark, StepKind, PCs, Targeted, Judged
<1>6. ASSUME NEW j \in JobIds, Release(j) PROVE StepKind
    <2>1. On(j) /\ Single(j)
        BY <1>6 DEF Release, On, ThreadInv, ChildOf, Targeted
    <2>2. Ends(j)
        BY <1>0, <1>6, <2>1, SameIfUnchanged DEF Release, Off, Ends, Others
    <2>. QED BY <2>2 DEF StepKind
<1>7. ASSUME NEW j \in JobIds, Seeds(j) PROVE StepKind
    BY <1>7, SeedingGoes DEF StepKind
<1>9. ASSUME NEW j \in JobIds, Verdict(j) \/ Remember(j) PROVE StepKind
    <2>1. SameBatches /\ SameCount /\ lock' = lock /\ On(j) /\ task[j].pc \in Judged /\ task[j].pc \in Targeted
        BY <1>9, SameIfUnchanged DEF Verdict, Remember, On, Targeted, Judged
    <2>2. Goto(j, "remember") \/ Goto(j, "finish")
        BY <1>9 DEF Verdict, Remember
    <2>. QED BY <2>1, <2>2, Moved DEF StepKind, PCs, Targeted, Judged
<1>10. ASSUME NEW j \in JobIds, Finish(j) \/ ChildRaises(j) PROVE StepKind
    <2>1. lock' = lock /\ On(j)
        BY <1>10 DEF Finish, ChildRaises, On
    <2>2. SameBatches
        BY <1>10, SettledSame DEF Finish, ChildRaises
    <2>3. SameCount
        <3>1. task[j].status \in JobStates \/ ChildRaises(j)
            BY <1>10 DEF Finish, ThreadInv, TaskData, Judged, JobStates
        <3>. QED BY <1>0, <1>10, <3>1, ClosedType DEF Finish, ChildRaises, SameCount, JobStates
    <2>4. CASE Single(j) /\ Goto(j, "release")
        BY <2>1, <2>2, <2>3, <2>4, Moved DEF StepKind, PCs, Targeted, Judged
    <2>5. CASE ~Single(j) /\ Off(j)
        <3>1. Ends(j)
            BY <1>0, <2>1, <2>2, <2>3, <2>5 DEF Ends, Off, Others
        <3>. QED BY <3>1 DEF StepKind
    <2>. QED BY <1>10, <2>4, <2>5 DEF Finish, ChildRaises
<1>11. ASSUME NEW skip \in BOOLEAN, NEW rows \in SUBSET Rows, PushAll(skip, rows) PROVE StepKind
    <2>1. PICK n \in JobIds : n = NewJob
        BY <1>0, <1>11, JobsType DEF PushAll, JobStates
    <2>2. Len(jobs') = n /\ \A j \in JobIds : task'[j] = task[j]
        BY <1>0, <1>11, <2>1, JobsType, SameIfUnchanged DEF PushAll, JobStates
    <2>3. CASE batch' = batch
        BY <1>0, <1>11, <2>1, <2>2, <2>3, SameIfUnchanged DEF StepKind, Idles, NewJob, PushAll
    <2>4. CASE batch' = [batch EXCEPT ![n] = [NoBatch EXCEPT !.pc = "take", !.skip = skip, !.todo = rows]]
        <3>1. batch'[n].pc = "take" /\ batch'[n].held = {} /\ \A c \in JobIds \ {n} : SameBatch(c)
            BY <1>0, <2>4 DEF SameBatch, NoBatch
        <3>2. BatchBegins(n)
            BY <1>11, <2>1, <2>2, <3>1 DEF BatchBegins, PushAll
        <3>. QED BY <2>1, <3>2 DEF StepKind
    <2>. QED BY <1>11, <2>1, <2>3, <2>4 DEF PushAll
<1>12. ASSUME NEW b \in JobIds, TakeRow(b) PROVE StepKind
    <2> DEFINE r == NextRow(b)
    <2>1. r \in Rows /\ EmailOf[r] \in Emails
        BY <1>0, <1>12, NextRowType, Bounds DEF TakeRow, ABatch, ThreadInv
    <2>2. CASE /\ batch' = [[batch EXCEPT ![b].todo = @ \ {r}] EXCEPT ![b].seen = @ \cup {"failed"}]
               /\ task' = task /\ lock' = lock
        <3>1. SameBatches
            BY <1>0, <2>2 DEF SameBatches, SameBatch, ABatch
        <3>2. \/ jobs' = jobs
              \/ Len(jobs) < NJobs /\ \E st \in {"failed", "running"} : jobs' = Append(jobs, st)
            BY <1>12 DEF TakeRow
        <3>3. Len(jobs') \in Nat /\ Len(jobs') >= Len(jobs)
            BY <1>0, <3>2, JobsType DEF JobStates
        <3>. QED BY <2>2, <3>1, <3>3 DEF StepKind, Idles
    <2>3. CASE /\ EmailOf[r] \notin lock /\ Len(jobs) < NJobs
               /\ lock' = lock \cup {EmailOf[r]} /\ jobs' = Append(jobs, "running")
               /\ \E last \in LastSeeded(r) :
                     task' = [task EXCEPT ![NewJob] =
                                 [NoTask EXCEPT !.pc = "queued", !.row = r, !.of = b,
                                     !.skip = batch[b].skip, !.target = row[r].folder,
                                     !.mode = ModeFor(batch[b].skip, last, row[r].folder)]]
               /\ batch' = [[batch EXCEPT ![b].todo = @ \ {r}] EXCEPT ![b].held = @ \cup {EmailOf[r]}]
        <3>1. PICK n \in JobIds : n = NewJob /\ Len(jobs') = n
            BY <1>0, <2>3, JobsType DEF JobStates
        <3>2. PICK last : task' = [task EXCEPT ![n] =
                                 [NoTask EXCEPT !.pc = "queued", !.row = r, !.of = b,
                                     !.skip = batch[b].skip, !.target = row[r].folder,
                                     !.mode = ModeFor(batch[b].skip, last, row[r].folder)]]
            BY <2>3, <3>1
        <3>3. task'[n].pc = "queued" /\ task'[n].row = r /\ task'[n].of = b
              /\ task'[n].target = row[r].folder /\ Others(n)
            BY <1>0, <3>1, <3>2 DEF Others, NoTask
        <3>4. /\ batch'[b].pc = "take" /\ batch[b].pc = "take"
              /\ batch'[b].held = batch[b].held \cup {EmailOf[r]}
              /\ \A c \in JobIds \ {b} : SameBatch(c)
            <4>1. batch[b].pc = "take" /\ batch[b] \in ABatch
                BY <1>0, <1>12 DEF TakeRow
            <4>2. batch' = [batch EXCEPT ![b] = [batch[b] EXCEPT !.todo = @ \ {r}, !.held = @ \cup {EmailOf[r]}]]
                <5>1. ASSUME NEW x PROVE
                          [[batch EXCEPT ![b].todo = @ \ {r}] EXCEPT ![b].held = @ \cup x]
                           = [batch EXCEPT ![b] = [batch[b] EXCEPT !.todo = @ \ {r}, !.held = @ \cup x]]
                    BY <1>0 DEF ABatch
                <5>. QED BY <2>3, <5>1
            <4> HIDE DEF r
            <4>3. batch'[b] = [batch[b] EXCEPT !.todo = @ \ {r}, !.held = @ \cup {EmailOf[r]}]
                BY <1>0, <4>2
            <4>4. batch'[b].pc = "take" /\ batch'[b].held = batch[b].held \cup {EmailOf[r]}
                BY <4>1, <4>3 DEF ABatch
            <4>5. \A c \in JobIds \ {b} : SameBatch(c)
                BY <1>0, <4>2 DEF SameBatch
            <4>. QED BY <4>1, <4>4, <4>5
        <3>5. On(n)' /\ Who(n)' = EmailOf[r] /\ row[r].folder \in Personas
            BY <1>0, <2>1, <3>3 DEF On, Who, ARow
        <3> HIDE DEF r
        <3>6. Begins(n)
            BY <2>3, <3>1, <3>3, <3>4, <3>5 DEF Begins, Targeted, Judged
        <3>. QED BY <3>1, <3>6 DEF StepKind
    <2>. QED BY <1>12, <2>2, <2>3 DEF TakeRow, NoFault
<1>13. ASSUME NEW b \in JobIds, Provision(b) \/ Provisioned(b) \/ BatchEnd(b) \/ ProvisionRaises(b) PROVE StepKind
    <2>1. PICK pc \in {"verify", "provision", "release"} : batch' = [batch EXCEPT ![b] = [batch[b] EXCEPT !.pc = pc]]
        BY <1>13 DEF Provision, Provisioned, BatchEnd, ProvisionRaises
    <2>2. /\ batch'[b].pc = pc /\ batch'[b].held = batch[b].held /\ \A c \in JobIds \ {b} : SameBatch(c)
        BY <1>0, <2>1 DEF SameBatch, ABatch
    <2>3. batch[b].pc # "off" /\ lock' = lock
        BY <1>13 DEF Provision, Provisioned, BatchEnd, ProvisionRaises
    <2>4. SameCount
        BY <1>0, <1>13, ClosedType DEF Provision, Provisioned, BatchEnd, ProvisionRaises, SameCount,
                                       JobStates, BatchStatus
    <2>5. \/ /\ \A j \in JobIds : task'[j] = task[j]
             /\ pc = "release" => Works(b) = {}
          \/ \A j \in JobIds : task'[j] = IF j \in Works(b) THEN NoTask ELSE task[j]
        <3>1. CASE Provision(b) \/ Provisioned(b)
            <4>1. batch'[b].pc \in {"verify", "provision"}
                BY <1>0, <3>1 DEF Provision, Provisioned, ABatch
            <4>. QED BY <2>2, <3>1, <4>1, SameIfUnchanged DEF Provision, Provisioned
        <3>2. CASE BatchEnd(b)
            BY <3>2, SameIfUnchanged DEF BatchEnd
        <3>3. CASE ProvisionRaises(b)
            BY <3>3 DEF ProvisionRaises
        <3>. QED BY <1>13, <3>1, <3>2, <3>3
    <2>6. BatchGoes(b)
        BY <2>2, <2>3, <2>4, <2>5 DEF BatchGoes
    <2>. QED BY <2>6 DEF StepKind
<1>14. ASSUME NEW b \in JobIds, BatchRelease(b) PROVE StepKind
    <2>1. PICK e \in batch[b].held :
              lock' = lock \ {e} /\ batch' = [batch EXCEPT ![b] = [batch[b] EXCEPT !.held = @ \ {e}]]
        BY <1>14 DEF BatchRelease
    <2>2. e \in Emails
        BY <1>0, <2>1 DEF ABatch
    <2>3. /\ batch'[b].pc = "release" /\ batch'[b].held = batch[b].held \ {e}
          /\ \A c \in JobIds \ {b} : SameBatch(c)
        BY <1>0, <1>14, <2>1 DEF BatchRelease, SameBatch, ABatch
    <2>4. BatchGives(b, e)
        BY <1>14, <2>1, <2>3, SameIfUnchanged DEF BatchGives, BatchRelease
    <2>. QED BY <2>2, <2>4 DEF StepKind
<1>15. ASSUME NEW b \in JobIds, BatchClear(b) PROVE StepKind
    <2>1. batch'[b] = NoBatch /\ \A c \in JobIds \ {b} : SameBatch(c)
        BY <1>0, <1>15 DEF BatchClear, SameBatch
    <2>2. BatchEnds(b)
        BY <1>15, <2>1, NoBatchType, SameIfUnchanged DEF BatchEnds, BatchClear
    <2>. QED BY <2>2 DEF StepKind
<1>16. ASSUME \/ \E r \in Rows : AddRow(r)
              \/ \E r \in Rows, p \in Personas : SetFolder(r, p)
              \/ UNCHANGED vars
       PROVE  StepKind
    BY <1>0, <1>16, SameIfUnchanged DEF AddRow, SetFolder, vars, threads, StepKind, Idles
<1>17. ASSUME Restart PROVE StepKind
    <2>1. DOMAIN jobs = 1..Len(jobs)
        BY <1>0, LenProperties
    <2>2. jobs' = [i \in 1..Len(jobs) |-> IF jobs[i] = "running" THEN "gone" ELSE jobs[i]]
        BY <1>17, <2>1 DEF Restart
    <2>3. SameCount
        BY <1>0, <2>2 DEF SameCount
    <2>4. Dies
        BY <1>17, <2>3 DEF Restart, Dies
    <2>. QED BY <2>4 DEF StepKind
<1>. QED BY <1>2, <1>3, <1>4, <1>5, <1>6, <1>7, <1>9, <1>10, <1>11, <1>12, <1>13, <1>14, <1>15,
            <1>16, <1>17 DEF Next, TaskStep, BatchStep, Seeds

LEMMA ThreadInit == Init => ThreadInv
<1> SUFFICES ASSUME Init PROVE ThreadInv
    OBVIOUS
<1>1. \A j \in JobIds : ~On(j) /\ task[j].pc = "off" /\ batch[j].pc = "off" /\ batch[j].held = {}
    BY NoTaskOff, NoBatchType DEF Init, On
<1>. QED BY <1>1, TypeInit, NoTaskOff
         DEF ThreadInv, TaskData, Unused, OneKind, ChildOf, Locked, Alone, Apart

LEMMA ThreadStep == ThreadInv /\ [Next]_vars => ThreadInv'
<1> SUFFICES ASSUME ThreadInv, [Next]_vars PROVE ThreadInv'
    OBVIOUS
<1>1. TypeOK' /\ StepKind
    BY TypeStep, Kinds DEF ThreadInv
<1>. QED BY <1>1, GoesKeeps, EndsKeeps, BeginsKeeps, IdlesKeeps, BatchStepKeeps, DiesKeeps DEF StepKind

\* The manifest, the locks, the jobs and the threads of the seeder's pushes always
\* have their types.
THEOREM TypeCorrect == Spec => []TypeOK
<1>1. ThreadInv => TypeOK
    BY DEF ThreadInv
<1>. QED BY ThreadInit, ThreadStep, <1>1, PTL DEF Spec

-----------------------------------------------------------------------------
(* The pushes implement AccountTurns *)

\* The user of an account, as the refinement computes it, is its one holder.
KnownHolder ==
    \A e \in Emails :
        /\ \A j \in JobIds : Holds(j, e) => Holder(e) = j
        /\ Holder(e) # 0 => Holder(e) \in JobIds /\ Holds(Holder(e), e)

LEMMA HolderKnown == ThreadInv => KnownHolder
<1> SUFFICES ASSUME ThreadInv, NEW e \in Emails
             PROVE  /\ \A j \in JobIds : Holds(j, e) => Holder(e) = j
                    /\ Holder(e) # 0 => Holder(e) \in JobIds /\ Holds(Holder(e), e)
    BY DEF KnownHolder
<1>1. \A i, j \in JobIds : Holds(i, e) /\ Holds(j, e) => i = j
    BY DEF ThreadInv, Holds, Alone, Apart, On, Single, JobIds
<1>2. CASE \E j \in JobIds : Holds(j, e)
    <2>1. Holder(e) \in JobIds /\ Holds(Holder(e), e)
        BY <1>2 DEF Holder
    <2>. QED BY <1>1, <2>1
<1>3. CASE ~\E j \in JobIds : Holds(j, e)
    BY <1>3 DEF Holder
<1>. QED BY <1>2, <1>3

\* Only a task that seeds changes an account, its own.
LEMMA ContentStep ==
    ASSUME ThreadInv, [Next]_vars
    PROVE  \/ content' = content
           \/ \E j \in JobIds, c \in SUBSET Personas : Goes(j) /\ content' = [content EXCEPT ![Who(j)] = c]
<1>1. ASSUME NEW j \in JobIds, Seeds(j), content' # content
      PROVE  Goes(j) /\ \E c \in SUBSET Personas : content' = [content EXCEPT ![Who(j)] = c]
    <2>1. Goes(j) /\ Who(j) \in Emails
        BY <1>1, SeedingGoes, WhoType DEF ThreadInv
    <2>2. PICK c : content' = [content EXCEPT ![Who(j)] = c]
        BY <1>1 DEF Seeds, Wipe, SeedBegin, SeedSome, SeedRows, SeedEnd
    <2>3. content' \in [Emails -> SUBSET Personas] /\ content \in [Emails -> SUBSET Personas]
        BY <1>1, TypeStep DEF ThreadInv, TypeOK
    <2>4. content'[Who(j)] = c
        BY <2>1, <2>2, <2>3
    <2>5. c \in SUBSET Personas
        BY <2>1, <2>3, <2>4
    <2>. QED BY <2>1, <2>2, <2>5
<1>2. ASSUME NEW j \in JobIds, TaskStep(j) \/ Raise(j) \/ ChildRaises(j), ~Seeds(j) PROVE content' = content
    BY <1>2 DEF TaskStep, Seeds, Start, FailMark, Release, Verdict, Remember, Finish, Raise, ChildRaises
<1>3. ASSUME NEW b \in JobIds, BatchStep(b) \/ ProvisionRaises(b) PROVE content' = content
    BY <1>3 DEF BatchStep, TakeRow, Provision, Provisioned, BatchEnd, BatchRelease, BatchClear, ProvisionRaises
<1>4. ASSUME \/ \E r \in Rows, named, skip \in BOOLEAN : Push(r, named, skip)
             \/ \E skip \in BOOLEAN, rows \in SUBSET Rows : PushAll(skip, rows)
             \/ \E r \in Rows : AddRow(r)
             \/ \E r \in Rows, p \in Personas : SetFolder(r, p)
             \/ Restart \/ UNCHANGED vars
      PROVE  content' = content
    BY <1>4 DEF Push, PushAll, AddRow, SetFolder, Restart, vars
<1>. QED BY <1>1, <1>2, <1>3, <1>4 DEF Next

LEMMA TurnsStep ==
    ThreadInv /\ KnownHolder /\ KnownHolder' /\ [Next]_vars
        => [Turns!TurnsNext]_<<[e \in Emails |-> Holder(e)], content>>
<1> DEFINE U == [e \in Emails |-> Holder(e)]
<1> SUFFICES ASSUME ThreadInv, KnownHolder, KnownHolder', [Next]_vars
             PROVE  Turns!TurnsNext \/ (U' = U /\ content' = content)
    OBVIOUS
<1>0. 0 \notin JobIds
    BY DEF JobIds
<1>1. U = [e \in Emails |-> Holder(e)] /\ U' = [e \in Emails |-> Holder(e)']
    OBVIOUS
<1>2. ASSUME NEW e \in Emails, \A j \in JobIds : Holds(j, e)' <=> Holds(j, e)
      PROVE  Holder(e)' = Holder(e)
    BY <1>0, <1>2 DEF KnownHolder
<1>3. ASSUME NEW e \in Emails, \A j \in JobIds : ~Holds(j, e)' PROVE Holder(e)' = 0
    BY <1>3 DEF KnownHolder
<1>4. ASSUME NEW j \in JobIds, Goes(j) PROVE U' = U /\ U[Who(j)] # 0 /\ Who(j) \in Emails
    <2>1. \A e \in Emails, i \in JobIds : Holds(i, e)' <=> Holds(i, e)
        BY <1>4 DEF Goes, Others, SameBatches, SameBatch, Holds, On, Who, Single
    <2>2. Who(j) \in Emails /\ \E i \in JobIds : Holds(i, Who(j))
        BY <1>4, WhoType DEF Goes, ThreadInv, ChildOf, Holds, On
    <2>. QED BY <1>0, <1>1, <1>2, <2>1, <2>2 DEF KnownHolder
<1>5. ASSUME NEW A \in SUBSET Emails, content' = content,
             \A e \in A : (\E i \in JobIds : Holds(i, e)) /\ (\A i \in JobIds : ~Holds(i, e)'),
             \A e \in Emails \ A, i \in JobIds : Holds(i, e)' <=> Holds(i, e)
      PROVE  Turns!TurnsNext
    <2>1. \A e \in A : U[e] # 0
        BY <1>0, <1>1, <1>5 DEF KnownHolder
    <2>2. U' = [e \in Emails |-> IF e \in A THEN 0 ELSE U[e]]
        BY <1>1, <1>2, <1>3, <1>5
    <2>3. Turns!GiveBack(A)
        BY <1>5, <2>1, <2>2 DEF Turns!GiveBack
    <2>. QED BY <2>3 DEF Turns!TurnsNext
<1>6. ASSUME NEW e \in Emails, NEW h \in JobIds, content' = content,
             \A i \in JobIds : ~Holds(i, e), Holds(h, e)',
             \A d \in Emails \ {e}, i \in JobIds : Holds(i, d)' <=> Holds(i, d)
      PROVE  Turns!TurnsNext
    <2>1. U[e] = 0
        BY <1>1, <1>6 DEF KnownHolder
    <2>2. U' = [U EXCEPT ![e] = h]
        BY <1>1, <1>2, <1>6 DEF KnownHolder
    <2> HIDE DEF U
    <2>3. Turns!Take(h, e)
        BY <1>6, <2>1, <2>2 DEF Turns!Take, U
    <2>. QED BY <2>3 DEF Turns!TurnsNext
<1>7. ASSUME NEW j \in JobIds, NEW c \in SUBSET Personas, Goes(j), content' = [content EXCEPT ![Who(j)] = c]
      PROVE  Turns!TurnsNext
    <2>1. Turns!Work(Who(j))
        BY <1>4, <1>7 DEF Turns!Work
    <2>. QED BY <1>4, <1>7, <2>1 DEF Turns!TurnsNext
<1>8. ASSUME content' = content, StepKind PROVE Turns!TurnsNext \/ U' = U
    <2>1. CASE \E j \in JobIds : Goes(j)
        BY <1>4, <2>1
    <2>2. ASSUME NEW j \in JobIds, Ends(j) PROVE Turns!TurnsNext \/ U' = U
        <3>1. Who(j) \in Emails /\ ~On(j)'
            BY <2>2, WhoType, NoTaskOff DEF ThreadInv, Ends, On
        <3>2. \A i \in JobIds \ {j}, e \in Emails : Holds(i, e)' <=> Holds(i, e)
            BY <2>2 DEF Ends, Others, SameBatches, SameBatch, Holds, On, Who, Single
        <3>3. \A e \in Emails : Holds(j, e)' <=> e \in batch[j].held
            BY <2>2, <3>1 DEF Ends, SameBatches, SameBatch, Holds, On
        <3>4. CASE ~Single(j)
            <4>1. \A e \in Emails : Holds(j, e) <=> e \in batch[j].held
                BY <3>4 DEF Holds
            <4>. QED BY <1>1, <1>2, <3>2, <3>3, <4>1
        <3>5. CASE Single(j)
            <4>1. PICK e \in Emails : e = Who(j)
                BY <3>1
            <4>2. Holds(j, e) /\ \A i \in JobIds : e \notin batch[i].held
                BY <2>2, <3>5, <4>1 DEF Ends, Holds, On, ThreadInv, Apart, Single, JobIds
            <4>3. \A i \in JobIds : Holds(i, e) => i = j
                BY <2>2, <4>1, <4>2 DEF Holds, Ends, ThreadInv, Alone, On
            <4>4. \A i \in JobIds : ~Holds(i, e)'
                BY <3>2, <3>3, <4>2, <4>3
            <4>5. \A d \in Emails \ {e}, i \in JobIds : Holds(i, d)' <=> Holds(i, d)
                BY <3>2, <3>3, <3>5, <4>1 DEF Holds
            <4> DEFINE A == {e}
            <4>6. /\ A \in SUBSET Emails
                  /\ \A d \in A : (\E i \in JobIds : Holds(i, d)) /\ (\A i \in JobIds : ~Holds(i, d)')
                  /\ \A d \in Emails \ A, i \in JobIds : Holds(i, d)' <=> Holds(i, d)
                BY <4>2, <4>4, <4>5
            <4> HIDE DEF A
            <4>. QED BY <1>5, <1>8, <4>6
        <3>. QED BY <3>4, <3>5
    <2>3. ASSUME NEW j \in JobIds, Begins(j) PROVE Turns!TurnsNext
        <3>1. PICK e \in Emails : e = Who(j)'
            <4>1. TypeOK'
                BY TypeStep DEF ThreadInv
            <4>. QED BY <4>1, Bounds DEF TypeOK, ATask, Who
        <3>2. /\ e \notin lock /\ On(j)'
              /\ \A i \in JobIds \ {j} : task'[i] = task[i]
              /\ ~On(j) /\ batch[j].held = {}
            BY <2>3, <3>1, LenProperties DEF Begins, Others, ThreadInv, TypeOK, Unused, Locked, NewJob
        <3>3. \A i \in JobIds : ~Holds(i, e)
            BY <3>2 DEF Holds, ThreadInv, Locked, On
        <3>4. CASE Single(j)' /\ SameBatches
            <4>1. Holds(j, e)' /\ \A d \in Emails \ {e}, i \in JobIds : Holds(i, d)' <=> Holds(i, d)
                BY <3>1, <3>2, <3>4 DEF SameBatches, SameBatch, Holds, On, Who, Single
            <4>. QED BY <1>6, <1>8, <3>3, <4>1
        <3>5. ASSUME NEW b \in JobIds, task'[j].of = b, batch'[b].held = batch[b].held \cup {e},
                     \A c \in JobIds \ {b} : SameBatch(c)
              PROVE  Turns!TurnsNext
            <4>1. Holds(b, e)' /\ \A d \in Emails \ {e}, i \in JobIds : Holds(i, d)' <=> Holds(i, d)
                BY <1>0, <3>1, <3>2, <3>5 DEF SameBatch, Holds, On, Who, Single
            <4>. QED BY <1>6, <1>8, <3>3, <4>1
        <3>. QED BY <2>3, <3>1, <3>4, <3>5 DEF Begins
    <2>4. CASE Idles \/ \E b \in JobIds : BatchBegins(b) \/ BatchGoes(b) \/ BatchEnds(b)
        <3>1. \A b \in JobIds : batch'[b].held = batch[b].held
            <4>1. ASSUME NEW b \in JobIds, BatchBegins(b) PROVE batch[b].held = {}
                BY <4>1, LenProperties DEF BatchBegins, ThreadInv, TypeOK, Unused, Locked, NewJob
            <4>2. CASE Idles
                BY <4>2 DEF Idles, SameBatches, SameBatch
            <4>3. ASSUME NEW b \in JobIds, BatchBegins(b) \/ BatchGoes(b) \/ BatchEnds(b)
                  PROVE  \A c \in JobIds : batch'[c].held = batch[c].held
                BY <4>1, <4>3 DEF BatchBegins, BatchGoes, BatchEnds, SameBatch
            <4>. QED BY <2>4, <4>2, <4>3
        <3>2. \A j \in JobIds : task'[j] = task[j] \/ (~Single(j) /\ ~On(j)')
            BY <2>4, NoTaskOff DEF Idles, BatchBegins, BatchGoes, BatchEnds, Works, Single, On, JobIds
        <3>3. \A e \in Emails, i \in JobIds : Holds(i, e)' <=> Holds(i, e)
            BY <3>1, <3>2 DEF Holds, On, Who, Single
        <3>. QED BY <1>1, <1>2, <3>3
    <2>5. ASSUME NEW b \in JobIds, NEW e \in Emails, BatchGives(b, e) PROVE Turns!TurnsNext
        <3>1. \A j \in JobIds : On(j) /\ Single(j) => Who(j) # e
            BY <2>5 DEF BatchGives, ThreadInv, Apart, Single, JobIds
        <3>2. \A c \in JobIds \ {b} : e \notin batch[c].held
            BY <2>5 DEF BatchGives, ThreadInv, Apart
        <3>3. Holds(b, e) /\ \A i \in JobIds : ~Holds(i, e)'
            BY <2>5, <3>1, <3>2 DEF BatchGives, SameBatch, Holds, On, Who, Single
        <3>4. \A d \in Emails \ {e}, i \in JobIds : Holds(i, d)' <=> Holds(i, d)
            BY <2>5 DEF BatchGives, SameBatch, Holds, On, Who, Single
        <3>. QED BY <1>5, <1>8, <3>3, <3>4
    <2>6. CASE Dies
        <3> DEFINE A == {e \in Emails : \E i \in JobIds : Holds(i, e)}
        <3>1. \A e \in Emails, i \in JobIds : ~Holds(i, e)'
            BY <2>6, NoTaskOff, NoBatchType DEF Dies, Holds, On
        <3>2. /\ A \in SUBSET Emails
              /\ \A e \in A : (\E i \in JobIds : Holds(i, e)) /\ (\A i \in JobIds : ~Holds(i, e)')
              /\ \A e \in Emails \ A, i \in JobIds : Holds(i, e)' <=> Holds(i, e)
            BY <3>1
        <3> HIDE DEF A
        <3>. QED BY <1>5, <1>8, <3>2
    <2>. QED BY <1>8, <2>1, <2>2, <2>3, <2>4, <2>5, <2>6 DEF StepKind
<1>. QED BY <1>7, <1>8, ContentStep, Kinds

\* The pushes of an account take turns, as AccountTurns says: one holder at a time,
\* by its single push or its push-all, and an account nobody holds is not touched.
THEOREM PushesImplementTurns == Spec => AccountsTakeTurns
<1>1. Init => Turns!TurnsInit
    <2> SUFFICES ASSUME Init PROVE Turns!TurnsInit
        OBVIOUS
    <2>1. \A e \in Emails, j \in JobIds : ~Holds(j, e)
        BY NoTaskOff, NoBatchType DEF Init, Holds
    <2>2. [e \in Emails |-> Holder(e)] = [e \in Emails |-> 0]
        BY <2>1 DEF Holder
    <2>3. content \in [Emails -> SUBSET Personas]
        BY TypeInit DEF TypeOK
    <2>. QED BY <2>2, <2>3 DEF Turns!TurnsInit
<1>. QED BY <1>1, ThreadInit, ThreadStep, HolderKnown, TurnsStep, PTL
         DEF Spec, AccountsTakeTurns, Turns!TurnsSpec

-----------------------------------------------------------------------------
(* What an account holds, and what is remembered of it *)

\* A task at work on what its account holds; before, and after, the account is at
\* rest: it holds what is remembered of it, Supabase remembers the same or nothing, a
\* row remembers nothing the manifest does not know, no row of the store is left to
\* do, and there is none if nothing is remembered.
Busy == {"seeding", "seeded", "verdict", "remember", "finish"}
WorkedOn(e) == \E j \in JobIds : task[j].pc \in Busy /\ Who(j) = e
AtRest(e) ==
    /\ content[e] = {Remembered(e)} \ {NoPersona}
    /\ remote[e] \in {NoPersona, Remembered(e)}
    /\ local[e] = NoPersona => \A r \in Rows : EmailOf[r] = e => row[r].last = NoPersona
    /\ store[e].open = {} /\ store[e].left = {}
    /\ Remembered(e) = NoPersona => store[e].done = {} /\ store[e].lost = {}

\* An account being seeded with p holds it, or nothing: then a row of p is to come, or
\* the push cannot end well.
Filling(c, s, p) ==
    /\ s.open \subseteq {p}
    /\ \/ c = {p}
       \/ c = {} /\ s.done = {} /\ (p \in s.open \/ s.left \cup s.lost # {})
Full(c, s, p) == c = {p} /\ s.open = {} /\ s.left = {}

\* The mode of a queued task fits what the account holds.
ModeFits(j) ==
    task[j].pc = "queued" /\ ~task[j].skip /\ task[j].mode # "reseed" /\ Who(j) \notin tainted
        => content[Who(j)] \subseteq {task[j].target}

\* A task at work gives, or has given, its account the folder it is to have.
Fits(pc, e, p, status) ==
    /\ pc \in {"seeding", "seeded"} => Filling(content[e], store[e], p)
    /\ pc = "seeded" => store[e].open = {}
    /\ pc \in Judged => Full(content[e], store[e], p)
    /\ pc = "verdict" => status # "failed"
    /\ pc = "finish" => local[e] = p
WorkFits(j) ==
    task[j].pc \in Busy /\ Who(j) \notin tainted => Fits(task[j].pc, Who(j), task[j].target, task[j].status)

PureInv ==
    /\ \A e \in Emails : e \notin tainted /\ ~WorkedOn(e) => AtRest(e)
    /\ \A e \in Emails \ Recorded : remote[e] = NoPersona
    /\ \A j \in JobIds : ModeFits(j) /\ WorkFits(j)

\* A step at which no account and no memory of one changes, and which leaves the
\* accounts worked on by tasks that end in doubt.
Quiet ==
    /\ UNCHANGED <<content, local, remote>> /\ tainted \subseteq tainted'
    /\ \A e \in Emails \ tainted' : store'[e] = store[e]
    /\ \A r \in Rows : row'[r].last \in {row[r].last, NoPersona}
    /\ \A j \in JobIds :
          \/ task'[j] = task[j]
          \/ /\ task'[j].pc \notin Busy
             /\ task[j].pc \in Busy => Who(j) \in tainted'
             /\ task'[j].pc = "queued" => ModeFits(j)'

LEMMA QuietKeeps == ASSUME ThreadInv, ThreadInv', PureInv, Quiet PROVE PureInv'
<1>1. \A e \in Emails : WorkedOn(e)' => WorkedOn(e)
    BY DEF Quiet, WorkedOn, Who
<1>2. \A e \in Emails : e \notin tainted' /\ WorkedOn(e) => WorkedOn(e)'
    BY DEF Quiet, WorkedOn, Who
<1>3. ASSUME NEW e \in Emails, e \notin tainted', ~WorkedOn(e)' PROVE AtRest(e)'
    <2>1. AtRest(e)
        BY <1>2, <1>3 DEF Quiet, PureInv
    <2>2. store'[e] = store[e]
        BY <1>3 DEF Quiet
    <2>. QED BY <2>1, <2>2 DEF Quiet, AtRest, Remembered
<1>4. ASSUME NEW j \in JobIds PROVE ModeFits(j)' /\ WorkFits(j)'
    <2>1. CASE task'[j] = task[j]
        <3>1. ModeFits(j) /\ WorkFits(j)
            BY DEF PureInv
        <3>2. ModeFits(j)'
            BY <2>1, <3>1 DEF Quiet, ModeFits, Who
        <3>3. WorkFits(j)'
            <4> SUFFICES ASSUME task[j].pc \in Busy, Who(j) \notin tainted'
                         PROVE  Fits(task[j].pc, Who(j), task[j].target, task[j].status)'
                BY <2>1 DEF WorkFits, Who
            <4>1. Fits(task[j].pc, Who(j), task[j].target, task[j].status)
                BY <3>1 DEF Quiet, WorkFits
            <4>2. Who(j)' = Who(j) /\ store'[Who(j)] = store[Who(j)]
                BY <2>1, WhoType DEF Quiet, Who, ThreadInv
            <4>. QED BY <2>1, <4>1, <4>2 DEF Quiet, Fits
        <3>. QED BY <3>2, <3>3
    <2>2. CASE task'[j].pc \notin Busy /\ (task'[j].pc = "queued" => ModeFits(j)')
        BY <2>2 DEF ModeFits, WorkFits
    <2>. QED BY <2>1, <2>2 DEF Quiet
<1>5. \A e \in Emails \ Recorded : remote'[e] = NoPersona
    BY DEF Quiet, PureInv
<1>. QED BY <1>3, <1>4, <1>5 DEF PureInv

\* decide_provision_mode is right about an account at rest, whatever row and
\* whichever memory it asks, if Supabase answers.
LEMMA ModeIsRight ==
    ASSUME ThreadInv, NEW r \in Rows, AtRest(EmailOf[r]), NEW last \in LastSeeded(r), ~Missed(r, last),
           NEW p \in Personas, NEW skip, ~skip, ModeFor(skip, last, p) # "reseed"
    PROVE  content[EmailOf[r]] \subseteq {p}
<1> DEFINE e == EmailOf[r]
<1>1. last = NoPersona \/ last = p
    BY DEF ModeFor
<1>2. CASE local[e] = NoPersona
    <2>1. content[e] = {remote[e]} \ {NoPersona} /\ (last = remote[e] \/ remote[e] = NoPersona)
        BY <1>2 DEF AtRest, Remembered, Missed
    <2>. QED BY <1>1, <2>1
<1>3. CASE local[e] # NoPersona
    <2>1. last = local[e]
        BY <1>3 DEF LastSeeded, Noted, AtRest, Remembered
    <2>. QED BY <1>1, <1>3, <2>1 DEF AtRest, Remembered
<1>. QED BY <1>2, <1>3

\* A push that ends before it seeds leaves the rows of its account as they are.
LEMMA NothingDropped == ASSUME ThreadInv, NEW e \in Emails, AtRest(e) PROVE Dropped(store[e]) = store[e]
<1>1. store[e] \in Rowset /\ store[e].open = {}
    BY DEF ThreadInv, TypeOK, AtRest
<1>. QED BY <1>1 DEF Dropped, Rowset

\* An account is not worked on when its only task is not at work, or when its lock
\* is free.
LEMMA NotWorkedOn ==
    ASSUME ThreadInv, NEW e \in Emails,
           e \notin lock \/ \E j \in JobIds : On(j) /\ Who(j) = e /\ task[j].pc \notin Busy
    PROVE  ~WorkedOn(e)
BY DEF ThreadInv, Locked, Alone, WorkedOn, On, Busy

Settling(j) == Seeds(j) \/ Verdict(j) \/ Remember(j) \/ Finish(j)

LEMMA QuietStep ==
    ASSUME ThreadInv, PureInv, [Next]_vars, \A j \in JobIds : ~Settling(j)
    PROVE  Quiet
<1>0. /\ row \in [Rows -> ARow] /\ task \in [JobIds -> ATask] /\ batch \in [JobIds -> ABatch]
      /\ jobs \in Seq(JobStates) /\ Len(jobs) <= NJobs /\ lock \subseteq Emails
      /\ Len(jobs) \in Nat /\ tainted \subseteq Emails /\ store \in [Emails -> Rowset]
    BY LenProperties DEF ThreadInv, TypeOK
<1>1. \A j \in JobIds : task[j].row \in Rows /\ Who(j) \in Emails
    BY <1>0, Bounds DEF ATask, Who
<1> DEFINE SameRows == \A r \in Rows : row'[r].last \in {row[r].last, NoPersona}
<1>2. ASSUME NEW r \in Rows, NEW x \in ARow, x.last \in {row[r].last, NoPersona},
             row' = row \/ row' = [row EXCEPT ![r] = x]
      PROVE  SameRows
    BY <1>0, <1>2
<1>3. ASSUME NEW r \in Rows, NEW named \in BOOLEAN, NEW skip \in BOOLEAN, Push(r, named, skip) PROVE Quiet
    <2>1. PICK n \in JobIds : n = NewJob
        BY <1>0, <1>3, JobsType DEF Push, JobStates
    <2> DEFINE x == [row[r] EXCEPT !.state = "running", !.job = n, !.last = NoPersona]
    <2>2. x \in ARow /\ x.last = NoPersona
        BY <1>0, <2>1, Bounds DEF ARow, States
    <2>3. SameRows
        <3>1. row' = [row EXCEPT ![r] = x]
            BY <1>3, <2>1 DEF Push
        <3> HIDE DEF x, SameRows
        <3>. QED BY <1>2, <2>2, <3>1
    <2> DEFINE new == [NoTask EXCEPT !.pc = "start", !.row = r, !.named = named, !.skip = skip]
    <2>4. task' = task \/ task' = [task EXCEPT ![n] = new]
        BY <1>3, <2>1 DEF Push
    <2>5. new.pc = "start"
        BY SingleType
    <2>6. task[n].pc = "off"
        BY <1>0, <2>1 DEF ThreadInv, Unused, On, NewJob
    <2> HIDE DEF new
    <2>7. \A j \in JobIds : task'[j] = task[j] \/ (j = n /\ task'[j].pc = "start")
        BY <1>0, <2>4, <2>5
    <2>. QED BY <1>3, <2>3, <2>6, <2>7 DEF Push, Quiet, Busy
<1>4. ASSUME NEW j \in JobIds, Start(j) PROVE Quiet
    <2> DEFINE r == task[j].row
    <2>1. SameRows
        <3>1. row' = row \/ row' = [row EXCEPT ![r] = [row[r] EXCEPT !.state = "running", !.job = j]]
            BY <1>4 DEF Start, Running
        <3>2. row[r] \in ARow /\ j \in 0..NJobs
            BY <1>0, <1>1, Bounds
        <3> DEFINE x == [row[r] EXCEPT !.state = "running", !.job = j]
        <3>3. x \in ARow /\ x.last = row[r].last
            BY <3>2, RowRuns DEF ARow
        <3> HIDE DEF x, SameRows
        <3>4. row' = row \/ row' = [row EXCEPT ![r] = x]
            BY <3>1 DEF x
        <3>. QED BY <1>1, <1>2, <3>3, <3>4
    <2>2. task[j].pc \notin Busy /\ On(j)
        BY <1>4 DEF Start, Busy, On
    <2>3. AtRest(Who(j)) \/ Who(j) \in tainted
        BY <1>1, <2>2, NotWorkedOn DEF PureInv
    <2>4. ASSUME NEW last \in LastSeeded(r), task' = [task EXCEPT ![j] = Routed(j, r, last)], Asked(r, last)
          PROVE  task'[j].pc \notin Busy /\ ModeFits(j)' /\ Others(j)
        <3>1. task'[j] = Routed(j, r, last) /\ Others(j)
            BY <1>0, <2>4 DEF Others
        <3>2. /\ task'[j].pc = "queued" /\ task'[j].row = r
              /\ task'[j].target = row[r].folder /\ row[r].folder \in Personas
              /\ task'[j].skip = task[j].skip
              /\ task'[j].mode = ModeFor(task[j].skip, last, row[r].folder)
            BY <1>0, <1>1, <3>1, RoutedType DEF ThreadInv, ARow
        <3>3. Who(j)' = EmailOf[r] /\ Who(j) = EmailOf[r]
            BY <3>2 DEF Who
        <3>4. content' = content /\ (EmailOf[r] \notin tainted' => EmailOf[r] \notin tainted /\ ~Missed(r, last))
            BY <1>4, <2>4 DEF Start, Asked, Taint
        <3>5. ASSUME ~task[j].skip, ModeFor(task[j].skip, last, row[r].folder) # "reseed", EmailOf[r] \notin tainted'
              PROVE  content[EmailOf[r]] \subseteq {row[r].folder}
            BY <1>1, <2>3, <3>2, <3>3, <3>4, <3>5, ModeIsRight
        <3>6. ModeFits(j)'
            BY <3>2, <3>3, <3>4, <3>5 DEF ModeFits
        <3>. QED BY <3>1, <3>2, <3>6 DEF Busy
    <2>5. ASSUME Goto(j, "fail") PROVE task'[j].pc = "fail" /\ Others(j)
        BY <1>0, <2>5, TaskMoves DEF Goto, Others, PCs
    <2>6. \/ Goto(j, "fail") 
          \/ \E last \in LastSeeded(r) : task' = [task EXCEPT ![j] = Routed(j, r, last)] /\ Asked(r, last)
        BY <1>4 DEF Start
    <2>7. Others(j) /\ task'[j].pc \notin Busy /\ (task'[j].pc = "queued" => ModeFits(j)')
        BY <2>4, <2>5, <2>6 DEF Busy
    <2>8. tainted \subseteq tainted'
        BY <1>4 DEF Start, Asked, Taint
    <2>. QED BY <1>4, <2>1, <2>2, <2>7, <2>8 DEF Start, Quiet, Others
<1>5. ASSUME NEW j \in JobIds, Raise(j) PROVE Quiet
    <2>1. task' = [task EXCEPT ![j] = [task[j] EXCEPT !.pc = "fail", !.named = TRUE]]
        BY <1>5 DEF Raise
    <2>2. task'[j].pc = "fail" /\ Others(j)
        BY <1>0, <2>1, TaskFails DEF Others
    <2>3. task[j].pc \in Busy => Who(j) \in tainted'
        BY <1>5 DEF Raise, Taint, Busy
    <2>4. tainted \subseteq tainted' /\ row' = row
        BY <1>5 DEF Raise, Taint, manifest
    <2>5. ASSUME NEW e \in Emails, e \notin tainted' PROVE store'[e] = store[e]
        <3>1. CASE e = Who(j)
            <4>1. task[j].pc \notin Busy /\ On(j)
                BY <1>5, <2>3, <2>5, <3>1 DEF Raise, On
            <4>2. AtRest(e)
                BY <2>4, <2>5, <3>1, <4>1, NotWorkedOn DEF PureInv
            <4>. QED BY <1>0, <1>5, <3>1, <4>2, NothingDropped DEF Raise
        <3>2. CASE e # Who(j)
            BY <1>0, <1>5, <3>2 DEF Raise
        <3>. QED BY <3>1, <3>2
    <2>. QED BY <1>5, <2>2, <2>3, <2>4, <2>5 DEF Raise, Quiet, Others, Busy, manifest
<1>6. ASSUME NEW j \in JobIds, FailMark(j) PROVE Quiet
    <2> DEFINE r == task[j].row
               x == IF OwnsJob(j) THEN [row[r] EXCEPT !.state = "failed"] ELSE row[r]
    <2>1. x \in ARow /\ x.last = row[r].last
        BY <1>0, <1>1, RowFails DEF ARow
    <2>2. row' = row \/ row' = [row EXCEPT ![r] = x]
        BY <1>6 DEF FailMark, Failed, UpdateAccount
    <2>3. SameRows
        <3> HIDE DEF x, SameRows
        <3>. QED BY <1>1, <1>2, <2>1, <2>2
    <2>4. task'[j].pc = "release" /\ Others(j)
        BY <1>0, <1>6, TaskMoves DEF FailMark, Goto, Others, PCs
    <2>. QED BY <1>6, <2>3, <2>4 DEF FailMark, Quiet, Others, Busy
<1>7. ASSUME NEW j \in JobIds, Release(j) \/ ChildRaises(j) PROVE Quiet
    <2>1. task'[j].pc = "off" /\ Others(j)
        BY <1>0, <1>7, NoTaskOff DEF Release, ChildRaises, Off, Others
    <2>2. task[j].pc \in Busy => Who(j) \in tainted'
        BY <1>7 DEF Release, ChildRaises, Taint, Busy
    <2>3. tainted \subseteq tainted' /\ row' = row
        BY <1>7 DEF Release, ChildRaises, Taint, manifest
    <2>. QED BY <1>7, <2>1, <2>2, <2>3 DEF Release, ChildRaises, Quiet, Others, Busy, manifest
<1>8. ASSUME NEW b \in JobIds, TakeRow(b) PROVE Quiet
    <2> DEFINE r == NextRow(b)
    <2>1. r \in Rows /\ EmailOf[r] \in Emails
        BY <1>0, <1>8, NextRowType, Bounds DEF TakeRow, ABatch, ThreadInv
    <2>4. tainted \subseteq tainted'
        BY <1>8 DEF TakeRow, Asked, Taint
    <2>2. CASE row' = row /\ task' = task
        BY <1>8, <2>2, <2>4 DEF TakeRow, Quiet
    <2>3. CASE /\ EmailOf[r] \notin lock /\ Len(jobs) < NJobs
               /\ \E last \in LastSeeded(r) :
                     /\ task' = [task EXCEPT ![NewJob] =
                                 [NoTask EXCEPT !.pc = "queued", !.row = r, !.of = b,
                                     !.skip = batch[b].skip, !.target = row[r].folder,
                                     !.mode = ModeFor(batch[b].skip, last, row[r].folder)]]
                     /\ Asked(r, last)
               /\ row' = Running(r, NewJob)
        <3>1. PICK n \in JobIds : n = NewJob
            BY <1>0, <2>3, JobsType DEF JobStates
        <3>2. PICK last \in LastSeeded(r) :
                  /\ task' = [task EXCEPT ![n] =
                                 [NoTask EXCEPT !.pc = "queued", !.row = r, !.of = b,
                                     !.skip = batch[b].skip, !.target = row[r].folder,
                                     !.mode = ModeFor(batch[b].skip, last, row[r].folder)]]
                  /\ Asked(r, last)
            BY <2>3, <3>1
        <3>3. /\ task'[n].pc = "queued" /\ task'[n].row = r /\ task'[n].skip = batch[b].skip
              /\ task'[n].target = row[r].folder /\ Others(n)
              /\ task'[n].mode = ModeFor(batch[b].skip, last, row[r].folder)
            BY <1>0, <3>1, <3>2 DEF Others, NoTask
        <3>4. /\ row[r].folder \in Personas /\ content' = content
              /\ EmailOf[r] \notin tainted' => EmailOf[r] \notin tainted /\ ~Missed(r, last)
            BY <1>0, <1>8, <2>1, <3>2 DEF ARow, TakeRow, Asked, Taint
        <3>5. Who(n)' = EmailOf[r]
            BY <3>3 DEF Who
        <3>6. AtRest(EmailOf[r]) \/ EmailOf[r] \in tainted
            BY <2>1, <2>3, NotWorkedOn DEF PureInv
        <3>7. ASSUME ~batch[b].skip, ModeFor(batch[b].skip, last, row[r].folder) # "reseed", EmailOf[r] \notin tainted'
              PROVE  content[EmailOf[r]] \subseteq {row[r].folder}
            BY <2>1, <3>4, <3>6, <3>7, ModeIsRight
        <3>8. ModeFits(n)'
            BY <3>3, <3>4, <3>5, <3>7 DEF ModeFits
        <3>9. task[n].pc = "off"
            BY <1>0, <3>1 DEF ThreadInv, Unused, On, NewJob
        <3>10. SameRows
            <4> DEFINE x == [row[r] EXCEPT !.state = "running", !.job = n]
            <4>1. x \in ARow /\ x.last = row[r].last
                BY <1>0, <2>1, <3>1, RowRuns, Bounds DEF ARow
            <4>2. row' = [row EXCEPT ![r] = x]
                BY <2>3, <3>1 DEF Running
            <4> HIDE DEF x, r, SameRows
            <4>. QED BY <1>2, <2>1, <4>1, <4>2
        <3>. QED BY <1>8, <2>4, <3>3, <3>8, <3>9, <3>10 DEF TakeRow, Quiet, Others, Busy
    <2>. QED BY <1>8, <2>2, <2>3 DEF TakeRow
<1>9. ASSUME NEW b \in JobIds, Provision(b) \/ Provisioned(b) \/ BatchEnd(b) \/ BatchRelease(b) \/ BatchClear(b)
      PROVE  Quiet
    BY <1>9 DEF Provision, Provisioned, BatchEnd, BatchRelease, BatchClear, Quiet, manifest
<1>10. ASSUME NEW b \in JobIds, ProvisionRaises(b) PROVE Quiet
    <2>1. \A j \in JobIds : task'[j] = task[j] \/ (task'[j] = NoTask /\ task[j].pc = "queued")
        BY <1>10 DEF ProvisionRaises, Works
    <2>. QED BY <1>10, <2>1, NoTaskOff DEF ProvisionRaises, Quiet, manifest, Busy
<1>11. ASSUME \/ \E skip \in BOOLEAN, rows \in SUBSET Rows : PushAll(skip, rows)
              \/ \E r \in Rows : AddRow(r)
              \/ UNCHANGED vars
      PROVE  Quiet
    BY <1>11 DEF PushAll, AddRow, vars, threads, manifest, Quiet
<1>12. ASSUME NEW r \in Rows, NEW p \in Personas, SetFolder(r, p) PROVE Quiet
    <2> DEFINE x == [row[r] EXCEPT !.folder = p]
    <2>1. x \in ARow /\ x.last = row[r].last
        BY <1>0, RowMoves DEF ARow
    <2>2. row' = [row EXCEPT ![r] = x]
        BY <1>12 DEF SetFolder
    <2>3. SameRows
        <3> HIDE DEF x, SameRows
        <3>. QED BY <1>2, <2>1, <2>2
    <2>. QED BY <1>12, <2>3 DEF SetFolder, Quiet, threads
<1>13. ASSUME Restart PROVE Quiet
    <2>1. SameRows
        <3>1. \A r \in Rows : [row[r] EXCEPT !.state = "failed", !.job = 0].last = row[r].last
            BY <1>0 DEF ARow
        <3>. QED BY <1>0, <1>13, <3>1 DEF Restart
    <2>2. \A j \in JobIds : task'[j].pc = "off" /\ (task[j].pc \in Busy => Who(j) \in tainted')
        BY <1>13, NoTaskOff DEF Restart, Busy
    <2>3. ASSUME NEW e \in Emails, e \notin tainted' PROVE store'[e] = store[e]
        <3>1. e \notin tainted /\ ~WorkedOn(e)
            BY <1>13, <2>2, <2>3 DEF Restart, WorkedOn
        <3>. QED BY <1>0, <1>13, <2>3, <3>1, NothingDropped DEF Restart, PureInv
    <2>. QED BY <1>13, <2>1, <2>2, <2>3 DEF Restart, Quiet, Busy
<1>. QED BY <1>3, <1>4, <1>5, <1>6, <1>7, <1>8, <1>9, <1>10, <1>11, <1>12, <1>13
         DEF Next, TaskStep, BatchStep, Settling, Seeds

\* A task that settles touches what its own account holds and what is remembered
\* of it, and leaves the account worked on as it should be or at rest.
Touches(j, e) ==
    /\ On(j) /\ Who(j) = e /\ Others(j)
    /\ task'[j].pc # "queued" /\ (task'[j].pc \in Busy => task'[j].row = task[j].row)
    /\ \A a \in Emails \ {e} : /\ content'[a] = content[a] /\ local'[a] = local[a]
                               /\ remote'[a] = remote[a] /\ (a \in tainted' <=> a \in tainted)
                               /\ store'[a] = store[a] \/ store'[a] = Orphaned(store[a])
    /\ \A r \in Rows : EmailOf[r] # e => row'[r] = row[r]
    /\ e \in Recorded \/ remote'[e] = remote[e]
    /\ e \notin tainted' =>
          IF task'[j].pc \in Busy
          THEN Fits(task[j].pc, e, task[j].target, task[j].status)'
          ELSE AtRest(e)'

\* Rows taken by the push of another account change nothing of this.
LEMMA OrphansFit ==
    ASSUME ThreadInv, NEW a \in Emails, store'[a] = store[a] \/ store'[a] = Orphaned(store[a])
    PROVE  /\ store'[a].open = store[a].open /\ store'[a].done = store[a].done
           /\ store'[a].left \cup store'[a].lost = store[a].left \cup store[a].lost
           /\ store[a].left = {} => store'[a].left = {} /\ store'[a].lost = store[a].lost
<1>1. store[a] \in Rowset
    BY DEF ThreadInv, TypeOK
<1>2. /\ Orphaned(store[a]).open = store[a].open /\ Orphaned(store[a]).done = store[a].done
      /\ Orphaned(store[a]).left = {} /\ Orphaned(store[a]).lost = store[a].lost \cup store[a].left
    BY <1>1 DEF Orphaned, Rowset
<1>. QED BY <1>2

LEMMA TouchesKeeps ==
    ASSUME ThreadInv, PureInv, NEW j \in JobIds, NEW e \in Emails, Touches(j, e)
    PROVE  PureInv'
<1>1. ASSUME NEW k \in JobIds, k # j
      PROVE  task'[k] = task[k] /\ (task[k].pc = "off" \/ Who(k) # e)
    BY <1>1 DEF Touches, Others, ThreadInv, Alone, On
<1>2. ASSUME NEW a \in Emails, a \notin tainted', ~WorkedOn(a)' PROVE AtRest(a)'
    <2>1. CASE a = e
        <3>1. task'[j].pc \notin Busy
            BY <1>2, <2>1 DEF WorkedOn, Touches, Who
        <3>. QED BY <1>2, <2>1, <3>1 DEF Touches
    <2>2. CASE a # e
        <3>1. ~WorkedOn(a)
            <4> SUFFICES ASSUME NEW k \in JobIds, task[k].pc \in Busy, Who(k) = a PROVE FALSE
                BY DEF WorkedOn
            <4>1. k # j
                BY <2>2 DEF Touches
            <4>. QED BY <1>1, <1>2, <4>1 DEF WorkedOn, Who
        <3>2. AtRest(a)
            BY <1>2, <2>2, <3>1 DEF PureInv, Touches
        <3>3. /\ content'[a] = content[a] /\ local'[a] = local[a] /\ remote'[a] = remote[a]
              /\ store'[a] = store[a] \/ store'[a] = Orphaned(store[a])
            BY <2>2 DEF Touches
        <3>4. /\ store'[a].open = {} /\ store'[a].done = store[a].done
              /\ store'[a].left = {} /\ store'[a].lost = store[a].lost
            BY <3>2, <3>3, OrphansFit DEF AtRest
        <3>5. \A r \in Rows : EmailOf[r] = a => row'[r] = row[r]
            BY <2>2 DEF Touches
        <3>. QED BY <3>2, <3>3, <3>4, <3>5 DEF AtRest, Remembered
    <2>. QED BY <2>1, <2>2
<1>3. \A a \in Emails \ Recorded : remote'[a] = NoPersona
    BY DEF Touches, PureInv
<1>4. ASSUME NEW k \in JobIds PROVE ModeFits(k)' /\ WorkFits(k)'
    <2>1. CASE k = j
        <3>1. task'[j].pc \in Busy => Who(j)' = e
            BY DEF Touches, Who
        <3>. QED BY <2>1, <3>1 DEF Touches, ModeFits, WorkFits
    <2>2. CASE k # j
        <3>1. task'[k] = task[k] /\ (task[k].pc = "off" \/ Who(k) # e)
            BY <1>1, <2>2
        <3>2. ModeFits(k) /\ WorkFits(k) /\ Who(k) \in Emails
            BY WhoType DEF PureInv, ThreadInv
        <3>3. PICK a \in Emails : a = Who(k)
            BY <3>2
        <3>4. Who(k)' = a
            BY <3>1, <3>3 DEF Who
        <3>5. CASE task[k].pc = "off"
            BY <3>1, <3>5 DEF ModeFits, WorkFits, Busy
        <3>6. CASE a # e
            <4>1. /\ content'[a] = content[a] /\ local'[a] = local[a]
                  /\ (a \in tainted' <=> a \in tainted)
                  /\ store'[a] = store[a] \/ store'[a] = Orphaned(store[a])
                BY <3>6 DEF Touches
            <4>2. ModeFits(k)'
                BY <3>1, <3>2, <3>3, <3>4, <4>1 DEF ModeFits
            <4>3. ASSUME task[k].pc \in Busy, a \notin tainted
                  PROVE  Fits(task[k].pc, a, task[k].target, task[k].status)'
                <5>1. Fits(task[k].pc, a, task[k].target, task[k].status)
                    BY <3>2, <3>3, <4>3 DEF WorkFits
                <5>. QED BY <3>1, <4>1, <5>1, OrphansFit DEF Fits, Filling, Full
            <4>4. WorkFits(k)'
                BY <3>1, <3>3, <3>4, <4>1, <4>3 DEF WorkFits
            <4>. QED BY <4>2, <4>4
        <3>. QED BY <3>1, <3>3, <3>5, <3>6
    <2>. QED BY <2>1, <2>2
<1>. QED BY <1>2, <1>3, <1>4 DEF PureInv

LEMMA SettlingTouches ==
    ASSUME ThreadInv, PureInv, NEW j \in JobIds, Settling(j), NEW e \in Emails, e = Who(j)
    PROVE  Touches(j, e)
<1>0. /\ row \in [Rows -> ARow] /\ task \in [JobIds -> ATask] /\ content \in [Emails -> SUBSET Personas]
      /\ local \in [Emails -> Personas \cup {NoPersona}] /\ remote \in [Emails -> Personas \cup {NoPersona}]
      /\ task[j].row \in Rows /\ EmailOf[task[j].row] = e /\ task[j] \in ATask
    BY WhoType DEF ThreadInv, TypeOK, ATask, Who
<1>1. ModeFits(j) /\ WorkFits(j) /\ TaskData /\ (e \notin Recorded => remote[e] = NoPersona)
    BY DEF PureInv, ThreadInv
<1>2. On(j) /\ store \in [Emails -> Rowset]
    BY DEF Settling, Seeds, Wipe, SeedBegin, SeedSome, SeedRows, SeedEnd, Verdict, Remember, Finish, On,
           ThreadInv, TypeOK
<1> DEFINE p == task[j].target
           s == store[e]
<1>20. ASSUME NEW x, Queued(j, x)
       PROVE  /\ store'[e] = x
              /\ \A a \in Emails \ {e} : store'[a] = store[a] \/ store'[a] = Orphaned(store[a])
    BY <1>20 DEF Queued
<1>21. ASSUME NEW pc \in PCs, Goto(j, pc)
       PROVE  /\ task'[j].pc = pc /\ task'[j].row = task[j].row /\ task'[j].target = p
              /\ task'[j].status = task[j].status /\ Others(j)
    BY <1>0, <1>21 DEF Goto, Others, ATask
<1>22. ASSUME NEW st \in Statuses, task' = [task EXCEPT ![j].pc = "verdict", ![j].status = st]
       PROVE  /\ task'[j].pc = "verdict" /\ task'[j].row = task[j].row /\ task'[j].target = p
              /\ task'[j].status = st /\ Others(j)
    <2> DEFINE new == [task[j] EXCEPT !.pc = "verdict", !.status = st]
    <2>1. /\ new.pc = "verdict" /\ new.status = st /\ new.row = task[j].row /\ new.target = task[j].target
        BY <1>0, TaskJudged
    <2>2. task' = [task EXCEPT ![j] = new]
        BY <1>22
    <2> HIDE DEF new
    <2>. QED BY <1>0, <2>1, <2>2 DEF Others
<1>23. \A c : c \in Emails \ {e} => (Taint(e) \/ UNCHANGED tainted => (c \in tainted' <=> c \in tainted))
    BY DEF Taint
<1>24. s \in Rowset /\ s.done \subseteq Personas
    BY <1>2 DEF Rowset
<1>3. ASSUME Wipe(j) PROVE Touches(j, e)
    <2>1. UNCHANGED <<row, local, remote>> /\ task[j].pc = "queued" /\ p \in Personas
        BY <1>1, <1>3 DEF Wipe, manifest, TaskData, Targeted
    <2>2. PICK kept \in SUBSET content[e] :
              /\ content' = [content EXCEPT ![e] = kept]
              /\ \E early \in SUBSET (s.left \ {p}), wipe \in {"done", "lost"} :
                    /\ Queued(j, [open |-> (s.left \ early) \cup Unseen(s, p), left |-> s.done \cup early,
                             done |-> {}, lost |-> IF wipe = "lost" THEN s.lost \cup {p} ELSE s.lost,
                             wipe |-> wipe])
                    /\ IF kept = {} /\ wipe = "done" THEN NoFault /\ UNCHANGED tainted ELSE Fault /\ Taint(e)
        BY <1>3 DEF Wipe
    <2>3. PICK early \in SUBSET (s.left \ {p}) : \E wipe \in {"done", "lost"} :
                    /\ Queued(j, [open |-> (s.left \ early) \cup Unseen(s, p), left |-> s.done \cup early,
                             done |-> {}, lost |-> IF wipe = "lost" THEN s.lost \cup {p} ELSE s.lost,
                             wipe |-> wipe])
                    /\ IF kept = {} /\ wipe = "done" THEN NoFault /\ UNCHANGED tainted ELSE Fault /\ Taint(e)
        BY <2>2
    <2>4. PICK wipe \in {"done", "lost"} :
                    /\ Queued(j, [open |-> (s.left \ early) \cup Unseen(s, p), left |-> s.done \cup early,
                             done |-> {}, lost |-> IF wipe = "lost" THEN s.lost \cup {p} ELSE s.lost,
                             wipe |-> wipe])
                    /\ IF kept = {} /\ wipe = "done" THEN NoFault /\ UNCHANGED tainted ELSE Fault /\ Taint(e)
        BY <2>3
    <2>5. /\ store'[e] = [open |-> (s.left \ early) \cup Unseen(s, p), left |-> s.done \cup early,
                          done |-> {}, lost |-> IF wipe = "lost" THEN s.lost \cup {p} ELSE s.lost, wipe |-> wipe]
          /\ \A a \in Emails \ {e} : store'[a] = store[a] \/ store'[a] = Orphaned(store[a])
        BY <1>20, <2>4
    <2>6. /\ task'[j].pc = "seeding" /\ task'[j].row = task[j].row /\ task'[j].target = p /\ Others(j)
        BY <1>3, <1>21 DEF Wipe, PCs
    <2>7. \A a \in Emails \ {e} : content'[a] = content[a] /\ (a \in tainted' <=> a \in tainted)
        BY <1>0, <1>23, <2>2, <2>4
    <2>8. ASSUME e \notin tainted' PROVE Filling(content'[e], store'[e], p)
        <3>1. kept = {} /\ wipe = "done" /\ e \notin tainted
            BY <2>4, <2>8 DEF Taint
        <3>2. s.open = {} /\ s.left = {}
            <4>1. AtRest(e)
                BY <1>2, <2>1, <3>1, NotWorkedOn DEF PureInv, Busy
            <4>. QED BY <4>1 DEF AtRest
        <3>3. /\ store'[e].open = Unseen(s, p) /\ store'[e].left = s.done
              /\ store'[e].done = {} /\ store'[e].lost = s.lost
            BY <2>5, <3>1, <3>2
        <3>4. content'[e] = {}
            BY <1>0, <2>2, <3>1
        <3> HIDE DEF s
        <3>. QED BY <3>3, <3>4 DEF Filling, Unseen
    <2> HIDE DEF p, s
    <2>. QED BY <1>2, <2>1, <2>5, <2>6, <2>7, <2>8 DEF Touches, Fits, Busy, Judged
<1>4. ASSUME SeedBegin(j) PROVE Touches(j, e)
    <2>1. UNCHANGED <<row, local, remote, content>> /\ task[j].pc = "queued" /\ p \in Personas
        BY <1>1, <1>4 DEF SeedBegin, manifest, TaskData, Targeted
    <2>2. \A a \in Emails \ {e} : (a \in tainted' <=> a \in tainted)
        BY <1>4, <1>23 DEF SeedBegin
    <2>3. ASSUME e \notin tainted'
          PROVE  /\ e \notin tainted /\ task[j].mode # "reseed" /\ AtRest(e)
                 /\ content[e] \subseteq {p} /\ (task[j].skip => content[e] = {p})
        <3>1. e \notin tainted /\ task[j].mode # "reseed" /\ (task[j].skip => content[e] = {p})
            BY <1>4, <2>3 DEF SeedBegin, Taint
        <3>2. content[e] \subseteq {p}
            BY <1>1, <2>1, <3>1 DEF ModeFits
        <3>. QED BY <1>2, <2>1, <3>1, <3>2, NotWorkedOn DEF PureInv, Busy
    <2>4. ASSUME NEW new \in {Unseen(s, p)} \cup (IF task[j].skip THEN {{}} ELSE {}), Goto(j, "seeding"),
                 Queued(j, [s EXCEPT !.open = @ \cup s.left \cup new, !.left = {},
                                     !.lost = IF task[j].mode = "reseed" /\ s.wipe = "lost"
                                              THEN @ \cup new ELSE @])
          PROVE  Touches(j, e)
        <3>1. /\ store'[e] = [s EXCEPT !.open = @ \cup s.left \cup new, !.left = {},
                                       !.lost = IF task[j].mode = "reseed" /\ s.wipe = "lost"
                                                THEN @ \cup new ELSE @]
              /\ \A a \in Emails \ {e} : store'[a] = store[a] \/ store'[a] = Orphaned(store[a])
            BY <1>20, <2>4
        <3>2. /\ task'[j].pc = "seeding" /\ task'[j].row = task[j].row /\ task'[j].target = p /\ Others(j)
            BY <1>21, <2>4 DEF PCs
        <3>3. ASSUME e \notin tainted' PROVE Filling(content'[e], store'[e], p)
            <4>1. /\ task[j].mode # "reseed" /\ content'[e] = content[e] /\ content[e] \subseteq {p}
                  /\ task[j].skip => content[e] = {p}
                BY <2>1, <2>3, <3>3
            <4>2. s.open = {} /\ s.left = {} /\ (content[e] = {} => s.done = {} /\ s.lost = {})
                BY <2>3, <3>3 DEF AtRest, Remembered
            <4>3. new \subseteq {p} /\ (~task[j].skip => new = Unseen(s, p))
                BY DEF Unseen
            <4> HIDE DEF s, p
            <4>4. store'[e].open = new /\ store'[e].left = {} /\ store'[e].done = s.done /\ store'[e].lost = s.lost
                <5>1. s \in Rowset
                    BY <1>24
                <5>. QED BY <3>1, <4>1, <4>2, <5>1 DEF Rowset
            <4>. QED BY <4>1, <4>2, <4>3, <4>4 DEF Filling, Unseen
        <3> HIDE DEF s, p
        <3>. QED BY <1>2, <2>1, <2>2, <3>1, <3>2, <3>3 DEF Touches, Fits, Busy, Judged
    <2>5. ASSUME task[j].skip, task' = [task EXCEPT ![j].pc = "verdict", ![j].status = "ok"], UNCHANGED store
          PROVE  Touches(j, e)
        <3>1. /\ task'[j].pc = "verdict" /\ task'[j].row = task[j].row /\ task'[j].target = p
              /\ task'[j].status = "ok" /\ Others(j)
            BY <1>22, <2>5 DEF Statuses
        <3>2. e \notin tainted' => Full(content'[e], store'[e], p)
            BY <2>1, <2>3, <2>5 DEF Full, AtRest
        <3> HIDE DEF s, p
        <3>. QED BY <1>2, <2>1, <2>2, <2>5, <3>1, <3>2 DEF Touches, Fits, Busy
    <2>. QED BY <1>4, <2>4, <2>5 DEF SeedBegin
<1>8. ASSUME SeedSome(j) PROVE Touches(j, e)
    <2>1. UNCHANGED <<row, local, remote, tainted, task>> /\ task[j].pc = "seeding"
        BY <1>8 DEF SeedSome, manifest, threads
    <2>2. PICK q \in s.open : /\ store' = [store EXCEPT ![e].done = @ \cup {q}]
                             /\ content' = [content EXCEPT ![e] = @ \cup {q}]
        BY <1>8 DEF SeedSome
    <2>3. \A a \in Emails \ {e} : content'[a] = content[a] /\ store'[a] = store[a]
        BY <1>0, <1>2, <2>2
    <2>4. ASSUME e \notin tainted PROVE Filling(content'[e], store'[e], p)
        <3>1. Filling(content[e], s, p)
            BY <1>1, <2>1, <2>4 DEF WorkFits, Fits, Busy
        <3>2. content'[e] = content[e] \cup {q} /\ store'[e].open = s.open
            BY <1>0, <1>2, <2>2 DEF Rowset
        <3> HIDE DEF s
        <3>. QED BY <3>1, <3>2 DEF Filling
    <2> HIDE DEF s, p
    <2>5. e \notin tainted' => Filling(content'[e], store'[e], task'[j].target)
        BY <2>1, <2>4 DEF p
    <2>. QED BY <1>2, <2>1, <2>3, <2>5 DEF Touches, Fits, Busy, Others, Judged
<1>9. ASSUME SeedRows(j) PROVE Touches(j, e)
    <2>1. UNCHANGED <<row, local, remote, tainted>> /\ task[j].pc = "seeding"
        BY <1>9 DEF SeedRows, manifest
    <2>2. PICK bad \in SUBSET s.open :
              /\ store' = [store EXCEPT ![e] = [s EXCEPT !.open = {}, !.done = @ \cup (s.open \ bad),
                                                         !.lost = @ \cup bad]]
              /\ content' = [content EXCEPT ![e] = @ \cup (s.open \ bad)]
        BY <1>9 DEF SeedRows
    <2>3. \A a \in Emails \ {e} : content'[a] = content[a] /\ store'[a] = store[a]
        BY <1>0, <1>2, <2>2
    <2>4. task'[j].pc = "seeded" /\ task'[j].row = task[j].row /\ task'[j].target = p /\ Others(j)
        BY <1>9, <1>21 DEF SeedRows, PCs
    <2>5. content'[e] = content[e] \cup (s.open \ bad)
        BY <1>0, <2>2
    <2>6. /\ store'[e].open = {} /\ store'[e].done = s.done \cup (s.open \ bad)
          /\ store'[e].lost = s.lost \cup bad /\ store'[e].left = s.left
        <3>1. store'[e] = [s EXCEPT !.open = {}, !.done = @ \cup (s.open \ bad), !.lost = @ \cup bad]
            BY <1>2, <2>2
        <3> HIDE DEF s
        <3>. QED BY <1>24, <3>1 DEF Rowset
    <2>7. ASSUME e \notin tainted PROVE Filling(content'[e], store'[e], p)
        <3>1. Filling(content[e], s, p)
            BY <1>1, <2>1, <2>7 DEF WorkFits, Fits, Busy
        <3> HIDE DEF s
        <3>. QED BY <2>5, <2>6, <3>1 DEF Filling
    <2> HIDE DEF s, p
    <2>. QED BY <1>2, <2>1, <2>3, <2>4, <2>6, <2>7 DEF Touches, Fits, Busy, Judged
<1>10. ASSUME SeedEnd(j) PROVE Touches(j, e)
    <2>1. UNCHANGED <<row, local, remote, content, store>> /\ task[j].pc = "seeded" /\ s.open = {} /\ s.left = {}
        BY <1>10 DEF SeedEnd, manifest, Unfinished
    <2>2. StatusOf(s) \in Statuses
        BY DEF StatusOf, Statuses
    <2>3. /\ task'[j].pc = "verdict" /\ task'[j].status = StatusOf(s) /\ task'[j].row = task[j].row
          /\ task'[j].target = p /\ Others(j)
        BY <1>10, <1>22, <2>2 DEF SeedEnd
    <2>4. \A a \in Emails \ {e} : (a \in tainted' <=> a \in tainted)
        BY <1>10, <1>23 DEF SeedEnd
    <2>5. ASSUME e \notin tainted' PROVE StatusOf(s) # "failed" /\ Full(content[e], s, p)
        <3>1. e \notin tainted /\ StatusOf(s) # "failed"
            BY <1>10, <2>5 DEF SeedEnd, Taint
        <3>2. Filling(content[e], s, p)
            BY <1>1, <2>1, <3>1 DEF WorkFits, Fits, Busy
        <3> HIDE DEF s
        <3>. QED BY <2>1, <3>1, <3>2 DEF Filling, Full, StatusOf
    <2>6. s = store'[e]
        BY <2>1
    <2> HIDE DEF s, p
    <2>. QED BY <1>2, <2>1, <2>3, <2>4, <2>5, <2>6 DEF Touches, Fits, Busy
<1>5. ASSUME Verdict(j) PROVE Touches(j, e)
    <2>1. UNCHANGED <<local, remote, store, content, tainted>> /\ task[j].pc = "verdict"
        BY <1>5 DEF Verdict
    <2>2. /\ task'[j].pc = IF Good(j) THEN "remember" ELSE "finish"
          /\ task'[j].row = task[j].row /\ task'[j].target = p /\ Others(j)
        BY <1>5, <1>21 DEF Verdict, PCs
    <2>3. \A r \in Rows : EmailOf[r] # e => row'[r] = row[r]
        BY <1>0, <1>5 DEF Verdict
    <2>4. e \notin tainted => Full(content[e], store[e], p) /\ Good(j)
        BY <1>1, <2>1 DEF WorkFits, Fits, Busy, Judged, Good
    <2> HIDE DEF s, p
    <2>. QED BY <1>2, <2>1, <2>2, <2>3, <2>4 DEF Touches, Fits, Busy
<1>6. ASSUME Remember(j) PROVE Touches(j, e)
    <2>1. UNCHANGED <<row, remote, store, content, tainted>> /\ task[j].pc = "remember"
        BY <1>6 DEF Remember
    <2>2. /\ task'[j].pc = "finish" /\ task'[j].row = task[j].row /\ task'[j].target = p /\ Others(j)
        BY <1>6, <1>21 DEF Remember, PCs
    <2>3. local'[e] = p /\ \A a \in Emails \ {e} : local'[a] = local[a]
        BY <1>0, <1>6 DEF Remember
    <2>4. e \notin tainted => Full(content[e], store[e], p)
        BY <1>1, <2>1 DEF WorkFits, Fits, Busy, Judged
    <2> HIDE DEF s, p
    <2>. QED BY <1>2, <2>1, <2>2, <2>3, <2>4 DEF Touches, Fits, Busy
<1>7. ASSUME Finish(j) PROVE Touches(j, e)
    <2>1. UNCHANGED <<row, local, store, content>> /\ task[j].pc = "finish" /\ p \in Personas
        BY <1>1, <1>7 DEF Finish, manifest, TaskData, Targeted
    <2>2. task'[j].pc \in {"release", "off"} /\ Others(j)
        BY <1>0, <1>7, NoTaskOff DEF Finish, Goto, Off, Others, ATask
    <2>3. \/ /\ UNCHANGED tainted
             /\ remote' = IF e \in Recorded THEN [remote EXCEPT ![e] = p] ELSE remote
          \/ Taint(e) /\ UNCHANGED remote
        BY <1>7 DEF Finish
    <2>4. /\ \A a \in Emails \ {e} : remote'[a] = remote[a] /\ (a \in tainted' <=> a \in tainted)
          /\ e \in Recorded \/ remote'[e] = remote[e]
        BY <1>0, <2>3 DEF Taint
    <2>5. ASSUME e \notin tainted' PROVE AtRest(e)'
        <3>1. e \notin tainted /\ Full(content[e], s, p) /\ local[e] = p
            BY <1>1, <2>1, <2>3, <2>5 DEF WorkFits, Fits, Busy, Judged, Taint
        <3>2. p # NoPersona /\ local'[e] = p /\ Remembered(e)' = p
            BY <2>1, <3>1, Bounds DEF Remembered
        <3>3. remote'[e] \in {NoPersona, p}
            BY <1>0, <1>1, <2>3, <2>5, <3>1 DEF Taint
        <3>4. content'[e] = {p} /\ store'[e].open = {} /\ store'[e].left = {}
            BY <2>1, <3>1 DEF Full
        <3> HIDE DEF s, p
        <3>. QED BY <3>2, <3>3, <3>4 DEF AtRest
    <2> HIDE DEF s, p
    <2>. QED BY <1>2, <2>1, <2>2, <2>4, <2>5 DEF Touches, Busy
<1>. QED BY <1>3, <1>4, <1>5, <1>6, <1>7, <1>8, <1>9, <1>10 DEF Settling, Seeds

LEMMA PureInit == Init => PureInv
<1> SUFFICES ASSUME Init PROVE PureInv
    OBVIOUS
<1>1. \A j \in JobIds : task[j].pc = "off"
    BY NoTaskOff DEF Init
<1>2. PICK earlier \in [Emails -> Earlier] :
              /\ content = [e \in Emails |-> {earlier[e]} \ {NoPersona}]
              /\ remote = [e \in Emails |-> IF e \in Recorded THEN earlier[e] ELSE NoPersona]
              /\ tainted = {e \in Emails \ Recorded : earlier[e] # NoPersona}
    BY DEF Init
<1>3. ASSUME NEW e \in Emails, e \notin tainted PROVE AtRest(e)
    <2>1. Remembered(e) = remote[e] /\ remote[e] = earlier[e] /\ content[e] = {earlier[e]} \ {NoPersona}
        BY <1>2, <1>3 DEF Init, Remembered
    <2>2. store[e] = NoRows /\ \A r \in Rows : row[r].last = NoPersona
        BY DEF Init
    <2>. QED BY <2>1, <2>2 DEF AtRest, NoRows
<1>. QED BY <1>1, <1>2, <1>3 DEF PureInv, ModeFits, WorkFits, Busy

LEMMA PureStep == ThreadInv /\ ThreadInv' /\ PureInv /\ [Next]_vars => PureInv'
<1> SUFFICES ASSUME ThreadInv, ThreadInv', PureInv, [Next]_vars PROVE PureInv'
    OBVIOUS
<1>1. ASSUME NEW j \in JobIds, Settling(j) PROVE PureInv'
    <2>1. PICK e \in Emails : e = Who(j)
        BY WhoType DEF ThreadInv
    <2>. QED BY <1>1, <2>1, SettlingTouches, TouchesKeeps
<1>2. CASE \A j \in JobIds : ~Settling(j)
    BY <1>2, QuietStep, QuietKeeps
<1>. QED BY <1>1, <1>2

LEMMA PureHolds == ThreadInv /\ PureInv => IdleAccountIsPure
<1> SUFFICES ASSUME ThreadInv, PureInv, NEW e \in Emails, e \notin lock, e \notin tainted
             PROVE  content[e] = {Remembered(e)} \ {NoPersona}
    BY DEF IdleAccountIsPure
<1>1. ~WorkedOn(e)
    BY NotWorkedOn
<1>. QED BY <1>1 DEF PureInv, AtRest

\* An account nobody pushes, and none of whose pushes was left in doubt, holds the
\* persona remembered of it and nothing of another: decide_provision_mode
\* (src/seeder/materialize/provision/route.py) was right each time, whichever memory was asked and whichever
\* row of the account was pushed, and a push that ended well had seeded its rows,
\* whatever earlier pushes, and those of other accounts, had made of the run's store.
THEOREM IdleIsPure == Spec => []IdleAccountIsPure
BY ThreadInit, ThreadStep, PureInit, PureStep, PureHolds, PTL DEF Spec
=============================================================================

-------------------------------- MODULE RunLog --------------------------------
(***************************************************************************)
(* The log of one run of the reset API.  Threads of the engine, a ticker   *)
(* and the task of the run write lines into a queue, one writer thread   *)
(* takes them to the files, and close() ends the writer by a last item;  *)
(* what comes later is written by its own thread.  The counts for the      *)
(* onboarding page go to progress.json at once, through one temporary      *)
(* file that all threads share.                                            *)
(*                                                                         *)
(* A line is its thread and the number of the call it comes from.  A       *)
(* thread of the engine may outlive the run.  If the process dies, what is *)
(* in the queue is lost; that is not modelled.                             *)
(***************************************************************************)
EXTENDS Integers, Sequences, SequencesExt, FiniteSets

CONSTANTS
    Callers,      \* threads of the engine that report
    Ticker, Main, \* the ticker's thread and the task of the run
    Services,     \* each has a file besides common/all.log; may be empty in an instance,
    Common,       \* as the files meet only in the queue
    MaxReports,     \* bound: calls of an engine's thread; the ticker ticks once
    MaxMishaps    \* bound: writes that fail, a join that times out

\* Finitely many services' files, and common/all.log is none of them.
Sound == IsFiniteSet(Services) /\ Common \notin Services

VARIABLES
    phase,        \* the task of the run
    closed,       \* _closed
    lines,        \* _queue
    ended,        \* the writer thread has ended
    text,         \* per file and thread the calls whose line it has, in the file's order
    latest,       \* _latest
    progress,     \* progress.json: counts and status
    caller,       \* per thread its call
    mishaps,
    owed,         \* history: lines queued before close() or written after the writer's end
    unsure        \* history: the last write of progress.json met another or failed

vars == <<phase, closed, lines, ended, text, latest, progress, caller, mishaps, owed, unsure>>

Everyone == Callers \cup {Ticker, Main}
Files    == Services \cup {Common}
Stop     == [file |-> Common, line |-> <<Main, 0>>]    \* None in the queue
Unreadable == [counts |-> -1, status |-> ""]
Rest     == [step |-> "rest", calls |-> 0, todo |-> << >>,
            counts |-> 0, status |-> "", alone |-> TRUE]

Init ==
    /\ phase = "new" /\ closed = FALSE
    /\ lines = << >> /\ ended = FALSE
    /\ text = [f \in Files |-> [t \in Everyone |-> << >>]]
    /\ latest = 0 /\ progress = [counts |-> 0, status |-> ""]
    /\ caller = [t \in Everyone |-> Rest]
    /\ mishaps = 0 /\ owed = {} /\ unsure = FALSE

At(t, s)    == caller[t].step = s
Mishap      == mishaps < MaxMishaps /\ mishaps' = mishaps + 1
LineOf(t)   == <<t, caller[t].calls>>
\* Its own services in any order, common/all.log last.
Targets(S)  == {Append(q, Common) : q \in SetToSeqs(S)}
\* The lines of a call are to be queued, one after the other.
Queueing(c, todo) == [c EXCEPT !.step = IF todo = << >> THEN "rest" ELSE "look", !.todo = todo]
\* A call of its own; it may write progress.json first.
Calls(t) == [caller[t] EXCEPT !.calls = @ + 1]
MayCall(t) == At(t, "rest") /\ caller[t].calls < IF t = Ticker THEN 1 ELSE MaxReports

-----------------------------------------------------------------------------
(* Lines *)

\* event: an engine's message, to the services it names or to all.
Event(t) ==
    /\ phase \notin {"new", "starting"} /\ t \in Callers /\ MayCall(t)
    /\ \E S \in SUBSET Services : \E todo \in Targets(S) :
           caller' = [caller EXCEPT ![t] = Queueing(Calls(t), todo)]
    /\ UNCHANGED <<phase, closed, lines, ended, text, latest, progress, mishaps, owed, unsure>>

\* Variant: after close() the lines pass the queue by, also while the writer still works.
LookCloses(t) ==
    /\ At(t, "look")
    /\ caller' = [caller EXCEPT ![t].step = IF closed THEN "write" ELSE "put"]
    /\ UNCHANGED <<phase, closed, lines, ended, text, latest, progress, mishaps, owed, unsure>>

\* _enqueue_append: whether the writer is over is looked up before the line is queued.
Look(t) ==
    /\ At(t, "look")
    /\ caller' = [caller EXCEPT ![t].step = IF closed /\ ended THEN "write" ELSE "put"]
    /\ UNCHANGED <<phase, closed, lines, ended, text, latest, progress, mishaps, owed, unsure>>

Put(t) ==
    LET f == Head(caller[t].todo)
    IN  /\ At(t, "put")
        /\ lines' = Append(lines, [file |-> f, line |-> LineOf(t)])
        /\ owed' = IF closed THEN owed ELSE owed \cup {<<f, LineOf(t)>>}
        /\ caller' = [caller EXCEPT ![t] = Queueing(@, Tail(@.todo))]
        /\ UNCHANGED <<phase, closed, ended, text, latest, progress, mishaps, unsure>>

\* _write: the line is appended, or lost with a warning; then it is not owed.
Written(f, line, due) ==
    \/ /\ text' = [text EXCEPT ![f][line[1]] = Append(@, line[2])]
       /\ owed' = owed \cup due
       /\ UNCHANGED mishaps
    \/ Mishap /\ owed' = owed \ {<<f, line>>} /\ UNCHANGED text

WriteItself(t) ==
    LET f == Head(caller[t].todo)
    IN  /\ At(t, "write")
        /\ Written(f, LineOf(t), {<<f, LineOf(t)>>})
        /\ caller' = [caller EXCEPT ![t] = Queueing(@, Tail(@.todo))]
        /\ UNCHANGED <<phase, closed, lines, ended, latest, progress, unsure>>

\* _drain
Take ==
    /\ ~ended /\ phase # "new" /\ lines # << >>
    /\ lines' = Tail(lines)
    /\ ended' = (Head(lines) = Stop)
    /\ IF Head(lines) = Stop THEN UNCHANGED <<text, owed, mishaps>>
       ELSE Written(Head(lines).file, Head(lines).line, {})
    /\ UNCHANGED <<phase, closed, latest, progress, caller, unsure>>

-----------------------------------------------------------------------------
(* Counts *)

Told(c) == [c EXCEPT !.counts = 0, !.status = "", !.alone = TRUE]
Writing == {t \in Everyone : At(t, "counts")}
\* A thread begins to write progress.json with these counts: it and those who already do
\* are not alone.
Begins(t, counts, status) ==
    caller' = [u \in Everyone |->
        IF u = t THEN [Calls(t) EXCEPT !.step = "counts", !.counts = counts, !.status = status,
                                       !.alone = Writing = {}]
        ELSE [caller[u] EXCEPT !.alone = @ /\ u \notin Writing]]

\* Variant: the counts are written and not kept.
ProgressUnkept(t) ==
    /\ phase \notin {"new", "starting"} /\ t \in Callers /\ MayCall(t)
    /\ Begins(t, latest + 1, "")
    /\ UNCHANGED <<phase, closed, lines, ended, text, latest, progress, mishaps, owed, unsure>>

\* progress: the counts are kept under the lock and written after it.
Progress(t) ==
    /\ phase \notin {"new", "starting"} /\ t \in Callers /\ MayCall(t)
    /\ latest' = latest + 1
    /\ Begins(t, latest + 1, "")
    /\ UNCHANGED <<phase, closed, lines, ended, text, progress, mishaps, owed, unsure>>

\* snapshot: the ticker's, until the log is closed.
Snapshot ==
    /\ phase # "new" /\ ~closed /\ MayCall(Ticker)
    /\ Begins(Ticker, latest, "")
    /\ UNCHANGED <<phase, closed, lines, ended, text, latest, progress, mishaps, owed, unsure>>

\* _write_progress_json: two at once fill one temporary file, and the second finds it gone;
\* what is left is one of theirs or a mixture.  Then the lines: a service whose numbers did
\* not change has none in a progress call, and common/all.log not more than one in a while.
Replaces(t) ==
    LET mine == [counts |-> caller[t].counts, status |-> caller[t].status]
    IN  /\ At(t, "counts")
        /\ \/ /\ progress' \in IF caller[t].alone THEN {mine} ELSE {mine, progress, Unreadable}
              /\ unsure' = ~caller[t].alone
              /\ UNCHANGED mishaps
           \/ Mishap /\ unsure' = TRUE /\ UNCHANGED progress
        /\ \E S \in IF t \in Callers THEN SUBSET Services ELSE {Services} : \E todo \in Targets(S) :
              \/ caller' = [caller EXCEPT ![t] = Queueing(Told(@), todo)]
              \/ t \in Callers /\ caller' = [caller EXCEPT ![t] = Queueing(Told(@), Front(todo))]
        /\ UNCHANGED <<phase, closed, lines, ended, text, latest, owed>>

-----------------------------------------------------------------------------
(* The task of the run *)

\* start: a line in every file.
Start ==
    /\ phase = "new" /\ phase' = "starting"
    /\ \E todo \in Targets(Services) :
           caller' = [caller EXCEPT ![Main] = Queueing(Calls(Main), todo)]
    /\ UNCHANGED <<closed, lines, ended, text, latest, progress, mishaps, owed, unsure>>

Run ==
    /\ phase = "starting" /\ At(Main, "rest") /\ phase' = "run"
    /\ UNCHANGED <<closed, lines, ended, text, latest, progress, caller, mishaps, owed, unsure>>

\* finish: the engine has returned, or raised.
Finish ==
    /\ phase = "run" /\ phase' = "finish"
    /\ \E status \in {"done", "failed"} : Begins(Main, latest, status)
    /\ UNCHANGED <<closed, lines, ended, text, latest, progress, mishaps, owed, unsure>>

\* close: the flag, the last item, and at most five seconds of waiting.
Close ==
    /\ phase = "finish" /\ At(Main, "rest") /\ phase' = "stop"
    /\ closed' = TRUE
    /\ UNCHANGED <<lines, ended, text, latest, progress, caller, mishaps, owed, unsure>>

PutStop ==
    /\ phase = "stop" /\ phase' = "join"
    /\ lines' = Append(lines, Stop)
    /\ UNCHANGED <<closed, ended, text, latest, progress, caller, mishaps, owed, unsure>>

Joined ==
    /\ phase = "join" /\ phase' = "closed"
    /\ \/ ended /\ UNCHANGED mishaps
       \/ Mishap
    /\ UNCHANGED <<closed, lines, ended, text, latest, progress, caller, owed, unsure>>

Next ==
    \/ \E t \in Callers : Event(t) \/ Progress(t)
    \/ \E t \in Everyone : Look(t) \/ Put(t) \/ WriteItself(t) \/ Replaces(t)
    \/ Snapshot
    \/ Take
    \/ Start \/ Run \/ Finish \/ Close \/ PutStop \/ Joined
Spec == Init /\ [][Next]_vars

-----------------------------------------------------------------------------
(* Properties *)

\* Once the writer is over, every line that was queued before close(), or came after the
\* writer's end, is in its file, unless the disk refused it; and each file has the lines of
\* a thread once and in the order of its calls, whoever of writer and thread wrote them.
LinesAreKept ==
    /\ ended => \A o \in owed : o[2][2] \in Range(text[o[1]][o[2][1]])
    /\ \A f \in Files, t \in Everyone : \A i, j \in DOMAIN text[f][t] :
           i < j => text[f][t][i] < text[f][t][j]

\* While no thread is at it, progress.json has the counts reported last, although four kinds
\* of thread write it after they gave the lock back, unless the last two met or a write failed.
ProgressIsLatest ==
    Writing = {} /\ ~unsure => progress.counts = latest

LogIsTrue == LinesAreKept /\ ProgressIsLatest

\* What the page may be taken to show.  The code keeps neither: see the README.
ProgressIsReadable == progress # Unreadable
OutcomeStays       == phase = "closed" /\ ~unsure => progress.status # ""
=============================================================================

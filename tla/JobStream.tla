------------------------------ MODULE JobStream ------------------------------
(***************************************************************************)
(* The log of one job of the seeder and the browsers that follow it: lines *)
(* numbered in memory, of which the last MaxLines are kept, and appended   *)
(* to a file; a server-sent stream per browser; jobs forgotten half an     *)
(* hour after they ended and read back from the file; a restart.           *)
(*                                                                         *)
(* A line is written to memory and then to the file, by several threads: a *)
(* job's own and, into the log of a push-all, those of its children.  An   *)
(* append to the file is assumed to end within the half hour for which a   *)
(* finished job is kept.                                                   *)
(***************************************************************************)
EXTENDS Integers, FiniteSets, SequencesExt

CONSTANTS
    Writers,    \* threads that log
    Readers,    \* browsers
    MaxLines,   \* lines kept in memory
    NLines,     \* bound: lines logged
    NRecords    \* bound: times the job's record is built in memory

VARIABLES
    record,     \* the job's records in memory, one after the other
    current,    \* JOBS: the record the job has now, 0 for none
    file,       \* the durable log: lines and verdicts
    writer,     \* per thread what it has yet to append to the file
    reader,     \* per browser its stream
    logged,     \* lines logged so far; a line is known by its number
    died,       \* has the server died, and with it the threads of the job?
    verdict,    \* history: the status the job came to
    before,     \* history: the lines logged until then and not lost
    torn        \* history: it died between the verdict and its line in the file

vars == <<record, current, file, writer, reader, logged, died, verdict, before, torn>>
past == <<verdict, before, torn>>

Line(n)   == [text |-> n, status |-> ""]
Ending(s) == [text |-> 0, status |-> s]
Nothing   == [text |-> 0, status |-> ""]
Closed    == [record |-> 0, last |-> 0, got |-> << >>, missed |-> 0, told |-> ""]

Init ==
    /\ record = <<[lines |-> << >>, seq |-> 0, done |-> FALSE, status |-> "running"]>>
    /\ current = 1
    /\ file = << >>
    /\ writer = [w \in Writers |-> Nothing]
    /\ reader = [r \in Readers |-> Closed]
    /\ logged = 0 /\ died = FALSE
    /\ verdict = "" /\ before = {} /\ torn = FALSE

-----------------------------------------------------------------------------
(* The threads of the job *)

\* deque(maxlen = MAX_LINES)
LastOf(lines) == IF Len(lines) <= MaxLines THEN lines
                 ELSE SubSeq(lines, Len(lines) - MaxLines + 1, Len(lines))

\* append: to the record, if the job has one, and then to the file.
AppendLine(w) ==
    /\ ~died /\ writer[w] = Nothing /\ current # 0 /\ logged < NLines
    /\ LET o == record[current]
       IN  record' = [record EXCEPT ![current].seq = o.seq + 1,
                          ![current].lines = LastOf(Append(o.lines,
                                                 [seq |-> o.seq + 1, text |-> logged + 1]))]
    /\ logged' = logged + 1
    /\ writer' = [writer EXCEPT ![w] = Line(logged + 1)]
    /\ UNCHANGED <<current, file, reader, died, past>>

\* Variant: a job that is done can be finished again.
FinishAgain(w, status) ==
    /\ ~died /\ writer[w] = Nothing /\ current # 0 /\ record[current].status # status
    /\ record' = [record EXCEPT ![current].done = TRUE, ![current].status = status]
    /\ writer' = [writer EXCEPT ![w] = Ending(status)]
    /\ verdict' = (IF verdict = "" THEN status ELSE verdict)
    /\ before' = 1..logged
    /\ UNCHANGED <<current, file, reader, logged, died, torn>>

\* finish: a job that is done stays as it is.
Finish(w, status) ==
    /\ ~died /\ writer[w] = Nothing /\ current # 0 /\ ~record[current].done
    /\ record' = [record EXCEPT ![current].done = TRUE, ![current].status = status]
    /\ writer' = [writer EXCEPT ![w] = Ending(status)]
    /\ verdict' = status /\ before' = 1..logged
    /\ UNCHANGED <<current, file, reader, logged, died, torn>>

ToFile(w) ==
    /\ writer[w] # Nothing
    /\ file' = Append(file, writer[w])
    /\ writer' = [writer EXCEPT ![w] = Nothing]
    /\ UNCHANGED <<record, current, reader, logged, died, past>>

\* _reap_unlocked: half an hour after the end.
Reap ==
    /\ current # 0 /\ record[current].done /\ \A w \in Writers : writer[w] = Nothing
    /\ current' = 0
    /\ UNCHANGED <<record, file, writer, reader, logged, died, past>>

-----------------------------------------------------------------------------
(* The browsers *)

\* rehydrate_job: the lines of the file, numbered anew, and its last verdict; without
\* one the job counts as failed and a line says so.
Rehydrated ==
    LET lines   == SelectSeq(file, LAMBDA x : x.status = "")
        endings == SelectSeq(file, LAMBDA x : x.status # "")
        all     == IF endings = << >> THEN Append(lines, Nothing) ELSE lines
    IN  [lines |-> LastOf([i \in DOMAIN all |-> [seq |-> i, text |-> all[i].text]]),
         seq |-> Len(all), done |-> TRUE,
         status |-> IF endings = << >> THEN "failed" ELSE Last(endings).status]

\* get_job, then the stream starts at the first line.
Open(r) ==
    /\ reader[r] = Closed
    /\ IF current # 0 THEN UNCHANGED <<record, current>>
       ELSE /\ Len(record) < NRecords
            /\ record' = Append(record, Rehydrated)
            /\ current' = Len(record) + 1
    /\ reader' = [reader EXCEPT ![r].record = current']
    /\ UNCHANGED <<file, writer, logged, died, past>>

\* batch_since
Batch(o, last)   == SelectSeq(o.lines, LAMBDA l : l.seq > last)
Dropped(o, last) ==
    IF o.lines = << >> \/ last + 1 >= Head(o.lines).seq THEN 0
    ELSE Head(o.lines).seq - last - 1

\* One turn of the generator of stream_job: it sleeps until there are lines or the job
\* is done, says how many lines it missed, sends the lines and, at the end, the status.
Stream(r) ==
    LET s == reader[r]
        o == record[s.record]
        new == Batch(o, s.last)
    IN  /\ s.record # 0 /\ s.told = "" /\ (new # << >> \/ o.done)
        /\ reader' = [reader EXCEPT ![r] =
               [s EXCEPT !.last = IF new = << >> THEN @ ELSE Last(new).seq,
                         !.got = @ \o [i \in DOMAIN new |-> new[i].text],
                         !.missed = @ + Dropped(o, s.last),
                         !.told = IF o.done THEN o.status ELSE ""]]
        /\ UNCHANGED <<record, current, file, writer, logged, died, past>>

-----------------------------------------------------------------------------
\* The process dies: what is not in the file is lost.  A browser whose stream broke
\* may open it again.
Restart ==
    LET filed == {file[i].text : i \in DOMAIN file}
        ended == \E i \in DOMAIN file : file[i].status # ""
    IN  /\ ~died
        /\ died' = TRUE /\ current' = 0
        /\ writer' = [w \in Writers |-> Nothing]
        /\ reader' = [r \in Readers |-> IF reader[r].told = "" THEN Closed ELSE reader[r]]
        /\ verdict' = IF verdict = "" THEN "failed" ELSE verdict
        /\ before' = (IF verdict = "" THEN 1..logged ELSE before) \cap filed
        /\ torn' = (verdict # "" /\ ~ended)
        /\ UNCHANGED <<record, file, logged>>

Next ==
    \/ \E w \in Writers : AppendLine(w) \/ ToFile(w)
    \/ \E w \in Writers, status \in {"ok", "failed"} : Finish(w, status)
    \/ \E r \in Readers : Open(r) \/ Stream(r)
    \/ Reap
    \/ Restart
Spec == Init /\ [][Next]_vars

-----------------------------------------------------------------------------
(* Properties *)

\* A stream sends no line twice, the lines of the running job in their order, and says
\* of how many lines it knows nothing; one that has ended told the status the job came
\* to and sent or counted every line from before it, be it read from memory, from the
\* file after half an hour, or after a restart.
StreamIsTrue ==
    \A r \in Readers :
        LET s == reader[r]
        IN  /\ \A i, k \in DOMAIN s.got : i < k => s.got[i] # s.got[k]
            /\ s.record = 1 => \A i, k \in DOMAIN s.got : i < k => s.got[i] < s.got[k]
            /\ Len(s.got) + s.missed = s.last
            /\ s.told # "" /\ ~torn =>
                   s.told = verdict /\ Cardinality(before \ ToSet(s.got)) <= s.missed
=============================================================================

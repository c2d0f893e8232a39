----------------------------- MODULE PushPlanner -----------------------------
(***************************************************************************)
(* How the seeder plans the jobs of one account's push: one row for every  *)
(* event, message, folder and file of the persona, refused when it cannot  *)
(* be written, with the rows it has to wait for.  ProvisionPipeline runs   *)
(* such a plan; it ends only if every row gets its turn.                   *)
(*                                                                         *)
(* A row's synthetic id is a sequence of names cut to MaxSid, as the code  *)
(* cuts the joined text to 240 characters; the store keeps one row per id. *)
(***************************************************************************)
EXTENDS Integers, Sequences, FiniteSets, SequencesExt

CONSTANTS
    Pushes,     \* the pushes to plan, records as described by Push below
    MaxSid,     \* length of a synthetic id
    MaxSize     \* largest file

(* A push: wipe, and what is pushed (calendar, gmail, drive, github); whether *)
(* the persona has those files; the items in file order                       *)
(*   events  [id, kind]        kind: "good", "bad" (no record), "undated"     *)
(*   mails   [id, parent, att] parent: an id or ""; att: has attachments      *)
(*   files, repo [rel, size]   rel: a path as a sequence of names             *)
(* and for a push of skipped items the ids and paths to keep (retry).         *)

VARIABLES
    push,
    state,    \* "new", "refused" or "planned"
    plan      \* the rows in the store, by synthetic id
vars == <<push, state, plan>>

-----------------------------------------------------------------------------
Sid(parts) == IF Len(parts) <= MaxSid THEN parts ELSE SubSeq(parts, 1, MaxSid)

Job(sid, deps)   == [sid |-> Sid(sid), deps |-> {Sid(d) : d \in deps}, status |-> "PENDING"]
NoJob(sid)       == [sid |-> Sid(sid), deps |-> {}, status |-> "PERMANENT_FAILURE"]
Paths(items)     == {items[i].rel : i \in DOMAIN items}
DirOf(rel)       == Front(rel)
\* Has an item before the i-th the same key?
Again(items, key, i) == \E k \in 1..(i - 1) : items[k][key] = items[i][key]

\* upsert: a known id keeps its row and its status, with the new dependencies.
Upsert(rows, job) ==
    [sid \in DOMAIN rows \cup {job.sid} |->
        IF sid # job.sid THEN rows[sid]
        ELSE IF sid \in DOMAIN rows THEN [rows[sid] EXCEPT !.deps = job.deps]
        ELSE [deps |-> job.deps, status |-> job.status]]
Stored(jobs) == FoldLeft(Upsert, << >>, jobs)

-----------------------------------------------------------------------------
\* validate_accounts: what is pushed must be there.
Valid(p) ==
    /\ p.calendar => p.has.calendar
    /\ p.gmail => p.has.gmail
    /\ p.drive => p.has.drive
    /\ p.github => p.has.github

EnvSid == <<"env">>
NeedsEnv(p) == p.has.drive /\ (p.drive \/ p.gmail)
GenerateJobs(p) == IF NeedsEnv(p) THEN <<Job(EnvSid, {})>> ELSE << >>
EnvDeps(p) == IF NeedsEnv(p) THEN {EnvSid} ELSE {}

WipeOf(p, s) == IF p.wipe THEN {<<"wipe", s>>} ELSE {}
WipeJobs(p) ==
    LET wiped == SelectSeq(<<"calendar", "gmail", "drive">>,
                    LAMBDA s : CASE s = "calendar" -> p.calendar
                                 [] s = "gmail"    -> p.gmail
                                 [] s = "drive"    -> p.drive \/ p.github)
    IN  IF p.wipe THEN [i \in DOMAIN wiped |-> Job(<<"wipe", wiped[i]>>, {})] ELSE << >>

-----------------------------------------------------------------------------
EventJobs(p) ==
    LET good == SelectSeq(p.events, LAMBDA e : e.kind # "bad")
        Row(i) ==
            IF Again(good, "id", i) THEN NoJob(<<"event", good[i].id, "dup">>)
            ELSE IF good[i].kind = "undated" THEN NoJob(<<"event", good[i].id>>)
            ELSE Job(<<"event", good[i].id>>, WipeOf(p, "calendar"))
        bad == {i \in DOMAIN p.events : p.events[i].kind = "bad"}
    IN  IF ~p.calendar THEN << >>
        ELSE SetToSeq({NoJob(<<"event", "bad", ToString(i)>>) : i \in bad})
             \o [i \in DOMAIN good |-> Row(i)]

-----------------------------------------------------------------------------
\* The messages that are pushed; by_id keeps the last of those with one id.
Mails(p)  == IF p.retry.on THEN SelectSeq(p.mails, LAMBDA m : m.id \in p.retry.gmail) ELSE p.mails
IdsOf(ms) == {ms[i].id : i \in DOMAIN ms}
ById(ms)  == [id \in IdsOf(ms) |-> ms[CHOOSE i \in DOMAIN ms :
                 ms[i].id = id /\ \A k \in (i + 1)..Len(ms) : ms[k].id # id]]

\* cycle: does walking up from id come to a message a second time?
Circular(ms, id) ==
    LET mail == ById(ms)
        up[n \in 0..Len(ms)] ==
            IF n = 0 THEN {id} ELSE {mail[m].parent : m \in up[n - 1]} \cap DOMAIN mail
    IN  up[Cardinality(DOMAIN mail)] # {}

\* Variant: parents are looked up among all messages.
ParentRowOfAll(p, m) == IF m.parent \in IdsOf(p.mails) THEN {<<"mail", m.parent>>} ELSE {}
ParentRow(p, m) == IF m.parent \in IdsOf(Mails(p)) THEN {<<"mail", m.parent>>} ELSE {}

LabelSid == <<"gmail", "label">>
MailJobs(p) ==
    LET ms == Mails(p)
        Files(m)  == IF m.att THEN EnvDeps(p) ELSE {}
        Row(i) ==
            IF Again(ms, "id", i) THEN NoJob(<<"mail", ms[i].id, "dup">>)
            ELSE IF Circular(ms, ms[i].id) THEN NoJob(<<"mail", ms[i].id>>)
            ELSE Job(<<"mail", ms[i].id>>, {LabelSid} \cup Files(ms[i]) \cup ParentRow(p, ms[i]))
    IN  IF ~p.gmail THEN << >>
        ELSE <<Job(LabelSid, WipeOf(p, "gmail"))>> \o [i \in DOMAIN ms |-> Row(i)]

-----------------------------------------------------------------------------
\* The folders above the files, parents first.
FoldersOf(rels) == UNION {{SubSeq(r, 1, n) : n \in 1..(Len(r) - 1)} : r \in rels}
\* The folder all others are in; its id is made like theirs, of its name.
RootName == [generated |-> "GAB_UltraEvals", github |-> "Github"]
FolderSid(type, rel) == <<type, "folder">> \o (IF rel = << >> THEN <<RootName[type]>> ELSE rel)

\* _drive_folder_jobs
FolderJobs(p, type, rels, deps) ==
    LET dirs == SetToSortSeq(FoldersOf(rels), LAMBDA a, b : Len(a) < Len(b))
    IN  <<Job(FolderSid(type, << >>), WipeOf(p, "drive") \cup deps)>>
        \o [i \in DOMAIN dirs |->
               Job(FolderSid(type, dirs[i]), {FolderSid(type, DirOf(dirs[i]))})]

\* A path seen before is a row that fails, for repository files no row.
FileJobs(type, items) ==
    LET Row(i) ==
            IF Again(items, "rel", i) THEN NoJob(<<type, "file">> \o items[i].rel \o <<"dup">>)
            ELSE IF items[i].size > MaxSize THEN NoJob(<<type, "file">> \o items[i].rel)
            ELSE Job(<<type, "file">> \o items[i].rel,
                     {FolderSid(type, DirOf(items[i].rel))})
        kept == IF type = "github"
                THEN SelectSeq([i \in DOMAIN items |-> i],
                        LAMBDA i : ~Again(items, "rel", i))
                ELSE [i \in DOMAIN items |-> i]
    IN  [k \in DOMAIN kept |-> Row(kept[k])]

Kept(items, on, rels) == IF on THEN SelectSeq(items, LAMBDA f : f.rel \in rels) ELSE items
DriveJobs(p) ==
    LET files == Kept(p.files, p.retry.on, p.retry.drive)
    IN  IF ~p.drive THEN << >>
        ELSE FolderJobs(p, "generated", Paths(files), EnvDeps(p)) \o FileJobs("generated", files)
GithubJobs(p) ==
    LET files == Kept(p.repo, p.retry.on, p.retry.github)
    IN  IF ~p.github THEN << >>
        ELSE FolderJobs(p, "github", Paths(files), {}) \o FileJobs("github", files)

\* plan_generate_jobs, then plan_account_jobs
RowsOf(p) == Stored(GenerateJobs(p) \o WipeJobs(p) \o EventJobs(p) \o MailJobs(p)
                    \o DriveJobs(p) \o GithubJobs(p))

Init == push \in Pushes /\ state = "new" /\ plan = << >>
Refuse ==
    /\ state = "new" /\ ~Valid(push)
    /\ state' = "refused"
    /\ UNCHANGED <<push, plan>>
Plan ==
    /\ state = "new" /\ Valid(push)
    /\ state' = "planned" /\ plan' = RowsOf(push)
    /\ UNCHANGED push
Next == Refuse \/ Plan
Spec == Init /\ [][Next]_vars

-----------------------------------------------------------------------------
(* Properties *)

\* The rows that get their turn: refused ones have it, the others after the rows
\* they wait for, whether those succeed or fail.
Turns ==
    LET done[n \in 0..Cardinality(DOMAIN plan)] ==
            IF n = 0 THEN {s \in DOMAIN plan : plan[s].status = "PERMANENT_FAILURE"}
            ELSE LET before == done[n - 1]
                 IN  before \cup {s \in DOMAIN plan : plan[s].deps \subseteq before}
    IN  done[Cardinality(DOMAIN plan)]

\* The records the plan was written for: no id twice, ids that are not cut, and no
\* folder at the top that has the name, and so the id, of the root: planned after it,
\* that folder makes the root's row wait for itself.
Distinct(items, key) == \A i \in DOMAIN items : ~Again(items, key, i)
WellFormed(p) ==
    /\ Distinct(p.mails, "id")
    /\ \A f \in Paths(p.files) \cup Paths(p.repo) : Len(f) + 3 <= MaxSid
    /\ <<RootName.generated>> \notin FoldersOf(Paths(p.files))
    /\ <<RootName.github>> \notin FoldersOf(Paths(p.repo))

\* Every row of a plan gets its turn: nothing waits for a row that is not planned,
\* be it left out by a push of skipped items or refused, and no rows wait for each
\* other, whatever the parents of the messages say and whatever name of the other
\* root, or deeper down of the own, a folder has.
EveryRowGetsItsTurn == state = "planned" /\ WellFormed(push) => Turns = DOMAIN plan
=============================================================================

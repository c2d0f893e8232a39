------------------------------ MODULE DriveCache ------------------------------
(***************************************************************************)
(* The directory into which the seeder unpacks the files of a persona once *)
(* for all accounts: the files, and a manifest with the fingerprint of the *)
(* source they were made from.  The start-up warms it; a push plans from   *)
(* the source, sees to the cache in its "generate" job, unless the row of  *)
(* that job is done since an earlier push of the run, and then reads it    *)
(* for each upload and each attachment.  The fingerprint is compared       *)
(* before the guard is taken, and readers do not take it at all.           *)
(*                                                                         *)
(* A file holds the number of the source version it was made from.  Every  *)
(* replacement of the source is taken to have a fingerprint of its own.    *)
(***************************************************************************)
EXTENDS Integers, FiniteSets

CONSTANTS
    Users,        \* threads that use the cache of the persona
    Rels,         \* the persona's files
    Free,         \* the guard, free
    Invalid,      \* versions of the source that do not parse
    MaxVersion,   \* bound: versions of the source
    MaxFaults     \* bound: files not written, builders that fail, restarts

ASSUME CacheAssumption == Free \notin Users

VARIABLES
    source,       \* version of filesystem/data.json, the latest
    files,        \* what is in the directory
    manifest,     \* version and files, as the manifest has them
    guard,        \* _GUARD
    user,         \* per thread what it is about
    faults,       \* failures so far
    raced         \* history: the files may not be what the manifest vouches for

vars == <<source, files, manifest, guard, user, faults, raced>>

Absent  == 0    \* no such file; a message without its attachment
Torn    == -1   \* being written

\* env is the status of the row of the "generate" job in the store of the push's run.
\* from and seen are history: the source that the manifest vouched for when the push began
\* to read, until that changes or a good cache is built again, and what it read meanwhile.
User(kind, step, env) ==
    [kind |-> kind, step |-> step, env |-> env, version |-> 0, todo |-> {},
     made |-> {}, from |-> 0, seen |-> {}]
Push(env) == User("push", "plan", env)
Warm == User("warm", "check", "PENDING")

Init ==
    /\ source = 1
    /\ files = [r \in Rels |-> Absent]
    /\ manifest = [version |-> 0, files |-> {}]
    /\ guard = Free
    /\ user \in [Users -> {Push("PENDING"), Warm}]
    /\ faults = 0 /\ raced = FALSE

Vouched == manifest.version = source
AtStep(u, s) == user[u].step = s
Becomes(u, new) == user' = [user EXCEPT ![u] = new]
\* The call ends: the warm-up is done, a push begins to read.
Done(u)         == User(user[u].kind, "done", user[u].env)
Reading(sound)  == [User("push", "read", "SUCCESS") EXCEPT !.from = IF sound THEN source ELSE 0]
Ended(u, sound) == IF user[u].kind = "push" THEN Reading(sound) ELSE Done(u)
\* After a step that disturbs the readers.
Disturbed(new)  == [v \in Users |-> [new[v] EXCEPT !.from = 0, !.seen = {}]]

-----------------------------------------------------------------------------
(* ensure_persona_drive_cache *)

\* The manifest and the source's fingerprint are compared: a hit ends the call.
Check(u) ==
    /\ AtStep(u, "check")
    /\ Becomes(u, IF Vouched THEN Ended(u, ~raced) ELSE [user[u] EXCEPT !.step = "parse"])
    /\ UNCHANGED <<source, files, manifest, guard, faults, raced>>

\* The source is read and parsed, outside the guard.  One that does not parse leaves the
\* cache as it is, and the job fails for good.
Parse(u) ==
    /\ AtStep(u, "parse")
    /\ Becomes(u, IF source \in Invalid THEN Done(u)
                  ELSE [user[u] EXCEPT !.step = "guard", !.version = source, !.todo = Rels,
                                       !.made = {}])
    /\ UNCHANGED <<source, files, manifest, guard, faults, raced>>

\* Nothing is compared again: a good cache may be built a second time, under the eyes of
\* those who already read it.
TakeGuard(u) ==
    /\ AtStep(u, "guard") /\ guard = Free
    /\ guard' = u
    /\ raced' = (raced \/ Vouched)
    /\ LET new == [user EXCEPT ![u].step = "clear"]
       IN  user' = IF Vouched THEN Disturbed(new) ELSE new
    /\ UNCHANGED <<source, files, manifest, faults>>

\* The old files go one by one.
Clear(u) ==
    /\ AtStep(u, "clear")
    /\ IF \A r \in Rels : files[r] = Absent
       THEN Becomes(u, [user[u] EXCEPT !.step = "write"]) /\ UNCHANGED files
       ELSE /\ \E r \in Rels : files[r] # Absent /\ files' = [files EXCEPT ![r] = Absent]
            /\ UNCHANGED user
    /\ UNCHANGED <<source, manifest, guard, faults, raced>>

\* A file is opened and then filled; one that cannot be decoded or written is left out of
\* the manifest, and what there is of it stays.
Open(u, r) ==
    /\ AtStep(u, "write") /\ r \in user[u].todo /\ files[r] = Absent
    /\ \A q \in Rels : files[q] = Torn => q \notin user[u].todo
    /\ files' = [files EXCEPT ![r] = Torn]
    /\ UNCHANGED <<source, manifest, guard, user, faults, raced>>

Fill(u, r) ==
    /\ AtStep(u, "write") /\ r \in user[u].todo /\ files[r] = Torn
    /\ files' = [files EXCEPT ![r] = user[u].version]
    /\ Becomes(u, [user[u] EXCEPT !.todo = @ \ {r}, !.made = @ \cup {r}])
    /\ UNCHANGED <<source, manifest, guard, faults, raced>>

Skip(u, r) ==
    /\ AtStep(u, "write") /\ r \in user[u].todo /\ faults < MaxFaults
    /\ \A q \in Rels \ {r} : files[q] = Torn => q \notin user[u].todo
    /\ Becomes(u, [user[u] EXCEPT !.todo = @ \ {r}])
    /\ faults' = faults + 1
    /\ UNCHANGED <<source, files, manifest, guard, raced>>

\* Variant: the manifest is written before the files.
PublishFirst(u) ==
    /\ AtStep(u, "write") /\ user[u].todo = Rels
    /\ manifest' = [version |-> source, files |-> Rels]
    /\ guard' = Free
    /\ raced' = (source # user[u].version)
    /\ Becomes(u, Ended(u, source = user[u].version))
    /\ UNCHANGED <<source, files, faults>>

\* The manifest replaces the old one at once; its fingerprint is the one the source has
\* now, not the one it had when it was parsed.
Publish(u) ==
    /\ AtStep(u, "write") /\ user[u].todo = {}
    /\ manifest' = [version |-> source, files |-> user[u].made]
    /\ guard' = Free
    /\ raced' = (source # user[u].version)
    /\ Becomes(u, Ended(u, source = user[u].version))
    /\ UNCHANGED <<source, files, faults>>

\* An error of the directory or of the manifest: the guard is given back, the files are as
\* they are.  The job is tried again, unless it was the last time.
Fails(u) ==
    /\ guard = u /\ faults < MaxFaults
    /\ guard' = Free /\ faults' = faults + 1
    /\ \/ Becomes(u, Done(u))
       \/ user[u].kind = "push" /\ Becomes(u, User("push", "check", "PENDING"))
    /\ UNCHANGED <<source, files, manifest, raced>>

-----------------------------------------------------------------------------
(* The readers *)

\* The rows are planned from the source itself, one for each of its files.  A "generate"
\* row that is done stays done.
Plan(u) ==
    /\ AtStep(u, "plan")
    /\ Becomes(u, IF user[u].env = "SUCCESS" THEN Reading(Vouched /\ ~raced)
                  ELSE [user[u] EXCEPT !.step = "check"])
    /\ UNCHANGED <<source, files, manifest, guard, faults, raced>>

Reads(u, r, content) ==
    /\ user[u].from # 0
    /\ Becomes(u, [user[u] EXCEPT !.seen = @ \cup {<<r, content>>}])
    /\ UNCHANGED <<source, files, manifest, guard, faults, raced>>

\* read_cached_bytes, for an upload; a file that is not there is looked for again.
Upload(u, r) == AtStep(u, "read") /\ files[r] # Absent /\ Reads(u, r, files[r])

\* file_index_from_cache, for a message: an attachment the cache does not have is left out
\* without a word.
Attach(u, r) ==
    AtStep(u, "read") /\ Reads(u, r, IF r \in manifest.files THEN files[r] ELSE Absent)

-----------------------------------------------------------------------------
\* The persona gets a new file.
Replace ==
    /\ source < MaxVersion
    /\ source' = source + 1
    /\ user' = Disturbed(user)
    /\ UNCHANGED <<files, manifest, guard, faults, raced>>

\* A thread takes up the next push, of the same run or of another.
NextPush(u) ==
    /\ user[u].step \in {"done", "read"}
    /\ \E env \in {"PENDING", user[u].env} : Becomes(u, Push(env))
    /\ UNCHANGED <<source, files, manifest, guard, faults, raced>>

\* The process dies and starts again, with the warm-up; the rows of the runs stay.
Restart ==
    /\ faults < MaxFaults
    /\ faults' = faults + 1 /\ guard' = Free
    /\ user' \in [Users -> {Push("PENDING"), Push("SUCCESS"), Warm}]
    /\ \A u \in Users : user'[u].env \in {"PENDING", user[u].env}
    /\ UNCHANGED <<source, files, manifest, raced>>

Next ==
    \/ \E u \in Users : \/ Check(u) \/ Parse(u) \/ TakeGuard(u) \/ Clear(u) \/ Publish(u)
                        \/ Fails(u) \/ Plan(u) \/ NextPush(u)
    \/ \E u \in Users, r \in Rels :
          Open(u, r) \/ Fill(u, r) \/ Skip(u, r) \/ Upload(u, r) \/ Attach(u, r)
    \/ Replace
    \/ Restart
Spec == Init /\ [][Next]_vars

-----------------------------------------------------------------------------
(* Properties *)

\* The types of the variables.
Kinds == {"push", "warm"}
Steps == {"plan", "check", "parse", "guard", "clear", "write", "read", "done"}
AUser == [kind : Kinds, step : Steps, env : {"PENDING", "SUCCESS"}, version : Nat, todo : SUBSET Rels,
          made : SUBSET Rels, from : Nat, seen : SUBSET (Rels \X Int)]
TypeOK ==
    /\ source \in Nat \ {0}
    /\ files \in [Rels -> Int]
    /\ manifest \in [version : Nat, files : SUBSET Rels]
    /\ guard \in Users \cup {Free}
    /\ user \in [Users -> AUser]
    /\ raced \in BOOLEAN

\* While nobody builds, a manifest that vouches for the source lists only files that are
\* there and hold that source, whatever builder failed or died before, unless a good cache
\* was being built a second time or the source changed while it was parsed.
VouchedIsWhole ==
    guard = Free /\ Vouched /\ ~raced => \A r \in manifest.files : files[r] = source

\* And what a push reads of the files in such a manifest is whole and of the source that
\* the manifest stood for when it began, as long as that is the source and neither of the
\* two happened since: no reader meets a builder, although it takes no lock.
ReadsAreOfTheSource ==
    \A u \in Users : \A x \in user[u].seen : x[1] \in manifest.files => x[2] = source

CacheIsTrue == VouchedIsWhole /\ ReadsAreOfTheSource

\* What a cache hit and a done row are taken for.  The code keeps neither: see the README.
HitIsWhole        == guard = Free /\ Vouched => \A r \in manifest.files : files[r] = source
ReadingIsVouched  == \A u \in Users : AtStep(u, "read") => manifest.version # 0 /\ Vouched
=============================================================================

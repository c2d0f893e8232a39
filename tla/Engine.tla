------------------------------- MODULE Engine -------------------------------
(***************************************************************************)
(* The engine's commands on one account: seed, delta and reset of a        *)
(* persona, call by call, with the manifest on disk, the process's copy of *)
(* it, and the account as Google holds it.  A process may die before, in   *)
(* or after any call; its copy of the manifest dies with it and the next   *)
(* command starts from the file.  Between commands the account's user does *)
(* what the user of a mailbox, a Drive and a calendar can do, and the      *)
(* archive file may be copied anew.                                        *)
(*                                                                         *)
(* DriveReconcile, MailReconcile and CalendarReconcile say what each       *)
(* service reads and does; this module says when, and what is saved.       *)
(***************************************************************************)
EXTENDS DriveReconcile, MailReconcile, CalendarReconcile

CONSTANTS Archives,     \* the personas a behaviour may be about, with bounds on commands and edits
          Readbacks,    \* whether delta verifies: GAB_SKIP_VERIFY is unset or 0
          MaxFaults

VARIABLES archive,      \* the persona's data and which services it has
          stamp,        \* size and mtime of the archive file
          drive, mail, cal,
          book,         \* the manifest file
          run,          \* the running command
          last,         \* how the last command ended; cleared by an edit
          spent,        \* commands, edits and faults so far
          disturbed,    \* edits, scoped or torn resets since the last whole reset
          stray,        \* per service: calls that took effect unrecorded
          cleared       \* services with an accepted delta and no edit since

vars == <<archive, stamp, drive, mail, cal, book, run, last, spent, disturbed, stray, cleared>>
worlds == <<drive, mail, cal>>

Services == {"drive", "gmail", "calendar"}

\* What an archive can be: finitely many files, each with a name below the root and none a
\* folder of another; no two letters and no two events of one id; a parent is an earlier
\* letter of the same archive.  (The engine lists parents first, but for letters that
\* answer each other in a circle, which it warns of.)
IsArchive(a) ==
  /\ a.serves \subseteq Services
  /\ IsFiniteSet(a.files) /\ a.files \subseteq Seq(STRING) \ {<<>>}
  /\ Folders(a.files) \cap a.files = {}
  /\ a.letters \in Seq(Letters(a)) /\ IsInjective(a.letters) /\ NoLetter \notin Letters(a)
  /\ \A s \in Letters(a) :
       a.parent[s] # NoLetter =>
         a.parent[s] \in Letters(a) /\ Order(a, a.parent[s]) < Order(a, s)
  /\ a.events \in Seq(ToSet(a.events)) /\ IsInjective(a.events)
  /\ NoSource \notin ToSet(a.events)

ASSUME ArchivesAssumption == \A a \in Archives : IsArchive(a)

NoBook == [tag |-> 0]
NoCommand == [cmd |-> "none", svcs |-> {}, result |-> "none", at |-> "none", twice |-> FALSE]
Idle == [cmd |-> "none"]

NewBook(t) == [tag |-> t, stamp |-> stamp, done |-> FALSE, drive |-> <<>>,
               mail |-> EmptyMailBook, cal |-> <<>>]

(***************************************************************************)
(* Fresh names.  Ids and tags are never used twice by Google and by the    *)
(* engine; a name nothing refers to any more may stand for a new one.      *)
(***************************************************************************)
Least(used) == Min((1 .. Cardinality(used) + 1) \ used)

DriveIdsOf(b) == IF b.tag = 0 THEN {} ELSE {b.drive[p].id : p \in DOMAIN b.drive}
MailIdsOf(b) ==
  IF b.tag = 0 THEN {}
  ELSE {b.mail.label} \cup UNION {{e.id, e.thread} : e \in Range(b.mail.messages)}
Memory == IF "mem" \in DOMAIN run THEN run.mem ELSE NoBook

NewDriveId == Least(DOMAIN drive \cup DriveIdsOf(book) \cup DriveIdsOf(Memory))
NewMailId ==
  Least(DOMAIN mail.messages \cup {mail.messages[i].thread : i \in DOMAIN mail.messages}
          \cup DOMAIN mail.labels \cup MailIdsOf(book) \cup MailIdsOf(Memory))
NewEventNumber == Least({i[3] : i \in {j \in DOMAIN cal.events : j[1] = 0}}
          \cup {IF book.tag # 0 /\ s \in DOMAIN book.cal THEN book.cal[s].id[3] ELSE 0 :
                  s \in ToSet(archive.events)})
NewTag == Least({drive[i].mark.tag : i \in DOMAIN drive} \cup Range(mail.labels)
          \cup {cal.events[i].tag : i \in DOMAIN cal.events}
          \cup {i[1] : i \in DOMAIN cal.events \cup cal.gone} \cup {book.tag})

(***************************************************************************)
(* Services in the order of each command.                                  *)
(***************************************************************************)
OrderOf(cmd) ==
  IF cmd = "reset" THEN <<"gmail", "calendar", "drive">> ELSE <<"drive", "gmail", "calendar">>
InOrder(cmd, svcs) ==
  LET Turn(n) == IF OrderOf(cmd)[n] \in svcs THEN <<OrderOf(cmd)[n]>> ELSE <<>>
  IN Turn(1) \o Turn(2) \o Turn(3)

Here(s) == run.cmd # "none" /\ run.left # <<>> /\ Head(run.left) = s
Opening(s) == Here(s) /\ ~run.open
Working(s) == Here(s) /\ run.open
Ready(a) ==
  \A o \in run.todo : \/ a.rank[1] < o.rank[1]
                      \/ a.rank[1] = o.rank[1] /\ a.rank[2] <= o.rank[2]

(***************************************************************************)
(* How a command starts and ends.                                          *)
(***************************************************************************)
End(result) ==
  /\ run' = Idle
  /\ last' = [cmd |-> run.cmd, svcs |-> run.svcs, result |-> result,
              at |-> IF run.left = <<>> THEN "none" ELSE Head(run.left), twice |-> run.twice]

Save(b) == book' = b
Keep == UNCHANGED book

Start(cmd, svcs, b) ==
  /\ run' = [cmd |-> cmd, svcs |-> svcs, left |-> InOrder(cmd, svcs), open |-> FALSE,
             todo |-> {}, mem |-> b, twice |-> FALSE]
  /\ last' = NoCommand

Refuse(cmd, svcs) ==
  /\ run' = Idle
  /\ last' = [cmd |-> cmd, svcs |-> svcs, result |-> "refused", at |-> "none",
              twice |-> FALSE]

Command(cmd, svcs) ==
  /\ run = Idle
  /\ spent.commands < archive.commands
  /\ spent' = [spent EXCEPT !.commands = @ + 1]
  /\ UNCHANGED <<archive, stamp, worlds, book, disturbed, stray>>

StartSeedOnce(svcs) ==
  /\ Command("seed", svcs)
  /\ cleared' = {}
  /\ IF book # NoBook /\ book.done THEN Refuse("seed", svcs)
     ELSE Start("seed", svcs, IF book = NoBook THEN NewBook(NewTag) ELSE book)

\* A seed continues the manifest that is there, if it is of this archive file.
StartSeed(svcs) ==
  /\ Command("seed", svcs)
  /\ cleared' = {}
  /\ IF book # NoBook /\ book.stamp # stamp THEN Refuse("seed", svcs)
     ELSE Start("seed", svcs, IF book = NoBook THEN NewBook(NewTag) ELSE book)

\* A delta needs a completed manifest; it goes by the archive's catalog, which a
\* new copy of the file leaves as it is.
StartDelta(svcs) ==
  /\ Command("delta", svcs)
  /\ UNCHANGED cleared
  /\ IF book = NoBook THEN Refuse("delta", svcs)
     ELSE IF ~book.done THEN Refuse("delta", svcs)
     ELSE Start("delta", svcs, book)

StartReset(svcs) ==
  /\ Command("reset", svcs)
  /\ cleared' = {}
  /\ Start("reset", svcs, book)

\* The whole of a service is done when nothing is left of its plan.
NextService ==
  /\ run.cmd # "none" /\ run.left # <<>> /\ run.open /\ run.todo = {}
  /\ run' = [run EXCEPT !.left = Tail(@), !.open = FALSE]
  /\ UNCHANGED <<archive, stamp, worlds, book, last, spent, disturbed, stray, cleared>>

FinishSeed ==
  /\ run.cmd = "seed" /\ run.left = <<>>
  /\ Save([run.mem EXCEPT !.done = TRUE])
  /\ End("ok")
  /\ UNCHANGED <<archive, stamp, worlds, spent, disturbed, stray, cleared>>

Verified(s, b) ==
  CASE s = "drive" -> DriveVerified(drive, b.drive, b.tag, archive.files)
    [] s = "gmail" -> MailVerified(mail, b.mail, b.tag, archive)
    [] s = "calendar" -> CalendarVerified(cal, b.cal, b.tag, archive.events)

\* verify_persona reads the manifest file, before delta's last checkpoint.
FinishDelta ==
  /\ run.cmd = "delta" /\ run.left = <<>>
  /\ \E readback \in Readbacks :
       IF readback => \A s \in run.svcs : Verified(s, book)
       THEN Save(run.mem) /\ End("ok")
       ELSE Keep /\ End("unverified")
  /\ UNCHANGED <<archive, stamp, worlds, spent, disturbed, stray, cleared>>

\* The manifest goes even when only some services were reset.
FinishReset ==
  /\ run.cmd = "reset" /\ run.left = <<>>
  /\ Save(NoBook)
  /\ End("ok")
  /\ disturbed' = (run.svcs # archive.serves)
  /\ stray' = IF run.svcs = archive.serves THEN [s \in Services |-> 0] ELSE stray
  /\ UNCHANGED <<archive, stamp, worlds, spent, cleared>>

\* The process died in or around a call; lost says that it left an object
\* which a seed that resumes will not know for its own.
Died(s, lost) ==
  /\ spent.faults < MaxFaults
  /\ spent' = [spent EXCEPT !.faults = @ + 1]
  /\ Keep
  /\ End("aborted")
  /\ stray' = IF run.cmd # "reset" /\ lost THEN [stray EXCEPT ![s] = @ + 1] ELSE stray

(***************************************************************************)
(* A service opens: the account is read and the plan made.  twice is       *)
(* history: the plan was made by a manifest that names one object of Drive *)
(* under two paths.                                                        *)
(***************************************************************************)
Open(todo, b) ==
  run' = [run EXCEPT !.open = TRUE, !.todo = todo, !.mem = b, !.twice = @ \/ NamesTwice(b.drive)]
Opened(s) == cleared' = IF run.cmd = "delta" THEN cleared \cup {s} ELSE cleared

OpenDriveSeed ==
  /\ Opening("drive") /\ run.cmd = "seed"
  /\ IF DriveSeedOpens(drive, run.mem.tag, archive.files)
     THEN Open(DriveSeedTodo(run.mem.drive, archive.files), run.mem) /\ UNCHANGED last
     ELSE End("refused")
  /\ UNCHANGED <<archive, stamp, worlds, book, spent, disturbed, stray, cleared>>

OpenMailSeed ==
  /\ Opening("gmail") /\ run.cmd = "seed"
  /\ LET l == Labelled(mail, run.mem.mail, run.mem.tag, NewMailId)
         b == [run.mem EXCEPT !.mail = l.book]
     IN /\ mail' = l.world
        /\ \/ /\ Open(MailSeedTodo(l.book, archive), b) /\ Save(b)
              /\ UNCHANGED <<last, spent, stray>>
           \/ Died("gmail", book = NoBook)
  /\ UNCHANGED <<archive, stamp, drive, cal, disturbed, cleared>>

OpenCalendarSeed ==
  /\ Opening("calendar") /\ run.cmd = "seed"
  /\ Open(CalendarSeedTodo(run.mem.cal, archive.events), run.mem)
  /\ UNCHANGED <<archive, stamp, worlds, book, last, spent, disturbed, stray, cleared>>

OpenDriveDelta ==
  /\ Opening("drive") /\ run.cmd = "delta"
  /\ LET plan == DrivePlan(drive, run.mem.drive, run.mem.tag, archive.files)
         b == [run.mem EXCEPT !.drive = DriveAdopted(drive, @, run.mem.tag, archive.files)]
     IN IF plan.ok
        THEN /\ Open(plan.todo, b) /\ Opened("drive") /\ UNCHANGED last
             /\ Save(b)
        ELSE End("refused") /\ Keep /\ UNCHANGED cleared
  /\ UNCHANGED <<archive, stamp, worlds, spent, disturbed, stray>>

\* Refused before the label is made; the plan that is carried out is made after.
OpenMailDelta ==
  /\ Opening("gmail") /\ run.cmd = "delta"
  /\ LET l == Labelled(mail, run.mem.mail, run.mem.tag, NewMailId)
         b == [run.mem EXCEPT !.mail = MailAdopted(l.world, l.book, archive)]
     IN IF MailPlan(mail, run.mem.mail, run.mem.tag, archive).ok
        THEN /\ mail' = l.world
             /\ Opened("gmail")
             /\ \/ /\ Open(MailPlan(l.world, l.book, run.mem.tag, archive).todo, b) /\ Save(b)
                   /\ UNCHANGED <<last, spent, stray>>
                \/ Died("gmail", book = NoBook)
        ELSE End("refused") /\ Keep /\ UNCHANGED <<mail, cleared, spent, stray>>
  /\ UNCHANGED <<archive, stamp, drive, cal, disturbed>>

OpenCalendarDelta ==
  /\ Opening("calendar") /\ run.cmd = "delta"
  /\ LET plan == CalendarPlan(cal, run.mem.cal, run.mem.tag, archive.events)
         b == [run.mem EXCEPT !.cal = CalendarAdopted(cal, @, run.mem.tag, archive.events)]
     IN IF plan.ok
        THEN /\ Open(plan.todo, b) /\ Opened("calendar") /\ UNCHANGED last
             /\ Save(b)
        ELSE End("refused") /\ Keep /\ UNCHANGED cleared
  /\ UNCHANGED <<archive, stamp, worlds, spent, disturbed, stray>>

(***************************************************************************)
(* The calls of a plan, lowest rank first.  Only a call that gives an      *)
(* object a new id is followed by a checkpoint.                            *)
(***************************************************************************)
Checkpointed(a) == a.do \in {"create", "replace", "seed", "import", "reimport", "insert"}

Did(a, b) ==
  /\ run' = [run EXCEPT !.todo = @ \ {a}, !.mem = b]
  /\ IF Checkpointed(a) THEN Save(b) ELSE Keep
  /\ UNCHANGED last

DriveCall(a) ==
  LET seeding == a.do = "seed"
      b == run.mem.drive
      t == run.mem.tag
      r == IF seeding THEN DriveSeeded(drive, b, t, archive.files, a.path, NewDriveId)
           ELSE DriveDone(a, drive, b, t, archive.files, NewDriveId)
      answers == IF seeding THEN DriveSeedFits(drive, b, t, archive.files, a.path)
                 ELSE DriveAnswers(a, drive)
      torn == IF seeding THEN {drive, r.world}
              ELSE DriveTorn(a, drive, b, t, archive.files, NewDriveId)
  IN IF seeding /\ ~DriveSeedNext(b, a.path) THEN FALSE
     ELSE IF ~answers
     THEN End("failed") /\ Keep /\ UNCHANGED <<drive, spent, stray>>
     ELSE \/ /\ drive' = r.world
             /\ Did(a, [run.mem EXCEPT !.drive = r.book])
             /\ UNCHANGED <<spent, stray>>
          \/ \E w \in torn : drive' = w /\ Died("drive", book = NoBook /\ w # drive)

MailCall(a) ==
  LET r == MailDone(a, mail, run.mem.mail, archive, NewMailId)
  IN \/ /\ mail' = r.world
        /\ Did(a, [run.mem EXCEPT !.mail = r.book])
        /\ UNCHANGED <<spent, stray>>
     \/ \E m \in MailTorn(a, mail, run.mem.mail, archive, NewMailId) :
          mail' = m /\ Died("gmail", m # mail)

CalendarCall(a) ==
  LET b == run.mem.cal
      t == run.mem.tag
      seeding == a.do = "seed"
      r == IF seeding THEN CalendarInserted(cal, b, t, a.src, 0) ELSE CalendarDone(a, cal, b, t)
  IN IF seeding /\ ~CalendarSeedFits(cal, t, a.src)
     THEN End("failed") /\ Keep /\ UNCHANGED <<cal, spent, stray>>
     ELSE \/ /\ cal' = r.world
             /\ Did(a, [run.mem EXCEPT !.cal = r.book])
             /\ UNCHANGED <<spent, stray>>
          \/ \E c \in {cal, r.world} : cal' = c /\ Died("calendar", book = NoBook /\ c # cal)

StepDrive ==
  /\ Working("drive") /\ \E a \in run.todo : Ready(a) /\ DriveCall(a)
  /\ UNCHANGED <<archive, stamp, mail, cal, disturbed, cleared>>

StepMail ==
  /\ Working("gmail") /\ \E a \in run.todo : Ready(a) /\ MailCall(a)
  /\ UNCHANGED <<archive, stamp, drive, cal, disturbed, cleared>>

StepCalendar ==
  /\ Working("calendar") /\ \E a \in run.todo : Ready(a) /\ CalendarCall(a)
  /\ UNCHANGED <<archive, stamp, drive, mail, disturbed, cleared>>

\* A service is wiped, or the process dies with some of it gone.
Wipe ==
  /\ run.cmd = "reset" /\ run.left # <<>>
  /\ LET s == Head(run.left)
         Wiped(gone) ==
           IF gone THEN /\ run' = [run EXCEPT !.left = Tail(@)]
                        /\ UNCHANGED <<last, spent, stray, disturbed>>
           ELSE Died(s, TRUE) /\ disturbed' = TRUE
     IN \/ /\ s = "drive" /\ UNCHANGED <<mail, cal>>
           /\ \E w \in DriveWipes(drive), gone \in BOOLEAN :
                (gone => w = <<>>) /\ drive' = w /\ Wiped(gone)
        \/ /\ s = "gmail" /\ UNCHANGED <<drive, cal>>
           /\ \E m \in MailWipes(mail), gone \in BOOLEAN :
                (gone => m = EmptyMailbox) /\ mail' = m /\ Wiped(gone)
        \/ /\ s = "calendar" /\ UNCHANGED <<drive, mail>>
           /\ \E c \in CalendarWipes(cal), gone \in BOOLEAN :
                (gone => c.events = <<>>) /\ cal' = c /\ Wiped(gone)
  /\ UNCHANGED <<archive, stamp, book, cleared>>

(***************************************************************************)
(* The world between two commands.                                         *)
(***************************************************************************)
Edit ==
  /\ run = Idle /\ spent.edits < archive.edits /\ spent.commands > 0
  /\ spent' = [spent EXCEPT !.edits = @ + 1]
  /\ \/ /\ "drive" \in archive.serves /\ UNCHANGED <<mail, cal>>
        /\ drive' \in DriveEdits(drive, archive.files, NewDriveId)
     \/ /\ "gmail" \in archive.serves /\ UNCHANGED <<drive, cal>>
        /\ mail' \in MailEdits(mail, archive, NewMailId)
     \/ /\ "calendar" \in archive.serves /\ UNCHANGED <<drive, mail>>
        /\ cal' \in CalendarEdits(cal, archive.events, NewEventNumber)
  /\ disturbed' = TRUE /\ cleared' = {} /\ last' = NoCommand
  /\ UNCHANGED <<archive, stamp, book, run, stray>>

\* The archive is copied anew: same catalog, another mtime.
TouchArchive ==
  /\ run = Idle /\ archive.touched /\ stamp = 0
  /\ stamp' = 1
  /\ UNCHANGED <<archive, worlds, book, run, last, spent, disturbed, stray, cleared>>

Init ==
  /\ archive \in Archives
  /\ stamp = 0
  /\ drive = <<>> /\ mail = EmptyMailbox /\ cal = EmptyCalendar
  /\ book = NoBook /\ run = Idle /\ last = NoCommand
  /\ spent = [commands |-> 0, edits |-> 0, faults |-> 0]
  /\ disturbed = FALSE /\ cleared = {}
  /\ stray = [s \in Services |-> 0]

Next ==
  \/ \E svcs \in (SUBSET archive.serves) \ {{}} :
       StartSeed(svcs) \/ StartDelta(svcs) \/ StartReset(svcs)
  \/ NextService \/ FinishSeed \/ FinishDelta \/ FinishReset
  \/ OpenDriveSeed \/ OpenMailSeed \/ OpenCalendarSeed
  \/ OpenDriveDelta \/ OpenMailDelta \/ OpenCalendarDelta
  \/ StepDrive \/ StepMail \/ StepCalendar \/ Wipe
  \/ Edit \/ TouchArchive

Spec == Init /\ [][Next]_vars

-----------------------------------------------------------------------------
(***************************************************************************)
(* What the commands promise.                                              *)
(***************************************************************************)
TypeOK ==
  /\ archive \in Archives /\ stamp \in 0 .. 1
  /\ \A i \in DOMAIN drive : drive[i].in \in DOMAIN drive \cup {Root}
  /\ book = NoBook \/ {p \in DOMAIN book.drive : ~\E q \in archive.files : IsPrefix(p, q)} = {}
  /\ run.cmd \in {"none", "seed", "delta", "reset"}
  /\ last.result \in {"none", "ok", "refused", "failed", "aborted", "unverified"}
  /\ spent.faults <= MaxFaults /\ disturbed \in BOOLEAN /\ cleared \subseteq Services

\* A file's bytes are the archive's, or those the manifest says are.
Kept(p, o) == o.bytes \in {Base(p), NoBytes}
Booked(p, o) == Kept(p, o) \/ (book # NoBook /\ p \in DOMAIN book.drive
                                /\ o.bytes = book.drive[p].bytes /\ o.bytes = Twin(p))

Is(s) ==
  CASE s = "drive" -> DriveIs(drive, archive.files, Booked)
    [] s = "gmail" -> MailIs(mail, archive)
    [] s = "calendar" -> CalendarIs(cal, archive.events)

PlanOf(s) ==
  CASE s = "drive" -> DrivePlan(drive, book.drive, book.tag, archive.files)
    [] s = "gmail" -> MailPlan(mail, book.mail, book.tag, archive)
    [] s = "calendar" -> CalendarPlan(cal, book.cal, book.tag, archive.events)

\* A delta that ends well leaves each of its services holding the baseline and
\* nothing else, whatever the user did before and wherever earlier commands died,
\* also when the read-back is skipped (the default).  Drive bytes may be those of
\* the manifest entry instead: DeltaRevertsModified below tells them apart.
DeltaRestores ==
  last.cmd = "delta" /\ last.result = "ok" =>
    \A s \in last.svcs : Is(s) \/ (s = "drive" /\ last.twice)

\* A delta that has carried out its plan passes its own read-back, and the next
\* delta finds nothing left to do: one pass converges.
DeltaSettles ==
  last.cmd = "delta" /\ last.result \in {"ok", "unverified"} /\ ~last.twice =>
    \A s \in last.svcs : Verified(s, book) /\ PlanOf(s) = [ok |-> TRUE, todo |-> {}]

\* The read-back never passes an account that is not the baseline, in any state
\* between two commands, however its manifest came about.
VerifyIsSound ==
  run = Idle /\ book # NoBook =>
    \A s \in archive.serves : Verified(s, book) => Is(s)

\* A seed of the whole persona that ends well, on an account no one disturbed since
\* the last whole reset, leaves the baseline, over any number of deaths and
\* resumptions: but for calls that took effect and were not recorded.
SeedRestores ==
  last.cmd = "seed" /\ last.result = "ok" /\ last.svcs = archive.serves /\ ~disturbed =>
    \A s \in archive.serves : stray[s] = 0 => Is(s) /\ Verified(s, book)

\* A seed is refused, or fails, only for a new archive file or a disturbed account.
SeedResumes ==
  last.cmd = "seed" /\ last.result \in {"refused", "failed"} =>
    disturbed \/ stamp # book.stamp

\* Two entries of the manifest come to name one object only where a delta of Drive
\* finds an object without a mark at the path of one entry while another entry names
\* it: an object that a delta adopted before it died, and that the user then moved.
\* Messages and events are never named twice.
Names(b, p, i) == b # NoBook /\ p \in DOMAIN b.drive /\ b.drive[p].id = i

BookStaysInjective ==
  [][book' # NoBook =>
       /\ ~NamesTwice(book'.mail.messages) /\ ~NamesTwice(book'.cal)
       /\ \A p, q \in DOMAIN book'.drive :
            LET i == book'.drive[p].id
            IN p # q /\ book'.drive[q].id = i =>
                 /\ Names(book, p, i) \/ Names(book, q, i)
                 /\ \/ Names(book, p, i) /\ Names(book, q, i)
                    \/ i \in DOMAIN drive /\ drive[i].mark = NoMark]_vars

\* A service that accepted a delta does not refuse the next one because the first
\* died on the way: only an edit, a seed or a reset in between can make it do so, or a
\* calendar that was being adopted from an earlier seed, or another object at the path
\* of a file that was being replaced (RetryableDeltaResumes below).
TornDeltaResumes ==
  last.cmd = "delta" /\ last.result = "refused" /\ last.at \in cleared =>
    \/ last.at = "calendar" /\ ForeignTags(cal, book.tag) # {}
    \/ last.at = "drive" /\ \E p \in archive.files :
         Claimed(drive, book.drive, book.tag, p) = At(drive, p) /\ At(drive, p) # {}

\* A delta takes an object of the manifest away only to put its replacement there in
\* the same call, wherever the user had moved it: extras go after all is in place.
SavedObjectsStay ==
  [][run.cmd = "delta" =>
       /\ run.twice \/ \A p \in DOMAIN book.drive \cap Paths(archive.files) :
            book.drive[p].id \in DOMAIN drive \ DOMAIN drive' =>
              p \in archive.files /\ (run' = Idle \/ book'.drive[p].id \in DOMAIN drive')
       /\ \A s \in DOMAIN book.mail.messages :
            book.mail.messages[s].id \in DOMAIN mail.messages \ DOMAIN mail'.messages =>
              run' = Idle \/ book'.mail.messages[s].id \in DOMAIN mail'.messages
       /\ \A s \in DOMAIN book.cal :
            book.cal[s].id \in DOMAIN cal.events => book.cal[s].id \in DOMAIN cal'.events]_vars

(***************************************************************************)
(* What the documents say and the code does not do.                        *)
(***************************************************************************)

\* docs/PLATFORM_LOGIC_REFERENCE.md:26, "delete extras, restore deleted, revert
\* modified": after a delta the bytes in Drive are the archive's.
DeltaRevertsModified ==
  last.cmd = "delta" /\ last.result = "ok" /\ "drive" \in last.svcs =>
    DriveIs(drive, archive.files, Kept)

\* engine/README.md:112, "Retryable failures preserve checkpoints and resume in the
\* same mode": a delta that died can be run again.
RetryableDeltaResumes ==
  last.cmd = "delta" /\ last.result = "refused" => last.at \notin cleared
=============================================================================

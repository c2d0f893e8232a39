------------------------ MODULE MCProvisionPipeline -------------------------
(* Small plans for ProvisionPipeline. *)
EXTENDS ProvisionPipeline

MkJob(a, s, act, ds) == [account |-> a, service |-> s, action |-> act, deps |-> ds]

\* One account: cache, wipe, folder and a file in it.
DrivePlan == << MkJob("*", "generate", "materialize", << >>),
                MkJob("ann", "drive", "wipe", << >>),
                MkJob("ann", "drive", "create_folder", <<2, 1>>),
                MkJob("ann", "drive", "upload", <<3>>) >>
DrivePool == [s \in {"generate", "drive"} |-> IF s = "drive" THEN 2 ELSE 1]
OnePipe == [p \in {"p"} |-> {"ann"}]

\* Two accounts of a run, pushed one by one: a calendar to wipe and an event,
\* and an event alone.
CalendarPlan == << MkJob("ann", "calendar", "wipe", << >>),
                   MkJob("ann", "calendar", "insert_event", <<1>>),
                   MkJob("bob", "calendar", "insert_event", << >>) >>
CalendarPool == [s \in {"calendar"} |-> 1]
TwoPipes == [p \in {"p", "q"} |-> IF p = "p" THEN {"ann"} ELSE {"bob"}]
\* The same accounts without a wipe: a message and the reply to it, and a message of
\* the other account.
MailPlan == << MkJob("ann", "gmail", "insert_message", << >>),
               MkJob("ann", "gmail", "insert_message", <<1>>),
               MkJob("bob", "gmail", "insert_message", << >>) >>
MailPool == [s \in {"gmail"} |-> 1]
AnnEdits == {<<"ann", "drive">>}
=============================================================================

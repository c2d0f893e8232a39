------------------------ MODULE ResetSessionsProofs -------------------------
(* Proofs about ResetSessions: its types, that runs do not meet, that the persona   *)
(* recorded is the one the account holds unless a run failed, died, idled or hung,   *)
(* and that a run that wipes nothing is not routed over another persona.             *)
EXTENDS ResetSessions, TLAPS

\* Of an account's rows at most one is active.
OneActive ==
    \A s, t \in Sessions : s # t /\ account[s] = account[t]
        => status[s] \notin Active \/ status[t] \notin Active

\* A session that has not created its row has none.
NotYetThere == \A s \in Sessions : pc[s] \in {"new", "decided"} => status[s] = "absent"

\* From its insert to its result a request holds an active row, unless it is reaped.
RunIsActive ==
    \A s \in Sessions : kind[s] # "upload" /\ s \notin reaped
        /\ pc[s] \in {"waiting", "marking", "engine", "hung", "good", "bad"} => status[s] \in Active

\* Only an upload waits for a consent.
ConsentIsOfUpload == \A s \in Sessions : pc[s] = "consent" => kind[s] = "upload"

Inv == TypeOK /\ OneActive /\ NotYetThere /\ RunIsActive /\ ConsentIsOfUpload

LEMMA InitInv == Init => Inv
<1> SUFFICES ASSUME Init PROVE Inv
  OBVIOUS
<1>1. (CHOOSE a \in Accounts : TRUE) \in Accounts /\ (CHOOSE p \in Personas : TRUE) \in Personas
  BY SessionsAssumption
<1>2. TypeOK
  BY <1>1, SessionsAssumption DEF Init, TypeOK, Statuses, PCs, Modes, Contents, Stores
<1>3. OneActive /\ NotYetThere /\ RunIsActive /\ ConsentIsOfUpload
  BY DEF Init, OneActive, NotYetThere, RunIsActive, ConsentIsOfUpload, Active
<1> QED BY <1>2, <1>3 DEF Inv

LEMMA ModeForType == ASSUME NEW known, NEW p PROVE ModeFor(known, p) \in Modes
BY DEF ModeFor, Modes

\* The ways in which a run ends, or is left waiting.
Ends(s) == RunSucceeds(s) \/ RunIsPartial(s) \/ RunFails(s) \/ RunFindsFailed(s) \/ RunHangs(s)

LEMMA OutcomesType ==
  ASSUME TypeOK, NEW s \in Sessions
  PROVE  Outcomes(s) \subseteq Contents /\ CutContents(s) \subseteq Contents
<1>1. content[account[s]] \in Contents /\ persona[s] \in Contents
  BY DEF TypeOK, Contents
<1>2. {"empty", "broken", "mixed"} \subseteq Contents
  BY DEF Contents
<1>3. Outcomes(s) \subseteq Contents
  BY <1>1, <1>2 DEF Outcomes
<1> QED BY <1>1, <1>2, <1>3 DEF CutContents

LEMMA StoresType ==
  ASSUME TypeOK, NEW s \in Sessions PROVE Finished(s) \in Stores /\ CutStores(s) \subseteq Stores
<1>1. StoreOf(s) \in Stores
  BY DEF TypeOK, StoreOf
<1>2. Finished(s) \in Stores
  BY DEF Finished, Stores
<1> QED BY <1>1, <1>2 DEF CutStores, Stores

\* The types of what Google and the stores hold, and of the rest.
GoogleTyped ==
    /\ content \in [Accounts -> Contents]
    /\ backend \in Backends /\ store \in [Accounts -> [Personas -> Stores]]
RestTyped ==
    /\ status \in [Sessions -> Statuses]
    /\ started \in [Sessions -> {"none", "fresh", "stale"}]
    /\ account \in [Sessions -> Accounts] /\ persona \in [Sessions -> Personas]
    /\ mode \in [Sessions -> Modes] /\ kind \in [Sessions -> {"auto", "named", "upload"}]
    /\ last \in [Accounts -> Personas \cup {NoPersona}]
    /\ pc \in [Sessions -> PCs] /\ touched \in [Sessions -> BOOLEAN]
    /\ faults \in 0..MaxFaults
    /\ reaped \cup unread \cup raced \subseteq Sessions /\ unwritten \cup idled \subseteq Accounts

\* What the end of a run leaves in the account and in its store.
LEMMA EndTypes ==
  ASSUME TypeOK, NEW s \in Sessions, Ends(s) PROVE GoogleTyped'
<1>1. PICK c \in Contents : content' = content \/ Leaves(s, c)
  <2>1. {"empty", "broken", "mixed"} \subseteq Contents
    BY DEF Contents
  <2> QED BY <2>1, OutcomesType DEF Ends, RunSucceeds, RunIsPartial, RunFails, RunFindsFailed, RunHangs
<1>2. PICK st \in Stores : store' = store \/ Keeps(s, st)
  <2>1. {"half", "failed"} \subseteq Stores
    BY DEF Stores
  <2> QED BY <2>1, StoresType DEF Ends, RunSucceeds, RunIsPartial, RunFails, RunFindsFailed, RunHangs
<1>3. content' \in [Accounts -> Contents]
  BY <1>1 DEF Leaves, TypeOK
<1>4. store' \in [Accounts -> [Personas -> Stores]]
  <2>1. store[account[s]] \in [Personas -> Stores]
    BY DEF TypeOK
  <2>2. [store[account[s]] EXCEPT ![persona[s]] = st] \in [Personas -> Stores]
    BY <2>1
  <2>3. store \in [Accounts -> [Personas -> Stores]]
    BY DEF TypeOK
  <2> QED BY <1>2, <2>2, <2>3 DEF Keeps
<1>5. backend' = backend
  BY DEF Ends, RunSucceeds, RunIsPartial, RunFails, RunFindsFailed, RunHangs
<1> QED BY <1>3, <1>4, <1>5 DEF TypeOK, GoogleTyped

LEMMA GoogleStep == ASSUME TypeOK, [Next]_vars PROVE GoogleTyped'
<1>1. CASE UNCHANGED google
  BY <1>1 DEF google, TypeOK, GoogleTyped
<1>2. CASE \E s \in Sessions : Ends(s)
  BY <1>2, EndTypes
<1>3. CASE Crash
  BY <1>3 DEF Crash, TypeOK, GoogleTyped
<1>4. UNCHANGED google \/ (\E s \in Sessions : Ends(s)) \/ Crash
  <2>1. ASSUME NEW s \in Sessions, NEW a \in Accounts, NEW p \in Personas,
               Request(s, a, p) \/ StartUpload(s, a, p)
        PROVE UNCHANGED google
    BY <2>1 DEF Request, StartUpload
  <2>2. ASSUME NEW s \in Sessions,
               \/ OAuthCallback(s) \/ Create(s) \/ Refuse(s) \/ CreateFails(s) \/ Acquire(s)
               \/ MarkRunning(s) \/ MarkRunningFails(s) \/ HungReturns(s) \/ RecordResult(s)
               \/ RecordFails(s) \/ RecordPersona(s) \/ RecordPersonaFails(s)
               \/ Expire(s) \/ Outlast(s)
        PROVE UNCHANGED google
    BY <2>2 DEF OAuthCallback, Create, Refuse, CreateFails, Acquire, MarkRunning, MarkRunningFails,
                HungReturns, RecordResult, RecordFails, RecordPersona, RecordPersonaFails, Expire,
                Outlast, Expires
  <2>3. CASE Reap
    BY <2>3 DEF Reap
  <2>4. CASE UNCHANGED vars
    BY <2>4 DEF vars
  <2> QED BY <2>1, <2>2, <2>3, <2>4 DEF Next, Task, TaskFails, Ends
<1> QED BY <1>1, <1>2, <1>3, <1>4

LEMMA RestStep == ASSUME RestTyped, [Next]_vars PROVE RestTyped'
<1> USE SessionsAssumption
<1>1. ASSUME NEW s \in Sessions, NEW a \in Accounts, NEW p \in Personas, Request(s, a, p)
      PROVE RestTyped'
  <2>1. mode' \in [Sessions -> Modes]
    BY <1>1, ModeForType DEF Request, Ask, RestTyped
  <2>2. kind' \in [Sessions -> {"auto", "named", "upload"}]
    BY <1>1 DEF Request, Ask, RestTyped
  <2>3. faults' \in 0..MaxFaults
    BY <1>1 DEF Request, Fault, RestTyped
  <2>4. account' \in [Sessions -> Accounts] /\ persona' \in [Sessions -> Personas]
    BY <1>1 DEF Request, Ask, RestTyped
  <2>5. (reaped \cup unread \cup raced \subseteq Sessions)'
    BY <1>1 DEF Request, RestTyped
  <2> QED BY <1>1, <2>1, <2>2, <2>3, <2>4, <2>5 DEF Request, Goto, RestTyped, PCs
<1>2. ASSUME NEW s \in Sessions, NEW a \in Accounts, NEW p \in Personas, StartUpload(s, a, p)
      PROVE RestTyped'
  BY <1>2 DEF StartUpload, Ask, Mark, Goto, Fault, RestTyped, PCs, Statuses, Modes, history
<1>3. ASSUME NEW s \in Sessions, OAuthCallback(s) PROVE RestTyped'
  BY <1>3 DEF OAuthCallback, Goto, RestTyped, PCs, asked, history
<1>4. ASSUME NEW s \in Sessions, Create(s) \/ Refuse(s) \/ CreateFails(s) PROVE RestTyped'
  BY <1>4 DEF Create, Refuse, CreateFails, Goto, Mark, Fault, RestTyped, PCs, Statuses, asked, history
<1>5. ASSUME NEW s \in Sessions, Acquire(s) PROVE RestTyped'
  BY <1>5 DEF Acquire, Goto, RestTyped, PCs, asked, history
<1>6. ASSUME NEW s \in Sessions, MarkRunning(s) \/ MarkRunningFails(s) PROVE RestTyped'
  <2>1. touched' \in [Sessions -> BOOLEAN]
    <3> DEFINE met(t) == touched[t] \/ (Meeting(s) # {} /\ t \in Meeting(s) \cup {s})
    <3>1. touched' = [t \in Sessions |-> met(t)]
      BY <1>6 DEF MarkRunning, MarkRunningFails, StartEngine
    <3>2. \A t \in Sessions : met(t) \in BOOLEAN
      BY Zenon DEF RestTyped
    <3> HIDE DEF met
    <3> QED BY <3>1, <3>2
  <2>2. /\ pc' \in [Sessions -> PCs] /\ status' \in [Sessions -> Statuses]
        /\ started' \in [Sessions -> {"none", "fresh", "stale"}] /\ faults' \in 0..MaxFaults
        /\ UNCHANGED <<asked, last, history>>
    BY <1>6 DEF MarkRunning, MarkRunningFails, StartEngine, Goto, Mark, Fault, RestTyped, PCs, Statuses
  <2> QED BY <2>1, <2>2 DEF RestTyped, asked, history
<1>7. ASSUME NEW s \in Sessions, Ends(s) PROVE RestTyped'
  <2>1. account[s] \in Accounts
    BY DEF RestTyped
  <2>2. unwritten' \subseteq Accounts /\ idled' \subseteq Accounts
    BY <1>7, <2>1 DEF Ends, RunSucceeds, RunIsPartial, RunFails, RunFindsFailed, RunHangs, NoteFailed,
                      NoteIdle, RestTyped, history
  <2>3. faults' \in 0..MaxFaults
    BY <1>7 DEF Ends, RunSucceeds, RunIsPartial, RunFails, RunFindsFailed, RunHangs, Fault, RestTyped
  <2>4. /\ pc' \in [Sessions -> PCs]
        /\ UNCHANGED <<status, started, asked, last, touched, reaped, unread, raced>>
    BY <1>7 DEF Ends, RunSucceeds, RunIsPartial, RunFails, RunFindsFailed, RunHangs, Goto, RestTyped, PCs,
                history
  <2> QED BY <2>2, <2>3, <2>4 DEF RestTyped, asked
<1>8. ASSUME NEW s \in Sessions, HungReturns(s) PROVE RestTyped'
  BY <1>8 DEF HungReturns, Goto, RestTyped, PCs, asked, history
<1>9. ASSUME NEW s \in Sessions, RecordResult(s) \/ RecordFails(s) PROVE RestTyped'
  BY <1>9 DEF RecordResult, RecordFails, After, Goto, Mark, Fault, RestTyped, PCs, Statuses, asked, history
<1>10. ASSUME NEW s \in Sessions, RecordPersona(s) \/ RecordPersonaFails(s) PROVE RestTyped'
  BY <1>10 DEF RecordPersona, RecordPersonaFails, Goto, Fault, RestTyped, PCs, asked
<1>11. ASSUME NEW s \in Sessions, Expire(s) \/ Outlast(s) PROVE RestTyped'
  BY <1>11 DEF Expire, Outlast, Expires, Fault, RestTyped, asked, history
<1>12. CASE Reap
  BY <1>12 DEF Reap, RestTyped, Statuses, asked
<1>13. CASE Crash
  <2>1. pc' \in [Sessions -> PCs] /\ faults' \in 0..MaxFaults /\ unwritten' \subseteq Accounts
    BY <1>13 DEF Crash, AtWork, Fault, RestTyped, PCs
  <2>2. UNCHANGED <<status, started, asked, last, touched, reaped, unread, raced, idled>>
    BY <1>13 DEF Crash
  <2> QED BY <2>1, <2>2 DEF RestTyped, asked
<1>14. CASE UNCHANGED vars
  BY <1>14 DEF vars, asked, history, RestTyped
<1> QED BY <1>1, <1>2, <1>3, <1>4, <1>5, <1>6, <1>7, <1>8, <1>9, <1>10, <1>11, <1>12, <1>13, <1>14
        DEF Next, Task, TaskFails, Ends

LEMMA TypeStep == TypeOK /\ [Next]_vars => TypeOK'
<1> SUFFICES ASSUME TypeOK, [Next]_vars PROVE TypeOK'
  OBVIOUS
<1>1. RestTyped
  BY DEF TypeOK, RestTyped
<1>2. RestTyped' /\ GoogleTyped'
  BY <1>1, RestStep, GoogleStep
<1> QED BY <1>2 DEF TypeOK, RestTyped, GoogleTyped

\* The rows that become active, in a step of any kind: one at most, and none beside
\* another active row of its account.
LEMMA RowsStep == Inv /\ [Next]_vars => (OneActive /\ NotYetThere /\ RunIsActive /\ ConsentIsOfUpload)'
<1> DEFINE Rows == OneActive /\ NotYetThere /\ RunIsActive /\ ConsentIsOfUpload
<1> SUFFICES ASSUME Inv, [Next]_vars PROVE Rows'
  OBVIOUS
<1> USE DEF Inv
<1>1. ASSUME NEW s \in Sessions, NEW a \in Accounts, NEW p \in Personas,
             Request(s, a, p) \/ StartUpload(s, a, p)
      PROVE Rows'
  <2>1. status[s] = "absent" /\ status'[s] \notin Active
    BY <1>1 DEF Request, StartUpload, New, NotYetThere, Mark, TypeOK, Active
  <2>2. \A t \in Sessions \ {s} : /\ status'[t] = status[t] /\ account'[t] = account[t]
                                  /\ pc'[t] = pc[t] /\ kind'[t] = kind[t]
    BY <1>1 DEF Request, StartUpload, Mark, Goto, Ask, TypeOK
  <2>3. pc'[s] \in {"decided", "consent"} /\ reaped' = reaped
        /\ (pc'[s] = "decided" => status'[s] = "absent")
    BY <1>1, <2>1 DEF Request, StartUpload, Goto, TypeOK, history
  <2>4. OneActive'
    BY <2>1, <2>2 DEF OneActive
  <2>5. NotYetThere'
    BY <2>2, <2>3 DEF NotYetThere
  <2>6. RunIsActive'
    BY <2>2, <2>3 DEF RunIsActive
  <2>7. ConsentIsOfUpload'
    BY <1>1, <2>2 DEF ConsentIsOfUpload, Request, StartUpload, Ask, Goto, TypeOK
  <2> QED BY <2>4, <2>5, <2>6, <2>7
<1>2. ASSUME NEW s \in Sessions, Create(s) \/ CreateFails(s) PROVE Rows'
  <2>1. /\ asked' = asked /\ reaped' = reaped /\ (~Blocked(s) \/ status' = status)
        /\ status'[s] \in {"absent", "queued"}
        /\ \A t \in Sessions \ {s} : status'[t] = status[t] /\ pc'[t] = pc[t]
    BY <1>2 DEF Create, CreateFails, Mark, Goto, NotYetThere, TypeOK, history
  <2>2. pc'[s] = "over" \/ (pc'[s] = "waiting" /\ status'[s] = "queued")
    BY <1>2 DEF Create, CreateFails, Mark, Goto, TypeOK
  <2>3. OneActive'
    BY <2>1 DEF OneActive, Blocked, Others, asked
  <2>4. NotYetThere' /\ RunIsActive' /\ ConsentIsOfUpload'
    BY <2>1, <2>2 DEF NotYetThere, RunIsActive, ConsentIsOfUpload, Active, asked
  <2> QED BY <2>3, <2>4
<1>3. ASSUME NEW s \in Sessions, MarkRunning(s) \/ MarkRunningFails(s) PROVE Rows'
  <2>1. /\ asked' = asked /\ reaped' = reaped /\ pc[s] = "marking" /\ pc'[s] = "engine"
        /\ status' = status \/ (~Blocked(s) /\ status'[s] = "running")
        /\ \A t \in Sessions \ {s} : status'[t] = status[t] /\ pc'[t] = pc[t]
    BY <1>3 DEF MarkRunning, MarkRunningFails, StartEngine, Mark, Goto, TypeOK, history
  <2>2. OneActive'
    BY <2>1 DEF OneActive, Blocked, Others, asked
  <2>3. NotYetThere' /\ RunIsActive' /\ ConsentIsOfUpload'
    BY <2>1 DEF NotYetThere, RunIsActive, ConsentIsOfUpload, Active, asked
  <2> QED BY <2>2, <2>3
<1>4. ASSUME NEW s \in Sessions,
             \/ OAuthCallback(s) \/ Refuse(s) \/ Acquire(s) \/ Ends(s) \/ HungReturns(s)
             \/ RecordResult(s) \/ RecordFails(s) \/ RecordPersona(s) \/ RecordPersonaFails(s)
             \/ Expire(s) \/ Outlast(s)
      PROVE Rows'
  <2>1. /\ account' = account /\ kind' = kind /\ reaped' = reaped
        /\ \A t \in Sessions \ {s} : status'[t] = status[t] /\ pc'[t] = pc[t]
    BY <1>4 DEF OAuthCallback, Refuse, Acquire, Ends, RunSucceeds, RunIsPartial, RunFails,
                RunFindsFailed, RunHangs, HungReturns, RecordResult, RecordFails,
                RecordPersona, RecordPersonaFails, Expire, Outlast, Expires, Goto, Mark, TypeOK,
                asked, google, history
  <2>2. \/ status'[s] = status[s] /\ pc'[s] = pc[s]
        \/ status'[s] = status[s] /\ pc'[s] \in {"patch", "over"}
        \/ status'[s] = status[s] /\ pc[s] = "waiting" /\ pc'[s] = "marking"
        \/ status'[s] = status[s] /\ pc[s] \in {"engine", "hung"} /\ pc'[s] \in {"hung", "good", "bad"}
        \/ status'[s] = status[s] /\ OAuthCallback(s)
        \/ status'[s] \notin Active /\ pc'[s] \in {"patch", "over"}
    BY <1>4 DEF OAuthCallback, Refuse, Acquire, Ends, RunSucceeds, RunIsPartial, RunFails,
                RunFindsFailed, RunHangs, HungReturns, RecordResult, RecordFails,
                RecordPersona, RecordPersonaFails, Expire, Outlast, Expires, After, Goto, Mark,
                TypeOK, Active
  <2>3. OneActive'
    BY <2>1, <2>2 DEF OneActive
  <2>4. NotYetThere' /\ ConsentIsOfUpload'
    BY <2>1, <2>2 DEF NotYetThere, ConsentIsOfUpload, OAuthCallback, Goto, TypeOK
  <2>5. RunIsActive'
    BY <2>1, <2>2 DEF RunIsActive, ConsentIsOfUpload, OAuthCallback, Goto, TypeOK
  <2> QED BY <2>3, <2>4, <2>5
<1>5. CASE Reap
  <2>1. \A t \in Sessions : status'[t] = status[t] \/ (status'[t] = "failed" /\ t \in reaped')
    BY <1>5 DEF Reap, TypeOK
  <2>2. pc' = pc /\ asked' = asked /\ reaped \subseteq reaped'
    BY <1>5 DEF Reap
  <2>3. \A t \in Sessions : status[t] = "absent" => status'[t] = "absent"
    BY <1>5 DEF Reap, TypeOK
  <2> QED BY <2>1, <2>2, <2>3 DEF OneActive, NotYetThere, RunIsActive, ConsentIsOfUpload, Active, asked
<1>6. CASE Crash
  <2>1. /\ status' = status /\ asked' = asked /\ reaped' = reaped
        /\ \A t \in Sessions : pc'[t] = pc[t] \/ pc'[t] = "over"
    BY <1>6 DEF Crash, TypeOK
  <2> QED BY <2>1 DEF OneActive, NotYetThere, RunIsActive, ConsentIsOfUpload, asked
<1>7. CASE UNCHANGED vars
  BY <1>7 DEF vars, asked, google, history, OneActive, NotYetThere, RunIsActive, ConsentIsOfUpload
<1> QED BY <1>1, <1>2, <1>3, <1>4, <1>5, <1>6, <1>7 DEF Next, Task, TaskFails, Ends

LEMMA InvHolds == Spec => []Inv
<1>1. Inv /\ [Next]_vars => Inv'
  BY TypeStep, RowsStep DEF Inv
<1> QED BY InitInv, <1>1, PTL DEF Spec

\* Every variable keeps its type.
THEOREM SessionsTyped == Spec => []TypeOK
<1>1. Inv => TypeOK
  BY DEF Inv
<1> QED BY InvHolds, <1>1, PTL

\* Two runs meet in an account only if one is an upload or was reaped at work: both
\* of two unreaped requests at work would hold an active row of the account.
THEOREM RunsDoNotMeet == Spec => []OneEngine
<1>1. Inv => OneEngine
  BY DEF Inv, OneActive, RunIsActive, OneEngine, TypeOK
<1> QED BY InvHolds, <1>1, PTL

-----------------------------------------------------------------------------
(* What last_reset_persona says of the account *)

Recording == {"good", "bad", "patch"}

\* A run of the seeder hangs only behind rows that were finished before.
HungIsIdled == \A s \in Sessions : pc[s] = "hung" => account[s] \in idled

\* Of an account's runs at most one has ended and is not recorded yet, unless one may
\* have been hanging.
OneRecording ==
    \A s, t \in Sessions : s # t /\ account[s] = account[t] /\ account[s] \notin idled
        => pc[s] \notin Recording \/ pc[t] \notin Recording

\* A run whose persona will be recorded left that persona, passed over items, met
\* another run or found its store finished.
GoodLeftItsPersona ==
    \A s \in Sessions : pc[s] \in {"good", "patch"} /\ account[s] \notin idled
        => content[account[s]] \in {persona[s], "mixed", "broken"}

\* Unless a run is about to be recorded, the record agrees with the account.
Agrees(a) ==
    \/ content[a] \in {"broken", "mixed"}
    \/ last[a] = content[a]
    \/ last[a] = NoPersona /\ content[a] = "empty"
Recorded(a) == \A s \in Sessions : account[s] = a => pc[s] \notin {"good", "patch"}
RecordAgrees == \A a \in Accounts : Recorded(a) /\ a \notin Unsure => Agrees(a)

\* A request routed to a seed because the account had no persona: until its run starts
\* no other run of the account ends, and the account holds no baseline.
Routed(s) ==
    /\ pc[s] \in {"decided", "waiting", "marking"}
    /\ kind[s] = "auto" /\ mode[s] = "seed" /\ s \notin unread \cup raced
    /\ Guarded(account[s])
RoutedIsAlone ==
    \A s \in Sessions : Routed(s) /\ account[s] \notin idled
        => \A t \in Others(s) : pc[t] \notin Recording
RoutedIsNew ==
    \A s \in Sessions : Routed(s) /\ account[s] \notin Unsure => content[account[s]] \notin Personas

RecordInv == HungIsIdled /\ OneRecording /\ GoodLeftItsPersona /\ RecordAgrees
\* A session that was not asked for yet is no upload and was never reaped.
NewIsPlain == \A s \in Sessions : pc[s] = "new" => kind[s] = "auto" /\ s \notin reaped
RouteInv == RoutedIsAlone /\ RoutedIsNew /\ NewIsPlain
FullInv == Inv /\ RecordInv /\ RouteInv

LEMMA FullInit == Init => FullInv
<1> SUFFICES ASSUME Init PROVE FullInv
  OBVIOUS
<1>1. RecordInv
  BY DEF Init, RecordInv, HungIsIdled, OneRecording, GoodLeftItsPersona, RecordAgrees, Recorded, Agrees, Recording
<1>2. RouteInv
  BY DEF Init, RouteInv, RoutedIsAlone, RoutedIsNew, Routed, NewIsPlain
<1> QED BY <1>1, <1>2, InitInv DEF FullInv

\* Routed and past its insert, a request holds the only active row of its account.
LEMMA RoutedHoldsTheRow ==
  ASSUME Inv, NEW t \in Sessions, Routed(t), pc[t] # "decided", NEW u \in Others(t)
  PROVE  pc[u] \notin {"waiting", "marking", "engine", "good", "bad"}
<1>1. kind[t] # "upload" /\ t \notin reaped /\ kind[u] # "upload" /\ u \notin reaped
  BY DEF Routed, Guarded, Others, Inv, TypeOK
<1>2. status[t] \in Active
  BY <1>1 DEF Inv, RunIsActive, Routed
<1>3. status[u] \notin Active
  BY <1>2 DEF Inv, OneActive, Others
<1> QED BY <1>1, <1>3 DEF Inv, RunIsActive, Others

\* A request is made: nothing it found at work, and no persona on record.
LEMMA RequestKeeps ==
  ASSUME FullInv, NEW s \in Sessions, NEW a \in Accounts, NEW p \in Personas,
         Request(s, a, p) \/ StartUpload(s, a, p)
  PROVE  (RecordInv /\ RouteInv)'
<1> USE DEF FullInv, Inv, RecordInv, RouteInv
<1>1. /\ pc[s] = "new" /\ pc'[s] \in {"decided", "consent"} /\ account'[s] = a
      /\ UNCHANGED <<content, last, unwritten, idled, reaped>> /\ unread \subseteq unread' /\ raced \subseteq raced'
  BY DEF Request, StartUpload, New, Goto, Ask, google, history, TypeOK
<1>2. \A t \in Sessions \ {s} : /\ pc'[t] = pc[t] /\ account'[t] = account[t] /\ persona'[t] = persona[t]
                                /\ mode'[t] = mode[t] /\ kind'[t] = kind[t]
  BY DEF Request, StartUpload, Goto, Ask, TypeOK
<1>3. RecordInv'
  <2>1. HungIsIdled' /\ OneRecording' /\ GoodLeftItsPersona'
    BY <1>1, <1>2 DEF HungIsIdled, OneRecording, GoodLeftItsPersona, Recording
  <2>2. \A b \in Accounts : Recorded(b)' => Recorded(b)
    BY <1>1, <1>2 DEF Recorded
  <2> QED BY <1>1, <2>1, <2>2 DEF RecordAgrees, Agrees, Unsure
<1>4. NewIsPlain'
  BY <1>1, <1>2 DEF NewIsPlain
<1>5. ASSUME NEW t \in Sessions \ {s}, Routed(t)'
      PROVE  /\ account'[t] \notin idled' => \A u \in Others(t)' : pc'[u] \notin Recording
             /\ account'[t] \notin Unsure' => content'[account'[t]] \notin Personas
  <2>1. Guarded(account[t])
    BY <1>1, <1>2, <1>5 DEF Routed, Guarded, NewIsPlain
  <2>2. Routed(t)
    BY <1>1, <1>2, <1>5, <2>1 DEF Routed
  <2> QED BY <1>1, <1>2, <2>2 DEF RoutedIsAlone, RoutedIsNew, Others, Recording, Unsure
<1>6. ASSUME Routed(s)'
      PROVE  /\ \A u \in Others(s)' : pc'[u] \notin Recording
             /\ account'[s] \notin Unsure' => content'[account'[s]] \notin Personas
  <2>1. Request(s, a, p) /\ s \notin unread' /\ s \notin raced' /\ kind'[s] = "auto" /\ mode'[s] = "seed"
    BY <1>6 DEF Routed, StartUpload, Goto, Ask, TypeOK
  <2>2. \A u \in Sessions : account[u] = a => ~AtWork(u)
    BY <2>1 DEF Request
  <2>3. last[a] = NoPersona
    BY <2>1 DEF Request, Ask, ModeFor, TypeOK
  <2>4. Recorded(a)
    BY <2>2 DEF Recorded, AtWork
  <2>5. a \notin Unsure => content[a] \notin Personas
    BY <2>3, <2>4, SessionsAssumption DEF RecordAgrees, Agrees
  <2>6. \A u \in Others(s)' : pc'[u] \notin Recording
    BY <1>1, <1>2, <2>2 DEF Others, AtWork, Recording
  <2> QED BY <1>1, <2>5, <2>6 DEF Unsure
<1> QED BY <1>3, <1>4, <1>5, <1>6 DEF RoutedIsAlone, RoutedIsNew

\* Steps on the way to the engine, and the ageing of a row, tell the record nothing.
LEMMA QuietKeeps ==
  ASSUME FullInv, NEW s \in Sessions,
         \/ OAuthCallback(s) \/ Create(s) \/ Refuse(s) \/ CreateFails(s) \/ Acquire(s)
         \/ MarkRunning(s) \/ MarkRunningFails(s) \/ Expire(s) \/ Outlast(s)
  PROVE  (RecordInv /\ RouteInv)'
<1> USE DEF FullInv, Inv, RecordInv, RouteInv
<1>1. UNCHANGED <<content, last, unwritten, idled, reaped, unread, raced, account, persona, mode, kind>>
  BY DEF OAuthCallback, Create, Refuse, CreateFails, Acquire, MarkRunning, MarkRunningFails, Expire,
         Outlast, Expires, asked, google, history
<1>2. \A t \in Sessions \ {s} : pc'[t] = pc[t]
  BY DEF OAuthCallback, Create, Refuse, CreateFails, Acquire, MarkRunning, MarkRunningFails, StartEngine,
         Expire, Outlast, Expires, Goto, TypeOK
<1>3. \/ pc'[s] = pc[s]
      \/ pc[s] \in {"decided", "waiting"} /\ pc'[s] \in {"waiting", "marking", "over"}
      \/ pc[s] = "marking" /\ pc'[s] = "engine"
      \/ pc[s] = "consent" /\ pc'[s] = "waiting"
  BY DEF OAuthCallback, Create, Refuse, CreateFails, Acquire, MarkRunning, MarkRunningFails, StartEngine,
         Expire, Outlast, Expires, Goto, TypeOK
<1>4. RecordInv'
  <2>1. \A t \in Sessions, e \in {"hung", "good", "bad", "patch"} : pc'[t] = e <=> pc[t] = e
    BY <1>2, <1>3
  <2>2. HungIsIdled' /\ OneRecording' /\ GoodLeftItsPersona'
    BY <1>1, <2>1 DEF HungIsIdled, OneRecording, GoodLeftItsPersona, Recording
  <2>3. \A b \in Accounts : Recorded(b)' <=> Recorded(b)
    BY <1>1, <2>1 DEF Recorded
  <2> QED BY <1>1, <2>2, <2>3 DEF RecordAgrees, Agrees, Unsure
<1>5. NewIsPlain'
  BY <1>1, <1>2, <1>3 DEF NewIsPlain
<1>6. \A t \in Sessions : Routed(t)' => Routed(t)
  BY <1>1, <1>2, <1>3 DEF Routed, Guarded, ConsentIsOfUpload
<1>7. \A t \in Sessions : pc'[t] \in Recording => pc[t] \in Recording
  BY <1>2, <1>3 DEF Recording
<1> QED BY <1>1, <1>4, <1>5, <1>6, <1>7 DEF RoutedIsAlone, RoutedIsNew, Others, Unsure

\* A run ends while no other one of the account is recorded, and beside no routed one.
LEMMA EndKeeps ==
  ASSUME FullInv, Prompt, NEW s \in Sessions, Ends(s)
  PROVE  (RecordInv /\ RouteInv)'
<1> USE DEF FullInv, Inv, RecordInv, RouteInv
<1>1. /\ UNCHANGED <<last, reaped, unread, raced, account, persona, mode, kind>>
      /\ unwritten \subseteq unwritten' /\ idled \subseteq idled'
      /\ pc[s] = "engine" /\ pc'[s] \in {"hung", "good", "bad"}
      /\ \A t \in Sessions \ {s} : pc'[t] = pc[t]
  BY DEF Ends, RunSucceeds, RunIsPartial, RunFails, RunFindsFailed, RunHangs, NoteFailed, NoteIdle, Goto,
         asked, history, TypeOK
<1>2. \A t \in Others(s) : pc[t] \notin {"decided", "good", "bad", "patch"}
  BY DEF Ends, RunSucceeds, RunIsPartial, RunFails, RunFindsFailed, RunHangs, InTime
<1>3. \A a \in Accounts \ {account[s]} : content'[a] = content[a]
  <2>1. content' = content \/ \E c : Leaves(s, c)
    BY DEF Ends, RunSucceeds, RunIsPartial, RunFails, RunFindsFailed, RunHangs
  <2> QED BY <2>1 DEF Leaves, TypeOK
<1>4. /\ pc'[s] = "good" => \/ account[s] \in idled'
                            \/ content'[account[s]] \in {persona[s], "mixed", "broken"}
      /\ pc'[s] = "hung" => account[s] \in idled'
      /\ pc'[s] \in {"bad", "hung"} => content' = content \/ account[s] \in unwritten'
  <2>1. CASE RunSucceeds(s)
    <3>1. PICK c \in Outcomes(s) : Leaves(s, c)
      BY <2>1 DEF RunSucceeds
    <3>2. FindsNothing(s) \/ c \in {persona[s], "mixed"}
      BY <2>1, <3>1 DEF RunSucceeds, Outcomes
    <3>3. content'[account[s]] = c
      BY <3>1 DEF Leaves, TypeOK
    <3>4. FindsNothing(s) => account[s] \in idled'
      BY <2>1 DEF RunSucceeds, NoteIdle
    <3>5. pc'[s] = "good"
      BY <2>1 DEF RunSucceeds, Goto, TypeOK
    <3> QED BY <3>2, <3>3, <3>4, <3>5
  <2>2. CASE RunIsPartial(s)
    BY <2>2 DEF RunIsPartial, Leaves, Goto, TypeOK
  <2>3. CASE RunFails(s) \/ RunFindsFailed(s)
    BY <2>3 DEF RunFails, RunFindsFailed, NoteFailed, Goto, TypeOK
  <2>4. CASE RunHangs(s)
    BY <2>4 DEF RunHangs, NoteFailed, Goto, TypeOK
  <2> QED BY <2>1, <2>2, <2>3, <2>4 DEF Ends
<1>5. OneRecording' /\ HungIsIdled'
  BY <1>1, <1>2, <1>4 DEF OneRecording, HungIsIdled, Recording, Others
<1>6. GoodLeftItsPersona'
  <2>1. ASSUME NEW t \in Sessions \ {s}, pc'[t] \in {"good", "patch"}, account[t] \notin idled'
        PROVE  content'[account[t]] \in {persona[t], "mixed", "broken"}
    BY <1>1, <1>2, <1>3, <2>1 DEF GoodLeftItsPersona, Others, TypeOK
  <2> QED BY <1>1, <1>4, <2>1 DEF GoodLeftItsPersona
<1>7. RecordAgrees'
  <2>1. ASSUME NEW a \in Accounts, Recorded(a)', a \notin Unsure' PROVE Agrees(a)'
    <3>0. a \notin Unsure /\ a \notin unwritten' /\ a \notin idled'
      BY <1>1, <2>1 DEF Unsure
    <3>1. CASE a # account[s]
      BY <1>1, <1>3, <2>1, <3>0, <3>1 DEF RecordAgrees, Recorded, Agrees
    <3>2. CASE a = account[s]
      <4>1. pc'[s] = "bad" /\ Recorded(a)
        BY <1>1, <1>4, <2>1, <3>0, <3>2 DEF Recorded
      <4> QED BY <1>1, <1>4, <2>1, <3>0, <3>2, <4>1 DEF RecordAgrees, Agrees
    <3> QED BY <3>1, <3>2
  <2> QED BY <2>1 DEF RecordAgrees
<1>8. ASSUME NEW t \in Sessions, Routed(t)' PROVE Routed(t) /\ account[t] # account[s] /\ t # s
  <2>1. Routed(t) /\ t # s
    BY <1>1, <1>8 DEF Routed, Guarded
  <2>2. CASE account[t] = account[s]
    <3>1. pc[t] # "decided"
      BY <1>2, <2>1, <2>2 DEF Others
    <3> QED BY <1>1, <2>1, <2>2, <3>1, RoutedHoldsTheRow DEF Others
  <2> QED BY <2>1, <2>2
<1>9. RoutedIsAlone' /\ RoutedIsNew'
  BY <1>1, <1>3, <1>8 DEF RoutedIsAlone, RoutedIsNew, Others, Unsure, TypeOK
<1>10. NewIsPlain'
  BY <1>1 DEF NewIsPlain
<1> QED BY <1>5, <1>6, <1>7, <1>9, <1>10

\* A run that hung returns: the properties tell nothing of its account any more.
LEMMA HungKeeps ==
  ASSUME FullInv, NEW s \in Sessions, HungReturns(s)
  PROVE  (RecordInv /\ RouteInv)'
<1> USE DEF FullInv, Inv, RecordInv, RouteInv
<1>1. /\ UNCHANGED <<content, last, unwritten, idled, reaped, unread, raced, account, persona, mode, kind>>
      /\ pc[s] = "hung" /\ pc'[s] \in {"good", "bad"}
      /\ \A t \in Sessions \ {s} : pc'[t] = pc[t]
  BY DEF HungReturns, Goto, asked, google, history, TypeOK
<1>2. account[s] \in idled
  BY <1>1 DEF HungIsIdled
<1>3. HungIsIdled' /\ OneRecording' /\ GoodLeftItsPersona'
  BY <1>1, <1>2 DEF HungIsIdled, OneRecording, GoodLeftItsPersona, Recording
<1>4. RecordAgrees'
  <2>1. \A a \in Accounts : a # account[s] => (Recorded(a)' => Recorded(a))
    BY <1>1 DEF Recorded
  <2> QED BY <1>1, <1>2, <2>1 DEF RecordAgrees, Agrees, Unsure
<1>5. \A t \in Sessions : Routed(t)' => Routed(t)
  BY <1>1 DEF Routed, Guarded
<1> QED BY <1>1, <1>2, <1>3, <1>4, <1>5 DEF RoutedIsAlone, RoutedIsNew, Others, Unsure, NewIsPlain

\* The result and the persona are written, or lost.
LEMMA RecordKeeps ==
  ASSUME FullInv, NEW s \in Sessions,
         RecordResult(s) \/ RecordFails(s) \/ RecordPersona(s) \/ RecordPersonaFails(s)
  PROVE  (RecordInv /\ RouteInv)'
<1> USE DEF FullInv, Inv, RecordInv, RouteInv
<1>1. /\ UNCHANGED <<content, idled, reaped, unread, raced, account, persona, mode, kind>>
      /\ \A t \in Sessions \ {s} : pc'[t] = pc[t]
  BY DEF RecordResult, RecordFails, RecordPersona, RecordPersonaFails, Goto, asked, google, history, TypeOK
<1>2. \/ pc[s] = "good" /\ pc'[s] = "patch" /\ UNCHANGED <<last, unwritten>>
      \/ pc[s] = "bad" /\ pc'[s] = "over" /\ UNCHANGED <<last, unwritten>>
      \/ /\ pc[s] = "patch" /\ pc'[s] = "over" /\ last' = [last EXCEPT ![account[s]] = persona[s]]
         /\ unwritten' = unwritten \ {account[s]}
      \/ /\ pc[s] = "patch" /\ pc'[s] = "over" /\ UNCHANGED last
         /\ unwritten' = unwritten \cup {account[s]}
  BY DEF RecordResult, RecordFails, RecordPersona, RecordPersonaFails, After, Goto, history, TypeOK
<1>3. HungIsIdled' /\ OneRecording' /\ GoodLeftItsPersona'
  BY <1>1, <1>2 DEF HungIsIdled, OneRecording, GoodLeftItsPersona, Recording
<1>4. RecordAgrees'
  <2>1. ASSUME NEW a \in Accounts, Recorded(a)', a \notin Unsure' PROVE Agrees(a)'
    <3>0. a \notin unwritten' /\ a \notin idled
      BY <1>1, <2>1 DEF Unsure
    <3>1. CASE a # account[s]
      <4>1. Recorded(a) /\ a \notin unwritten /\ last'[a] = last[a]
        BY <1>1, <1>2, <2>1, <3>0, <3>1 DEF Recorded, TypeOK
      <4> QED BY <1>1, <3>0, <4>1 DEF RecordAgrees, Agrees, Unsure
    <3>2. CASE a = account[s] /\ pc[s] = "patch"
      <4>1. last'[a] = persona[s]
        BY <1>2, <3>0, <3>2 DEF TypeOK
      <4> QED BY <1>1, <3>0, <3>2, <4>1 DEF GoodLeftItsPersona, Agrees
    <3>3. CASE a = account[s] /\ pc[s] # "patch"
      <4>1. Recorded(a) /\ a \notin unwritten /\ last' = last
        BY <1>1, <1>2, <2>1, <3>0, <3>3 DEF Recorded
      <4> QED BY <1>1, <3>0, <4>1 DEF RecordAgrees, Agrees, Unsure
    <3> QED BY <3>1, <3>2, <3>3
  <2> QED BY <2>1 DEF RecordAgrees
<1>5. \A t \in Sessions : Routed(t)' => Routed(t) /\ t # s
  BY <1>1, <1>2 DEF Routed, Guarded
<1>6. \A t \in Sessions : Routed(t) /\ account[t] \notin idled => t = s \/ account[t] # account[s]
  BY <1>2 DEF RoutedIsAlone, Others, Recording
<1>7. RoutedIsAlone'
  BY <1>1, <1>2, <1>5 DEF RoutedIsAlone, Others, Recording
<1>8. RoutedIsNew'
  BY <1>1, <1>2, <1>5, <1>6 DEF RoutedIsNew, Unsure
<1>9. NewIsPlain'
  BY <1>1, <1>2 DEF NewIsPlain
<1> QED BY <1>3, <1>4, <1>7, <1>8, <1>9

LEMMA ReapKeeps == FullInv /\ Reap => (RecordInv /\ RouteInv)'
<1> SUFFICES ASSUME FullInv, Reap PROVE (RecordInv /\ RouteInv)'
  OBVIOUS
<1> USE DEF FullInv, Inv, RecordInv, RouteInv
<1>1. /\ UNCHANGED <<content, last, unwritten, idled, unread, raced, account, persona, mode, kind, pc>>
      /\ reaped \subseteq reaped'
  BY DEF Reap, asked, google
<1>2. \A s \in reaped' \ reaped : pc[s] # "new"
  BY DEF Reap, NotYetThere
<1>3. RecordInv' /\ NewIsPlain'
  BY <1>1, <1>2 DEF HungIsIdled, OneRecording, GoodLeftItsPersona, RecordAgrees, Recorded, Agrees, Unsure, NewIsPlain
<1>4. \A t \in Sessions : Routed(t)' => Routed(t)
  BY <1>1 DEF Routed, Guarded
<1> QED BY <1>1, <1>3, <1>4 DEF RoutedIsAlone, RoutedIsNew, Others, Unsure

\* The death of the process leaves no task, and tells of the accounts whose run it cut.
LEMMA CrashKeeps == FullInv /\ Crash => (RecordInv /\ RouteInv)'
<1> SUFFICES ASSUME FullInv, Crash PROVE (RecordInv /\ RouteInv)'
  OBVIOUS
<1> USE DEF FullInv, Inv, RecordInv, RouteInv
<1>1. UNCHANGED <<last, unread, raced, reaped, idled, account, persona, mode, kind>>
  BY DEF Crash, asked
<1>2. \A s \in Sessions : /\ pc'[s] \in {"new", "consent", "over"}
                          /\ pc'[s] = "new" => pc[s] = "new"
  BY DEF Crash, AtWork, TypeOK
<1>3. \A a \in Accounts : a \notin unwritten' => a \notin unwritten /\ Recorded(a)
  BY DEF Crash, AtWork, Recorded
<1>4. \A a \in Accounts : a \notin unwritten' => content'[a] = content[a]
  BY DEF Crash
<1>5. RecordAgrees'
  BY <1>1, <1>3, <1>4 DEF RecordAgrees, Agrees, Unsure
<1> QED BY <1>1, <1>2, <1>5 DEF HungIsIdled, OneRecording, GoodLeftItsPersona, Recording, RoutedIsAlone,
                             RoutedIsNew, Routed, NewIsPlain

LEMMA FullStep == ASSUME Prompt PROVE FullInv /\ [Next]_vars => FullInv'
<1> SUFFICES ASSUME FullInv, [Next]_vars PROVE FullInv'
  OBVIOUS
<1>1. Inv'
  BY TypeStep, RowsStep DEF FullInv, Inv
<1>2. (RecordInv /\ RouteInv)'
  <2>1. CASE UNCHANGED vars
    BY <2>1 DEF vars, asked, google, history, FullInv, RecordInv, RouteInv, HungIsIdled, OneRecording,
                GoodLeftItsPersona, Unsure,
                RecordAgrees, Recorded, Agrees, RoutedIsAlone, RoutedIsNew, Routed, Guarded, Others,
                NewIsPlain
  <2> QED BY <2>1, RequestKeeps, QuietKeeps, EndKeeps, HungKeeps, RecordKeeps, ReapKeeps,
             CrashKeeps
          DEF Next, Task, TaskFails, Ends
<1> QED BY <1>1, <1>2 DEF FullInv

\* When no end of a run overtakes a pending call (Prompt), then between runs
\* last_reset_persona is what the account holds, unless runs met, a run was cut off in
\* the middle or passed over items, it left its baseline and could not record it, or a
\* run of the seeder met a finished store.
THEOREM RecordIsTrue == ASSUME Prompt PROVE Spec => []LastIsContent
<1>1. FullInv /\ [Next]_vars => FullInv'
  BY FullStep
<1>2. FullInv => LastIsContent
  BY DEF FullInv, RecordInv, RecordAgrees, Recorded, Agrees, LastIsContent, Quiet, Holding
<1> QED BY FullInit, <1>1, <1>2, PTL DEF Spec

\* Under the same condition a run that wipes nothing is routed over another persona's
\* baseline only by a failed look-up: from the decision to the engine the account's
\* row keeps every other run away.
THEOREM SeedsGoToNewAccounts == ASSUME Prompt PROVE Spec => SeedsOnlyNew
<1>1. FullInv /\ [Next]_vars => FullInv'
  BY FullStep
<1>2. FullInv => [\A s \in Sessions : RunsUnrouted(s) => s \in unread]_vars
  BY DEF FullInv, RouteInv, RoutedIsNew, Routed, RunsUnrouted, Overlays
<1> QED BY FullInit, <1>1, <1>2, PTL DEF Spec, SeedsOnlyNew
=============================================================================

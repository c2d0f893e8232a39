--------------------------- MODULE DriveCacheProofs ---------------------------
(* Proofs about DriveCache: what a manifest vouches for is there and is read. *)
EXTENDS DriveCache, TLAPS

\* A manifest is not younger than the source.
NotAhead == manifest.version <= source

\* Who clears or writes has the guard.
BuilderHasGuard == \A u \in Users : user[u].step \in {"clear", "write"} => guard = u

\* What a builder has written holds the version it parsed.
BuildIsTrue ==
    \A u \in Users :
        /\ user[u].step \in {"guard", "clear"} => user[u].made = {}
        /\ user[u].step = "write" =>
               \A r \in user[u].made : r \notin user[u].todo /\ files[r] = user[u].version

\* Who builds without a race builds over a manifest that vouches for nothing.
BuildIsNeeded == guard # Free /\ ~raced => ~Vouched

\* A push that is not disturbed reads files of the source; of another nothing is kept.
Sound(seen) == \A x \in seen : x[1] \in manifest.files => x[2] = source
ReaderIsCalm ==
    \A u \in Users : /\ user[u].from # 0 => Vouched /\ ~raced /\ Sound(user[u].seen)
                     /\ user[u].from = 0 => user[u].seen = {}

IInv == TypeOK /\ NotAhead /\ BuilderHasGuard /\ BuildIsTrue /\ BuildIsNeeded
        /\ VouchedIsWhole /\ ReaderIsCalm

LEMMA InitIInv == Init => IInv
<1> SUFFICES ASSUME Init PROVE IInv
  OBVIOUS
<1>1. Push("PENDING") \in AUser /\ Warm \in AUser
  BY DEF Push, Warm, User, AUser, Kinds, Steps
<1>2. user \in [Users -> AUser]
  BY <1>1 DEF Init
<1>3. TypeOK
  <2>1. files \in [Rels -> Int]
    BY DEF Init, Absent
  <2>2. manifest \in [version : Nat, files : SUBSET Rels]
    BY DEF Init
  <2>3. source \in Nat \ {0} /\ guard \in Users \cup {Free} /\ raced \in BOOLEAN
    <3>1. source = 1 /\ guard = Free /\ raced = FALSE
      BY Zenon DEF Init
    <3>2. raced \in BOOLEAN
      BY <3>1, Zenon
    <3>3. source \in Nat \ {0} /\ guard \in Users \cup {Free}
      BY <3>1, SMT
    <3> QED BY <3>2, <3>3
  <2> QED BY <1>2, <2>1, <2>2, <2>3 DEF TypeOK
<1>4. \A u \in Users : user[u].step \in {"plan", "check"} /\ user[u].from = 0 /\ user[u].seen = {}
  BY DEF Init, Push, Warm, User
<1>5. NotAhead /\ BuilderHasGuard /\ BuildIsTrue /\ BuildIsNeeded /\ ReaderIsCalm
  BY <1>4 DEF Init, NotAhead, BuilderHasGuard, BuildIsTrue, BuildIsNeeded, ReaderIsCalm
<1>6. VouchedIsWhole
  BY DEF Init, VouchedIsWhole
<1> QED BY <1>3, <1>5, <1>6 DEF IInv

-----------------------------------------------------------------------------
(* The records of the threads *)

LEMMA UserType ==
    \A kind \in Kinds, step \in Steps, env \in {"PENDING", "SUCCESS"} :
        LET w == User(kind, step, env)
        IN  w \in AUser /\ w.step = step /\ w.from = 0 /\ w.seen = {}
BY DEF User, AUser

\* A thread put to a step of its call keeps what it has read.
LEMMA StepType ==
    \A w \in AUser : \A s \in Steps :
        LET new == [w EXCEPT !.step = s]
        IN  new \in AUser /\ new.step = s /\ new.made = w.made /\ new.todo = w.todo
            /\ new.version = w.version /\ new.from = w.from /\ new.seen = w.seen
BY DEF AUser, Steps

LEMMA BecomesUser ==
    ASSUME user \in [Users -> AUser], NEW u \in Users, NEW new \in AUser, Becomes(u, new)
    PROVE  /\ user' \in [Users -> AUser]
           /\ user'[u] = new
           /\ \A v \in Users : v # u => user'[v] = user[v]
BY DEF Becomes

LEMMA DoneType ==
    ASSUME TypeOK, NEW u \in Users
    PROVE  Done(u) \in AUser /\ Done(u).step = "done" /\ Done(u).from = 0 /\ Done(u).seen = {}
<1>1. user[u].kind \in Kinds /\ user[u].env \in {"PENDING", "SUCCESS"} /\ "done" \in Steps
  BY DEF TypeOK, AUser, Steps
<1> QED BY <1>1, UserType DEF Done

LEMMA ReadingType ==
    ASSUME TypeOK, NEW sound
    PROVE  /\ Reading(sound) \in AUser
           /\ Reading(sound).step = "read" /\ Reading(sound).seen = {}
           /\ Reading(sound).from # 0 => sound
<1> DEFINE w     == User("push", "read", "SUCCESS")
           start == IF sound THEN source ELSE 0
<1>1. w \in AUser /\ w.step = "read" /\ w.seen = {}
  BY UserType DEF Kinds, Steps
<1>2. start \in Nat /\ (start # 0 => sound)
  BY DEF TypeOK
<1>3. Reading(sound) = [w EXCEPT !.from = start]
  BY Zenon DEF Reading
<1> HIDE DEF w, start
<1> QED BY <1>1, <1>2, <1>3 DEF AUser

LEMMA EndedType ==
    ASSUME TypeOK, NEW u \in Users, NEW sound
    PROVE  /\ Ended(u, sound) \in AUser
           /\ Ended(u, sound).step \in {"read", "done"} /\ Ended(u, sound).seen = {}
           /\ Ended(u, sound).from # 0 => sound
BY DoneType, ReadingType DEF Ended

-----------------------------------------------------------------------------
(* The steps *)

\* What the invariant asks of one thread.
Good(u, w) ==
    /\ w.step \in {"clear", "write"} => guard = u
    /\ w.step \in {"guard", "clear"} => w.made = {}
    /\ w.step = "write" => \A r \in w.made : r \notin w.todo /\ files[r] = w.version
    /\ w.from # 0 => Vouched /\ ~raced /\ Sound(w.seen)
    /\ w.from = 0 => w.seen = {}

LEMMA AllGood ==
    (\A u \in Users : Good(u, user[u])) <=> BuilderHasGuard /\ BuildIsTrue /\ ReaderIsCalm
BY DEF Good, BuilderHasGuard, BuildIsTrue, ReaderIsCalm

\* A step that changes the record of one thread and nothing else.
LEMMA QuietStep ==
    ASSUME IInv, NEW u \in Users, NEW new \in AUser, Becomes(u, new), Good(u, new),
           UNCHANGED <<source, files, manifest, guard, raced>>
    PROVE  IInv'
<1> USE DEF IInv
<1>1. /\ user' \in [Users -> AUser]
      /\ \A v \in Users : user'[v] = IF v = u THEN new ELSE user[v]
  BY BecomesUser DEF TypeOK
<1>2. \A v \in Users : Good(v, user'[v])
  BY <1>1, AllGood
<1>3. \A v \in Users : Good(v, user[v])'
  BY <1>2 DEF Good, Vouched, Sound
<1>4. TypeOK' /\ NotAhead' /\ BuildIsNeeded' /\ VouchedIsWhole'
  BY <1>1 DEF TypeOK, NotAhead, BuildIsNeeded, VouchedIsWhole, Vouched
<1>5. BuilderHasGuard' /\ BuildIsTrue' /\ ReaderIsCalm'
  BY <1>3 DEF Good, BuilderHasGuard, BuildIsTrue, ReaderIsCalm
<1> QED BY <1>4, <1>5

LEMMA CheckStep == ASSUME IInv, NEW u \in Users, Check(u) PROVE IInv'
<1>1. user[u] \in AUser /\ Good(u, user[u])
  BY AllGood DEF IInv, TypeOK
<1>2. CASE Vouched
  <2>1. Ended(u, ~raced) \in AUser /\ Good(u, Ended(u, ~raced))
    BY <1>2, EndedType DEF Good, Sound, IInv
  <2> QED BY <1>2, <2>1, QuietStep DEF Check
<1>3. CASE ~Vouched
  <2> DEFINE new == [user[u] EXCEPT !.step = "parse"]
  <2>1. Good(u, new) /\ new \in AUser
    <3>1. new \in AUser /\ new.step = "parse" /\ new.from = user[u].from
          /\ new.seen = user[u].seen
      BY <1>1, StepType DEF Steps
    <3> QED BY <1>1, <3>1 DEF Good
  <2> QED BY <1>3, <2>1, QuietStep DEF Check
<1> QED BY <1>2, <1>3

LEMMA ParseStep == ASSUME IInv, NEW u \in Users, Parse(u) PROVE IInv'
<1> DEFINE built == [user[u] EXCEPT !.step = "guard", !.version = source, !.todo = Rels, !.made = {}]
<1>1. user[u] \in AUser /\ Good(u, user[u]) /\ source \in Nat
  BY AllGood DEF IInv, TypeOK
<1>2. built \in AUser /\ built.step = "guard" /\ built.made = {} /\ built.from = user[u].from
      /\ built.seen = user[u].seen
  BY <1>1 DEF AUser, Steps
<1>3. Good(u, built) /\ Good(u, Done(u))
  BY <1>1, <1>2, DoneType DEF Good, IInv
<1>4. CASE source \in Invalid
  BY <1>3, <1>4, DoneType, QuietStep DEF Parse, IInv
<1>5. CASE source \notin Invalid
  BY <1>2, <1>3, <1>5, QuietStep DEF Parse
<1> QED BY <1>4, <1>5

\* Readers that are disturbed keep their place in the call.
LEMMA CalmedType ==
    \A w \in AUser :
        LET new == [w EXCEPT !.from = 0, !.seen = {}]
        IN  new \in AUser /\ new.step = w.step /\ new.made = w.made /\ new.todo = w.todo
            /\ new.version = w.version /\ new.from = 0 /\ new.seen = {}
BY DEF AUser

LEMMA DisturbedType ==
    ASSUME NEW new \in [Users -> AUser]
    PROVE  /\ Disturbed(new) \in [Users -> AUser]
           /\ \A v \in Users :
                  LET w == Disturbed(new)[v]
                  IN  w.step = new[v].step /\ w.made = new[v].made /\ w.todo = new[v].todo
                      /\ w.version = new[v].version /\ w.from = 0 /\ w.seen = {}
<1> DEFINE calm(w) == [w EXCEPT !.from = 0, !.seen = {}]
<1>1. \A v \in Users : calm(new[v]) \in AUser /\ Disturbed(new)[v] = calm(new[v])
  BY CalmedType DEF Disturbed
<1>2. Disturbed(new) = [v \in Users |-> calm(new[v])]
  BY DEF Disturbed
<1>3. Disturbed(new) \in [Users -> AUser]
  BY <1>1, <1>2
<1>4. \A v \in Users : LET w == calm(new[v])
                      IN  w.step = new[v].step /\ w.made = new[v].made /\ w.todo = new[v].todo
                          /\ w.version = new[v].version /\ w.from = 0 /\ w.seen = {}
  BY CalmedType
<1> HIDE DEF calm
<1> QED BY <1>1, <1>3, <1>4

\* The invariant from its parts.
LEMMA FromParts ==
    ASSUME TypeOK', NotAhead', BuildIsNeeded', VouchedIsWhole', \A v \in Users : Good(v, user[v])'
    PROVE  IInv'
<1>1. BuilderHasGuard' /\ BuildIsTrue' /\ ReaderIsCalm'
  BY DEF Good, BuilderHasGuard, BuildIsTrue, ReaderIsCalm
<1> QED BY <1>1 DEF IInv

\* A good cache that is cleared makes its readers restless.
LEMMA TakeGuardStep == ASSUME IInv, NEW u \in Users, TakeGuard(u), Free \notin Users PROVE IInv'
<1> DEFINE w     == [user[u] EXCEPT !.step = "clear"]
           mine  == [user EXCEPT ![u].step = "clear"]
<1>1. TypeOK /\ \A v \in Users : user[v] \in AUser /\ Good(v, user[v])
  BY AllGood DEF IInv, TypeOK
<1>2. w \in AUser /\ w.step = "clear" /\ w.made = user[u].made /\ w.from = user[u].from
      /\ w.seen = user[u].seen
  BY <1>1, StepType DEF Steps
<1>3. \A v \in Users : mine[v] = IF v = u THEN w ELSE user[v]
  BY <1>1 DEF TypeOK
<1>4. mine = [v \in Users |-> IF v = u THEN w ELSE user[v]]
  BY <1>1 DEF TypeOK
<1> HIDE DEF w
<1>5. mine \in [Users -> AUser]
  BY <1>1, <1>2, <1>4
<1>6. user' = IF Vouched THEN Disturbed(mine) ELSE mine
  BY DEF TakeGuard
<1> HIDE DEF mine
<1>7. user' \in [Users -> AUser]
  BY <1>5, <1>6, DisturbedType
<1>8. /\ guard = Free /\ guard' = u /\ (raced' <=> raced \/ Vouched) /\ raced' \in BOOLEAN
      /\ source' = source /\ files' = files /\ manifest' = manifest /\ user[u].step = "guard"
  BY Zenon, <1>1 DEF TakeGuard, TypeOK, AtStep
<1>9. \A v \in Users : /\ user'[v].step = mine[v].step /\ user'[v].made = mine[v].made
                       /\ IF Vouched THEN user'[v].from = 0 /\ user'[v].seen = {}
                          ELSE user'[v] = mine[v]
  BY <1>5, <1>6, DisturbedType
<1>10. ASSUME NEW v \in Users PROVE Good(v, user[v])'
  <2>1. CASE v = u
    <3>1. mine[v] = w
      BY <1>3, <2>1
    <3>2. user[u].made = {} /\ (user[u].from # 0 => Vouched) /\ (user[u].from = 0 => user[u].seen = {})
      BY <1>1, <1>8 DEF Good
    <3>3. user'[v].step = "clear" /\ user'[v].made = {} /\ user'[v].from = 0
          /\ user'[v].seen = {}
      BY <1>2, <1>9, <3>1, <3>2
    <3> QED BY <1>8, <2>1, <3>3 DEF Good
  <2>2. CASE v # u
    <3>1. mine[v] = user[v] /\ user[v].step \notin {"clear", "write"}
      BY <1>1, <1>3, <1>8, <2>2 DEF Good
    <3>2. user'[v].step = user[v].step /\ user'[v].made = user[v].made /\ user'[v].from = 0
          /\ user'[v].seen = {}
      BY <1>1, <1>9, <3>1 DEF Good
    <3> QED BY <1>1, <1>8, <3>1, <3>2 DEF Good
  <2> QED BY <2>1, <2>2
<1>11. TypeOK'
  <2>1. source' \in Nat \ {0} /\ files' \in [Rels -> Int] /\ guard' \in Users \cup {Free}
        /\ manifest' \in [version : Nat, files : SUBSET Rels]
    BY <1>1, <1>8 DEF TypeOK
  <2> QED BY <1>7, <1>8, <2>1 DEF TypeOK
<1>12. NotAhead' /\ BuildIsNeeded' /\ VouchedIsWhole'
  BY <1>8 DEF IInv, NotAhead, BuildIsNeeded, VouchedIsWhole, Vouched
<1> QED BY <1>10, <1>11, <1>12, FromParts

LEMMA ClearStep == ASSUME IInv, NEW u \in Users, Clear(u), Free \notin Users PROVE IInv'
<1>1. TypeOK /\ \A v \in Users : user[v] \in AUser /\ Good(v, user[v])
  BY AllGood DEF IInv, TypeOK
<1>2. user[u].step = "clear" /\ guard = u
  BY <1>1 DEF Clear, AtStep, Good
<1>3. CASE \A r \in Rels : files[r] = Absent
  <2> DEFINE new == [user[u] EXCEPT !.step = "write"]
  <2>1. new \in AUser /\ new.step = "write" /\ new.made = user[u].made /\ new.from = user[u].from
        /\ new.seen = user[u].seen
    BY <1>1, StepType DEF Steps
  <2>2. Good(u, new)
    BY <1>1, <1>2, <2>1 DEF Good
  <2> QED BY <1>3, <2>1, <2>2, QuietStep DEF Clear
<1>4. CASE ~(\A r \in Rels : files[r] = Absent)
  <2>1. PICK r \in Rels : files' = [files EXCEPT ![r] = Absent]
    BY <1>4 DEF Clear
  <2>2. UNCHANGED <<source, manifest, guard, user, raced>>
    BY <1>4 DEF Clear
  <2>3. TypeOK'
    BY <1>1, <2>1, <2>2 DEF TypeOK, Absent
  <2>4. NotAhead' /\ BuildIsNeeded' /\ VouchedIsWhole'
    BY <1>2, <2>2 DEF IInv, NotAhead, BuildIsNeeded, VouchedIsWhole, Vouched
  <2>5. ASSUME NEW v \in Users PROVE Good(v, user[v])'
    <3>1. user[v].step # "write"
      BY <1>1, <1>2 DEF Good
    <3> QED BY <1>1, <2>2, <3>1 DEF Good, Vouched, Sound
  <2> QED BY <2>3, <2>4, <2>5, FromParts
<1> QED BY <1>3, <1>4

LEMMA OpenStep ==
    ASSUME IInv, NEW u \in Users, NEW r \in Rels, Open(u, r), Free \notin Users PROVE IInv'
<1>1. TypeOK /\ \A v \in Users : user[v] \in AUser /\ Good(v, user[v])
  BY AllGood DEF IInv, TypeOK
<1>2. user[u].step = "write" /\ guard = u /\ r \in user[u].todo
  BY <1>1 DEF Open, AtStep, Good
<1>3. files' = [files EXCEPT ![r] = Torn] /\ UNCHANGED <<source, manifest, guard, user, raced>>
  BY DEF Open
<1>4. TypeOK'
  BY <1>1, <1>3 DEF TypeOK, Torn
<1>5. NotAhead' /\ BuildIsNeeded' /\ VouchedIsWhole'
  BY <1>2, <1>3 DEF IInv, NotAhead, BuildIsNeeded, VouchedIsWhole, Vouched
<1>6. ASSUME NEW v \in Users PROVE Good(v, user[v])'
  <2>1. user[v].step = "write" => v = u
    BY <1>1, <1>2 DEF Good
  <2>2. user[v].step = "write" =>
            \A q \in user[v].made : q \notin user[v].todo /\ files'[q] = user[v].version
    BY <1>1, <1>2, <1>3, <2>1 DEF Good, TypeOK, AUser
  <2> QED BY <1>1, <1>3, <2>2 DEF Good, Vouched, Sound
<1> QED BY <1>4, <1>5, <1>6, FromParts

LEMMA FillStep ==
    ASSUME IInv, NEW u \in Users, NEW r \in Rels, Fill(u, r), Free \notin Users PROVE IInv'
<1> DEFINE new == [user[u] EXCEPT !.todo = @ \ {r}, !.made = @ \cup {r}]
<1>1. TypeOK /\ \A v \in Users : user[v] \in AUser /\ Good(v, user[v])
  BY AllGood DEF IInv, TypeOK
<1>2. user[u].step = "write" /\ guard = u /\ r \in user[u].todo
  BY <1>1 DEF Fill, AtStep, Good
<1>3. /\ files' = [files EXCEPT ![r] = user[u].version] /\ Becomes(u, new)
      /\ UNCHANGED <<source, manifest, guard, raced>>
  BY DEF Fill
<1>4. new \in AUser /\ new.step = "write" /\ new.made = user[u].made \cup {r}
      /\ new.todo = user[u].todo \ {r} /\ new.version = user[u].version /\ new.from = user[u].from
      /\ new.seen = user[u].seen
  BY <1>1, <1>2 DEF AUser
<1> HIDE DEF new
<1>5. user' \in [Users -> AUser] /\ user'[u] = new /\ \A v \in Users : v # u => user'[v] = user[v]
  BY <1>1, <1>3, <1>4, BecomesUser DEF TypeOK
<1>6. user[u].version \in Int
  BY <1>1 DEF AUser
<1>7. TypeOK'
  BY <1>1, <1>3, <1>5, <1>6 DEF TypeOK
<1>8. NotAhead' /\ BuildIsNeeded' /\ VouchedIsWhole'
  BY <1>2, <1>3 DEF IInv, NotAhead, BuildIsNeeded, VouchedIsWhole, Vouched
<1>9. ASSUME NEW v \in Users PROVE Good(v, user[v])'
  <2>1. CASE v = u
    <3>1. \A q \in new.made : q \in Rels /\ q \notin new.todo /\ files'[q] = new.version
      BY <1>1, <1>2, <1>3, <1>4 DEF Good, TypeOK, AUser
    <3> QED BY <1>1, <1>2, <1>3, <1>4, <1>5, <2>1, <3>1 DEF Good, Vouched, Sound
  <2>2. CASE v # u
    <3>1. user[v].step # "write"
      BY <1>1, <1>2, <2>2 DEF Good
    <3> QED BY <1>1, <1>3, <1>5, <2>2, <3>1 DEF Good, Vouched, Sound
  <2> QED BY <2>1, <2>2
<1> QED BY <1>7, <1>8, <1>9, FromParts

LEMMA SkipStep == ASSUME IInv, NEW u \in Users, NEW r \in Rels, Skip(u, r) PROVE IInv'
<1> DEFINE new == [user[u] EXCEPT !.todo = @ \ {r}]
<1>1. user[u] \in AUser /\ Good(u, user[u])
  BY AllGood DEF IInv, TypeOK
<1>2. new \in AUser /\ new.step = user[u].step /\ new.made = user[u].made
      /\ new.todo = user[u].todo \ {r} /\ new.version = user[u].version /\ new.from = user[u].from
      /\ new.seen = user[u].seen
  BY <1>1 DEF AUser
<1>3. Good(u, new)
  BY <1>1, <1>2 DEF Good
<1> QED BY <1>2, <1>3, QuietStep DEF Skip

\* The guard is given back: what the manifest vouches for is what was just written.
LEMMA PublishStep == ASSUME IInv, NEW u \in Users, Publish(u), Free \notin Users PROVE IInv'
<1> DEFINE new == Ended(u, source = user[u].version)
<1>1. TypeOK /\ \A v \in Users : user[v] \in AUser /\ Good(v, user[v])
  BY AllGood DEF IInv, TypeOK
<1>2. user[u].step = "write" /\ guard = u /\ user[u].made \in SUBSET Rels
  BY <1>1 DEF Publish, AtStep, Good, AUser
<1>3. /\ manifest' = [version |-> source, files |-> user[u].made] /\ guard' = Free
      /\ Becomes(u, new) /\ source' = source /\ files' = files
  BY DEF Publish
<1>4. raced' \in BOOLEAN /\ (raced' <=> source # user[u].version)
  BY Zenon DEF Publish
<1>0. /\ new \in AUser /\ new.step \in {"read", "done"} /\ new.seen = {}
      /\ new.from # 0 => source = user[u].version
  BY <1>1, EndedType
<1> HIDE DEF new
<1>5. user' \in [Users -> AUser] /\ user'[u] = new /\ \A v \in Users : v # u => user'[v] = user[v]
  BY <1>0, <1>1, <1>3, BecomesUser DEF TypeOK
<1>6. TypeOK'
  <2>1. source' \in Nat \ {0} /\ files' \in [Rels -> Int] /\ guard' \in Users \cup {Free}
        /\ manifest' \in [version : Nat, files : SUBSET Rels]
    BY <1>1, <1>2, <1>3 DEF TypeOK
  <2> QED BY <1>4, <1>5, <2>1 DEF TypeOK
<1>7. manifest'.version = source /\ manifest'.files = user[u].made
  BY <1>3
<1>8. VouchedIsWhole'
  <2>1. \A r \in user[u].made : files[r] = user[u].version
    BY <1>1, <1>2 DEF Good
  <2> QED BY <1>3, <1>4, <1>7, <2>1 DEF VouchedIsWhole
<1>9. NotAhead' /\ BuildIsNeeded'
  BY <1>1, <1>3, <1>7 DEF NotAhead, BuildIsNeeded, TypeOK
<1>10. ASSUME NEW v \in Users PROVE Good(v, user[v])'
  <2>1. user[v].from = 0 /\ user[v].seen = {}
    BY <1>1, <1>2 DEF IInv, BuildIsNeeded, Good
  <2>2. CASE v = u
    BY <1>0, <1>3, <1>4, <1>5, <1>7, <2>2 DEF Good, Vouched, Sound
  <2>3. CASE v # u
    <3>1. user[v].step \notin {"clear", "write"}
      BY <1>1, <1>2, <2>3 DEF Good
    <3> QED BY <1>1, <1>5, <2>1, <2>3, <3>1 DEF Good
  <2> QED BY <2>2, <2>3
<1> QED BY <1>6, <1>8, <1>9, <1>10, FromParts

\* A builder that fails leaves a manifest that vouches for nothing, or a race.
LEMMA FailsStep == ASSUME IInv, NEW u \in Users, Fails(u), Free \notin Users PROVE IInv'
<1> DEFINE again == User("push", "check", "PENDING")
<1>1. TypeOK /\ \A v \in Users : user[v] \in AUser /\ Good(v, user[v])
  BY AllGood DEF IInv, TypeOK
<1>2. guard = u /\ guard' = Free /\ UNCHANGED <<source, files, manifest, raced>>
  BY DEF Fails
<1>3. again \in AUser /\ again.step = "check" /\ again.from = 0 /\ again.seen = {}
  BY UserType DEF Kinds, Steps
<1>4. PICK new \in AUser : /\ Becomes(u, new) /\ new.step \in {"check", "done"}
                           /\ new.from = 0 /\ new.seen = {}
  BY <1>1, <1>3, DoneType DEF Fails
<1>5. user' \in [Users -> AUser] /\ user'[u] = new /\ \A v \in Users : v # u => user'[v] = user[v]
  BY <1>1, <1>2, <1>4, BecomesUser DEF TypeOK
<1>6. TypeOK'
  BY <1>1, <1>2, <1>5 DEF TypeOK
<1>7. NotAhead' /\ BuildIsNeeded' /\ VouchedIsWhole'
  BY <1>1, <1>2 DEF IInv, NotAhead, BuildIsNeeded, VouchedIsWhole, Vouched
<1>8. ASSUME NEW v \in Users PROVE Good(v, user[v])'
  <2>1. CASE v = u
    BY <1>1, <1>2, <1>4, <1>5, <2>1 DEF Good, Vouched, Sound
  <2>2. CASE v # u
    <3>1. user[v].step \notin {"clear", "write"}
      BY <1>1, <1>2, <2>2 DEF Good
    <3> QED BY <1>1, <1>2, <1>5, <2>2, <3>1 DEF Good, Vouched, Sound
  <2> QED BY <2>1, <2>2
<1> QED BY <1>6, <1>7, <1>8, FromParts

\* While nobody has raced and the manifest vouches for the source nobody builds, so what
\* it lists is there.
LEMMA CalmIsWhole ==
    ASSUME IInv, Vouched, ~raced
    PROVE  guard = Free /\ \A r \in manifest.files : files[r] = source
BY DEF IInv, BuildIsNeeded, VouchedIsWhole

LEMMA PlanStep == ASSUME IInv, NEW u \in Users, Plan(u) PROVE IInv'
<1>1. user[u] \in AUser /\ Good(u, user[u]) /\ TypeOK
  BY AllGood DEF IInv, TypeOK
<1>2. CASE user[u].env = "SUCCESS"
  <2>1. Good(u, Reading(Vouched /\ ~raced))
    BY <1>1, ReadingType DEF Good, Sound
  <2> QED BY <1>1, <1>2, <2>1, ReadingType, QuietStep DEF Plan
<1>3. CASE user[u].env # "SUCCESS"
  <2> DEFINE new == [user[u] EXCEPT !.step = "check"]
  <2>1. new \in AUser /\ new.step = "check" /\ new.from = user[u].from /\ new.seen = user[u].seen
    BY <1>1, StepType DEF Steps
  <2>2. Good(u, new)
    BY <1>1, <2>1 DEF Good
  <2> QED BY <1>3, <2>1, <2>2, QuietStep DEF Plan
<1> QED BY <1>2, <1>3

\* A read by a push that is not disturbed gives the source.
LEMMA ReadStep ==
    ASSUME IInv, NEW u \in Users, NEW r \in Rels, NEW x \in Int, Reads(u, r, x),
           r \in manifest.files => x = files[r]
    PROVE  IInv'
<1> DEFINE new == [user[u] EXCEPT !.seen = @ \cup {<<r, x>>}]
<1>1. user[u] \in AUser /\ Good(u, user[u])
  BY AllGood DEF IInv, TypeOK
<1>2. Vouched /\ ~raced /\ user[u].from # 0
  BY <1>1 DEF Reads, Good
<1>3. r \in manifest.files => x = source
  BY <1>2, CalmIsWhole
<1>4. new \in AUser /\ new.step = user[u].step /\ new.made = user[u].made
      /\ new.todo = user[u].todo /\ new.version = user[u].version /\ new.from = user[u].from
      /\ new.seen = user[u].seen \cup {<<r, x>>}
  BY <1>1 DEF AUser
<1>5. Becomes(u, new) /\ UNCHANGED <<source, files, manifest, guard, raced>>
  BY DEF Reads
<1> HIDE DEF new
<1>6. Sound(new.seen)
  BY <1>1, <1>2, <1>3, <1>4 DEF Good, Sound
<1>7. Good(u, new)
  BY <1>1, <1>2, <1>4, <1>6 DEF Good
<1> QED BY <1>4, <1>5, <1>7, QuietStep

LEMMA UploadStep == ASSUME IInv, NEW u \in Users, NEW r \in Rels, Upload(u, r) PROVE IInv'
<1>1. files[r] \in Int
  BY DEF IInv, TypeOK
<1> QED BY <1>1, ReadStep DEF Upload

LEMMA AttachStep == ASSUME IInv, NEW u \in Users, NEW r \in Rels, Attach(u, r) PROVE IInv'
<1> DEFINE x == IF r \in manifest.files THEN files[r] ELSE Absent
<1>1. x \in Int /\ (r \in manifest.files => x = files[r])
  BY DEF IInv, TypeOK, Absent
<1>2. Reads(u, r, x)
  BY DEF Attach
<1> HIDE DEF x
<1> QED BY <1>1, <1>2, ReadStep

LEMMA ReplaceStep == ASSUME IInv, Replace PROVE IInv'
<1>1. TypeOK /\ \A v \in Users : user[v] \in AUser /\ Good(v, user[v])
  BY AllGood DEF IInv, TypeOK
<1>2. source' = source + 1 /\ user' = Disturbed(user) /\ UNCHANGED <<files, manifest, guard, raced>>
  BY DEF Replace
<1>3. /\ user' \in [Users -> AUser]
      /\ \A v \in Users : /\ user'[v].step = user[v].step /\ user'[v].made = user[v].made
                           /\ user'[v].todo = user[v].todo /\ user'[v].version = user[v].version
                           /\ user'[v].from = 0 /\ user'[v].seen = {}
  BY <1>1, <1>2, DisturbedType DEF TypeOK
<1>4. TypeOK'
  BY <1>1, <1>2, <1>3 DEF TypeOK
<1>5. NotAhead' /\ ~Vouched'
  BY <1>1, <1>2 DEF IInv, NotAhead, Vouched, TypeOK
<1>6. BuildIsNeeded' /\ VouchedIsWhole'
  BY <1>5 DEF BuildIsNeeded, VouchedIsWhole
<1>7. ASSUME NEW v \in Users PROVE Good(v, user[v])'
  BY <1>1, <1>2, <1>3 DEF Good
<1> QED BY <1>4, <1>5, <1>6, <1>7, FromParts

LEMMA NextPushStep == ASSUME IInv, NEW u \in Users, NextPush(u) PROVE IInv'
<1>1. PICK env \in {"PENDING", "SUCCESS"} : Becomes(u, Push(env))
  BY DEF NextPush, IInv, TypeOK, AUser
<1>2. Push(env) \in AUser /\ Push(env).step = "plan" /\ Push(env).from = 0 /\ Push(env).seen = {}
  BY UserType DEF Push, Kinds, Steps
<1>3. Good(u, Push(env))
  BY <1>2 DEF Good
<1> QED BY <1>1, <1>2, <1>3, QuietStep DEF NextPush

LEMMA RestartStep == ASSUME IInv, Restart PROVE IInv'
<1>1. TypeOK
  BY DEF IInv
<1>2. guard' = Free /\ UNCHANGED <<source, files, manifest, raced>>
  BY DEF Restart
<1>3. user' \in [Users -> {Push("PENDING"), Push("SUCCESS"), Warm}]
  BY DEF Restart
<1>4. \A v \in Users : /\ user'[v] \in AUser /\ user'[v].step \in {"plan", "check"}
                       /\ user'[v].from = 0 /\ user'[v].seen = {}
  <2>1. \A v \in Users : user'[v] \in {Push("PENDING"), Push("SUCCESS"), Warm}
    BY <1>3
  <2> QED BY <2>1, UserType DEF Push, Warm, Kinds, Steps
<1>5. TypeOK'
  <2>1. user' \in [Users -> AUser]
    BY <1>3, <1>4
  <2> QED BY <1>1, <1>2, <2>1 DEF TypeOK
<1>6. NotAhead' /\ BuildIsNeeded' /\ VouchedIsWhole'
  BY <1>1, <1>2 DEF IInv, NotAhead, BuildIsNeeded, VouchedIsWhole, Vouched, TypeOK
<1>7. ASSUME NEW v \in Users PROVE Good(v, user[v])'
  BY <1>4 DEF Good
<1> QED BY <1>5, <1>6, <1>7, FromParts

LEMMA StutterStep == ASSUME IInv, UNCHANGED vars PROVE IInv'
BY DEF IInv, vars, TypeOK, NotAhead, BuilderHasGuard, BuildIsTrue, BuildIsNeeded, VouchedIsWhole,
       ReaderIsCalm, Sound, Vouched

LEMMA NextStep == ASSUME IInv, [Next]_vars, Free \notin Users PROVE IInv'
<1>1. ASSUME NEW u \in Users,
             \/ Check(u) \/ Parse(u) \/ TakeGuard(u) \/ Clear(u) \/ Publish(u)
             \/ Fails(u) \/ Plan(u) \/ NextPush(u)
      PROVE  IInv'
  BY <1>1, CheckStep, ParseStep, TakeGuardStep, ClearStep, PublishStep, FailsStep, PlanStep,
     NextPushStep
<1>2. ASSUME NEW u \in Users, NEW r \in Rels,
             Open(u, r) \/ Fill(u, r) \/ Skip(u, r) \/ Upload(u, r) \/ Attach(u, r)
      PROVE  IInv'
  BY <1>2, OpenStep, FillStep, SkipStep, UploadStep, AttachStep
<1> QED BY <1>1, <1>2, ReplaceStep, RestartStep, StutterStep DEF Next

-----------------------------------------------------------------------------
(* The theorems *)

\* For any number of threads, files, source versions and failures: the types.
THEOREM CacheTypes == Spec => []TypeOK
<1>1. IInv /\ [Next]_vars => IInv'
  BY NextStep, CacheAssumption
<1>2. IInv => TypeOK
  BY DEF IInv
<1> QED BY InitIInv, <1>1, <1>2, PTL DEF Spec

\* A manifest that vouches for the source lists only whole files of that source, whatever
\* builder failed or died, and a push that is not disturbed reads nothing else, unless a
\* good cache is built again or the source changes while it is parsed.
THEOREM CacheStaysTrue == Spec => []CacheIsTrue
<1>1. IInv /\ [Next]_vars => IInv'
  BY NextStep, CacheAssumption
<1>2. IInv => CacheIsTrue
  BY DEF IInv, CacheIsTrue, ReaderIsCalm, Sound, ReadsAreOfTheSource, TypeOK, AUser
<1> QED BY InitIInv, <1>1, <1>2, PTL DEF Spec
=============================================================================

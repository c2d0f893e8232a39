---------------------------- MODULE EngineProofs ----------------------------
(***************************************************************************)
(* Proofs about Engine, for any archives, any number of commands, edits    *)
(* and deaths: what the read-back of a delta vouches for, which entries of *)
(* the manifest can come to name one object, and that a delta takes away   *)
(* nothing that the manifest names.                                        *)
(***************************************************************************)
EXTENDS Engine, FiniteSetTheorems, WellFoundedInduction, TLAPS

-----------------------------------------------------------------------------
(* Least numbers, fresh names, and dictionaries with one value changed.    *)

Below == {ss \in Nat \X Nat : ss[1] < ss[2]}

LEMMA LeastNumber ==
  ASSUME NEW S, S \subseteq Nat, S # {}
  PROVE  Min(S) \in S /\ \A y \in S : Min(S) <= y
<1>1. IsWellFoundedOn(Below, Nat)
  BY NatLessThanWellFounded, Zenon DEF OpToRel, Below
<1>2. \E x \in S : \A y \in S : ~(<<y, x>> \in Below)
  BY ONLY <1>1, S \subseteq Nat, S # {}, WFMin
<1>3. PICK x \in S : \A y \in S : ~(<<y, x>> \in Below)
  BY <1>2
<1>4. \A y \in S : x <= y
  <2>. TAKE y \in S
  <2>. ~(<<y, x>> \in Below) BY <1>3
  <2>. QED BY DEF Below
<1>. QED BY <1>4 DEF Min

LEMMA LeastIsFresh ==
  ASSUME NEW U, IsFiniteSet(U)
  PROVE  Least(U) \in Nat \ {0} /\ Least(U) \notin U
<1>. DEFINE k == Cardinality(U)
            F == (1 .. k + 1) \ U
<1>1. k \in Nat
  BY FS_CardinalityType
<1>2. F # {}
  <2>. SUFFICES ASSUME (1 .. k + 1) \subseteq U PROVE FALSE
    OBVIOUS
  <2>1. Cardinality(1 .. k + 1) <= k
    BY FS_Subset
  <2>2. Cardinality(1 .. k + 1) = k + 1
    BY <1>1, FS_Interval
  <2>. QED BY <1>1, <2>1, <2>2
<1>3. F \subseteq Nat \ {0}
  BY <1>1
<1>4. Min(F) \in F
  BY <1>2, <1>3, LeastNumber
<1>. QED BY <1>3, <1>4 DEF Least

-----------------------------------------------------------------------------
(* The two walks through the folders of a Drive, unfolded.                 *)

Levels(w, p, k, f) ==
  f = [n \in 0 .. k |->
         IF n = 0 THEN {Root}
         ELSE {i \in DOMAIN w : w[i].in \in f[n - 1] /\ w[i].name = p[n]}]

LEMMA LevelsExist ==
  ASSUME NEW w, NEW p
  PROVE  \A k \in Nat : \E f : Levels(w, p, k, f)
<1>. DEFINE S == {k \in Nat : ~\E f : Levels(w, p, k, f)}
            m == Min(S)
<1>. SUFFICES ASSUME S # {} PROVE FALSE
  OBVIOUS
<1>1. m \in S /\ \A y \in S : m <= y
  BY LeastNumber
<1>. HIDE DEF m
<1>2. m # 0
  <2>. SUFFICES ASSUME m = 0 PROVE FALSE
    OBVIOUS
  <2>. DEFINE f == [n \in 0 .. 0 |-> {Root}]
  <2>1. Levels(w, p, 0, f)
    BY DEF Levels
  <2>. QED BY <1>1, <2>1
<1>3. m \in Nat /\ m - 1 \in Nat /\ m - 1 \notin S
  BY <1>1, <1>2
<1>4. PICK f : Levels(w, p, m - 1, f)
  BY <1>3
<1>. DEFINE g == [n \in 0 .. m |->
                    IF n = 0 THEN {Root}
                    ELSE {i \in DOMAIN w : w[i].in \in f[n - 1] /\ w[i].name = p[n]}]
<1>5. \A n \in 0 .. m - 1 : f[n] = g[n]
  <2>. TAKE n \in 0 .. m - 1
  <2>1. f[n] = IF n = 0 THEN {Root}
               ELSE {i \in DOMAIN w : w[i].in \in f[n - 1] /\ w[i].name = p[n]}
    BY <1>4 DEF Levels
  <2>2. n \in 0 .. m
    BY <1>3
  <2>. QED BY <2>1, <2>2
<1>6. g = [n \in 0 .. m |->
             IF n = 0 THEN {Root}
             ELSE {i \in DOMAIN w : w[i].in \in g[n - 1] /\ w[i].name = p[n]}]
  <2>. HIDE DEF g
  <2>1. \A n \in 0 .. m : n # 0 => f[n - 1] = g[n - 1]
    <3>. SUFFICES ASSUME NEW n \in 0 .. m, n # 0 PROVE f[n - 1] = g[n - 1]
      OBVIOUS
    <3>1. n - 1 \in 0 .. m - 1
      BY <1>3
    <3>. QED BY <1>5, <3>1
  <2>2. g = [n \in 0 .. m |->
                    IF n = 0 THEN {Root}
                    ELSE {i \in DOMAIN w : w[i].in \in f[n - 1] /\ w[i].name = p[n]}]
    BY DEF g
  <2>. QED BY <2>1, <2>2
<1>7. Levels(w, p, m, g)
  BY <1>6 DEF Levels
<1>. QED BY <1>1, <1>7

\* What is found at a path is the last level of the walk down to it.
LEMMA AtLevels ==
  ASSUME NEW w, NEW p, Len(p) \in Nat
  PROVE  \E f : Levels(w, p, Len(p), f) /\ At(w, p) = f[Len(p)]
<1>. DEFINE f == CHOOSE f : Levels(w, p, Len(p), f)
<1>1. Levels(w, p, Len(p), f)
  BY LevelsExist
<1>2. At(w, p) = f[Len(p)]
  BY DEF At, Levels
<1>. QED BY <1>1, <1>2

\* A walk down by names ends at an object in one way only.
LEMMA WalksMeet ==
  ASSUME NEW w, Root \notin DOMAIN w, NEW p, NEW q, NEW k \in Nat, NEW l \in Nat,
         NEW f, Levels(w, p, k, f), NEW g, Levels(w, q, l, g)
  PROVE  \A n \in 0 .. k, c \in 0 .. l :
           f[n] \cap g[c] # {} => n = c /\ \A j \in 1 .. n : p[j] = q[j]
<1>. DEFINE Bad(n) == \E c \in 0 .. l : /\ f[n] \cap g[c] # {}
                                        /\ ~(n = c /\ \A j \in 1 .. n : p[j] = q[j])
            S == {n \in 0 .. k : Bad(n)}
            m == Min(S)
<1>. SUFFICES ASSUME S # {} PROVE FALSE
  OBVIOUS
<1>. HIDE DEF Bad
<1>1. m \in S /\ \A y \in S : m <= y
  <2>1. S \subseteq Nat
    OBVIOUS
  <2>. HIDE DEF S
  <2>. QED BY <2>1, LeastNumber
<1>. HIDE DEF m
<1>. USE DEF Bad
<1>2. PICK c \in 0 .. l : /\ f[m] \cap g[c] # {}
                          /\ ~(m = c /\ \A j \in 1 .. m : p[j] = q[j])
  BY <1>1
<1>3. PICK i : i \in f[m] /\ i \in g[c]
  BY <1>2
<1>4. f[m] = IF m = 0 THEN {Root} ELSE {o \in DOMAIN w : w[o].in \in f[m - 1] /\ w[o].name = p[m]}
  BY <1>1 DEF Levels
<1>5. g[c] = IF c = 0 THEN {Root} ELSE {o \in DOMAIN w : w[o].in \in g[c - 1] /\ w[o].name = q[c]}
  BY <1>2 DEF Levels
<1>6. m # 0 /\ c # 0
  BY <1>2, <1>3, <1>4, <1>5
<1>7. w[i].in \in f[m - 1] /\ w[i].in \in g[c - 1] /\ p[m] = q[c]
  BY <1>3, <1>4, <1>5, <1>6
<1>8. m - 1 \in 0 .. k /\ m - 1 \notin S /\ c - 1 \in 0 .. l
  BY <1>1, <1>2, <1>6
<1>9. m - 1 = c - 1 /\ \A j \in 1 .. m - 1 : p[j] = q[j]
  BY <1>7, <1>8
<1>10. m = c /\ \A j \in 1 .. m : p[j] = q[j]
  BY <1>1, <1>2, <1>7, <1>9
<1>. QED BY <1>2, <1>10

LEMMA AtMeets ==
  ASSUME NEW w, Root \notin DOMAIN w, NEW S, NEW p \in Seq(S), NEW q \in Seq(S),
         At(w, p) \cap At(w, q) # {}
  PROVE  p = q
<1>1. PICK f : Levels(w, p, Len(p), f) /\ At(w, p) = f[Len(p)]
  BY AtLevels
<1>2. PICK g : Levels(w, q, Len(q), g) /\ At(w, q) = g[Len(q)]
  BY AtLevels
<1>3. Len(p) \in 0 .. Len(p) /\ Len(q) \in 0 .. Len(q)
  OBVIOUS
<1>4. \A n \in 0 .. Len(p), c \in 0 .. Len(q) :
         f[n] \cap g[c] # {} => n = c /\ \A j \in 1 .. n : p[j] = q[j]
  BY <1>1, <1>2, WalksMeet
<1>5. Len(p) = Len(q) /\ \A j \in 1 .. Len(p) : p[j] = q[j]
  BY <1>1, <1>2, <1>3, <1>4
<1>. QED BY <1>5

Ups(w, i, k, f) ==
  f = [n \in 0 .. k |->
         IF n = 0 THEN {i} ELSE f[n - 1] \cup {w[j].in : j \in f[n - 1] \cap DOMAIN w}]

LEMMA UpsExist ==
  ASSUME NEW w, NEW i
  PROVE  \A k \in Nat : \E f : Ups(w, i, k, f)
<1>. DEFINE S == {k \in Nat : ~\E f : Ups(w, i, k, f)}
            m == Min(S)
<1>. SUFFICES ASSUME S # {} PROVE FALSE
  OBVIOUS
<1>1. m \in S /\ \A y \in S : m <= y
  BY LeastNumber
<1>. HIDE DEF m
<1>2. m # 0
  <2>. SUFFICES ASSUME m = 0 PROVE FALSE
    OBVIOUS
  <2>. DEFINE f == [n \in 0 .. 0 |-> {i}]
  <2>1. Ups(w, i, 0, f)
    BY DEF Ups
  <2>. QED BY <1>1, <2>1
<1>3. m \in Nat /\ m - 1 \in Nat /\ m - 1 \notin S
  BY <1>1, <1>2
<1>4. PICK f : Ups(w, i, m - 1, f)
  BY <1>3
<1>. DEFINE g == [n \in 0 .. m |->
                    IF n = 0 THEN {i}
                    ELSE f[n - 1] \cup {w[j].in : j \in f[n - 1] \cap DOMAIN w}]
<1>5. \A n \in 0 .. m - 1 : f[n] = g[n]
  <2>. TAKE n \in 0 .. m - 1
  <2>1. f[n] = IF n = 0 THEN {i}
               ELSE f[n - 1] \cup {w[j].in : j \in f[n - 1] \cap DOMAIN w}
    BY <1>4 DEF Ups
  <2>2. n \in 0 .. m
    BY <1>3
  <2>. QED BY <2>1, <2>2
<1>6. g = [n \in 0 .. m |->
             IF n = 0 THEN {i} ELSE g[n - 1] \cup {w[j].in : j \in g[n - 1] \cap DOMAIN w}]
  <2>. HIDE DEF g
  <2>1. \A n \in 0 .. m : n # 0 => f[n - 1] = g[n - 1]
    <3>. SUFFICES ASSUME NEW n \in 0 .. m, n # 0 PROVE f[n - 1] = g[n - 1]
      OBVIOUS
    <3>1. n - 1 \in 0 .. m - 1
      BY <1>3
    <3>. QED BY <1>5, <3>1
  <2>2. g = [n \in 0 .. m |->
                    IF n = 0 THEN {i}
                    ELSE f[n - 1] \cup {w[j].in : j \in f[n - 1] \cap DOMAIN w}]
    BY DEF g
  <2>. QED BY <2>1, <2>2
<1>7. Ups(w, i, m, g)
  BY <1>6 DEF Ups
<1>. QED BY <1>1, <1>7

LEMMA UpsBegin ==
  ASSUME NEW w, NEW i, NEW k \in Nat, NEW f, Ups(w, i, k, f)
  PROVE  i \in f[k]
<1>. DEFINE S == {n \in 0 .. k : i \notin f[n]}
            m == Min(S)
<1>. SUFFICES ASSUME S # {} PROVE FALSE
  OBVIOUS
<1>1. m \in S /\ \A y \in S : m <= y
  <2>1. S \subseteq Nat
    OBVIOUS
  <2>. HIDE DEF S
  <2>. QED BY <2>1, LeastNumber
<1>. HIDE DEF m
<1>2. f[m] = IF m = 0 THEN {i} ELSE f[m - 1] \cup {w[j].in : j \in f[m - 1] \cap DOMAIN w}
  BY <1>1 DEF Ups
<1>3. m # 0
  BY <1>1, <1>2
<1>4. m - 1 \in 0 .. k /\ m - 1 \notin S
  BY <1>1, <1>3
<1>. QED BY <1>1, <1>2, <1>3, <1>4

\* The line of folders above an object begins with it.
LEMMA LineBegins ==
  ASSUME NEW w, IsFiniteSet(DOMAIN w), NEW i \in DOMAIN w
  PROVE  i \in Line(w, i)
<1>. DEFINE k == Cardinality(DOMAIN w)
            f == CHOOSE f : Ups(w, i, k, f)
<1>1. k \in Nat
  BY FS_CardinalityType
<1>2. Ups(w, i, k, f)
  BY <1>1, UpsExist
<1>3. Line(w, i) = f[k] \cap DOMAIN w
  BY DEF Line, Ups
<1>. HIDE DEF k, f
<1>. QED BY <1>1, <1>2, <1>3, UpsBegin

LEMMA WithoutIs ==
  ASSUME NEW w, IsFiniteSet(DOMAIN w), NEW i
  PROVE  /\ DOMAIN Without(w, i) \subseteq DOMAIN w \ {i}
         /\ \A k \in DOMAIN Without(w, i) : Without(w, i)[k] = w[k]
<1>. DEFINE S == {k \in DOMAIN w : i \notin Line(w, k)}
<1>1. S \subseteq DOMAIN w \ {i}
  BY LineBegins
<1>. HIDE DEF S
<1>2. Without(w, i) = [k \in S |-> w[k]]
  BY DEF Without, S
<1>. QED BY <1>1, <1>2

-----------------------------------------------------------------------------
(* What an account can hold.                                               *)

IsObject(o) ==
  /\ o = [kind |-> o.kind, name |-> o.name, in |-> o.in, binned |-> o.binned,
          bytes |-> o.bytes, mark |-> o.mark]
  /\ o.kind # "file" => o.bytes = NoBytes

IsDrive(w) ==
  /\ IsFiniteSet(DOMAIN w) /\ DOMAIN w \subseteq Nat \ {Root}
  /\ \A i \in DOMAIN w : IsObject(w[i])

\* An object is in the root, or in another that is no file.
HasPlace(w, o) == o.in = Root \/ (o.in \in DOMAIN w /\ w[o.in].kind # "file")
IsTree(w) == \A i \in DOMAIN w : HasPlace(w, w[i])

IsMessage(x) ==
  /\ x = [src |-> x.src, whole |-> x.whole, thread |-> x.thread, labels |-> x.labels,
          placed |-> x.placed, sent |-> x.sent, draft |-> x.draft]
  /\ x.draft => x.src = NoLetter

\* No two labels of the engine's have one name.
IsLabels(g) ==
  /\ IsFiniteSet(DOMAIN g)
  /\ \A j, k \in DOMAIN g : g[j] = g[k] /\ g[j] # 0 => j = k

IsMailbox(m) ==
  /\ m = [messages |-> m.messages, labels |-> m.labels]
  /\ IsFiniteSet(DOMAIN m.messages) /\ IsLabels(m.labels)
  /\ \A i \in DOMAIN m.messages : IsMessage(m.messages[i])

\* An event under an id that the engine made shows no other source than that id's.
IsEvent(i, e) ==
  /\ e = [tag |-> e.tag, src |-> e.src, key |-> e.key, fine |-> e.fine]
  /\ i[1] # 0 => e.src \in {i[2], NoSource} /\ e.key \in {i[2], NoSource}
  /\ e.src = NoSource => e.tag = 0

IsCalendar(c) ==
  /\ c = [events |-> c.events, gone |-> c.gone]
  /\ IsFiniteSet(DOMAIN c.events) /\ IsFiniteSet(c.gone)
  /\ \A i \in DOMAIN c.events : IsEvent(i, c.events[i])

-----------------------------------------------------------------------------
(* What a manifest says.                                                   *)

IsBook(b, a) ==
  /\ b = [tag |-> b.tag, stamp |-> b.stamp, done |-> b.done, drive |-> b.drive,
          mail |-> b.mail, cal |-> b.cal]
  /\ b.tag \in Nat \ {0}
  /\ DOMAIN b.drive \subseteq Paths(a.files)
  /\ b.mail = [label |-> b.mail.label, messages |-> b.mail.messages]
  /\ DOMAIN b.mail.messages \subseteq Letters(a)
  /\ DOMAIN b.cal \subseteq ToSet(a.events)

\* A mark on an object of the manifest is this seed's, for a path it is entered under.
OwnMarks(w, b, t) ==
  \A q \in DOMAIN b : b[q].id \in DOMAIN w =>
    \/ w[b[q].id].mark = NoMark
    \/ \E p \in DOMAIN b : b[p].id = b[q].id /\ w[b[q].id].mark = [tag |-> t, path |-> p]

\* A message of the manifest is a copy of the letter it is entered under, in the thread
\* that is entered with it.
OwnMail(m, b) ==
  /\ ~NamesTwice(b.messages)
  /\ \A s \in DOMAIN b.messages : b.messages[s].id \in DOMAIN m.messages =>
       /\ m.messages[b.messages[s].id].src = s
       /\ m.messages[b.messages[s].id].thread = b.messages[s].thread

\* An id of the engine's is entered under the source it was made for.
OwnIds(b) ==
  /\ b = [s \in DOMAIN b |-> b[s]] /\ ~NamesTwice(b)
  /\ \A s \in DOMAIN b : /\ b[s] = [id |-> b[s].id, gen |-> b[s].gen]
                         /\ b[s].id[1] # 0 => b[s].id[2] = s

GoodBook(b, a, w, m) ==
  IsBook(b, a) /\ OwnMarks(w, b.drive, b.tag) /\ OwnMail(m, b.mail) /\ OwnIds(b.cal)

-----------------------------------------------------------------------------
(* What is left of a plan.                                                 *)

\* One call for a path: it makes what is not there, or mends what is entered.
DriveTodo(todo, w, b, files) ==
  /\ \A a \in todo :
       /\ a.do \in {"create", "seed", "patch", "replace", "delete"}
       /\ a.do # "delete" => a.path \in Paths(files)
       /\ a.do \in {"create", "seed"} => Known(w, b, a.path) = {}
       /\ a.do \in {"patch", "replace"} => a.path \in DOMAIN b /\ b[a.path].id = a.id
  /\ \A a, c \in todo : a.do # "delete" /\ c.do # "delete" /\ a.path = c.path => a = c
  /\ \A a, c \in todo : a.do = "seed" => c.do = "seed"

MailTodo(todo, cat) ==
  \A a \in todo : /\ a.do \in {"import", "reimport", "relabel", "delete", "unlabel"}
                  /\ a.do \in {"import", "reimport"} => a.src \in Letters(cat)

CalendarTodo(todo, b, events) ==
  /\ \A a \in todo :
       /\ a.do \in {"insert", "seed", "update", "delete"}
       /\ a.do # "delete" => a.src \in ToSet(events)
       /\ a.do = "update" => a.src \in DOMAIN b /\ b[a.src].id = a.id
  /\ \A a, c \in todo : a.do = "update" /\ c.do \in {"insert", "seed"} => a.src # c.src

Amid(r, s) == r.left # <<>> /\ Head(r.left) = s /\ r.open

\* A seed or a delta holds the manifest that is on disk, but for a new seed that
\* has not saved its own yet and has nothing of Drive in it.
IsRun(r, b, a, w, m) ==
  /\ r = [cmd |-> r.cmd, svcs |-> r.svcs, left |-> r.left, open |-> r.open,
          todo |-> r.todo, mem |-> r.mem, twice |-> r.twice]
  /\ r.cmd \in {"seed", "delta", "reset"}
  /\ r.cmd = "reset" => ~r.open
  /\ r.cmd # "reset" =>
       /\ GoodBook(r.mem, a, w, m)
       /\ b = r.mem \/ (b = NoBook /\ r.mem.drive = <<>>)
  /\ Amid(r, "drive") => DriveTodo(r.todo, w, r.mem.drive, a.files)
  /\ Amid(r, "gmail") => MailTodo(r.todo, a)
  /\ Amid(r, "calendar") => CalendarTodo(r.todo, r.mem.cal, a.events)

IsState(a, w, m, c, b, r) ==
  /\ a \in Archives
  /\ IsDrive(w) /\ IsMailbox(m) /\ IsCalendar(c)
  /\ b = NoBook \/ GoodBook(b, a, w, m)
  /\ r = Idle \/ IsRun(r, b, a, w, m)

IInv == IsState(archive, drive, mail, cal, book, run)

-----------------------------------------------------------------------------
(* Drive: every call leaves a drive, and the marks of the manifest's       *)
(* objects its own.                                                        *)

\* v has the marks of w, but for one object that is new.
MarksKept(w, v, n) ==
  \A i \in DOMAIN v : i # n => i \in DOMAIN w /\ v[i].mark = w[i].mark

LEMMA MarksStay ==
  ASSUME NEW w, NEW v, NEW n, MarksKept(w, v, n), NEW b, NEW t, OwnMarks(w, b, t),
         \A q \in DOMAIN b : b[q].id # n
  PROVE  OwnMarks(v, b, t)
<1>. SUFFICES ASSUME NEW q \in DOMAIN b, b[q].id \in DOMAIN v
              PROVE  \/ v[b[q].id].mark = NoMark
                     \/ \E p \in DOMAIN b : /\ b[p].id = b[q].id
                                            /\ v[b[q].id].mark = [tag |-> t, path |-> p]
  BY DEF OwnMarks
<1>1. b[q].id \in DOMAIN w /\ v[b[q].id].mark = w[b[q].id].mark
  BY DEF MarksKept
<1>. QED BY <1>1 DEF OwnMarks

LEMMA DrivePut ==
  ASSUME NEW w, IsDrive(w), NEW n \in Nat \ {Root}, NEW o, IsObject(o)
  PROVE  IsDrive(Put(w, n, o)) /\ MarksKept(w, Put(w, n, o), n)
<1>. DEFINE v == Put(w, n, o)
<1>1. DOMAIN v = DOMAIN w \cup {n} /\ v[n] = o /\ \A i \in DOMAIN w : i # n => v[i] = w[i]
  BY DEF Put
<1>. HIDE DEF v
<1>2. IsFiniteSet(DOMAIN v)
  BY <1>1, FS_AddElement DEF IsDrive
<1>3. IsDrive(v)
  BY <1>1, <1>2 DEF IsDrive
<1>4. MarksKept(w, v, n)
  BY <1>1 DEF MarksKept
<1>. QED BY <1>3, <1>4 DEF v

\* A drive with fewer objects, each as it was.
LEMMA DriveLess ==
  ASSUME NEW w, IsDrive(w), NEW v, DOMAIN v \subseteq DOMAIN w,
         \A i \in DOMAIN v : v[i] = w[i], NEW n
  PROVE  IsDrive(v) /\ MarksKept(w, v, n)
<1>1. IsFiniteSet(DOMAIN v)
  BY FS_Subset DEF IsDrive
<1>2. IsDrive(v)
  BY <1>1 DEF IsDrive
<1>. QED BY <1>2 DEF MarksKept

LEMMA DriveWithout ==
  ASSUME NEW w, IsDrive(w), NEW i, NEW n
  PROVE  IsDrive(Without(w, i)) /\ MarksKept(w, Without(w, i), n) /\ i \notin DOMAIN Without(w, i)
<1>1. IsFiniteSet(DOMAIN w)
  BY DEF IsDrive
<1>2. /\ DOMAIN Without(w, i) \subseteq DOMAIN w \ {i}
      /\ \A k \in DOMAIN Without(w, i) : Without(w, i)[k] = w[k]
  BY <1>1, WithoutIs
<1>. QED BY <1>2, DriveLess

LEMMA NewObjectIs ==
  ASSUME NEW b, NEW t, NEW files, NEW p
  PROVE  /\ IsObject(NewObject(b, t, files, p))
         /\ NewObject(b, t, files, p).mark = [tag |-> t, path |-> p]
BY DEF NewObject, IsObject

\* An object whose record is changed keeps the shape of its record.
LEMMA DriveExcept ==
  ASSUME NEW w, IsDrive(w), NEW i, NEW o, i \in DOMAIN w => IsObject(o)
  PROVE  /\ IsDrive([w EXCEPT ![i] = o])
         /\ i \in DOMAIN w => [w EXCEPT ![i] = o][i] = o
         /\ i \in DOMAIN w /\ o.mark = w[i].mark => \A n : MarksKept(w, [w EXCEPT ![i] = o], n)
<1>. DEFINE v == [w EXCEPT ![i] = o]
<1>1. DOMAIN v = DOMAIN w /\ (\A j \in DOMAIN w : j # i => v[j] = w[j])
      /\ (i \in DOMAIN w => v[i] = o)
  OBVIOUS
<1>. HIDE DEF v
<1>2. IsDrive(v)
  BY <1>1 DEF IsDrive
<1>3. i \in DOMAIN w /\ o.mark = w[i].mark => \A n : MarksKept(w, v, n)
  BY <1>1 DEF MarksKept
<1>. QED BY <1>1, <1>2, <1>3 DEF v

\* x is the object o with another name, place, state or content.
Changed(o, x) == IsObject(x) /\ x.mark = o.mark /\ x.kind = o.kind

LEMMA ObjectExcept ==
  ASSUME NEW o, IsObject(o), NEW x
  PROVE  /\ Changed(o, [o EXCEPT !.binned = x]) /\ [o EXCEPT !.binned = x].in = o.in
         /\ Changed(o, [o EXCEPT !.name = x]) /\ [o EXCEPT !.name = x].in = o.in
         /\ Changed(o, [o EXCEPT !.in = x]) /\ [o EXCEPT !.in = x].in = x
         /\ o.kind = "file" => Changed(o, [o EXCEPT !.bytes = x]) /\ [o EXCEPT !.bytes = x].in = o.in
<1>. DEFINE b == [o EXCEPT !.binned = x]
            n == [o EXCEPT !.name = x]
            i == [o EXCEPT !.in = x]
            y == [o EXCEPT !.bytes = x]
<1>0. o = [kind |-> o.kind, name |-> o.name, in |-> o.in, binned |-> o.binned,
           bytes |-> o.bytes, mark |-> o.mark]
  BY DEF IsObject
<1>1. b = [kind |-> o.kind, name |-> o.name, in |-> o.in, binned |-> x,
           bytes |-> o.bytes, mark |-> o.mark]
  BY <1>0
<1>2. n = [kind |-> o.kind, name |-> x, in |-> o.in, binned |-> o.binned,
           bytes |-> o.bytes, mark |-> o.mark]
  BY <1>0
<1>3. i = [kind |-> o.kind, name |-> o.name, in |-> x, binned |-> o.binned,
           bytes |-> o.bytes, mark |-> o.mark]
  BY <1>0
<1>4. y = [kind |-> o.kind, name |-> o.name, in |-> o.in, binned |-> o.binned,
           bytes |-> x, mark |-> o.mark]
  BY <1>0
<1>. HIDE DEF b, n, i, y
<1>5. Changed(o, b) /\ b.in = o.in
  BY <1>1 DEF IsObject, Changed
<1>6. Changed(o, n) /\ n.in = o.in
  BY <1>2 DEF IsObject, Changed
<1>7. Changed(o, i) /\ i.in = x
  BY <1>3 DEF IsObject, Changed
<1>8. o.kind = "file" => Changed(o, y) /\ y.in = o.in
  BY <1>4 DEF IsObject, Changed
<1>. QED BY <1>5, <1>6, <1>7, <1>8 DEF b, n, i, y

\* What the user can do to a drive: have an object go, change one, add one that is a
\* copy or has no mark; and put nothing where there is no place.
Gone(w, v) == \E i \in DOMAIN w : v = Without(w, i)
Altered(w, v) ==
  \E i \in DOMAIN w : \E o : /\ Changed(w[i], o) /\ (IsTree(w) => HasPlace(w, o))
                             /\ v = [w EXCEPT ![i] = o]
Added(w, n, v) ==
  \E o : /\ IsObject(o) /\ (IsTree(w) => HasPlace(w, o))
         /\ o.mark = NoMark \/ \E j \in DOMAIN w : o.mark = w[j].mark
         /\ v = Put(w, n, o)

LEMMA DriveEditIs ==
  ASSUME NEW w, IsDrive(w), NEW files, NEW n, NEW v \in DriveEdits(w, files, n)
  PROVE  Gone(w, v) \/ Altered(w, v) \/ Added(w, n, v)
<1>. DEFINE seats == {Root} \cup {i \in DOMAIN w : w[i].kind = "folder"}
            names == {Last(p) : p \in Paths(files)}
            New(kind, name, seat, bytes) ==
              Put(w, n, [kind |-> kind, name |-> name, in |-> seat, binned |-> FALSE,
                         bytes |-> bytes, mark |-> NoMark])
<1>a. ASSUME NEW i \in DOMAIN w, NEW o, Changed(w[i], o), o.in = w[i].in \/ o.in \in seats,
             v = [w EXCEPT ![i] = o]
      PROVE  Altered(w, v)
  <2>1. IsTree(w) => HasPlace(w, o)
    BY <1>a DEF IsTree, HasPlace
  <2>. QED BY <1>a, <2>1 DEF Altered
<1>b. \A i \in DOMAIN w : IsObject(w[i])
  BY DEF IsDrive
<1>1. CASE \E i \in DOMAIN w : v = Without(w, i)
  BY <1>1 DEF Gone
<1>2. CASE \E i \in DOMAIN w : v = [w EXCEPT ![i].binned = ~@]
  <2>. PICK i \in DOMAIN w : v = [w EXCEPT ![i].binned = ~@]
    BY <1>2
  <2>. DEFINE o == [w[i] EXCEPT !.binned = ~@]
  <2>1. Changed(w[i], o) /\ o.in = w[i].in
    BY <1>b, ObjectExcept
  <2>2. v = [w EXCEPT ![i] = o]
    OBVIOUS
  <2>. HIDE DEF o
  <2>. QED BY <1>a, <2>1, <2>2
<1>3. CASE \E i \in DOMAIN w, name \in names : v = [w EXCEPT ![i].name = name]
  <2>. PICK i \in DOMAIN w, name \in names : v = [w EXCEPT ![i].name = name]
    BY <1>3
  <2>. DEFINE o == [w[i] EXCEPT !.name = name]
  <2>1. Changed(w[i], o) /\ o.in = w[i].in
    BY <1>b, ObjectExcept
  <2>2. v = [w EXCEPT ![i] = o]
    OBVIOUS
  <2>. HIDE DEF o
  <2>. QED BY <1>a, <2>1, <2>2
<1>4. CASE \E i \in DOMAIN w, s \in seats : v = [w EXCEPT ![i].in = s]
  <2>. PICK i \in DOMAIN w, s \in seats : v = [w EXCEPT ![i].in = s]
    BY <1>4
  <2>. DEFINE o == [w[i] EXCEPT !.in = s]
  <2>1. Changed(w[i], o) /\ o.in = s
    BY <1>b, ObjectExcept
  <2>2. v = [w EXCEPT ![i] = o]
    OBVIOUS
  <2>. HIDE DEF o
  <2>. QED BY <1>a, <2>1, <2>2
<1>5. CASE \E i \in DOMAIN w : \E x :
          w[i].kind = "file" /\ v = [w EXCEPT ![i].bytes = x]
  <2>. PICK i \in DOMAIN w : \E x : w[i].kind = "file" /\ v = [w EXCEPT ![i].bytes = x]
    BY <1>5
  <2>. PICK x : w[i].kind = "file" /\ v = [w EXCEPT ![i].bytes = x]
    OBVIOUS
  <2>. DEFINE o == [w[i] EXCEPT !.bytes = x]
  <2>1. Changed(w[i], o) /\ o.in = w[i].in
    BY <1>b, ObjectExcept
  <2>2. v = [w EXCEPT ![i] = o]
    OBVIOUS
  <2>. HIDE DEF o
  <2>. QED BY <1>a, <2>1, <2>2
<1>6. ASSUME NEW kind, NEW name, NEW seat \in seats, NEW bytes, kind # "file" => bytes = NoBytes,
             v = New(kind, name, seat, bytes)
      PROVE  Added(w, n, v)
  <2>. DEFINE o == [kind |-> kind, name |-> name, in |-> seat, binned |-> FALSE,
                    bytes |-> bytes, mark |-> NoMark]
  <2>1. IsObject(o) /\ HasPlace(w, o) /\ o.mark = NoMark
    BY <1>6 DEF IsObject, HasPlace
  <2>2. v = Put(w, n, o)
    BY <1>6
  <2>. HIDE DEF o
  <2>. QED BY <2>1, <2>2 DEF Added
<1>. DEFINE moves == {m \in (DOMAIN w) \X seats : m[2] = Root \/ m[1] \notin Line(w, m[2])}
            E1 == {Without(w, i) : i \in DOMAIN w}
            E2 == {[w EXCEPT ![i].binned = ~@] : i \in DOMAIN w}
            E3 == {[w EXCEPT ![i].name = name] : i \in DOMAIN w, name \in names}
            E4 == {[w EXCEPT ![e[1]].in = e[2]] : e \in moves}
            E5 == {[w EXCEPT ![i].bytes = IF twin /\ @ # Other THEN Twin(@.of) ELSE Other] :
                     i \in {k \in DOMAIN w : w[k].kind = "file"}, twin \in BOOLEAN}
            E6 == {New("folder", name, seat, NoBytes) : name \in names, seat \in seats}
            E7 == {New("file", name, seat, Other) : name \in names, seat \in seats}
            E8 == {New("file", Last(p), seat, Twin(p)) : p \in files, seat \in seats}
            E9 == {Put(w, n, w[i]) : i \in DOMAIN w}
<1>7. DriveEdits(w, files, n)
        = E1 \cup E2 \cup E3 \cup E4 \cup E5 \cup E6 \cup E7 \cup E8 \cup E9
  BY DEF DriveEdits
<1>8. CASE v \in E1 \cup E2
  BY <1>1, <1>2, <1>8
<1>9. CASE v \in E3
  BY <1>3, <1>9
<1>10. CASE v \in E4
  BY <1>4, <1>10
<1>11. CASE v \in E5
  BY <1>5, <1>11
<1>12. CASE v \in E9
  <2>1. PICK i \in DOMAIN w : v = Put(w, n, w[i])
    BY <1>12
  <2>2. IsObject(w[i]) /\ (IsTree(w) => HasPlace(w, w[i]))
    BY <1>b DEF IsTree
  <2>. QED BY <2>1, <2>2 DEF Added
<1>. HIDE DEF New, seats
<1>13. CASE v \in E6 \cup E7 \cup E8
  BY <1>6, <1>13
<1>. HIDE DEF E1, E2, E3, E4, E5, E6, E7, E8, E9
<1>. QED BY <1>7, <1>8, <1>9, <1>10, <1>11, <1>12, <1>13

\* Whatever the user does, marks stay with their objects, and what is new is new.
LEMMA DriveEdited ==
  ASSUME NEW w, IsDrive(w), NEW files, NEW n \in Nat \ {Root}, NEW v \in DriveEdits(w, files, n)
  PROVE  IsDrive(v) /\ MarksKept(w, v, n)
<1>1. CASE Gone(w, v)
  BY <1>1, DriveWithout DEF Gone
<1>2. CASE Altered(w, v)
  <2>1. PICK i \in DOMAIN w : \E o : Changed(w[i], o) /\ v = [w EXCEPT ![i] = o]
    BY <1>2 DEF Altered
  <2>2. PICK o : Changed(w[i], o) /\ v = [w EXCEPT ![i] = o]
    BY <2>1
  <2>. QED BY <2>2, DriveExcept DEF Changed
<1>3. CASE Added(w, n, v)
  BY <1>3, DrivePut DEF Added
<1>. QED BY <1>1, <1>2, <1>3, DriveEditIs

LEMMA DriveWiped ==
  ASSUME NEW w, IsDrive(w), NEW v \in DriveWipes(w), NEW n
  PROVE  IsDrive(v) /\ MarksKept(w, v, n)
<1>1. DOMAIN v \subseteq DOMAIN w /\ \A i \in DOMAIN v : v[i] = w[i]
  BY DEF DriveWipes
<1>. QED BY <1>1, DriveLess

-----------------------------------------------------------------------------
(* Drive: the calls.                                                       *)

\* The entries of b2 that name one object are entries of b that do.
NoNewTwins(b, b2) ==
  \A p, q \in DOMAIN b2 :
    p # q /\ b2[p].id = b2[q].id =>
      /\ p \in DOMAIN b /\ b[p].id = b2[p].id
      /\ q \in DOMAIN b /\ b[q].id = b2[q].id

\* After a call of Drive the drive is one, the marks are in order by the old manifest
\* and by the new one, and what is left of the plan is a plan.
DriveGood(b, t, files, todo, a, w2, b2) ==
  /\ IsDrive(w2) /\ OwnMarks(w2, b, t)
  /\ OwnMarks(w2, b2, t) /\ DOMAIN b2 \subseteq Paths(files) /\ NoNewTwins(b, b2)
  /\ DriveTodo(todo \ {a}, w2, b2, files)

\* What is known of an entry stays known or unknown while nothing is entered for it.
LEMMA TodoStays ==
  ASSUME NEW w, NEW b, NEW files, NEW todo, DriveTodo(todo, w, b, files),
         NEW n, \A q \in DOMAIN b : b[q].id # n, NEW w2, MarksKept(w, w2, n),
         NEW a \in todo, NEW b2,
         DOMAIN b2 = DOMAIN b \cup (IF a.do = "delete" THEN {} ELSE {a.path} \cap DOMAIN b2),
         \A q \in DOMAIN b : b2[q] = b[q] \/ (a.do # "delete" /\ q = a.path)
  PROVE  DriveTodo(todo \ {a}, w2, b2, files)
<1>1. ASSUME NEW c \in todo \ {a}, c.do # "delete"
      PROVE  /\ c.path \in DOMAIN b <=> c.path \in DOMAIN b2
             /\ c.path \in DOMAIN b => b2[c.path] = b[c.path]
  <2>1. a.do # "delete" => c.path # a.path
    BY <1>1 DEF DriveTodo
  <2>. QED BY <2>1
<1>2. ASSUME NEW c \in todo \ {a}, c.do \in {"create", "seed"}
      PROVE  Known(w2, b2, c.path) = {}
  <2>1. c.do # "delete" /\ Known(w, b, c.path) = {}
    BY <1>2 DEF DriveTodo
  <2>2. c.path \in DOMAIN b2 => c.path \in DOMAIN b /\ b2[c.path] = b[c.path]
    BY <1>1, <2>1
  <2>3. c.path \in DOMAIN b => b[c.path].id \notin DOMAIN w2
    BY <2>1 DEF Known, MarksKept
  <2>. QED BY <2>2, <2>3 DEF Known
<1>3. ASSUME NEW c \in todo \ {a}, c.do \in {"patch", "replace"}
      PROVE  c.path \in DOMAIN b2 /\ b2[c.path].id = c.id
  <2>1. c.do # "delete" /\ c.path \in DOMAIN b /\ b[c.path].id = c.id
    BY <1>3 DEF DriveTodo
  <2>. QED BY <1>1, <2>1
<1>. QED BY <1>2, <1>3 DEF DriveTodo

\* A call that enters an object j under path p: j bears p's mark, no other entry
\* names it, and what p named before is gone.
LEMMA DriveEnters ==
  ASSUME NEW w, NEW b, NEW t \in Nat \ {0}, OwnMarks(w, b, t),
         NEW files, DOMAIN b \subseteq Paths(files),
         NEW todo, DriveTodo(todo, w, b, files), NEW a \in todo, a.do # "delete",
         NEW n, \A q \in DOMAIN b : b[q].id # n,
         NEW w2, IsDrive(w2), MarksKept(w, w2, n), Known(w2, b, a.path) = {},
         NEW j \in DOMAIN w2, w2[j].mark = [tag |-> t, path |-> a.path],
         \A q \in DOMAIN b : q # a.path => b[q].id # j,
         NEW bytes
  PROVE  DriveGood(b, t, files, todo, a, w2, Put(b, a.path, [id |-> j, bytes |-> bytes]))
<1>. DEFINE p == a.path
            b2 == Put(b, p, [id |-> j, bytes |-> bytes])
<1>1. /\ DOMAIN b2 = DOMAIN b \cup {p} /\ b2[p] = [id |-> j, bytes |-> bytes]
      /\ \A q \in DOMAIN b : q # p => b2[q] = b[q]
  BY DEF Put
<1>. HIDE DEF b2
<1>2. OwnMarks(w2, b, t)
  BY MarksStay
<1>3. OwnMarks(w2, b2, t)
  <2>. SUFFICES ASSUME NEW q \in DOMAIN b2, b2[q].id \in DOMAIN w2, w2[b2[q].id].mark # NoMark
                PROVE  \E x \in DOMAIN b2 : /\ b2[x].id = b2[q].id
                                            /\ w2[b2[q].id].mark = [tag |-> t, path |-> x]
    BY DEF OwnMarks
  <2>1. CASE q = p
    BY <1>1, <2>1
  <2>2. CASE q # p
    <3>1. q \in DOMAIN b /\ b2[q] = b[q]
      BY <1>1, <2>2
    <3>2. PICK x \in DOMAIN b : b[x].id = b[q].id /\ w2[b[q].id].mark = [tag |-> t, path |-> x]
      BY <1>2, <3>1 DEF OwnMarks
    <3>3. x # p
      BY <3>1, <3>2 DEF Known
    <3>. QED BY <1>1, <3>1, <3>2, <3>3
  <2>. QED BY <2>1, <2>2
<1>4. p \in Paths(files)
  BY DEF DriveTodo
<1>5. NoNewTwins(b, b2)
  <2>. SUFFICES ASSUME NEW x \in DOMAIN b2, NEW q \in DOMAIN b2, x # q, b2[x].id = b2[q].id
                PROVE  x # p /\ q # p
    BY <1>1 DEF NoNewTwins
  <2>. QED BY <1>1
<1>6. DriveTodo(todo \ {a}, w2, b2, files)
  <2>1. DOMAIN b2 = DOMAIN b \cup (IF a.do = "delete" THEN {} ELSE {p} \cap DOMAIN b2)
    BY <1>1
  <2>2. \A q \in DOMAIN b : b2[q] = b[q] \/ (a.do # "delete" /\ q = p)
    BY <1>1
  <2>. HIDE DEF p
  <2>. QED BY <2>1, <2>2, TodoStays DEF p
<1>7. DOMAIN b2 \subseteq Paths(files)
  BY <1>1, <1>4
<1>. HIDE DEF p
<1>. QED BY <1>2, <1>3, <1>5, <1>6, <1>7 DEF DriveGood, b2, p

LEMMA DriveCreates ==
  ASSUME NEW w, IsDrive(w), NEW b, NEW t \in Nat \ {0}, OwnMarks(w, b, t),
         NEW files, DOMAIN b \subseteq Paths(files),
         NEW todo, DriveTodo(todo, w, b, files), NEW a \in todo, a.do # "delete",
         NEW n \in Nat \ {Root}, \A q \in DOMAIN b : b[q].id # n,
         NEW w1, IsDrive(w1), MarksKept(w, w1, n), Known(w1, b, a.path) = {}
  PROVE  DriveGood(b, t, files, todo, a, DriveCreated(w1, b, t, files, a.path, n).world,
                   DriveCreated(w1, b, t, files, a.path, n).book)
<1>. DEFINE o == NewObject(b, t, files, a.path)
            w2 == Put(w1, n, o)
<1>1. IsObject(o) /\ o.mark = [tag |-> t, path |-> a.path]
  BY NewObjectIs
<1>. HIDE DEF o
<1>2. IsDrive(w2) /\ MarksKept(w1, w2, n)
  BY <1>1, DrivePut
<1>3. DOMAIN w2 = DOMAIN w1 \cup {n} /\ w2[n] = o
  BY DEF Put
<1>. HIDE DEF w2
<1>4. MarksKept(w, w2, n)
  BY <1>2 DEF MarksKept
<1>5. Known(w2, b, a.path) = {}
  BY <1>3 DEF Known
<1>6. DriveGood(b, t, files, todo, a, w2, Put(b, a.path, [id |-> n, bytes |-> o.bytes]))
  BY <1>1, <1>2, <1>3, <1>4, <1>5, DriveEnters
<1>. QED BY <1>6 DEF DriveCreated, o, w2

\* A seed that finds its object by the mark enters it.
LEMMA DriveSeeds ==
  ASSUME NEW w, IsDrive(w), NEW b, NEW t \in Nat \ {0}, OwnMarks(w, b, t),
         NEW files, DOMAIN b \subseteq Paths(files),
         NEW todo, DriveTodo(todo, w, b, files), NEW a \in todo, a.do = "seed",
         NEW n \in Nat \ {Root}, \A q \in DOMAIN b : b[q].id # n
  PROVE  DriveGood(b, t, files, todo, a, DriveSeeded(w, b, t, files, a.path, n).world,
                   DriveSeeded(w, b, t, files, a.path, n).book)
<1>. DEFINE held == SeedHeld(w, t, a.path)
            j == CHOOSE i \in held : TRUE
            bytes == NewObject(b, t, files, a.path).bytes
<1>1. Known(w, b, a.path) = {}
  BY DEF DriveTodo
<1>2. MarksKept(w, w, n)
  BY DEF MarksKept
<1>3. CASE held = {}
  <2>1. DriveGood(b, t, files, todo, a, DriveCreated(w, b, t, files, a.path, n).world,
                   DriveCreated(w, b, t, files, a.path, n).book)
    BY <1>1, <1>2, DriveCreates
  <2>. QED BY <1>3, <2>1 DEF DriveSeeded
<1>4. CASE held # {}
  <2>1. j \in held
    BY <1>4
  <2>. HIDE DEF j, bytes
  <2>2. j \in DOMAIN w /\ w[j].mark = [tag |-> t, path |-> a.path]
    BY <2>1 DEF SeedHeld, Holders
  <2>3. ASSUME NEW q \in DOMAIN b, b[q].id = j PROVE FALSE
    <3>1. w[j].mark # NoMark
      BY <2>2 DEF NoMark
    <3>2. PICK x \in DOMAIN b : b[x].id = j /\ w[j].mark = [tag |-> t, path |-> x]
      BY <2>2, <2>3, <3>1 DEF OwnMarks
    <3>3. x = a.path
      BY <2>2, <3>2
    <3>. QED BY <1>1, <2>2, <3>2, <3>3 DEF Known
  <2>4. DriveGood(b, t, files, todo, a, w, Put(b, a.path, [id |-> j, bytes |-> bytes]))
    BY <1>1, <1>2, <2>2, <2>3, DriveEnters
  <2>5. /\ DriveSeeded(w, b, t, files, a.path, n).world = w
        /\ DriveSeeded(w, b, t, files, a.path, n).book
             = Put(b, a.path, [id |-> j, bytes |-> bytes])
    BY <1>4 DEF DriveSeeded, j, bytes
  <2>. QED BY <2>4, <2>5
<1>. QED BY <1>3, <1>4

\* The object o where and as path p has it, but for its bytes.
Mended(o, b, t, p) ==
  [kind |-> o.kind, name |-> Last(p), in |-> FolderId(b, Front(p)), binned |-> FALSE,
   bytes |-> o.bytes, mark |-> [tag |-> t, path |-> p]]

\* v is w but for the object i, which is mended.
MendedOne(w, v, b, t, p, i) ==
  /\ DOMAIN v = DOMAIN w
  /\ \A j \in DOMAIN w : j # i => v[j] = w[j]
  /\ i \in DOMAIN w => v[i] = Mended(w[i], b, t, p)

LEMMA DrivePatchedIs ==
  ASSUME NEW w, IsDrive(w), NEW b, NEW t, NEW p, NEW i
  PROVE  /\ IsDrive(DrivePatched(w, b, t, p, i).world)
         /\ MendedOne(w, DrivePatched(w, b, t, p, i).world, b, t, p, i)
<1>. DEFINE v == DrivePatched(w, b, t, p, i).world
            o == Mended(w[i], b, t, p)
<1>1. DOMAIN v = DOMAIN w /\ \A j \in DOMAIN w : j # i => v[j] = w[j]
  BY DEF DrivePatched
<1>2. i \in DOMAIN w => v[i] = o /\ IsObject(o)
  <2>. SUFFICES ASSUME i \in DOMAIN w PROVE v[i] = o /\ IsObject(o)
    OBVIOUS
  <2>1. IsObject(w[i])
    BY DEF IsDrive
  <2>2. w[i] = [kind |-> w[i].kind, name |-> w[i].name, in |-> w[i].in, binned |-> w[i].binned,
                bytes |-> w[i].bytes, mark |-> w[i].mark]
    BY <2>1 DEF IsObject
  <2>3. v[i] = [w[i] EXCEPT !.name = Last(p), !.binned = FALSE, !.in = FolderId(b, Front(p)),
                            !.mark = [tag |-> t, path |-> p]]
    BY DEF DrivePatched
  <2>4. v[i] = o
    BY <2>2, <2>3 DEF Mended
  <2>5. IsObject(o)
    BY <2>1 DEF IsObject, Mended
  <2>. QED BY <2>4, <2>5
<1>. HIDE DEF v, o
<1>3. \A j \in DOMAIN v : IsObject(v[j])
  BY <1>1, <1>2 DEF IsDrive
<1>4. IsDrive(v)
  BY <1>1, <1>3 DEF IsDrive
<1>5. MendedOne(w, v, b, t, p, i)
  BY <1>1, <1>2 DEF MendedOne, o
<1>. QED BY <1>4, <1>5 DEF v

LEMMA NoTwinsNew ==
  ASSUME NEW b
  PROVE  NoNewTwins(b, b)
BY DEF NoNewTwins

LEMMA DrivePatches ==
  ASSUME NEW w, IsDrive(w), NEW b, NEW t, OwnMarks(w, b, t),
         NEW files, DOMAIN b \subseteq Paths(files),
         NEW todo, DriveTodo(todo, w, b, files), NEW a \in todo, a.do = "patch"
  PROVE  DriveGood(b, t, files, todo, a, DrivePatched(w, b, t, a.path, a.id).world, b)
<1>. DEFINE v == DrivePatched(w, b, t, a.path, a.id).world
<1>0. IsDrive(v) /\ MendedOne(w, v, b, t, a.path, a.id)
  BY DrivePatchedIs
<1>. HIDE DEF v
<1>1. /\ IsDrive(v) /\ DOMAIN v = DOMAIN w
      /\ \A j \in DOMAIN w : j # a.id => v[j] = w[j]
      /\ a.id \in DOMAIN w => v[a.id].mark = [tag |-> t, path |-> a.path]
  BY <1>0 DEF MendedOne, Mended
<1>2. a.path \in DOMAIN b /\ b[a.path].id = a.id
  BY DEF DriveTodo
<1>3. OwnMarks(v, b, t)
  <2>. SUFFICES ASSUME NEW q \in DOMAIN b, b[q].id \in DOMAIN v
                PROVE  \/ v[b[q].id].mark = NoMark
                       \/ \E p \in DOMAIN b : /\ b[p].id = b[q].id
                                              /\ v[b[q].id].mark = [tag |-> t, path |-> p]
    BY DEF OwnMarks
  <2>1. CASE b[q].id = a.id
    BY <1>1, <1>2, <2>1
  <2>2. CASE b[q].id # a.id
    BY <1>1, <2>2 DEF OwnMarks
  <2>. QED BY <2>1, <2>2
<1>4. DriveTodo(todo \ {a}, v, b, files)
  BY <1>1 DEF DriveTodo, Known
<1>. QED BY <1>1, <1>3, <1>4, NoTwinsNew DEF DriveGood, v

\* What a call may leave behind in Drive when the process dies in it.
DriveLeft(b, t, v) == IsDrive(v) /\ OwnMarks(v, b, t)

LEMMA DriveWithouts ==
  ASSUME NEW w, IsDrive(w), NEW b, NEW t, OwnMarks(w, b, t),
         NEW n, \A q \in DOMAIN b : b[q].id # n, NEW i
  PROVE  DriveLeft(b, t, Without(w, i))
BY DriveWithout, MarksStay DEF DriveLeft

\* What a call of the reconcile leaves in Drive, finished or cut short.
DriveOutcome(a, w, b, t, files, todo, n) ==
  LET r == DriveDone(a, w, b, t, files, n)
  IN /\ DriveGood(b, t, files, todo, a, r.world, r.book)
     /\ \A v \in DriveTorn(a, w, b, t, files, n) : DriveLeft(b, t, v)
     /\ a.do \notin {"create", "replace"} => r.book = b

LEMMA DriveDoes ==
  ASSUME NEW w, IsDrive(w), NEW b, NEW t \in Nat \ {0}, OwnMarks(w, b, t),
         NEW files, DOMAIN b \subseteq Paths(files),
         NEW todo, DriveTodo(todo, w, b, files), NEW a \in todo, a.do # "seed",
         NEW n \in Nat \ {Root}, \A q \in DOMAIN b : b[q].id # n
  PROVE  DriveOutcome(a, w, b, t, files, todo, n)
<1>. SUFFICES /\ DriveGood(b, t, files, todo, a, DriveDone(a, w, b, t, files, n).world,
                           DriveDone(a, w, b, t, files, n).book)
              /\ \A v \in DriveTorn(a, w, b, t, files, n) : DriveLeft(b, t, v)
              /\ a.do \notin {"create", "replace"} => DriveDone(a, w, b, t, files, n).book = b
  BY Zenon DEF DriveOutcome
<1>. DEFINE r == DriveDone(a, w, b, t, files, n)
<1>0. a.do \in {"create", "patch", "replace", "delete"}
  BY DEF DriveTodo
<1>1. MarksKept(w, w, n) /\ DriveLeft(b, t, w)
  BY DEF MarksKept, DriveLeft
<1>2. CASE a.do = "create"
  <2>1. Known(w, b, a.path) = {}
    BY <1>2 DEF DriveTodo
  <2>2. DriveGood(b, t, files, todo, a, DriveCreated(w, b, t, files, a.path, n).world,
                   DriveCreated(w, b, t, files, a.path, n).book)
    BY <1>1, <1>2, <2>1, DriveCreates
  <2>3. r = DriveCreated(w, b, t, files, a.path, n)
    BY <1>2 DEF DriveDone
  <2>. HIDE DEF r
  <2>4. DriveTorn(a, w, b, t, files, n) = {w, r.world}
    BY <1>2 DEF DriveTorn, r
  <2>. QED BY <1>1, <1>2, <2>2, <2>3, <2>4 DEF DriveGood, DriveLeft, r
<1>3. CASE a.do = "patch"
  <2>1. DriveGood(b, t, files, todo, a, DrivePatched(w, b, t, a.path, a.id).world, b)
    BY <1>3, DrivePatches
  <2>2. r = DrivePatched(w, b, t, a.path, a.id)
    BY <1>3 DEF DriveDone
  <2>3. r.book = b
    BY <2>2 DEF DrivePatched
  <2>. HIDE DEF r
  <2>4. DriveTorn(a, w, b, t, files, n) = {w, r.world}
    BY <1>3 DEF DriveTorn, r
  <2>. QED BY <1>1, <1>3, <2>1, <2>2, <2>3, <2>4 DEF DriveGood, DriveLeft, r
<1>4. CASE a.do = "replace"
  <2>. DEFINE w1 == Without(w, a.id)
  <2>1. IsDrive(w1) /\ MarksKept(w, w1, n) /\ a.id \notin DOMAIN w1
    BY DriveWithout
  <2>2. DriveLeft(b, t, w1)
    BY DriveWithouts
  <2>. HIDE DEF w1
  <2>3. Known(w1, b, a.path) = {}
    BY <1>4, <2>1 DEF Known, DriveTodo
  <2>4. DriveGood(b, t, files, todo, a, DriveCreated(w1, b, t, files, a.path, n).world,
                   DriveCreated(w1, b, t, files, a.path, n).book)
    BY <1>4, <2>1, <2>3, DriveCreates
  <2>5. r = DriveCreated(w1, b, t, files, a.path, n)
    BY <1>4 DEF DriveDone, w1
  <2>. HIDE DEF r
  <2>6. DriveTorn(a, w, b, t, files, n) = {w, r.world, w1}
    BY <1>4 DEF DriveTorn, r, w1
  <2>. QED BY <1>1, <1>4, <2>2, <2>4, <2>5, <2>6 DEF DriveGood, DriveLeft, r
<1>5. CASE a.do = "delete"
  <2>. DEFINE w1 == Without(w, a.id)
  <2>1. IsDrive(w1) /\ MarksKept(w, w1, n)
    BY DriveWithout
  <2>2. DriveLeft(b, t, w1)
    BY DriveWithouts
  <2>. HIDE DEF w1
  <2>3. DriveTodo(todo \ {a}, w1, b, files)
    BY <1>5, <2>1, TodoStays
  <2>4. r = [world |-> w1, book |-> b]
    BY <1>5 DEF DriveDone, w1
  <2>. HIDE DEF r
  <2>5. DriveTorn(a, w, b, t, files, n) = {w, r.world}
    BY <1>5 DEF DriveTorn, r
  <2>6. DriveGood(b, t, files, todo, a, r.world, r.book)
    BY <2>2, <2>3, <2>4, NoTwinsNew DEF DriveGood, DriveLeft
  <2>. QED BY <1>1, <1>5, <2>2, <2>4, <2>5, <2>6 DEF r
<1>. QED BY <1>0, <1>2, <1>3, <1>4, <1>5

-----------------------------------------------------------------------------
(* Drive: a delta opens.                                                   *)

LEMMA AtMostOne ==
  ASSUME NEW S, IsFiniteSet(S), Cardinality(S) <= 1, NEW x \in S
  PROVE  S = {x}
<1>1. Cardinality(S) \in Nat
  BY FS_CardinalityType
<1>2. Cardinality(S) # 0
  BY FS_EmptySet
<1>3. Cardinality(S) = 1
  BY <1>1, <1>2
<1>. QED BY <1>3, FS_Singleton

LEMMA PathsAreNames ==
  ASSUME NEW files, files \subseteq Seq(STRING) \ {<<>>}, NEW p \in Paths(files)
  PROVE  p \in Seq(STRING) /\ Len(p) \in Nat \ {0}
<1>1. CASE p \in files
  BY <1>1
<1>2. CASE p \in Folders(files)
  <2>0. PICK f \in files : \E n \in 1 .. Len(f) - 1 : p = SubSeq(f, 1, n)
    BY <1>2 DEF Folders
  <2>1. PICK n \in 1 .. Len(f) - 1 : p = SubSeq(f, 1, n)
    BY <2>0
  <2>2. f \in Seq(STRING) /\ Len(f) \in Nat
    OBVIOUS
  <2>3. \A j \in 1 .. n : f[j] \in STRING
    BY <2>2
  <2>4. p \in Seq(STRING) /\ Len(p) = n
    BY <2>1, <2>2, <2>3
  <2>. QED BY <2>4
<1>. QED BY <1>1, <1>2 DEF Paths

LEMMA AtHolds ==
  ASSUME NEW w, NEW p, Len(p) \in Nat \ {0}
  PROVE  At(w, p) \subseteq DOMAIN w
<1>1. PICK f : Levels(w, p, Len(p), f) /\ At(w, p) = f[Len(p)]
  BY AtLevels
<1>. DEFINE l == Len(p)
<1>2. l \in 0 .. l /\ l # 0
  OBVIOUS
<1>. HIDE DEF l
<1>3. f[l] = IF l = 0 THEN {Root}
             ELSE {i \in DOMAIN w : w[i].in \in f[l - 1] /\ w[i].name = p[l]}
  <2>. Levels(w, p, l, f)
    BY <1>1 DEF l
  <2>. QED BY <1>2 DEF Levels
<1>. QED BY <1>1, <1>2, <1>3 DEF l

\* How path p comes by the object i when it is adopted: by its mark, or by its place.
Adopted(w, b, t, p, i) ==
  /\ Known(w, b, p) = {} /\ Claimed(w, b, t, p) = {i} /\ i \in DOMAIN w
  /\ w[i].mark = [tag |-> t, path |-> p] \/ (w[i].mark = NoMark /\ i \in At(w, p))

LEMMA ClaimIs ==
  ASSUME NEW w, IsDrive(w), NEW files, files \subseteq Seq(STRING) \ {<<>>}, NEW p \in Paths(files),
         NEW b, NEW t, Unambiguous(w, b, t, files, p), Known(w, b, p) = {},
         NEW i \in Claimed(w, b, t, p)
  PROVE  Adopted(w, b, t, p, i)
<1>1. Claimed(w, b, t, p) = IF Holders(w, t, p) # {} THEN Holders(w, t, p) ELSE At(w, p)
  BY DEF Claimed
<1>2. At(w, p) \subseteq DOMAIN w
  BY PathsAreNames, AtHolds
<1>3. Claimed(w, b, t, p) \subseteq DOMAIN w
  BY <1>1, <1>2 DEF Holders
<1>4. Claimed(w, b, t, p) = {i}
  <2>1. IsFiniteSet(Claimed(w, b, t, p))
    BY <1>3, FS_Subset DEF IsDrive
  <2>2. Cardinality(Claimed(w, b, t, p)) <= 1
    BY DEF Unambiguous
  <2>. QED BY <2>1, <2>2, AtMostOne
<1>5. CASE Holders(w, t, p) # {}
  BY <1>1, <1>3, <1>4, <1>5 DEF Adopted, Holders
<1>6. CASE Holders(w, t, p) = {}
  <2>1. w[i].mark = NoMark
    BY <1>6 DEF Unambiguous
  <2>. QED BY <1>1, <1>3, <1>4, <1>6, <2>1 DEF Adopted
<1>. QED BY <1>5, <1>6

\* One object is adopted for one path.
LEMMA AdoptedOnce ==
  ASSUME NEW w, IsDrive(w), NEW files, files \subseteq Seq(STRING) \ {<<>>},
         NEW p \in Paths(files), NEW q \in Paths(files), NEW b, NEW t \in Nat \ {0},
         NEW i, Adopted(w, b, t, p, i), Adopted(w, b, t, q, i)
  PROVE  p = q
<1>1. \A x : [tag |-> t, path |-> x] # NoMark
  BY DEF NoMark
<1>2. CASE w[i].mark # NoMark
  <2>1. [tag |-> t, path |-> p] = [tag |-> t, path |-> q]
    BY <1>2 DEF Adopted
  <2>. QED BY <2>1
<1>3. CASE w[i].mark = NoMark
  <2>1. i \in At(w, p) /\ i \in At(w, q)
    BY <1>1, <1>3 DEF Adopted
  <2>2. p \in Seq(STRING) /\ q \in Seq(STRING)
    BY PathsAreNames
  <2>3. Root \notin DOMAIN w
    BY DEF IsDrive
  <2>. QED BY <2>1, <2>2, <2>3, AtMeets
<1>. QED BY <1>2, <1>3

\* The manifest's own object is the one taken for its path.
LEMMA KnownIs ==
  ASSUME NEW w, NEW b, NEW t, NEW p, Known(w, b, p) # {}
  PROVE  p \in DOMAIN b /\ b[p].id \in DOMAIN w /\ Claimed(w, b, t, p) = {b[p].id}
<1>1. Claimed(w, b, t, p) = Known(w, b, p)
  BY DEF Claimed
<1>2. p \in DOMAIN b /\ b[p].id \in DOMAIN w /\ Known(w, b, p) = {b[p].id}
  BY DEF Known
<1>. QED BY <1>1, <1>2

\* The entry of p is the one that was there, because its object is, or none is to be had.
EntryKept(w, b, t, b2, p) ==
  /\ p \in DOMAIN b /\ b2[p] = b[p]
  /\ Known(w, b, p) # {} \/ Claimed(w, b, t, p) = {}

LEMMA EntryIs ==
  ASSUME NEW w, IsDrive(w), NEW b, NEW t,
         NEW files, files \subseteq Seq(STRING) \ {<<>>}, DOMAIN b \subseteq Paths(files),
         \A p \in Paths(files) : Unambiguous(w, b, t, files, p),
         NEW b2, b2 = DriveAdopted(w, b, t, files)
  PROVE  \A p \in DOMAIN b2 : EntryKept(w, b, t, b2, p) \/ Adopted(w, b, t, p, b2[p].id)
<1>1. DOMAIN b2 = DOMAIN b \cup {q \in Paths(files) : Claimed(w, b, t, q) # {}}
  BY DEF DriveAdopted
<1>2. ASSUME NEW p \in DOMAIN b2
      PROVE  EntryKept(w, b, t, b2, p) \/ Adopted(w, b, t, p, b2[p].id)
  <2>1. CASE Claimed(w, b, t, p) = {} \/ Known(w, b, p) # {}
    BY <1>1, <2>1, KnownIs DEF DriveAdopted, EntryKept
  <2>2. CASE Claimed(w, b, t, p) # {} /\ Known(w, b, p) = {}
    <3>. DEFINE i == CHOOSE i \in Claimed(w, b, t, p) : TRUE
    <3>1. i \in Claimed(w, b, t, p)
      BY <2>2
    <3>2. b2[p].id = i
      BY <2>2 DEF DriveAdopted
    <3>. HIDE DEF i
    <3>3. Adopted(w, b, t, p, i)
      BY <1>1, <2>2, <3>1, ClaimIs
    <3>. QED BY <3>2, <3>3
  <2>. QED BY <2>1, <2>2
<1>. QED BY <1>2

\* Two entries of b2 that name one object: b named it already, and what b did not say
\* of it Drive did not contradict.
DriveTwins(b, b2, w) ==
  \A p, q \in DOMAIN b2 :
    p # q /\ b2[p].id = b2[q].id =>
      /\ \/ p \in DOMAIN b /\ b[p].id = b2[p].id
         \/ q \in DOMAIN b /\ b[q].id = b2[q].id
      /\ \/ p \in DOMAIN b /\ b[p].id = b2[p].id /\ q \in DOMAIN b /\ b[q].id = b2[q].id
         \/ b2[p].id \in DOMAIN w /\ w[b2[p].id].mark = NoMark

LEMMA DriveAdopts ==
  ASSUME NEW w, IsDrive(w), NEW b, NEW t \in Nat \ {0}, OwnMarks(w, b, t),
         NEW files, files \subseteq Seq(STRING) \ {<<>>}, DOMAIN b \subseteq Paths(files),
         \A p \in Paths(files) : Unambiguous(w, b, t, files, p),
         NEW b2, b2 = DriveAdopted(w, b, t, files)
  PROVE  /\ OwnMarks(w, b2, t) /\ DOMAIN b2 \subseteq Paths(files) /\ DriveTwins(b, b2, w)
         /\ DriveTodo(DrivePlan(w, b, t, files).todo, w, b2, files)
<1>. DEFINE Old(p) == p \in DOMAIN b /\ b2[p] = b[p]
                      /\ (Known(w, b, p) # {} \/ Claimed(w, b, t, p) = {})
            New(p) == Adopted(w, b, t, p, b2[p].id)
<1>1. DOMAIN b2 = DOMAIN b \cup {q \in Paths(files) : Claimed(w, b, t, q) # {}}
  BY DEF DriveAdopted
<1>2. DOMAIN b2 \subseteq Paths(files)
  BY <1>1
<1>3. \A p : Known(w, b, p) # {} => p \in DOMAIN b /\ b[p].id \in DOMAIN w
                                    /\ Claimed(w, b, t, p) = {b[p].id}
  BY KnownIs
<1>4. \A p \in DOMAIN b2 : Old(p) \/ New(p)
  BY EntryIs DEF EntryKept
<1>5. OwnMarks(w, b2, t)
  <2>. SUFFICES ASSUME NEW q \in DOMAIN b2, b2[q].id \in DOMAIN w, w[b2[q].id].mark # NoMark
                PROVE  \E x \in DOMAIN b2 : /\ b2[x].id = b2[q].id
                                            /\ w[b2[q].id].mark = [tag |-> t, path |-> x]
    BY DEF OwnMarks
  <2>1. CASE New(q)
    BY <2>1 DEF Adopted
  <2>2. CASE Old(q)
    <3>1. PICK x \in DOMAIN b : b[x].id = b[q].id /\ w[b[q].id].mark = [tag |-> t, path |-> x]
      BY <2>2 DEF OwnMarks
    <3>2. Known(w, b, x) # {} /\ x \in DOMAIN b2
      BY <1>1, <2>2, <3>1 DEF Known
    <3>3. b2[x] = b[x]
      BY <1>4, <3>2 DEF Adopted
    <3>. QED BY <2>2, <3>1, <3>2, <3>3
  <2>. QED BY <1>4, <2>1, <2>2
<1>6. DriveTwins(b, b2, w)
  <2>. SUFFICES ASSUME NEW p \in DOMAIN b2, NEW q \in DOMAIN b2, p # q, b2[p].id = b2[q].id
                PROVE  /\ Old(p) \/ Old(q)
                       /\ \/ Old(p) /\ Old(q)
                          \/ b2[p].id \in DOMAIN w /\ w[b2[p].id].mark = NoMark
    BY DEF DriveTwins
  <2>1. ASSUME NEW x \in DOMAIN b2, NEW y \in DOMAIN b2, x # y, b2[x].id = b2[y].id, New(x)
        PROVE  Old(y) /\ b2[x].id \in DOMAIN w /\ w[b2[x].id].mark = NoMark
    <3>1. Old(y)
      BY <1>2, <1>4, <2>1, AdoptedOnce
    <3>2. b2[x].id \in DOMAIN w
      BY <2>1 DEF Adopted
    <3>3. ASSUME w[b2[x].id].mark # NoMark PROVE FALSE
      <4>1. w[b[y].id].mark = [tag |-> t, path |-> x]
        BY <2>1, <3>1, <3>3 DEF Adopted
      <4>2. PICK z \in DOMAIN b : b[z].id = b[y].id /\ w[b[y].id].mark = [tag |-> t, path |-> z]
        BY <2>1, <3>1, <3>2, <3>3 DEF OwnMarks
      <4>3. z = x
        BY <4>1, <4>2
      <4>. QED BY <2>1, <3>1, <3>2, <4>2, <4>3 DEF Adopted, Known
    <3>. QED BY <3>1, <3>2, <3>3
  <2>. HIDE DEF Old, New
  <2>. QED BY <1>4, <2>1
<1>. DEFINE Do(p, i) == IF SameBytes(b, files, p, w[i]) \/ p \notin files
                        THEN "patch" ELSE "replace"
            C == Creates(w, b, t, files)
            R == Repairs(w, b, t, files)
            X == Removals(w, b, t, files)
<1>7. \A a \in C : /\ a.path \in Paths(files) /\ Claimed(w, b, t, a.path) = {}
                   /\ a = [do |-> "create", path |-> a.path, id |-> 0, rank |-> Rank(files, a.path)]
  BY DEF Creates
<1>8. \A a \in R : /\ a.path \in Paths(files) /\ a.id \in Claimed(w, b, t, a.path)
                   /\ a = [do |-> Do(a.path, a.id), path |-> a.path, id |-> a.id,
                           rank |-> Rank(files, a.path)]
  BY DEF Repairs
<1>9. \A a \in X : a.do = "delete"
  BY DEF Removals
<1>. HIDE DEF C, R, X
<1>10. DrivePlan(w, b, t, files).todo = C \cup R \cup X
  BY DEF DrivePlan, C, R, X
<1>11. ASSUME NEW a \in C PROVE a.do = "create" /\ Known(w, b2, a.path) = {}
  <2>1. a.do = "create" /\ Claimed(w, b, t, a.path) = {}
    BY <1>7
  <2>2. Known(w, b, a.path) = {}
    BY <1>3, <2>1
  <2>3. a.path \in DOMAIN b2 => a.path \in DOMAIN b /\ b2[a.path] = b[a.path]
    BY <1>4, <2>1 DEF Adopted
  <2>. QED BY <2>1, <2>2, <2>3 DEF Known
<1>12. ASSUME NEW a \in R
       PROVE  /\ a.do \in {"patch", "replace"} /\ a.path \in DOMAIN b2
              /\ b2[a.path].id = a.id
  <2>1. a.do \in {"patch", "replace"}
    BY <1>8
  <2>2. a.path \in DOMAIN b2
    BY <1>1, <1>8
  <2>3. a.id \in Claimed(w, b, t, a.path)
    BY <1>8
  <2>4. Claimed(w, b, t, a.path) = {b2[a.path].id}
    BY <1>3, <1>4, <2>2, <2>3 DEF Adopted
  <2>. QED BY <2>1, <2>2, <2>3, <2>4
<1>. HIDE DEF Do
<1>13. ASSUME NEW a \in C \cup R \cup X, NEW c \in C \cup R \cup X,
              a.do # "delete", c.do # "delete", a.path = c.path
       PROVE  a = c
  <2>1. CASE a \in C /\ c \in C
    BY <1>7, <1>13, <2>1
  <2>2. CASE a \in R /\ c \in R
    <3>1. a.id = c.id
      BY <1>12, <1>13, <2>2
    <3>. QED BY <1>8, <1>13, <2>2, <3>1
  <2>3. CASE (a \in C /\ c \in R) \/ (a \in R /\ c \in C)
    BY <1>7, <1>8, <1>13, <2>3
  <2>. QED BY <1>9, <1>13, <2>1, <2>2, <2>3
<1>14. DriveTodo(C \cup R \cup X, w, b2, files)
  BY <1>7, <1>8, <1>9, <1>11, <1>12, <1>13 DEF DriveTodo
<1>. QED BY <1>2, <1>5, <1>6, <1>10, <1>14

-----------------------------------------------------------------------------
(* Gmail.                                                                  *)

\* A message's letter and thread never change.
SameLetter(o, x) == o.src = x.src /\ o.thread = x.thread

\* v has the messages of m, perhaps with other labels, but for one that is new.
SourcesKept(m, v, n) ==
  \A i \in DOMAIN v.messages :
    i # n => i \in DOMAIN m.messages /\ SameLetter(v.messages[i], m.messages[i])

LEMMA MailStays ==
  ASSUME NEW m, NEW v, NEW n, SourcesKept(m, v, n), NEW b, OwnMail(m, b),
         \A s \in DOMAIN b.messages : b.messages[s].id # n
  PROVE  OwnMail(v, b)
BY DEF OwnMail, SourcesKept, SameLetter

\* A mailbox with messages f and labels g.
Mailbox(f, g) == [messages |-> f, labels |-> g]

\* f has the messages of m, perhaps with other labels, but for one that is new.
MessagesFrom(m, f, n) ==
  /\ DOMAIN f \subseteq DOMAIN m.messages \cup {n} /\ \A i \in DOMAIN f : IsMessage(f[i])
  /\ \A i \in DOMAIN f : i # n => SameLetter(f[i], m.messages[i])

MailGrows(m, v, n) == IsMailbox(v) /\ SourcesKept(m, v, n)

LEMMA MailboxIs ==
  ASSUME NEW m, IsMailbox(m), NEW n, NEW f, MessagesFrom(m, f, n), NEW g, IsLabels(g)
  PROVE  MailGrows(m, Mailbox(f, g), n)
<1>1. IsFiniteSet(DOMAIN f)
  BY FS_AddElement, FS_Subset DEF IsMailbox, MessagesFrom
<1>. DEFINE v == Mailbox(f, g)
<1>2. v = [messages |-> v.messages, labels |-> v.labels] /\ v.messages = f /\ v.labels = g
  BY DEF Mailbox
<1>. HIDE DEF v
<1>. QED BY <1>1, <1>2 DEF IsMailbox, SourcesKept, MessagesFrom, MailGrows, v

\* The shapes that a change of one part of a mailbox or of a message has.
LEMMA MailExcept ==
  ASSUME NEW m, IsMailbox(m), NEW x
  PROVE  /\ [m EXCEPT !.messages = x] = Mailbox(x, m.labels)
         /\ [m EXCEPT !.labels = x] = Mailbox(m.messages, x)
<1>1. m = [messages |-> m.messages, labels |-> m.labels]
  BY DEF IsMailbox
<1>2. [m EXCEPT !.messages = x] = [messages |-> x, labels |-> m.labels]
  BY <1>1
<1>3. [m EXCEPT !.labels = x] = [messages |-> m.messages, labels |-> x]
  BY <1>1
<1>. QED BY <1>2, <1>3 DEF Mailbox

LEMMA MessageExcept ==
  ASSUME NEW o, IsMessage(o), NEW x
  PROVE  /\ IsMessage([o EXCEPT !.labels = x]) /\ SameLetter([o EXCEPT !.labels = x], o)
         /\ IsMessage([o EXCEPT !.placed = x]) /\ SameLetter([o EXCEPT !.placed = x], o)
<1>. DEFINE l == [o EXCEPT !.labels = x]
            p == [o EXCEPT !.placed = x]
<1>1. o = [src |-> o.src, whole |-> o.whole, thread |-> o.thread, labels |-> o.labels,
           placed |-> o.placed, sent |-> o.sent, draft |-> o.draft]
  BY DEF IsMessage
<1>2. l = [src |-> o.src, whole |-> o.whole, thread |-> o.thread, labels |-> x,
           placed |-> o.placed, sent |-> o.sent, draft |-> o.draft]
  BY <1>1
<1>3. p = [src |-> o.src, whole |-> o.whole, thread |-> o.thread, labels |-> o.labels,
           placed |-> x, sent |-> o.sent, draft |-> o.draft]
  BY <1>1
<1>. HIDE DEF l, p
<1>4. IsMessage(l) /\ SameLetter(l, o)
  BY <1>2 DEF IsMessage, SameLetter
<1>5. IsMessage(p) /\ SameLetter(p, o)
  BY <1>3 DEF IsMessage, SameLetter
<1>. QED BY <1>4, <1>5 DEF l, p

LEMMA MailWithoutIs ==
  ASSUME NEW m, IsMailbox(m), NEW i, NEW n
  PROVE  MailGrows(m, MailWithout(m, i), n)
<1>. DEFINE f == [j \in DOMAIN m.messages \ {i} |-> m.messages[j]]
<1>1. MailWithout(m, i) = [m EXCEPT !.messages = f]
  BY DEF MailWithout
<1>2. MessagesFrom(m, f, n)
  BY DEF MessagesFrom, IsMailbox, SameLetter
<1>3. IsLabels(m.labels)
  BY DEF IsMailbox
<1>. HIDE DEF f
<1>4. MailGrows(m, Mailbox(f, m.labels), n)
  BY <1>2, <1>3, MailboxIs
<1>5. [m EXCEPT !.messages = f] = Mailbox(f, m.labels)
  BY MailExcept
<1>. QED BY <1>1, <1>4, <1>5

LEMMA LabelDeletedIs ==
  ASSUME NEW m, IsMailbox(m), NEW k, NEW n
  PROVE  MailGrows(m, LabelDeleted(m, k), n)
<1>. DEFINE f == [i \in DOMAIN m.messages |-> [m.messages[i] EXCEPT !.labels = @ \ {k}]]
            g == [j \in DOMAIN m.labels \ {k} |-> m.labels[j]]
<1>1. LabelDeleted(m, k) = Mailbox(f, g)
  BY DEF LabelDeleted, Mailbox
<1>2. ASSUME NEW j \in DOMAIN f PROVE IsMessage(f[j]) /\ SameLetter(f[j], m.messages[j])
  <2>. DEFINE o == m.messages[j]
  <2>1. IsMessage(o)
    BY DEF IsMailbox
  <2>. HIDE DEF o
  <2>2. /\ IsMessage([o EXCEPT !.labels = @ \ {k}])
        /\ SameLetter([o EXCEPT !.labels = @ \ {k}], o)
    BY <2>1, MessageExcept
  <2>3. f[j] = [o EXCEPT !.labels = @ \ {k}]
    BY DEF o
  <2>. HIDE DEF f
  <2>. QED BY <2>2, <2>3 DEF o
<1>3. IsLabels(g)
  BY FS_Subset DEF IsMailbox, IsLabels
<1>4. MessagesFrom(m, f, n)
  BY <1>2 DEF MessagesFrom
<1>. HIDE DEF f, g
<1>. QED BY <1>1, <1>2, <1>3, <1>4, MailboxIs

LEMMA MailPut ==
  ASSUME NEW m, IsMailbox(m), NEW n, NEW o, IsMessage(o)
  PROVE  MailGrows(m, [m EXCEPT !.messages = Put(@, n, o)], n)
<1>. DEFINE f == Put(m.messages, n, o)
<1>1. [m EXCEPT !.messages = Put(@, n, o)] = Mailbox(f, m.labels)
  BY MailExcept
<1>2. MessagesFrom(m, f, n)
  BY DEF MessagesFrom, IsMailbox, Put, SameLetter
<1>3. IsLabels(m.labels)
  BY DEF IsMailbox
<1>. HIDE DEF f
<1>. QED BY <1>1, <1>2, <1>3, MailboxIs

LEMMA MailLabelPut ==
  ASSUME NEW m, IsMailbox(m), NEW k, NEW t, NEW n,
         t = 0 \/ \A j \in DOMAIN m.labels : m.labels[j] = t => j = k
  PROVE  MailGrows(m, [m EXCEPT !.labels = Put(@, k, t)], n)
<1>. DEFINE g == Put(m.labels, k, t)
            f == m.messages
<1>1. [m EXCEPT !.labels = Put(@, k, t)] = Mailbox(f, g)
  BY MailExcept
<1>2. MessagesFrom(m, f, n)
  BY DEF MessagesFrom, IsMailbox, SameLetter
<1>3. IsLabels(g)
  <2>1. /\ DOMAIN g = DOMAIN m.labels \cup {k} /\ g[k] = t
        /\ \A j \in DOMAIN m.labels : j # k => g[j] = m.labels[j]
    BY DEF Put
  <2>. HIDE DEF g
  <2>2. IsFiniteSet(DOMAIN g)
    BY <2>1, FS_AddElement DEF IsMailbox, IsLabels
  <2>. QED BY <2>1, <2>2 DEF IsMailbox, IsLabels
<1>. HIDE DEF f, g
<1>. QED BY <1>1, <1>2, <1>3, MailboxIs

\* One message of a mailbox gets other labels.
LEMMA MailRelabelled ==
  ASSUME NEW m, IsMailbox(m), NEW i, NEW o, NEW n,
         i \in DOMAIN m.messages => IsMessage(o) /\ SameLetter(o, m.messages[i])
  PROVE  MailGrows(m, Mailbox([m.messages EXCEPT ![i] = o], m.labels), n)
<1>. DEFINE f == [m.messages EXCEPT ![i] = o]
<1>1. MessagesFrom(m, f, n)
  BY DEF MessagesFrom, IsMailbox, SameLetter
<1>2. IsLabels(m.labels)
  BY DEF IsMailbox
<1>. HIDE DEF f
<1>3. MailGrows(m, Mailbox(f, m.labels), n)
  BY <1>1, <1>2, MailboxIs
<1>. QED BY <1>3 DEF f

LEMMA MailEdited ==
  ASSUME NEW m, IsMailbox(m), NEW cat, NEW n, NEW v \in MailEdits(m, cat, n)
  PROVE  MailGrows(m, v, n)
<1>. DEFINE Msg(s, whole, sent, draft) ==
              [src |-> s, whole |-> whole, thread |-> n, labels |-> {}, placed |-> TRUE,
               sent |-> sent, draft |-> draft]
            New(s, whole, sent, draft) ==
              [m EXCEPT !.messages = Put(@, n, Msg(s, whole, sent, draft))]
            E1 == {MailWithout(m, i) : i \in DOMAIN m.messages}
            E2 == {[m EXCEPT !.messages[i].placed = ~@] : i \in DOMAIN m.messages}
            E3 == {[m EXCEPT !.messages[i].labels = {}] : i \in DOMAIN m.messages}
            E4 == {New(NoLetter, FALSE, TRUE, draft) : draft \in BOOLEAN}
            Copy(s, whole, sent) == New(s, whole, sent, FALSE)
            E5 == {Copy(s, whole, sent) :
                     s \in Letters(cat), whole \in BOOLEAN, sent \in BOOLEAN}
            E6 == {[m EXCEPT !.labels = Put(@, n, 0)]}
            E7 == {LabelDeleted(m, k) : k \in DOMAIN m.labels}
<1>1. MailEdits(m, cat, n) = E1 \cup E2 \cup E3 \cup E4 \cup E5 \cup E6 \cup E7
  BY DEF MailEdits
<1>2. \A i \in DOMAIN m.messages : IsMessage(m.messages[i])
  BY DEF IsMailbox
<1>3. CASE v \in E1
  BY <1>3, MailWithoutIs
<1>4. CASE v \in E2
  <2>1. PICK i \in DOMAIN m.messages : v = [m EXCEPT !.messages[i].placed = ~@]
    BY <1>4
  <2>. DEFINE o == m.messages[i]
              e == [o EXCEPT !.placed = ~@]
  <2>2. IsMessage(e) /\ SameLetter(e, o)
    BY <1>2, MessageExcept
  <2>3. v = [m EXCEPT !.messages = [m.messages EXCEPT ![i] = e]]
    BY <2>1
  <2>4. v = Mailbox([m.messages EXCEPT ![i] = e], m.labels)
    BY <2>3, MailExcept
  <2>. HIDE DEF e
  <2>. QED BY <2>2, <2>4, MailRelabelled
<1>5. CASE v \in E3
  <2>1. PICK i \in DOMAIN m.messages : v = [m EXCEPT !.messages[i].labels = {}]
    BY <1>5
  <2>. DEFINE o == m.messages[i]
              e == [o EXCEPT !.labels = {}]
  <2>2. IsMessage(e) /\ SameLetter(e, o)
    BY <1>2, MessageExcept
  <2>3. v = [m EXCEPT !.messages = [m.messages EXCEPT ![i] = e]]
    BY <2>1
  <2>4. v = Mailbox([m.messages EXCEPT ![i] = e], m.labels)
    BY <2>3, MailExcept
  <2>. HIDE DEF e
  <2>. QED BY <2>2, <2>4, MailRelabelled
<1>6. ASSUME NEW s, NEW whole, NEW sent, NEW draft, draft => s = NoLetter,
             v = New(s, whole, sent, draft)
      PROVE  MailGrows(m, v, n)
  <2>1. IsMessage(Msg(s, whole, sent, draft))
    BY <1>6 DEF IsMessage
  <2>. HIDE DEF Msg
  <2>. QED BY <1>6, <2>1, MailPut
<1>. HIDE DEF New
<1>7. CASE v \in E4
  <2>1. PICK draft \in BOOLEAN : v = New(NoLetter, FALSE, TRUE, draft)
    BY <1>7, Zenon
  <2>. QED BY <1>6, <2>1, Zenon
<1>a. ASSUME NEW s, NEW whole, NEW sent, v = Copy(s, whole, sent)
      PROVE  MailGrows(m, v, n)
  BY <1>6, <1>a, Zenon
<1>. HIDE DEF Copy
<1>b. CASE v \in E5
  BY <1>a, <1>b
<1>8. CASE v \in E6
  <2>1. MailGrows(m, [m EXCEPT !.labels = Put(@, n, 0)], n)
    BY MailLabelPut
  <2>2. v = [m EXCEPT !.labels = Put(@, n, 0)]
    BY <1>8
  <2>. QED BY <2>1, <2>2
<1>9. CASE v \in E7
  BY <1>9, LabelDeletedIs
<1>. HIDE DEF E1, E2, E3, E4, E5, E6, E7
<1>. QED BY <1>1, <1>3, <1>4, <1>5, <1>7, <1>b, <1>8, <1>9

LEMMA MailWiped ==
  ASSUME NEW m, IsMailbox(m), NEW v \in MailWipes(m), NEW n
  PROVE  MailGrows(m, v, n)
<1>1. CASE \E keep \in SUBSET DOMAIN m.messages :
             v = [m EXCEPT !.messages = [i \in keep |-> @[i]]]
  <2>. PICK keep \in SUBSET DOMAIN m.messages :
             v = [m EXCEPT !.messages = [i \in keep |-> @[i]]]
    BY <1>1
  <2>. DEFINE f == [i \in keep |-> m.messages[i]]
  <2>1. v = Mailbox(f, m.labels)
    BY MailExcept
  <2>2. MessagesFrom(m, f, n)
    BY DEF MessagesFrom, IsMailbox, SameLetter
  <2>3. IsLabels(m.labels)
    BY DEF IsMailbox
  <2>. HIDE DEF f
  <2>. QED BY <2>1, <2>2, <2>3, MailboxIs
<1>2. CASE \E keep \in SUBSET DOMAIN m.labels :
             v = [messages |-> <<>>, labels |-> [k \in keep |-> m.labels[k]]]
  <2>. PICK keep \in SUBSET DOMAIN m.labels :
             v = [messages |-> <<>>, labels |-> [k \in keep |-> m.labels[k]]]
    BY <1>2
  <2>. DEFINE g == [k \in keep |-> m.labels[k]]
  <2>1. v = Mailbox(<<>>, g)
    BY DEF Mailbox
  <2>2. MessagesFrom(m, <<>>, n)
    BY DEF MessagesFrom
  <2>3. IsLabels(g)
    BY FS_Subset DEF IsMailbox, IsLabels
  <2>. HIDE DEF g
  <2>. QED BY <2>1, <2>2, <2>3, MailboxIs
<1>. QED BY <1>1, <1>2 DEF MailWipes

\* The book of the mail section and a message entered in it.
IsMailBook(b, cat) ==
  b = [label |-> b.label, messages |-> b.messages] /\ DOMAIN b.messages \subseteq Letters(cat)

LEMMA MailEnters ==
  ASSUME NEW m, NEW b, NEW cat, IsMailBook(b, cat), OwnMail(m, b),
         NEW n, \A r \in DOMAIN b.messages : b.messages[r].id # n,
         NEW s \in Letters(cat), NEW x, m.messages[n].src = s, m.messages[n].thread = x, NEW b2,
         b2 = [b EXCEPT !.messages = Put(@, s, [id |-> n, thread |-> x])]
  PROVE  IsMailBook(b2, cat) /\ OwnMail(m, b2)
<1>. DEFINE f == Put(b.messages, s, [id |-> n, thread |-> x])
<1>1. b2 = [label |-> b.label, messages |-> f]
  BY DEF IsMailBook
<1>2. DOMAIN f = DOMAIN b.messages \cup {s} /\ f[s].id = n /\ f[s].thread = x
      /\ \A r \in DOMAIN b.messages : r # s => f[r] = b.messages[r]
  BY DEF Put
<1>. HIDE DEF f
<1>3. b2 = [label |-> b2.label, messages |-> b2.messages] /\ b2.messages = f
  BY ONLY <1>1
<1>4. IsMailBook(b2, cat)
  BY <1>2, <1>3 DEF IsMailBook
<1>5. ~NamesTwice(f)
  BY <1>2 DEF NamesTwice, OwnMail
<1>6. \A r \in DOMAIN f : f[r].id \in DOMAIN m.messages =>
        m.messages[f[r].id].src = r /\ m.messages[f[r].id].thread = f[r].thread
  BY <1>2 DEF OwnMail
<1>. QED BY <1>3, <1>4, <1>5, <1>6 DEF OwnMail

LEMMA MailForgets ==
  ASSUME NEW m, NEW b, NEW cat, IsMailBook(b, cat), OwnMail(m, b), NEW s
  PROVE  /\ IsMailBook(Forgotten(b, s), cat) /\ OwnMail(m, Forgotten(b, s))
         /\ \A r \in DOMAIN Forgotten(b, s).messages :
              r \in DOMAIN b.messages /\ Forgotten(b, s).messages[r] = b.messages[r]
<1>. DEFINE f == [r \in DOMAIN b.messages \ {s} |-> b.messages[r]]
            b2 == Forgotten(b, s)
<1>1. b2 = [label |-> b.label, messages |-> f]
  BY DEF Forgotten, IsMailBook
<1>2. \A r \in DOMAIN f : r \in DOMAIN b.messages /\ f[r] = b.messages[r]
  OBVIOUS
<1>. HIDE DEF f, b2
<1>3. b2 = [label |-> b2.label, messages |-> b2.messages] /\ b2.messages = f
  BY <1>1
<1>4. IsMailBook(b2, cat)
  BY <1>2, <1>3 DEF IsMailBook
<1>5. ~NamesTwice(f)
  BY <1>2 DEF NamesTwice, OwnMail
<1>6. \A r \in DOMAIN f : f[r].id \in DOMAIN m.messages =>
        m.messages[f[r].id].src = r /\ m.messages[f[r].id].thread = f[r].thread
  BY <1>2 DEF OwnMail
<1>7. OwnMail(m, b2)
  BY <1>3, <1>5, <1>6 DEF OwnMail
<1>. QED BY <1>2, <1>3, <1>4, <1>7 DEF b2

\* After a call of Gmail.
MailGood(b, cat, m2, b2) ==
  IsMailbox(m2) /\ OwnMail(m2, b) /\ IsMailBook(b2, cat) /\ OwnMail(m2, b2)

\* What a call may leave behind when the process dies in it.
MailLeft(b, v) == IsMailbox(v) /\ OwnMail(v, b)

LEMMA MailLeaves ==
  ASSUME NEW m, NEW b, OwnMail(m, b), NEW n, \A r \in DOMAIN b.messages : b.messages[r].id # n,
         NEW v, MailGrows(m, v, n)
  PROVE  MailLeft(b, v)
BY MailStays DEF MailGrows, MailLeft

LEMMA MailImports ==
  ASSUME NEW m, IsMailbox(m), NEW b, NEW cat, IsMailBook(b, cat), OwnMail(m, b),
         NEW n, \A r \in DOMAIN b.messages : b.messages[r].id # n,
         NEW s \in Letters(cat)
  PROVE  /\ MailGrows(m, MailImported(m, b, cat, s, n).world, n)
         /\ MailGood(b, cat, MailImported(m, b, cat, s, n).world, MailImported(m, b, cat, s, n).book)
<1>. DEFINE x == ThreadFor(m, b, cat, s, n)
            copy == [src |-> s, whole |-> TRUE, thread |-> x, labels |-> {b.label},
                     placed |-> TRUE, sent |-> TRUE, draft |-> FALSE]
            m2 == [m EXCEPT !.messages = Put(@, n, copy)]
            b2 == [b EXCEPT !.messages = Put(@, s, [id |-> n, thread |-> x])]
<1>1. IsMessage(copy) /\ copy.src = s /\ copy.thread = x
  BY DEF IsMessage
<1>. HIDE DEF copy, x
<1>2. MailGrows(m, m2, n)
  BY <1>1, MailPut
<1>3. m2.messages[n].src = s /\ m2.messages[n].thread = x
  <2>1. m2 = Mailbox(Put(m.messages, n, copy), m.labels)
    BY MailExcept
  <2>2. m2.messages = Put(m.messages, n, copy)
    BY <2>1 DEF Mailbox
  <2>. HIDE DEF m2
  <2>. QED BY <1>1, <2>2 DEF Put
<1>. HIDE DEF m2
<1>4. OwnMail(m2, b)
  BY <1>2, MailStays DEF MailGrows
<1>5. IsMailBook(b2, cat) /\ OwnMail(m2, b2)
  <2>1. b2 = [b EXCEPT !.messages = Put(@, s, [id |-> n, thread |-> x])]
    OBVIOUS
  <2>. HIDE DEF b2
  <2>. QED BY <1>3, <1>4, <2>1, MailEnters
<1>. HIDE DEF b2
<1>6. MailImported(m, b, cat, s, n) = [world |-> m2, book |-> b2]
  BY DEF MailImported, m2, b2, copy, x
<1>7. MailGood(b, cat, m2, b2)
  BY <1>2, <1>4, <1>5 DEF MailGood, MailGrows
<1>. QED BY <1>2, <1>6, <1>7

LEMMA RelabelledIs ==
  ASSUME NEW o, IsMessage(o), NEW k
  PROVE  IsMessage(Relabelled(o, k)) /\ SameLetter(Relabelled(o, k), o)
<1>. DEFINE p == [o EXCEPT !.placed = TRUE]
            e == Relabelled(o, k)
<1>1. IsMessage(p) /\ SameLetter(p, o)
  BY MessageExcept
<1>2. e = [p EXCEPT !.labels = o.labels \cup {k}]
  BY DEF Relabelled
<1>. HIDE DEF p, e
<1>3. /\ IsMessage([p EXCEPT !.labels = o.labels \cup {k}])
      /\ SameLetter([p EXCEPT !.labels = o.labels \cup {k}], p)
  BY <1>1, MessageExcept
<1>. QED BY <1>1, <1>2, <1>3 DEF e, SameLetter

LEMMA MailRelabels ==
  ASSUME NEW m, IsMailbox(m), NEW i, NEW k, NEW n
  PROVE  MailGrows(m, [m EXCEPT !.messages[i] = Relabelled(m.messages[i], k)], n)
<1>. DEFINE e == Relabelled(m.messages[i], k)
            f == [m.messages EXCEPT ![i] = e]
<1>1. i \in DOMAIN m.messages => IsMessage(e) /\ SameLetter(e, m.messages[i])
  BY RelabelledIs DEF IsMailbox
<1>. HIDE DEF e
<1>2. [m EXCEPT !.messages[i] = e] = [m EXCEPT !.messages = f]
  OBVIOUS
<1>3. [m EXCEPT !.messages = f] = Mailbox(f, m.labels)
  BY MailExcept
<1>4. MailGrows(m, Mailbox(f, m.labels), n)
  BY <1>1, MailRelabelled
<1>. QED BY <1>2, <1>3, <1>4 DEF e

LEMMA MailDoes ==
  ASSUME NEW m, IsMailbox(m), NEW b, NEW cat, IsMailBook(b, cat), OwnMail(m, b),
         NEW todo, MailTodo(todo, cat), NEW a \in todo,
         NEW n, \A r \in DOMAIN b.messages : b.messages[r].id # n
  PROVE  /\ MailGood(b, cat, MailDone(a, m, b, cat, n).world, MailDone(a, m, b, cat, n).book)
         /\ \A v \in MailTorn(a, m, b, cat, n) : MailLeft(b, v)
         /\ a.do \notin {"import", "reimport"} => MailDone(a, m, b, cat, n).book = b
<1>. DEFINE r == MailDone(a, m, b, cat, n)
<1>0. a.do \in {"import", "reimport", "relabel", "delete", "unlabel"}
  BY DEF MailTodo
<1>1. MailLeft(b, m)
  BY DEF MailLeft
<1>2. CASE a.do = "import"
  <2>1. a.src \in Letters(cat)
    BY <1>2 DEF MailTodo
  <2>2. MailGood(b, cat, MailImported(m, b, cat, a.src, n).world,
                 MailImported(m, b, cat, a.src, n).book)
    BY <2>1, MailImports
  <2>3. r = MailImported(m, b, cat, a.src, n)
    BY <1>2 DEF MailDone
  <2>. HIDE DEF r
  <2>4. MailTorn(a, m, b, cat, n) = {m, r.world}
    BY <1>2 DEF MailTorn, r
  <2>. QED BY <1>1, <1>2, <2>2, <2>3, <2>4 DEF MailGood, MailLeft, r
<1>3. CASE a.do = "reimport"
  <2>. DEFINE m1 == MailWithout(m, a.id)
              b1 == Forgotten(b, a.src)
  <2>1. a.src \in Letters(cat)
    BY <1>3 DEF MailTodo
  <2>2. MailGrows(m, m1, n)
    BY MailWithoutIs
  <2>3. MailLeft(b, m1)
    BY <2>2, MailLeaves
  <2>. HIDE DEF m1
  <2>4. /\ IsMailBook(b1, cat) /\ OwnMail(m1, b1)
        /\ \A x \in DOMAIN b1.messages : x \in DOMAIN b.messages /\ b1.messages[x] = b.messages[x]
    BY <2>3, MailForgets DEF MailLeft
  <2>. HIDE DEF b1
  <2>5. /\ MailGrows(m1, MailImported(m1, b1, cat, a.src, n).world, n)
        /\ MailGood(b1, cat, MailImported(m1, b1, cat, a.src, n).world,
                    MailImported(m1, b1, cat, a.src, n).book)
    BY <2>1, <2>3, <2>4, MailImports DEF MailLeft
  <2>6. r = MailImported(m1, b1, cat, a.src, n)
    BY <1>3 DEF MailDone, m1, b1
  <2>. HIDE DEF r
  <2>7. MailLeft(b, r.world)
    BY <2>3, <2>5, <2>6, MailLeaves DEF MailLeft
  <2>8. MailTorn(a, m, b, cat, n) = {m, r.world, m1}
    BY <1>3 DEF MailTorn, r, m1
  <2>. QED BY <1>1, <1>3, <2>3, <2>5, <2>6, <2>7, <2>8 DEF MailGood, MailLeft, r
<1>4. ASSUME a.do \notin {"import", "reimport"}, r.book = b, MailGrows(m, r.world, n)
      PROVE  /\ MailGood(b, cat, r.world, r.book)
             /\ \A v \in MailTorn(a, m, b, cat, n) : MailLeft(b, v)
             /\ r.book = b
  <2>. HIDE DEF r
  <2>1. MailLeft(b, r.world)
    BY <1>4, MailLeaves
  <2>2. MailTorn(a, m, b, cat, n) = {m, r.world}
    BY <1>4 DEF MailTorn, r
  <2>. QED BY <1>1, <1>4, <2>1, <2>2 DEF MailGood, MailLeft
<1>5. CASE a.do = "relabel"
  <2>1. r = [world |-> [m EXCEPT !.messages[a.id] = Relabelled(m.messages[a.id], b.label)],
             book |-> b]
    BY <1>5 DEF MailDone
  <2>. HIDE DEF r
  <2>2. r.book = b /\ MailGrows(m, r.world, n)
    BY <2>1, MailRelabels
  <2>. QED BY <1>4, <1>5, <2>2 DEF r
<1>6. CASE a.do = "delete"
  <2>1. r = [world |-> MailWithout(m, a.id), book |-> b]
    BY <1>6 DEF MailDone
  <2>. HIDE DEF r
  <2>2. r.book = b /\ MailGrows(m, r.world, n)
    BY <2>1, MailWithoutIs
  <2>. QED BY <1>4, <1>6, <2>2 DEF r
<1>7. CASE a.do = "unlabel"
  <2>1. r = [world |-> LabelDeleted(m, a.id), book |-> b]
    BY <1>7 DEF MailDone
  <2>. HIDE DEF r
  <2>2. r.book = b /\ MailGrows(m, r.world, n)
    BY <2>1, LabelDeletedIs
  <2>. QED BY <1>4, <1>7, <2>2 DEF r
<1>. QED BY <1>0, <1>2, <1>3, <1>5, <1>6, <1>7

LEMMA MailLabels ==
  ASSUME NEW m, IsMailbox(m), NEW b, NEW cat, IsMailBook(b, cat), OwnMail(m, b),
         NEW t, NEW n, \A r \in DOMAIN b.messages : b.messages[r].id # n
  PROVE  /\ MailGood(b, cat, Labelled(m, b, t, n).world, Labelled(m, b, t, n).book)
         /\ Labelled(m, b, t, n).book.messages = b.messages
<1>. DEFINE have == BaselineLabels(m, t)
            id == IF have = {} THEN n ELSE CHOOSE k \in have : TRUE
            m2 == [m EXCEPT !.labels = Put(@, id, t)]
            b2 == [b EXCEPT !.label = id]
<1>1. Labelled(m, b, t, n) = [world |-> m2, book |-> b2]
  BY DEF Labelled
<1>2. t = 0 \/ \A j \in DOMAIN m.labels : m.labels[j] = t => j = id
  <2>1. CASE have = {}
    BY <2>1 DEF BaselineLabels
  <2>2. CASE have # {}
    <3>1. id \in have
      BY <2>2
    <3>. HIDE DEF id
    <3>. QED BY <3>1 DEF BaselineLabels, IsMailbox, IsLabels
  <2>. QED BY <2>1, <2>2
<1>. HIDE DEF id
<1>a. MailGrows(m, m2, n)
  BY <1>2, MailLabelPut
<1>3. MailLeft(b, m2)
  BY <1>a, MailLeaves
<1>. HIDE DEF m2
<1>4. b2 = [label |-> id, messages |-> b.messages]
  BY DEF IsMailBook
<1>. HIDE DEF b2
<1>5. b2 = [label |-> b2.label, messages |-> b2.messages] /\ b2.messages = b.messages
  BY ONLY <1>4
<1>6. IsMailBook(b2, cat) /\ OwnMail(m2, b2)
  BY <1>3, <1>5 DEF IsMailBook, OwnMail, MailLeft
<1>. QED BY <1>1, <1>3, <1>5, <1>6 DEF MailGood, MailLeft

LEMMA MailAdopts ==
  ASSUME NEW m, NEW b, NEW cat, IsMailBook(b, cat), OwnMail(m, b)
  PROVE  IsMailBook(MailAdopted(m, b, cat), cat) /\ OwnMail(m, MailAdopted(m, b, cat))
<1>. DEFINE D == DOMAIN b.messages \cup {r \in Letters(cat) : Canonical(m, b, r) # {}}
            f == [s \in D |->
                    IF Canonical(m, b, s) = {} \/ KnownMail(m, b, s) # {} THEN b.messages[s]
                    ELSE LET i == CHOOSE i \in Canonical(m, b, s) : TRUE
                         IN [id |-> i, thread |-> m.messages[i].thread]]
            b2 == MailAdopted(m, b, cat)
<1>1. b2 = [label |-> b.label, messages |-> f]
  <2>1. b2 = [b EXCEPT !.messages = f]
    BY DEF MailAdopted
  <2>2. b = [label |-> b.label, messages |-> b.messages]
    BY DEF IsMailBook
  <2>. HIDE DEF f, b2
  <2>. QED BY <2>1, <2>2
<1>. DEFINE Old(s) == s \in DOMAIN b.messages /\ f[s] = b.messages[s]
            New(s) == /\ f[s].id \in DOMAIN m.messages /\ m.messages[f[s].id].src = s
                      /\ m.messages[f[s].id].thread = f[s].thread
<1>2. ASSUME NEW s \in D PROVE Old(s) \/ New(s)
  <2>1. CASE Canonical(m, b, s) = {} \/ KnownMail(m, b, s) # {}
    BY <2>1 DEF KnownMail
  <2>2. CASE Canonical(m, b, s) # {} /\ KnownMail(m, b, s) = {}
    <3>. DEFINE i == CHOOSE i \in Canonical(m, b, s) : TRUE
    <3>1. i \in Canonical(m, b, s)
      BY <2>2
    <3>2. f[s].id = i /\ f[s].thread = m.messages[i].thread
      BY <2>2
    <3>. HIDE DEF i, f
    <3>3. i \in Lookalikes(m, b, s)
      BY <2>2, <3>1 DEF Canonical
    <3>. QED BY <3>2, <3>3 DEF Lookalikes
  <2>. QED BY <2>1, <2>2
<1>3. DOMAIN f = D /\ D \subseteq Letters(cat)
  BY DEF IsMailBook
<1>. HIDE DEF f, D, b2
<1>4. b2 = [label |-> b2.label, messages |-> b2.messages] /\ b2.messages = f
  BY ONLY <1>1
<1>5. IsMailBook(b2, cat)
  BY <1>3, <1>4 DEF IsMailBook
<1>6. \A s \in D : f[s].id \in DOMAIN m.messages =>
        m.messages[f[s].id].src = s /\ m.messages[f[s].id].thread = f[s].thread
  BY <1>2 DEF OwnMail
<1>7. ~NamesTwice(f)
  <2>. SUFFICES ASSUME NEW p \in D, NEW q \in D, p # q, f[p].id = f[q].id PROVE FALSE
    BY <1>3 DEF NamesTwice
  <2>1. CASE Old(p) /\ Old(q)
    BY <2>1 DEF NamesTwice, OwnMail
  <2>2. CASE New(p) \/ New(q)
    BY <1>6, <2>2
  <2>. QED BY <1>2, <2>1, <2>2
<1>. QED BY <1>3, <1>4, <1>5, <1>6, <1>7 DEF OwnMail, b2

LEMMA MailPlans ==
  ASSUME NEW m, NEW b, NEW t, NEW cat
  PROVE  MailTodo(MailPlan(m, b, t, cat).todo, cat) /\ MailTodo(MailSeedTodo(b, cat), cat)
<1>1. \A a \in MailPlan(m, b, t, cat).todo :
        \/ a.do \in {"import", "reimport", "relabel"} /\ a.src \in Letters(cat)
        \/ a.do \in {"delete", "unlabel"}
  BY DEF MailPlan
<1>2. \A a \in MailSeedTodo(b, cat) : a.do = "import" /\ a.src \in Letters(cat)
  BY DEF MailSeedTodo
<1>. QED BY <1>1, <1>2 DEF MailTodo

\* A seed makes what its manifest has no entry for.
LEMMA DriveSeedPlans ==
  ASSUME NEW w, NEW b, NEW files
  PROVE  DriveTodo(DriveSeedTodo(b, files), w, b, files)
<1>. DEFINE S == (files \cup UNION {Folders({p}) : p \in files \ DOMAIN b}) \ DOMAIN b
<1>1. S \subseteq Paths(files)
  <2>1. ASSUME NEW p \in files PROVE Folders({p}) \subseteq Folders(files)
    BY DEF Folders
  <2>. QED BY <2>1 DEF Paths
<1>2. \A p \in S : Known(w, b, p) = {}
  BY DEF Known
<1>. HIDE DEF S
<1>3. DriveSeedTodo(b, files) = {[do |-> "seed", path |-> p, id |-> 0, rank |-> <<0, 0>>] : p \in S}
  BY DEF DriveSeedTodo, S
<1>. QED BY <1>1, <1>2, <1>3 DEF DriveTodo

-----------------------------------------------------------------------------
(* Calendar.                                                               *)

\* A calendar with events f and tombstones g.
CalendarOf(f, g) == [events |-> f, gone |-> g]

EventsOf(f) == IsFiniteSet(DOMAIN f) /\ \A i \in DOMAIN f : IsEvent(i, f[i])

LEMMA CalendarOfIs ==
  ASSUME NEW f, EventsOf(f), NEW g, IsFiniteSet(g)
  PROVE  IsCalendar(CalendarOf(f, g))
<1>. DEFINE c == CalendarOf(f, g)
<1>1. c = [events |-> c.events, gone |-> c.gone] /\ c.events = f /\ c.gone = g
  BY DEF CalendarOf
<1>. HIDE DEF c
<1>. QED BY <1>1 DEF IsCalendar, EventsOf, c

LEMMA EventsExcept ==
  ASSUME NEW c, IsCalendar(c), NEW f, EventsOf(f)
  PROVE  IsCalendar([c EXCEPT !.events = f])
<1>1. c = [events |-> c.events, gone |-> c.gone] /\ IsFiniteSet(c.gone)
  BY DEF IsCalendar
<1>2. [c EXCEPT !.events = f] = CalendarOf(f, c.gone)
  BY <1>1 DEF CalendarOf
<1>. QED BY <1>1, <1>2, CalendarOfIs

LEMMA EventsPut ==
  ASSUME NEW c, IsCalendar(c), NEW i, NEW e, IsEvent(i, e)
  PROVE  /\ IsCalendar([c EXCEPT !.events = Put(@, i, e)])
         /\ IsCalendar([c EXCEPT !.events = PutNew(@, i, e)])
<1>. DEFINE f == Put(c.events, i, e)
            g == PutNew(c.events, i, e)
<1>1. DOMAIN f = DOMAIN c.events \cup {i} /\ DOMAIN g = DOMAIN c.events \cup {i}
  BY DEF Put, PutNew
<1>2. \A j \in DOMAIN f : IsEvent(j, f[j])
  BY DEF Put, IsCalendar
<1>3. \A j \in DOMAIN g : IsEvent(j, g[j])
  BY DEF PutNew, IsCalendar
<1>. HIDE DEF f, g
<1>4. IsFiniteSet(DOMAIN f) /\ IsFiniteSet(DOMAIN g)
  BY <1>1, FS_AddElement DEF IsCalendar
<1>5. EventsOf(f) /\ EventsOf(g)
  BY <1>2, <1>3, <1>4 DEF EventsOf
<1>6. IsCalendar([c EXCEPT !.events = f]) /\ IsCalendar([c EXCEPT !.events = g])
  BY <1>5, EventsExcept
<1>. QED BY <1>6 DEF f, g

\* One event is changed.
LEMMA EventChanged ==
  ASSUME NEW c, IsCalendar(c), NEW i, NEW e, i \in DOMAIN c.events => IsEvent(i, e)
  PROVE  IsCalendar([c EXCEPT !.events[i] = e])
<1>. DEFINE f == [c.events EXCEPT ![i] = e]
<1>1. EventsOf(f)
  BY DEF EventsOf, IsCalendar
<1>. HIDE DEF f
<1>2. IsCalendar([c EXCEPT !.events = f])
  BY <1>1, EventsExcept
<1>. QED BY <1>2 DEF f

LEMMA EventExcept ==
  ASSUME NEW i, NEW e, IsEvent(i, e), NEW x
  PROVE  /\ IsEvent(i, [e EXCEPT !.fine = x]) /\ IsEvent(i, [e EXCEPT !.tag = 0])
         /\ IsEvent(i, [e EXCEPT !.key = NoSource])
         /\ e.tag = 0 => IsEvent(i, [e EXCEPT !.src = NoSource])
<1>. DEFINE f == [e EXCEPT !.fine = x]
            t == [e EXCEPT !.tag = 0]
            k == [e EXCEPT !.key = NoSource]
            s == [e EXCEPT !.src = NoSource]
<1>0. e = [tag |-> e.tag, src |-> e.src, key |-> e.key, fine |-> e.fine]
  BY DEF IsEvent
<1>1. f = [tag |-> e.tag, src |-> e.src, key |-> e.key, fine |-> x]
  BY <1>0
<1>2. t = [tag |-> 0, src |-> e.src, key |-> e.key, fine |-> e.fine]
  BY <1>0
<1>3. k = [tag |-> e.tag, src |-> e.src, key |-> NoSource, fine |-> e.fine]
  BY <1>0
<1>4. s = [tag |-> e.tag, src |-> NoSource, key |-> e.key, fine |-> e.fine]
  BY <1>0
<1>. HIDE DEF f, t, k, s
<1>5. IsEvent(i, f)
  BY <1>1 DEF IsEvent
<1>6. IsEvent(i, t)
  BY <1>2 DEF IsEvent
<1>7. IsEvent(i, k)
  BY <1>3 DEF IsEvent
<1>8. e.tag = 0 => IsEvent(i, s)
  BY <1>4 DEF IsEvent
<1>. QED BY <1>5, <1>6, <1>7, <1>8 DEF f, t, k, s

LEMMA CalendarLess ==
  ASSUME NEW c, IsCalendar(c), NEW keep \in SUBSET DOMAIN c.events, NEW g, IsFiniteSet(g)
  PROVE  IsCalendar([events |-> [i \in keep |-> c.events[i]], gone |-> g])
<1>. DEFINE f == [i \in keep |-> c.events[i]]
<1>1. EventsOf(f)
  BY FS_Subset DEF EventsOf, IsCalendar
<1>. HIDE DEF f
<1>2. IsCalendar(CalendarOf(f, g))
  BY <1>1, CalendarOfIs
<1>. QED BY <1>2 DEF f, CalendarOf

LEMMA CalendarWithoutIs ==
  ASSUME NEW c, IsCalendar(c), NEW i
  PROVE  IsCalendar(CalendarWithout(c, i))
<1>1. IsFiniteSet(c.gone \cup {i})
  BY FS_AddElement DEF IsCalendar
<1>. QED BY <1>1, CalendarLess DEF CalendarWithout

LEMMA CalendarWiped ==
  ASSUME NEW c, IsCalendar(c), NEW v \in CalendarWipes(c)
  PROVE  IsCalendar(v)
<1>1. PICK keep \in SUBSET DOMAIN c.events :
        v = [events |-> [i \in keep |-> c.events[i]], gone |-> c.gone \cup (DOMAIN c.events \ keep)]
  BY DEF CalendarWipes
<1>2. IsFiniteSet(DOMAIN c.events \ keep)
  BY FS_Subset DEF IsCalendar
<1>3. IsFiniteSet(c.gone \cup (DOMAIN c.events \ keep))
  BY <1>2, FS_Union DEF IsCalendar
<1>. QED BY <1>1, <1>3, CalendarLess

LEMMA CalendarEdited ==
  ASSUME NEW c, IsCalendar(c), NEW sources, NEW k, NEW v \in CalendarEdits(c, sources, k)
  PROVE  IsCalendar(v)
<1>. DEFINE n == <<0, NoSource, k>>
            New(e) == [c EXCEPT !.events = Put(@, n, e)]
            Event(s) == [tag |-> 0, src |-> NoSource, key |-> s, fine |-> FALSE]
            E1 == {CalendarWithout(c, i) : i \in DOMAIN c.events}
            E2 == {[c EXCEPT !.events[i].fine = FALSE] : i \in DOMAIN c.events}
            E3 == {[c EXCEPT !.events[i].key = NoSource] : i \in DOMAIN c.events}
            E4 == {[c EXCEPT !.events[i].tag = 0] : i \in DOMAIN c.events}
            E5 == {[c EXCEPT !.events[i].tag = 0, !.events[i].src = NoSource] :
                     i \in DOMAIN c.events}
            E6 == {New(Event(s)) : s \in ToSet(sources) \cup {NoSource}}
            E7 == {New(c.events[i]) : i \in DOMAIN c.events}
<1>1. CalendarEdits(c, sources, k) = E1 \cup E2 \cup E3 \cup E4 \cup E5 \cup E6 \cup E7
  BY DEF CalendarEdits
<1>2. \A i \in DOMAIN c.events : IsEvent(i, c.events[i])
  BY DEF IsCalendar
<1>3. CASE v \in E1
  BY <1>3, CalendarWithoutIs
<1>4. CASE v \in E2
  <2>1. PICK i \in DOMAIN c.events : v = [c EXCEPT !.events[i].fine = FALSE]
    BY <1>4
  <2>. DEFINE e == [c.events[i] EXCEPT !.fine = FALSE]
  <2>2. IsEvent(i, e)
    BY <1>2, EventExcept, Zenon
  <2>3. v = [c EXCEPT !.events[i] = e]
    BY <2>1
  <2>. HIDE DEF e
  <2>. QED BY <2>2, <2>3, EventChanged
<1>5. CASE v \in E3
  <2>1. PICK i \in DOMAIN c.events : v = [c EXCEPT !.events[i].key = NoSource]
    BY <1>5
  <2>. DEFINE e == [c.events[i] EXCEPT !.key = NoSource]
  <2>2. IsEvent(i, e)
    BY <1>2, EventExcept
  <2>3. v = [c EXCEPT !.events[i] = e]
    BY <2>1
  <2>. HIDE DEF e
  <2>. QED BY <2>2, <2>3, EventChanged
<1>6. ASSUME NEW i \in DOMAIN c.events
      PROVE  IsCalendar([c EXCEPT !.events[i].tag = 0])
  <2>. DEFINE e == [c.events[i] EXCEPT !.tag = 0]
  <2>2. IsEvent(i, e)
    BY <1>2, EventExcept
  <2>3. [c EXCEPT !.events[i].tag = 0] = [c EXCEPT !.events[i] = e]
    OBVIOUS
  <2>. HIDE DEF e
  <2>. QED BY <2>2, <2>3, EventChanged
<1>7. CASE v \in E4
  BY <1>6, <1>7
<1>8. CASE v \in E5
  <2>1. PICK i \in DOMAIN c.events :
          v = [c EXCEPT !.events[i].tag = 0, !.events[i].src = NoSource]
    BY <1>8
  <2>. DEFINE d == [c EXCEPT !.events[i].tag = 0]
  <2>2. IsCalendar(d)
    BY <1>6
  <2>a. i \in DOMAIN d.events => d.events[i].tag = 0
    <3>1. "tag" \in DOMAIN c.events[i]
      <4>. DEFINE e == c.events[i]
      <4>1. e = [tag |-> e.tag, src |-> e.src, key |-> e.key, fine |-> e.fine]
        BY <1>2 DEF IsEvent
      <4>. HIDE DEF e
      <4>2. "tag" \in DOMAIN e
        BY ONLY <4>1
      <4>. QED BY <4>2 DEF e
    <3>. QED BY <3>1
  <2>3. v = [d EXCEPT !.events[i].src = NoSource]
    BY <2>1
  <2>. HIDE DEF d
  <2>. DEFINE e == [d.events[i] EXCEPT !.src = NoSource]
  <2>4. i \in DOMAIN d.events => IsEvent(i, e)
    BY <2>2, <2>a, EventExcept DEF IsCalendar
  <2>5. v = [d EXCEPT !.events[i] = e]
    BY <2>3
  <2>. HIDE DEF e
  <2>. QED BY <2>2, <2>4, <2>5, EventChanged
<1>9. ASSUME NEW e, e = [tag |-> e.tag, src |-> e.src, key |-> e.key, fine |-> e.fine],
             e.src = NoSource => e.tag = 0, v = New(e)
      PROVE  IsCalendar(v)
  <2>1. IsEvent(n, e)
    BY <1>9 DEF IsEvent
  <2>. HIDE DEF n
  <2>. QED BY <1>9, <2>1, EventsPut
<1>10. CASE v \in E6
  <2>1. PICK s \in ToSet(sources) \cup {NoSource} : v = New(Event(s))
    BY <1>10
  <2>. DEFINE e == Event(s)
  <2>2. e = [tag |-> e.tag, src |-> e.src, key |-> e.key, fine |-> e.fine] /\ e.tag = 0
    OBVIOUS
  <2>. HIDE DEF e, New
  <2>3. v = New(e)
    BY <2>1 DEF e
  <2>. QED BY <1>9, <2>2, <2>3
<1>11. CASE v \in E7
  <2>1. PICK i \in DOMAIN c.events : v = New(c.events[i])
    BY <1>11
  <2>2. IsEvent(i, c.events[i])
    BY <1>2
  <2>. DEFINE e == c.events[i]
  <2>. HIDE DEF New
  <2>. QED BY <1>9, <2>1, <2>2 DEF IsEvent
<1>. HIDE DEF E1, E2, E3, E4, E5, E6, E7
<1>. QED BY <1>1, <1>3, <1>4, <1>5, <1>7, <1>8, <1>10, <1>11

-----------------------------------------------------------------------------
(* Calendar: the calls.                                                    *)

CalendarGood(events, todo, a, c2, b2) ==
  /\ IsCalendar(c2) /\ OwnIds(b2) /\ DOMAIN b2 \subseteq ToSet(events)
  /\ CalendarTodo(todo \ {a}, b2, events)

LEMMA CalendarInserts ==
  ASSUME NEW c, IsCalendar(c), NEW b, OwnIds(b), NEW t \in Nat \ {0}, NEW events,
         DOMAIN b \subseteq ToSet(events), NoSource \notin ToSet(events),
         NEW todo, CalendarTodo(todo, b, events), NEW a \in todo, a.do \in {"insert", "seed"}, NEW g
  PROVE  CalendarGood(events, todo, a, CalendarInserted(c, b, t, a.src, g).world,
                      CalendarInserted(c, b, t, a.src, g).book)
<1>. DEFINE s == a.src
            i == EventId(s, t, g)
            b2 == Put(b, s, [id |-> i, gen |-> g])
            c2 == [c EXCEPT !.events = PutNew(@, i, Baseline(t, s))]
<1>0. s \in ToSet(events)
  BY DEF CalendarTodo
<1>1. IsEvent(i, Baseline(t, s)) /\ i[1] # 0 /\ i[2] = s
  BY <1>0 DEF IsEvent, EventId, Baseline
<1>. HIDE DEF i
<1>2. IsCalendar(c2)
  BY <1>1, EventsPut
<1>3. /\ DOMAIN b2 = DOMAIN b \cup {s} /\ b2[s] = [id |-> i, gen |-> g]
      /\ \A q \in DOMAIN b : q # s => b2[q] = b[q]
      /\ b2 = [q \in DOMAIN b2 |-> b2[q]]
  BY DEF Put
<1>. HIDE DEF b2, c2, s
<1>4. ~NamesTwice(b2)
  <2>. SUFFICES ASSUME NEW p \in DOMAIN b2, NEW q \in DOMAIN b2, p # q, b2[p].id = b2[q].id
                PROVE  FALSE
    BY DEF NamesTwice
  <2>1. ASSUME NEW r \in DOMAIN b, r # s, b[r].id = i PROVE FALSE
    BY <1>1, <2>1 DEF OwnIds
  <2>. QED BY <1>3, <2>1 DEF OwnIds, NamesTwice
<1>5. OwnIds(b2)
  BY <1>1, <1>3, <1>4 DEF OwnIds
<1>6. CalendarTodo(todo \ {a}, b2, events)
  <2>1. ASSUME NEW d \in todo \ {a}, d.do = "update"
        PROVE  d.src \in DOMAIN b2 /\ b2[d.src].id = d.id
    <3>1. d.src # s /\ d.src \in DOMAIN b /\ b[d.src].id = d.id
      BY <2>1 DEF CalendarTodo, s
    <3>. QED BY <1>3, <3>1
  <2>. QED BY <2>1 DEF CalendarTodo
<1>7. CalendarInserted(c, b, t, s, g) = [world |-> c2, book |-> b2]
  BY DEF CalendarInserted, c2, b2, i
<1>8. CalendarGood(events, todo, a, c2, b2)
  BY <1>0, <1>2, <1>3, <1>5, <1>6 DEF CalendarGood
<1>. QED BY <1>7, <1>8 DEF s

LEMMA CalendarDoes ==
  ASSUME NEW c, IsCalendar(c), NEW b, OwnIds(b), NEW t \in Nat \ {0}, NEW events,
         DOMAIN b \subseteq ToSet(events), NoSource \notin ToSet(events),
         NEW todo, CalendarTodo(todo, b, events), NEW a \in todo, a.do # "seed"
  PROVE  /\ CalendarGood(events, todo, a, CalendarDone(a, c, b, t).world,
                         CalendarDone(a, c, b, t).book)
         /\ a.do # "insert" => CalendarDone(a, c, b, t).book = b
<1>. DEFINE r == CalendarDone(a, c, b, t)
<1>0. a.do \in {"insert", "update", "delete"}
  BY DEF CalendarTodo
<1>1. CalendarTodo(todo \ {a}, b, events)
  BY DEF CalendarTodo
<1>2. CASE a.do = "insert"
  <2>1. r = CalendarInserted(c, b, t, a.src, FreshGeneration(c, b, t, a.src))
    BY <1>2 DEF CalendarDone
  <2>. HIDE DEF r
  <2>. QED BY <1>2, <2>1, CalendarInserts DEF r
<1>3. CASE a.do = "update"
  <2>. DEFINE c2 == [c EXCEPT !.events[a.id] = Baseline(t, a.src)]
              b2 == Put(b, a.src, [id |-> a.id, gen |-> GenerationOf(b, a.src)])
  <2>1. r = [world |-> c2, book |-> b2]
    BY <1>3 DEF CalendarDone
  <2>2. a.src \in DOMAIN b /\ b[a.src].id = a.id /\ a.src # NoSource
    BY <1>3 DEF CalendarTodo
  <2>3. IsEvent(a.id, Baseline(t, a.src))
    BY <2>2 DEF IsEvent, Baseline, OwnIds
  <2>4. IsCalendar(c2)
    BY <2>3, EventChanged
  <2>5. b[a.src] = [id |-> a.id, gen |-> GenerationOf(b, a.src)]
    BY <2>2 DEF OwnIds, GenerationOf
  <2>6. b2 = b
    <3>1. b = [s \in DOMAIN b |-> b[s]]
      BY DEF OwnIds
    <3>2. b2 = [s \in DOMAIN b |-> b[s]]
      BY <2>2, <2>5 DEF Put
    <3>. QED BY <3>1, <3>2
  <2>. HIDE DEF c2, b2, r
  <2>. QED BY <1>1, <2>1, <2>4, <2>6 DEF CalendarGood, r
<1>4. CASE a.do = "delete"
  <2>1. r = [world |-> CalendarWithout(c, a.id), book |-> b]
    BY <1>4 DEF CalendarDone
  <2>. HIDE DEF r
  <2>. QED BY <1>1, <2>1, CalendarWithoutIs DEF CalendarGood, r
<1>. QED BY <1>0, <1>2, <1>3, <1>4

-----------------------------------------------------------------------------
(* Calendar: a delta opens.                                                *)

\* An event that may stand for s, if the engine made it, was made for s.
LEMMA StandingIs ==
  ASSUME NEW c, IsCalendar(c), NEW b, OwnIds(b), NEW t \in Nat \ {0}, NEW s, s # NoSource,
         NEW i \in Standing(c, b, t, s)
  PROVE  i \in DOMAIN c.events /\ (i[1] # 0 => i[2] = s)
<1>1. ASSUME i \in DOMAIN c.events, c.events[i].src = s \/ c.events[i].key = s
      PROVE  i[1] # 0 => i[2] = s
  <2>1. IsEvent(i, c.events[i])
    BY <1>1 DEF IsCalendar
  <2>. QED BY <1>1, <2>1 DEF IsEvent
<1>2. CASE WantedId(b, t, s) \in DOMAIN c.events
  <2>1. i = WantedId(b, t, s)
    BY <1>2 DEF Standing
  <2>2. CASE s \in DOMAIN b
    BY <1>2, <2>1, <2>2 DEF WantedId, OwnIds
  <2>3. CASE s \notin DOMAIN b
    BY <1>2, <2>1, <2>3 DEF WantedId, EventId
  <2>. QED BY <2>2, <2>3
<1>3. CASE WantedId(b, t, s) \notin DOMAIN c.events
  <2>1. \/ i \in Marked(c, t, s) \/ i \in Marked(c, 0, s)
        \/ i \in Foreign(c, t, s) \/ i \in SameKey(c, s)
    BY <1>3 DEF Standing
  <2>2. \A r : i \in Marked(c, r, s) => i \in DOMAIN c.events /\ c.events[i].src = s
    BY DEF Marked
  <2>3. i \in Foreign(c, t, s) => i \in DOMAIN c.events /\ c.events[i].src = s
    BY <2>2 DEF Foreign
  <2>4. i \in SameKey(c, s) => i \in DOMAIN c.events /\ c.events[i].key = s
    BY DEF SameKey, Bare, Marked
  <2>. QED BY <1>1, <2>1, <2>2, <2>3, <2>4
<1>. QED BY <1>2, <1>3

LEMMA StandingApart ==
  ASSUME NEW c, NEW b, NEW t, NEW sources, sources \in Seq(ToSet(sources)),
         \A s \in ToSet(sources) : CalendarUnambiguous(c, b, t, sources, s),
         NEW p \in ToSet(sources), NEW q \in ToSet(sources), p # q
  PROVE  Standing(c, b, t, p) \cap Standing(c, b, t, q) = {}
<1>. DEFINE At1(s) == CHOOSE n \in DOMAIN sources : sources[n] = s
<1>1. ASSUME NEW s \in ToSet(sources) PROVE At1(s) \in DOMAIN sources /\ sources[At1(s)] = s
  <2>1. \E n \in DOMAIN sources : sources[n] = s
    BY DEF ToSet
  <2>. QED BY <2>1
<1>2. DOMAIN sources \subseteq Nat \ {0}
  OBVIOUS
<1>3. ASSUME NEW x \in ToSet(sources), NEW y \in ToSet(sources), At1(x) < At1(y)
      PROVE  Standing(c, b, t, x) \cap Standing(c, b, t, y) = {}
  <2>1. Standing(c, b, t, y) \cap StandingBefore(c, b, t, sources, y) = {}
    BY DEF CalendarUnambiguous
  <2>2. StandingBefore(c, b, t, sources, y)
          = UNION {Standing(c, b, t, sources[k]) : k \in 1 .. At1(y) - 1}
    BY DEF StandingBefore
  <2>3. At1(x) \in Nat \ {0} /\ At1(y) \in Nat \ {0} /\ sources[At1(x)] = x
    BY <1>1, <1>2
  <2>. HIDE DEF At1
  <2>4. At1(x) \in 1 .. At1(y) - 1
    BY <1>3, <2>3
  <2>5. Standing(c, b, t, x) \subseteq StandingBefore(c, b, t, sources, y)
    BY <2>2, <2>3, <2>4
  <2>. QED BY <2>1, <2>5
<1>4. At1(p) # At1(q) /\ At1(p) \in Nat /\ At1(q) \in Nat
  BY <1>1, <1>2
<1>. HIDE DEF At1
<1>5. At1(p) < At1(q) \/ At1(q) < At1(p)
  BY <1>4
<1>. QED BY <1>3, <1>5

LEMMA CalendarAdopts ==
  ASSUME NEW c, IsCalendar(c), NEW b, OwnIds(b), NEW t \in Nat \ {0},
         NEW events, events \in Seq(ToSet(events)), NoSource \notin ToSet(events),
         DOMAIN b \subseteq ToSet(events),
         \A s \in ToSet(events) : CalendarUnambiguous(c, b, t, events, s),
         NEW b2, b2 = CalendarAdopted(c, b, t, events)
  PROVE  /\ OwnIds(b2) /\ DOMAIN b2 \subseteq ToSet(events)
         /\ CalendarTodo(CalendarPlan(c, b, t, events).todo, b2, events)
<1>. DEFINE S(s) == Standing(c, b, t, s)
            Old(s) == s \in DOMAIN b /\ b2[s] = b[s] /\ S(s) \subseteq {b[s].id}
            New(s) == S(s) = {b2[s].id} /\ b2[s] = [id |-> b2[s].id, gen |-> b2[s].gen]
<1>1. DOMAIN b2 = DOMAIN b \cup {r \in ToSet(events) : S(r) # {}}
  BY DEF CalendarAdopted
<1>2. DOMAIN b2 \subseteq ToSet(events)
  BY <1>1
<1>3. ASSUME NEW s \in ToSet(events), NEW i \in S(s)
      PROVE  S(s) = {i} /\ i \in DOMAIN c.events /\ (i[1] # 0 => i[2] = s)
  <2>1. \A j \in S(s) : j \in DOMAIN c.events /\ (j[1] # 0 => j[2] = s)
    BY StandingIs
  <2>2. Cardinality(S(s)) <= 1
    BY DEF CalendarUnambiguous
  <2>3. IsFiniteSet(S(s))
    BY <2>1, FS_Subset DEF IsCalendar
  <2>. HIDE DEF S
  <2>. QED BY <2>1, <2>2, <2>3, AtMostOne
<1>4. ASSUME NEW s \in DOMAIN b2 PROVE Old(s) \/ New(s)
  <2>1. CASE S(s) \subseteq {WantedId(b, t, s)} /\ s \in DOMAIN b
    <3>1. b2[s] = b[s]
      BY <1>1, <2>1 DEF CalendarAdopted
    <3>. QED BY <2>1, <3>1 DEF WantedId
  <2>2. CASE ~(S(s) \subseteq {WantedId(b, t, s)} /\ s \in DOMAIN b)
    <3>. DEFINE i == CHOOSE i \in S(s) : TRUE
    <3>1. b2[s] = [id |-> i, gen |-> GenerationOf(b, s)]
      BY <1>1, <2>2 DEF CalendarAdopted
    <3>2. S(s) # {}
      BY <1>1, <2>2
    <3>3. i \in S(s)
      BY <3>2
    <3>. HIDE DEF i
    <3>4. S(s) = {i}
      BY <1>2, <1>3, <3>3
    <3>. HIDE DEF S
    <3>. QED BY <3>1, <3>4
  <2>. QED BY <2>1, <2>2
<1>5. \A s \in DOMAIN b2 : Old(s) => S(s) = {} \/ S(s) = {b2[s].id}
  OBVIOUS
<1>6. \A p \in ToSet(events), q \in ToSet(events) : p # q => S(p) \cap S(q) = {}
  BY StandingApart
<1>7. ASSUME NEW q \in DOMAIN b, b[q].id \in DOMAIN c.events PROVE S(q) = {b[q].id}
  BY <1>7 DEF Standing, WantedId
<1>8. ~NamesTwice(b2)
  <2>. SUFFICES ASSUME NEW p \in DOMAIN b2, NEW q \in DOMAIN b2, p # q, b2[p].id = b2[q].id
                PROVE  FALSE
    BY DEF NamesTwice
  <2>. HIDE DEF S
  <2>1. CASE Old(p) /\ Old(q)
    BY <2>1 DEF OwnIds, NamesTwice
  <2>2. ASSUME NEW x \in DOMAIN b2, NEW y \in DOMAIN b2, x # y, b2[x].id = b2[y].id, New(x)
        PROVE  FALSE
    <3>1. b2[x].id \in S(x) /\ b2[x].id \in DOMAIN c.events
      BY <1>2, <1>3, <2>2
    <3>2. CASE New(y)
      BY <1>2, <1>6, <2>2, <3>2
    <3>3. CASE Old(y)
      <4>1. S(y) = {b2[x].id}
        BY <1>7, <2>2, <3>1, <3>3
      <4>. QED BY <1>2, <1>6, <2>2, <3>1, <4>1
    <3>. QED BY <1>4, <3>2, <3>3
  <2>. QED BY <1>4, <2>1, <2>2
<1>9. ASSUME NEW s \in DOMAIN b2
      PROVE  b2[s] = [id |-> b2[s].id, gen |-> b2[s].gen] /\ (b2[s].id[1] # 0 => b2[s].id[2] = s)
  <2>. HIDE DEF S
  <2>1. CASE Old(s)
    BY <2>1 DEF OwnIds
  <2>2. CASE New(s)
    BY <1>2, <1>3, <2>2
  <2>. QED BY <1>4, <2>1, <2>2
<1>10. OwnIds(b2)
  <2>1. b2 = [s \in DOMAIN b2 |-> b2[s]]
    BY DEF CalendarAdopted
  <2>. QED BY <1>8, <1>9, <2>1 DEF OwnIds
<1>11. ASSUME NEW a \in CalendarPlan(c, b, t, events).todo
       PROVE  \/ a.do = "insert" /\ a.src \in ToSet(events) /\ S(a.src) = {}
              \/ a.do = "update" /\ a.src \in ToSet(events) /\ a.id \in S(a.src)
              \/ a.do = "delete"
  BY <1>11 DEF CalendarPlan
<1>. HIDE DEF S
<1>12. ASSUME NEW a \in CalendarPlan(c, b, t, events).todo, a.do = "update"
       PROVE  a.src \in DOMAIN b2 /\ b2[a.src].id = a.id
  <2>1. a.src \in ToSet(events) /\ a.id \in S(a.src)
    BY <1>11, <1>12
  <2>2. S(a.src) = {a.id} /\ a.src \in DOMAIN b2
    BY <1>1, <1>3, <2>1
  <2>3. Old(a.src) \/ New(a.src)
    BY <1>4, <2>2
  <2>4. b2[a.src].id = a.id
    BY <2>2, <2>3
  <2>. QED BY <2>2, <2>4
<1>. QED BY <1>2, <1>10, <1>11, <1>12 DEF CalendarTodo

LEMMA CalendarSeedPlans ==
  ASSUME NEW b, NEW events
  PROVE  CalendarTodo(CalendarSeedTodo(b, events), b, events)
BY DEF CalendarTodo, CalendarSeedTodo

-----------------------------------------------------------------------------
(* Fresh names.                                                            *)

LEMMA ImageIsFinite ==
  ASSUME NEW S, IsFiniteSet(S), NEW f, S \subseteq DOMAIN f
  PROVE  IsFiniteSet({f[x] : x \in S})
<1>. DEFINE T == {f[x] : x \in S}
            g == [x \in S |-> f[x]]
<1>1. g \in Surjection(S, T)
  BY DEF Surjection
<1>. HIDE DEF g, T
<1>2. IsFiniteSet(T)
  BY <1>1, FS_Surjection
<1>. QED BY <1>2 DEF T

LEMMA UnionIsFinite ==
  ASSUME NEW S, IsFiniteSet(S), NEW f, S \subseteq DOMAIN f, \A x \in S : IsFiniteSet(f[x])
  PROVE  IsFiniteSet(UNION {f[x] : x \in S})
<1>1. IsFiniteSet({f[x] : x \in S})
  BY ImageIsFinite
<1>. QED BY <1>1, FS_UNION

LEMMA PathsAreFinite ==
  ASSUME NEW a, IsArchive(a)
  PROVE  IsFiniteSet(Paths(a.files)) /\ IsFiniteSet(Letters(a)) /\ IsFiniteSet(ToSet(a.events))
<1>. DEFINE F == [p \in a.files |-> {SubSeq(p, 1, n) : n \in 1 .. Len(p) - 1}]
<1>1. ASSUME NEW p \in a.files PROVE IsFiniteSet(F[p])
  <2>. DEFINE G == [n \in 1 .. Len(p) - 1 |-> SubSeq(p, 1, n)]
              D == 1 .. Len(p) - 1
  <2>1. Len(p) \in Nat
    BY DEF IsArchive
  <2>2. IsFiniteSet(D)
    BY <2>1, FS_Interval
  <2>3. D \subseteq DOMAIN G
    OBVIOUS
  <2>4. F[p] = {G[n] : n \in D}
    OBVIOUS
  <2>. HIDE DEF F, G, D
  <2>. QED BY <2>2, <2>3, <2>4, ImageIsFinite
<1>2. Folders(a.files) = UNION {F[p] : p \in a.files} /\ DOMAIN F = a.files
  BY DEF Folders
<1>. HIDE DEF F
<1>3. IsFiniteSet(Folders(a.files))
  BY <1>1, <1>2, UnionIsFinite DEF IsArchive
<1>4. IsFiniteSet(Paths(a.files))
  BY <1>3, FS_Union DEF Paths, IsArchive
<1>5. ASSUME NEW S, NEW q \in Seq(S) PROVE IsFiniteSet(ToSet(q))
  <2>. DEFINE D == DOMAIN q
  <2>1. D = 1 .. Len(q) /\ Len(q) \in Nat
    OBVIOUS
  <2>2. IsFiniteSet(D)
    BY <2>1, FS_Interval
  <2>. QED BY <2>2, ImageIsFinite DEF ToSet
<1>6. IsFiniteSet(ToSet(a.letters)) /\ IsFiniteSet(ToSet(a.events))
  BY <1>5 DEF IsArchive
<1>. QED BY <1>4, <1>6 DEF Letters

IdsAreFinite(b) == IsFiniteSet(DriveIdsOf(b)) /\ IsFiniteSet(MailIdsOf(b))

LEMMA BookIdsAreFinite ==
  ASSUME NEW a, IsArchive(a), NEW b, b = NoBook \/ IsBook(b, a)
  PROVE  IdsAreFinite(b)
<1>1. CASE b.tag = 0
  BY <1>1, FS_EmptySet DEF IdsAreFinite, DriveIdsOf, MailIdsOf
<1>2. CASE b.tag # 0
  <2>1. IsBook(b, a)
    BY <1>2 DEF NoBook
  <2>. DEFINE D == DOMAIN b.drive
              f == [p \in D |-> b.drive[p].id]
              E == DOMAIN b.mail.messages
              g == [s \in E |-> {b.mail.messages[s].id, b.mail.messages[s].thread}]
  <2>2. IsFiniteSet(D) /\ IsFiniteSet(E)
    BY <2>1, PathsAreFinite, FS_Subset DEF IsBook
  <2>3. DriveIdsOf(b) = {f[p] : p \in D} /\ D \subseteq DOMAIN f
    BY <1>2 DEF DriveIdsOf
  <2>. DEFINE W == {{e.id, e.thread} : e \in Range(b.mail.messages)}
  <2>4. W = {g[s] : s \in E} /\ E \subseteq DOMAIN g
    BY DEF Range
  <2>5. ASSUME NEW s \in E PROVE IsFiniteSet(g[s])
    <3>. DEFINE x == b.mail.messages[s].id
                y == b.mail.messages[s].thread
    <3>1. g[s] = {x} \cup {y}
      OBVIOUS
    <3>. HIDE DEF g, x, y
    <3>2. IsFiniteSet({x})
      BY FS_Singleton
    <3>3. IsFiniteSet({x} \cup {y})
      BY <3>2, FS_AddElement
    <3>. QED BY <3>1, <3>3
  <2>. HIDE DEF D, E, f, g, W
  <2>6. IsFiniteSet(UNION W)
    BY <2>2, <2>4, <2>5, UnionIsFinite
  <2>7. IsFiniteSet(MailIdsOf(b))
    <3>. DEFINE V == UNION W
    <3>1. MailIdsOf(b) = {b.mail.label} \cup V
      BY <1>2 DEF MailIdsOf, W
    <3>2. MailIdsOf(b) = V \cup {b.mail.label}
      BY <3>1
    <3>. HIDE DEF V
    <3>. QED BY <2>6, <3>2, FS_AddElement DEF V
  <2>8. IsFiniteSet(DriveIdsOf(b))
    BY <2>2, <2>3, ImageIsFinite
  <2>. QED BY <2>7, <2>8 DEF IdsAreFinite
<1>. QED BY <1>1, <1>2

\* A book has no entry for n.
NewInDrive(b, n) == b # NoBook => \A q \in DOMAIN b.drive : b.drive[q].id # n
NewInMail(b, n) == b # NoBook => \A r \in DOMAIN b.mail.messages : b.mail.messages[r].id # n

LEMMA NewInBook ==
  ASSUME NEW a, NEW b, b = NoBook \/ IsBook(b, a), NEW n
  PROVE  /\ n \notin DriveIdsOf(b) => NewInDrive(b, n)
         /\ n \notin MailIdsOf(b) => NewInMail(b, n)
<1>1. b # NoBook => b.tag # 0
  BY DEF IsBook
<1>. QED BY <1>1 DEF DriveIdsOf, MailIdsOf, NewInDrive, NewInMail, Range

LEMMA SomeNewName ==
  ASSUME NEW a, IsArchive(a), NEW b, b = NoBook \/ IsBook(b, a)
  PROVE  \E n : NewInDrive(b, n) /\ NewInMail(b, n)
<1>. DEFINE U == DriveIdsOf(b) \cup MailIdsOf(b)
<1>1. IsFiniteSet(U)
  BY BookIdsAreFinite, FS_Union DEF IdsAreFinite
<1>2. Least(U) \notin U
  BY <1>1, LeastIsFresh
<1>. QED BY <1>2, NewInBook

LEMMA StateArchive ==
  ASSUME IInv
  PROVE  IsArchive(archive)
BY ArchivesAssumption DEF IInv, IsState

LEMMA MemoryIs ==
  ASSUME IInv, run.cmd # "reset"
  PROVE  Memory = NoBook \/ (IsBook(Memory, archive) /\ Memory = run.mem)
<1>1. CASE run = Idle
  BY <1>1 DEF Idle, Memory
<1>2. CASE run # Idle
  <2>1. IsRun(run, book, archive, drive, mail)
    BY <1>2 DEF IInv, IsState
  <2>2. "mem" \in DOMAIN run
    BY <2>1 DEF IsRun
  <2>. QED BY <2>1, <2>2 DEF IsRun, GoodBook, Memory
<1>. QED BY <1>1, <1>2

\* What Drive and Gmail name anew is not named yet.
LEMMA NewIds ==
  ASSUME IInv, run.cmd # "reset"
  PROVE  /\ NewDriveId \in Nat \ {Root}
         /\ NewDriveId \notin DOMAIN drive /\ NewMailId \notin DOMAIN mail.messages
         /\ NewInDrive(book, NewDriveId) /\ NewInMail(book, NewMailId)
         /\ run # Idle => NewInDrive(run.mem, NewDriveId) /\ NewInMail(run.mem, NewMailId)
<1>. DEFINE Ub == DriveIdsOf(book)
            Um == DriveIdsOf(Memory)
            U == DOMAIN drive \cup Ub \cup Um
            Vb == MailIdsOf(book)
            Vm == MailIdsOf(Memory)
            threads == {mail.messages[i].thread : i \in DOMAIN mail.messages}
            V == DOMAIN mail.messages \cup threads \cup DOMAIN mail.labels \cup Vb \cup Vm
<1>1. book = NoBook \/ IsBook(book, archive)
  BY DEF IInv, IsState, GoodBook
<1>2. Memory = NoBook \/ IsBook(Memory, archive)
  BY MemoryIs
<1>3. IsFiniteSet(Ub) /\ IsFiniteSet(Um) /\ IsFiniteSet(Vb) /\ IsFiniteSet(Vm)
  BY <1>1, <1>2, StateArchive, BookIdsAreFinite DEF IdsAreFinite
<1>4. IsFiniteSet(DOMAIN drive) /\ IsFiniteSet(DOMAIN mail.messages) /\ IsFiniteSet(DOMAIN mail.labels)
  BY DEF IInv, IsState, IsDrive, IsMailbox, IsLabels
<1>5. IsFiniteSet(threads)
  <2>. DEFINE D == DOMAIN mail.messages
              f == [i \in D |-> mail.messages[i].thread]
  <2>1. threads = {f[i] : i \in D} /\ D \subseteq DOMAIN f
    OBVIOUS
  <2>. HIDE DEF f, threads
  <2>. QED BY <1>4, <2>1, ImageIsFinite
<1>. HIDE DEF Ub, Um, Vb, Vm, threads
<1>6. IsFiniteSet(U)
  <2>1. IsFiniteSet(DOMAIN drive \cup Ub)
    BY <1>3, <1>4, FS_Union
  <2>. QED BY <1>3, <2>1, FS_Union
<1>7. IsFiniteSet(V)
  <2>1. IsFiniteSet(DOMAIN mail.messages \cup threads)
    BY <1>4, <1>5, FS_Union
  <2>2. IsFiniteSet(DOMAIN mail.messages \cup threads \cup DOMAIN mail.labels)
    BY <1>4, <2>1, FS_Union
  <2>3. IsFiniteSet(DOMAIN mail.messages \cup threads \cup DOMAIN mail.labels \cup Vb)
    BY <1>3, <2>2, FS_Union
  <2>. QED BY <1>3, <2>3, FS_Union
<1>8. NewDriveId = Least(U) /\ NewMailId = Least(V)
  BY DEF NewDriveId, NewMailId, Ub, Um, Vb, Vm, threads
<1>9. /\ NewDriveId \in Nat \ {0} /\ NewDriveId \notin Ub /\ NewDriveId \notin Um
      /\ NewMailId \notin Vb /\ NewMailId \notin Vm
      /\ NewDriveId \notin DOMAIN drive /\ NewMailId \notin DOMAIN mail.messages
  <2>1. Least(U) \in Nat \ {0} /\ Least(U) \notin U /\ Least(V) \notin V
    BY <1>6, <1>7, LeastIsFresh
  <2>. QED BY <1>8, <2>1
<1>10. /\ NewInDrive(book, NewDriveId) /\ NewInMail(book, NewMailId)
       /\ NewInDrive(Memory, NewDriveId) /\ NewInMail(Memory, NewMailId)
  BY <1>1, <1>2, <1>9, NewInBook DEF Ub, Um, Vb, Vm
<1>11. run # Idle => Memory = run.mem
  <2>. SUFFICES ASSUME run # Idle PROVE Memory = run.mem
    OBVIOUS
  <2>1. IsRun(run, book, archive, drive, mail)
    BY DEF IInv, IsState
  <2>2. "mem" \in DOMAIN run
    BY <2>1 DEF IsRun
  <2>. QED BY <2>2 DEF Memory
<1>. QED BY <1>9, <1>10, <1>11 DEF Root

\* A seed tag is not 0, and on no object of Drive yet.
LEMMA NewTagIs ==
  ASSUME IInv
  PROVE  NewTag \in Nat \ {0} /\ \A i \in DOMAIN drive : drive[i].mark.tag # NewTag
<1>. DEFINE A == {drive[i].mark.tag : i \in DOMAIN drive}
            B == Range(mail.labels)
            C == {cal.events[i].tag : i \in DOMAIN cal.events}
            D == {i[1] : i \in DOMAIN cal.events \cup cal.gone}
            E == DOMAIN cal.events \cup cal.gone
<1>1. IsFiniteSet(DOMAIN drive) /\ IsFiniteSet(DOMAIN mail.labels)
      /\ IsFiniteSet(DOMAIN cal.events) /\ IsFiniteSet(cal.gone)
  BY DEF IInv, IsState, IsDrive, IsMailbox, IsLabels, IsCalendar
<1>2. IsFiniteSet(A)
  <2>. DEFINE f == [i \in DOMAIN drive |-> drive[i].mark.tag]
  <2>1. A = {f[i] : i \in DOMAIN drive} /\ DOMAIN drive \subseteq DOMAIN f
    OBVIOUS
  <2>. HIDE DEF f, A
  <2>. QED BY <1>1, <2>1, ImageIsFinite
<1>3. IsFiniteSet(B)
  BY <1>1, ImageIsFinite DEF Range
<1>4. IsFiniteSet(C)
  <2>. DEFINE f == [i \in DOMAIN cal.events |-> cal.events[i].tag]
  <2>1. C = {f[i] : i \in DOMAIN cal.events} /\ DOMAIN cal.events \subseteq DOMAIN f
    OBVIOUS
  <2>. HIDE DEF f, C
  <2>. QED BY <1>1, <2>1, ImageIsFinite
<1>5. IsFiniteSet(D)
  <2>. DEFINE f == [i \in E |-> i[1]]
  <2>1. D = {f[i] : i \in E} /\ E \subseteq DOMAIN f
    OBVIOUS
  <2>2. IsFiniteSet(E)
    BY <1>1, FS_Union
  <2>. HIDE DEF f, D, E
  <2>. QED BY <2>1, <2>2, ImageIsFinite
<1>6. NewTag = Least(A \cup B \cup C \cup D \cup {book.tag})
  BY DEF NewTag
<1>. HIDE DEF A, B, C, D
<1>7. IsFiniteSet(A \cup B)
  BY <1>2, <1>3, FS_Union
<1>8. IsFiniteSet(A \cup B \cup C)
  BY <1>4, <1>7, FS_Union
<1>9. IsFiniteSet(A \cup B \cup C \cup D)
  BY <1>5, <1>8, FS_Union
<1>10. IsFiniteSet(A \cup B \cup C \cup D \cup {book.tag})
  BY <1>9, FS_AddElement
<1>11. NewTag \in Nat \ {0} /\ NewTag \notin A
  BY <1>6, <1>10, LeastIsFresh
<1>. QED BY <1>11 DEF A

-----------------------------------------------------------------------------
(* A manifest and a running command with one part changed.                 *)

\* The rest of the manifest is as it was.
SameDrive(b, c) == b.tag = c.tag /\ b.drive = c.drive
SameMail(b, c) == b.mail = c.mail
SameCalendar(b, c) == b.cal = c.cal

LEMMA BookDone ==
  ASSUME NEW a, NEW b, IsBook(b, a), NEW x, NEW b2, b2 = [b EXCEPT !.done = x]
  PROVE  IsBook(b2, a) /\ SameDrive(b2, b) /\ SameMail(b2, b) /\ SameCalendar(b2, b)
<1>1. b = [tag |-> b.tag, stamp |-> b.stamp, done |-> b.done, drive |-> b.drive,
           mail |-> b.mail, cal |-> b.cal]
  BY DEF IsBook
<1>2. b2 = [tag |-> b.tag, stamp |-> b.stamp, done |-> x, drive |-> b.drive,
            mail |-> b.mail, cal |-> b.cal]
  BY ONLY <1>1, b2 = [b EXCEPT !.done = x]
<1>3. /\ b2 = [tag |-> b2.tag, stamp |-> b2.stamp, done |-> b2.done, drive |-> b2.drive,
               mail |-> b2.mail, cal |-> b2.cal]
      /\ b2.tag = b.tag /\ b2.drive = b.drive /\ b2.mail = b.mail /\ b2.cal = b.cal
  BY ONLY <1>2
<1>. QED BY ONLY <1>3, IsBook(b, a) DEF IsBook, SameDrive, SameMail, SameCalendar

LEMMA BookDrive ==
  ASSUME NEW a, NEW b, IsBook(b, a), NEW x, DOMAIN x \subseteq Paths(a.files),
         NEW b2, b2 = [b EXCEPT !.drive = x]
  PROVE  /\ IsBook(b2, a) /\ SameMail(b2, b) /\ SameCalendar(b2, b)
         /\ b2.tag = b.tag /\ b2.drive = x
<1>1. b = [tag |-> b.tag, stamp |-> b.stamp, done |-> b.done, drive |-> b.drive,
           mail |-> b.mail, cal |-> b.cal]
  BY DEF IsBook
<1>2. b2 = [tag |-> b.tag, stamp |-> b.stamp, done |-> b.done, drive |-> x,
            mail |-> b.mail, cal |-> b.cal]
  BY ONLY <1>1, b2 = [b EXCEPT !.drive = x]
<1>3. /\ b2 = [tag |-> b2.tag, stamp |-> b2.stamp, done |-> b2.done, drive |-> b2.drive,
               mail |-> b2.mail, cal |-> b2.cal]
      /\ b2.tag = b.tag /\ b2.drive = x /\ b2.mail = b.mail /\ b2.cal = b.cal
  BY ONLY <1>2
<1>. QED BY ONLY <1>3, IsBook(b, a), DOMAIN x \subseteq Paths(a.files)
         DEF IsBook, SameMail, SameCalendar

LEMMA BookMail ==
  ASSUME NEW a, NEW b, IsBook(b, a), NEW x, IsMailBook(x, a),
         NEW b2, b2 = [b EXCEPT !.mail = x]
  PROVE  /\ IsBook(b2, a) /\ SameDrive(b2, b) /\ SameCalendar(b2, b)
         /\ b2.mail = x
<1>1. b = [tag |-> b.tag, stamp |-> b.stamp, done |-> b.done, drive |-> b.drive,
           mail |-> b.mail, cal |-> b.cal]
  BY DEF IsBook
<1>2. b2 = [tag |-> b.tag, stamp |-> b.stamp, done |-> b.done, drive |-> b.drive,
            mail |-> x, cal |-> b.cal]
  BY ONLY <1>1, b2 = [b EXCEPT !.mail = x]
<1>3. /\ b2 = [tag |-> b2.tag, stamp |-> b2.stamp, done |-> b2.done, drive |-> b2.drive,
               mail |-> b2.mail, cal |-> b2.cal]
      /\ b2.tag = b.tag /\ b2.drive = b.drive /\ b2.mail = x /\ b2.cal = b.cal
  BY ONLY <1>2
<1>. QED BY ONLY <1>3, IsBook(b, a), IsMailBook(x, a)
         DEF IsBook, IsMailBook, SameDrive, SameCalendar

LEMMA BookCalendar ==
  ASSUME NEW a, NEW b, IsBook(b, a), NEW x, DOMAIN x \subseteq ToSet(a.events),
         NEW b2, b2 = [b EXCEPT !.cal = x]
  PROVE  /\ IsBook(b2, a) /\ SameDrive(b2, b) /\ SameMail(b2, b)
         /\ b2.cal = x
<1>1. b = [tag |-> b.tag, stamp |-> b.stamp, done |-> b.done, drive |-> b.drive,
           mail |-> b.mail, cal |-> b.cal]
  BY DEF IsBook
<1>2. b2 = [tag |-> b.tag, stamp |-> b.stamp, done |-> b.done, drive |-> b.drive,
            mail |-> b.mail, cal |-> x]
  BY ONLY <1>1, b2 = [b EXCEPT !.cal = x]
<1>3. /\ b2 = [tag |-> b2.tag, stamp |-> b2.stamp, done |-> b2.done, drive |-> b2.drive,
               mail |-> b2.mail, cal |-> b2.cal]
      /\ b2.tag = b.tag /\ b2.drive = b.drive /\ b2.mail = b.mail /\ b2.cal = x
  BY ONLY <1>2
<1>. QED BY ONLY <1>3, IsBook(b, a), DOMAIN x \subseteq ToSet(a.events)
         DEF IsBook, SameDrive, SameMail

\* A part that is put back as it was changes nothing.
LEMMA BookSame ==
  ASSUME NEW a, NEW b, IsBook(b, a)
  PROVE  /\ [b EXCEPT !.drive = b.drive] = b /\ [b EXCEPT !.mail = b.mail] = b
         /\ [b EXCEPT !.cal = b.cal] = b
<1>1. b = [tag |-> b.tag, stamp |-> b.stamp, done |-> b.done, drive |-> b.drive,
           mail |-> b.mail, cal |-> b.cal]
  BY DEF IsBook
<1>2. DOMAIN b = {"tag", "stamp", "done", "drive", "mail", "cal"}
  BY ONLY <1>1
<1>. QED BY ONLY <1>1, <1>2

IsRunRecord(r) ==
  r = [cmd |-> r.cmd, svcs |-> r.svcs, left |-> r.left, open |-> r.open,
       todo |-> r.todo, mem |-> r.mem, twice |-> r.twice]

LEMMA RunIs ==
  ASSUME NEW c, NEW s, NEW l, NEW o, NEW t, NEW b, NEW x, NEW r,
         r = [cmd |-> c, svcs |-> s, left |-> l, open |-> o, todo |-> t, mem |-> b, twice |-> x]
  PROVE  /\ IsRunRecord(r) /\ r.cmd = c /\ r.left = l /\ r.open = o /\ r.todo = t /\ r.mem = b
         /\ r.twice = x
<1>1. r.cmd = c /\ r.svcs = s /\ r.left = l /\ r.open = o /\ r.todo = t /\ r.mem = b /\ r.twice = x
  BY ONLY r = [cmd |-> c, svcs |-> s, left |-> l, open |-> o, todo |-> t, mem |-> b, twice |-> x]
<1>. QED BY <1>1 DEF IsRunRecord

\* A run that opens, does a call, or goes on to the next service.
RunOpened(r, o, t, b, x) == [r EXCEPT !.open = o, !.todo = t, !.mem = b, !.twice = x]
RunAfter(r, t, b) == [r EXCEPT !.todo = t, !.mem = b]
RunOnward(r, l, o) == [r EXCEPT !.left = l, !.open = o]
RunWiped(r, l) == [r EXCEPT !.left = l]

LEMMA RunOpens ==
  ASSUME NEW r, IsRunRecord(r), NEW o, NEW t, NEW b, NEW x, NEW r2,
         r2 = RunOpened(r, o, t, b, x)
  PROVE  /\ IsRunRecord(r2) /\ r2.cmd = r.cmd /\ r2.left = r.left /\ r2.open = o
         /\ r2.todo = t /\ r2.mem = b /\ r2.twice = x
<1>1. r = [cmd |-> r.cmd, svcs |-> r.svcs, left |-> r.left, open |-> r.open,
           todo |-> r.todo, mem |-> r.mem, twice |-> r.twice]
  BY DEF IsRunRecord
<1>2. r2 = [cmd |-> r.cmd, svcs |-> r.svcs, left |-> r.left, open |-> o,
            todo |-> t, mem |-> b, twice |-> x]
  BY ONLY <1>1, r2 = RunOpened(r, o, t, b, x) DEF RunOpened
<1>. QED BY <1>2, RunIs

LEMMA RunDid ==
  ASSUME NEW r, IsRunRecord(r), NEW t, NEW b, NEW r2, r2 = RunAfter(r, t, b)
  PROVE  /\ IsRunRecord(r2) /\ r2.cmd = r.cmd /\ r2.left = r.left /\ r2.open = r.open
         /\ r2.todo = t /\ r2.mem = b /\ r2.twice = r.twice
<1>1. r = [cmd |-> r.cmd, svcs |-> r.svcs, left |-> r.left, open |-> r.open,
           todo |-> r.todo, mem |-> r.mem, twice |-> r.twice]
  BY DEF IsRunRecord
<1>2. r2 = [cmd |-> r.cmd, svcs |-> r.svcs, left |-> r.left, open |-> r.open,
            todo |-> t, mem |-> b, twice |-> r.twice]
  BY ONLY <1>1, r2 = RunAfter(r, t, b) DEF RunAfter
<1>. QED BY <1>2, RunIs

LEMMA RunMoves ==
  ASSUME NEW r, IsRunRecord(r), NEW l, NEW o, NEW r2, r2 = RunOnward(r, l, o)
  PROVE  IsRunRecord(r2) /\ r2.cmd = r.cmd /\ r2.left = l /\ r2.mem = r.mem /\ r2.open = o
<1>1. r = [cmd |-> r.cmd, svcs |-> r.svcs, left |-> r.left, open |-> r.open,
           todo |-> r.todo, mem |-> r.mem, twice |-> r.twice]
  BY DEF IsRunRecord
<1>2. r2 = [cmd |-> r.cmd, svcs |-> r.svcs, left |-> l, open |-> o,
            todo |-> r.todo, mem |-> r.mem, twice |-> r.twice]
  BY ONLY <1>1, r2 = RunOnward(r, l, o) DEF RunOnward
<1>. QED BY <1>2, RunIs

LEMMA RunWipes ==
  ASSUME NEW r, IsRunRecord(r), NEW l, NEW r2, r2 = RunWiped(r, l)
  PROVE  IsRunRecord(r2) /\ r2.cmd = r.cmd /\ r2.mem = r.mem /\ r2.open = r.open
<1>1. r = [cmd |-> r.cmd, svcs |-> r.svcs, left |-> r.left, open |-> r.open,
           todo |-> r.todo, mem |-> r.mem, twice |-> r.twice]
  BY DEF IsRunRecord
<1>2. r2 = [cmd |-> r.cmd, svcs |-> r.svcs, left |-> l, open |-> r.open,
            todo |-> r.todo, mem |-> r.mem, twice |-> r.twice]
  BY ONLY <1>1, r2 = RunWiped(r, l) DEF RunWiped
<1>. QED BY <1>2, RunIs

-----------------------------------------------------------------------------
(* What every step keeps.                                                  *)

\* What holds of the account and of the manifest on disk.
IsWorld(a, w, m, c, b) ==
  /\ a \in Archives /\ IsDrive(w) /\ IsMailbox(m) /\ IsCalendar(c)
  /\ b = NoBook \/ GoodBook(b, a, w, m)

\* What holds of a seed or a delta that is at service s, whether it has opened it or not.
IsAt(r, b, a, w, m) ==
  /\ IsRunRecord(r) /\ r.cmd \in {"seed", "delta"}
  /\ GoodBook(r.mem, a, w, m)
  /\ b = r.mem \/ (b = NoBook /\ r.mem.drive = <<>>)

LEMMA CommandIs ==
  ASSUME IInv, run.cmd # "none", run.cmd # "reset"
  PROVE  /\ IsWorld(archive, drive, mail, cal, book) /\ IsArchive(archive)
         /\ IsAt(run, book, archive, drive, mail)
         /\ NewDriveId \in Nat \ {Root}
         /\ NewInDrive(book, NewDriveId) /\ NewInMail(book, NewMailId)
         /\ NewInDrive(run.mem, NewDriveId) /\ NewInMail(run.mem, NewMailId)
         /\ NewDriveId \notin DOMAIN drive /\ NewMailId \notin DOMAIN mail.messages
<1>1. run # Idle
  BY DEF Idle
<1>2. IsRun(run, book, archive, drive, mail)
  BY <1>1 DEF IInv, IsState
<1>3. IsAt(run, book, archive, drive, mail)
  BY <1>2 DEF IsRun, IsAt, IsRunRecord
<1>4. IsWorld(archive, drive, mail, cal, book)
  BY DEF IInv, IsState, IsWorld
<1>. QED BY <1>1, <1>3, <1>4, NewIds, StateArchive

\* A command that is over leaves an account and a manifest.
LEMMA Ends ==
  ASSUME IsWorld(archive', drive', mail', cal', book'), run' = Idle
  PROVE  IInv'
BY DEF IInv, IsState, IsWorld

\* The manifest on disk is the one in memory, so what keeps the one keeps the other.
LEMMA BookMoves ==
  ASSUME NEW r, NEW b, NEW a, NEW w, NEW m, IsAt(r, b, a, w, m),
         NEW w2, OwnMarks(w2, r.mem.drive, r.mem.tag), NEW m2, OwnMail(m2, r.mem.mail)
  PROVE  b = NoBook \/ GoodBook(b, a, w2, m2)
BY DEF IsAt, GoodBook

LEMMA AtKeeps ==
  ASSUME NEW r, NEW b, NEW a, NEW w, NEW m, IsAt(r, b, a, w, m)
  PROVE  /\ IsBook(r.mem, a) /\ r.mem.tag \in Nat \ {0} /\ r.mem # NoBook
         /\ OwnMarks(w, r.mem.drive, r.mem.tag) /\ OwnMail(m, r.mem.mail)
         /\ OwnIds(r.mem.cal)
         /\ DOMAIN r.mem.drive \subseteq Paths(a.files)
         /\ IsMailBook(r.mem.mail, a) /\ DOMAIN r.mem.cal \subseteq ToSet(a.events)
<1>1. IsBook(r.mem, a) /\ OwnMarks(w, r.mem.drive, r.mem.tag) /\ OwnMail(m, r.mem.mail)
      /\ OwnIds(r.mem.cal)
  BY DEF IsAt, GoodBook
<1>2. r.mem.tag \in Nat \ {0}
  BY <1>1 DEF IsBook
<1>3. r.mem # NoBook
  BY <1>2 DEF NoBook
<1>. QED BY <1>1, <1>2, <1>3 DEF IsBook, IsMailBook

-----------------------------------------------------------------------------
(* How a command starts and ends.                                          *)

LEMMA NewBookIs ==
  ASSUME NEW t \in Nat \ {0}, NEW a, NEW w, NEW m
  PROVE  GoodBook(NewBook(t), a, w, m) /\ NewBook(t).drive = <<>>
<1>. DEFINE b == NewBook(t)
<1>1. /\ b.tag = t /\ b.drive = <<>> /\ b.mail = EmptyMailBook /\ b.cal = <<>>
      /\ b = [tag |-> b.tag, stamp |-> b.stamp, done |-> b.done, drive |-> b.drive,
              mail |-> b.mail, cal |-> b.cal]
  BY DEF NewBook
<1>2. /\ EmptyMailBook = [label |-> EmptyMailBook.label, messages |-> EmptyMailBook.messages]
      /\ EmptyMailBook.messages = <<>>
  BY DEF EmptyMailBook
<1>. HIDE DEF b
<1>3. DOMAIN <<>> = {}
  OBVIOUS
<1>4. ~NamesTwice(<<>>)
  BY <1>3 DEF NamesTwice
<1>5. <<>> = [s \in DOMAIN <<>> |-> <<>>[s]]
  OBVIOUS
<1>6. OwnIds(<<>>) /\ OwnMarks(w, <<>>, t)
  BY <1>3, <1>4, <1>5 DEF OwnIds, OwnMarks
<1>7. OwnMail(m, b.mail)
  BY <1>1, <1>2, <1>3, <1>4 DEF OwnMail
<1>8. IsBook(b, a)
  BY <1>1, <1>2, <1>3 DEF IsBook
<1>. QED BY <1>1, <1>6, <1>7, <1>8 DEF GoodBook, b

LEMMA Starts ==
  ASSUME IInv, UNCHANGED <<archive, drive, mail, cal, book>>, NEW cmd, NEW svcs, NEW b,
         Start(cmd, svcs, b),
         \/ cmd = "reset"
         \/ /\ cmd \in {"seed", "delta"} /\ GoodBook(b, archive, drive, mail)
            /\ book = b \/ (book = NoBook /\ b.drive = <<>>)
  PROVE  IInv'
<1>1. run' = [cmd |-> cmd, svcs |-> svcs, left |-> InOrder(cmd, svcs), open |-> FALSE,
              todo |-> {}, mem |-> b, twice |-> FALSE]
  BY DEF Start
<1>2. IsRunRecord(run') /\ run'.cmd = cmd /\ run'.open = FALSE /\ run'.mem = b
  BY <1>1, RunIs
<1>3. IsRun(run', book', archive', drive', mail')
  <2>1. \A s : ~Amid(run', s)
    BY <1>2 DEF Amid
  <2>. QED BY <1>2, <2>1 DEF IsRun, IsRunRecord
<1>. QED BY <1>3 DEF IInv, IsState

LEMMA StartsKeep ==
  ASSUME IInv, NEW svcs, StartSeed(svcs) \/ StartDelta(svcs) \/ StartReset(svcs)
  PROVE  IInv'
<1>1. UNCHANGED <<archive, drive, mail, cal, book>>
  BY DEF StartSeed, StartDelta, StartReset, Command, worlds
<1>2. ASSUME NEW cmd, Refuse(cmd, svcs) PROVE IInv'
  BY <1>1, <1>2 DEF Refuse, IInv, IsState
<1>3. book = NoBook \/ GoodBook(book, archive, drive, mail)
  BY DEF IInv, IsState
<1>4. CASE StartSeed(svcs)
  <2>1. GoodBook(NewBook(NewTag), archive, drive, mail) /\ NewBook(NewTag).drive = <<>>
    BY NewTagIs, NewBookIs
  <2>. DEFINE n == NewBook(NewTag)
  <2>2. \/ Refuse("seed", svcs)
        \/ book = NoBook /\ Start("seed", svcs, n)
        \/ book # NoBook /\ Start("seed", svcs, book)
    BY <1>4 DEF StartSeed
  <2>. HIDE DEF n
  <2>. QED BY <1>1, <1>2, <1>3, <2>1, <2>2, Starts DEF n
<1>5. CASE StartDelta(svcs)
  <2>1. Refuse("delta", svcs) \/ (book # NoBook /\ Start("delta", svcs, book))
    BY <1>5 DEF StartDelta
  <2>. QED BY <1>1, <1>2, <1>3, <2>1, Starts
<1>6. CASE StartReset(svcs)
  <2>1. Start("reset", svcs, book)
    BY <1>6 DEF StartReset
  <2>. QED BY <1>1, <2>1, Starts
<1>. QED BY <1>4, <1>5, <1>6

LEMMA NextServiceKeeps ==
  ASSUME IInv, NextService
  PROVE  IInv'
<1>1. UNCHANGED <<archive, drive, mail, cal, book>> /\ run # Idle
  BY DEF NextService, worlds, Idle
<1>2. IsRun(run, book, archive, drive, mail)
  BY <1>1 DEF IInv, IsState
<1>. DEFINE l == Tail(run.left)
<1>3. PICK closed : run' = RunOnward(run, l, closed) /\ ~closed
  <2>1. run' = RunOnward(run, l, FALSE)
    BY Zenon DEF NextService, RunOnward
  <2>. HIDE DEF l
  <2>. QED BY <2>1, Zenon
<1>. HIDE DEF l
<1>4. IsRunRecord(run)
  BY <1>2 DEF IsRun, IsRunRecord
<1>5. IsRunRecord(run') /\ run'.cmd = run.cmd /\ run'.mem = run.mem /\ run'.open = closed
  BY <1>3, <1>4, RunMoves
<1>6. IsRun(run', book', archive', drive', mail')
  <2>1. \A s : ~Amid(run', s)
    BY <1>3, <1>5 DEF Amid
  <2>. QED BY <1>1, <1>2, <1>3, <1>5, <2>1 DEF IsRun, IsRunRecord
<1>. QED BY <1>1, <1>6 DEF IInv, IsState

LEMMA FinishesKeep ==
  ASSUME IInv, FinishSeed \/ FinishDelta \/ FinishReset
  PROVE  IInv'
<1>1. UNCHANGED <<archive, drive, mail, cal>> /\ run' = Idle
  BY DEF FinishSeed, FinishDelta, FinishReset, worlds, End
<1>2. IsWorld(archive, drive, mail, cal, book)
  BY DEF IInv, IsState, IsWorld
<1>3. CASE FinishSeed
  <2>1. run.cmd = "seed" /\ book' = [run.mem EXCEPT !.done = TRUE]
    BY <1>3 DEF FinishSeed, Save
  <2>2. IsAt(run, book, archive, drive, mail)
    BY <2>1, CommandIs
  <2>3. IsBook(book', archive) /\ SameDrive(book', run.mem) /\ SameMail(book', run.mem)
        /\ SameCalendar(book', run.mem)
    BY <2>1, <2>2, AtKeeps, BookDone
  <2>4. GoodBook(book', archive, drive, mail)
    BY <2>2, <2>3 DEF IsAt, GoodBook, SameDrive, SameMail, SameCalendar
  <2>. QED BY <1>1, <1>2, <2>4, Ends DEF IsWorld
<1>4. CASE FinishDelta
  <2>1. run.cmd = "delta" /\ (book' = run.mem \/ book' = book)
    BY <1>4 DEF FinishDelta, Save, Keep
  <2>2. IsAt(run, book, archive, drive, mail)
    BY <2>1, CommandIs
  <2>. QED BY <1>1, <1>2, <2>1, <2>2, Ends DEF IsWorld, IsAt
<1>5. CASE FinishReset
  <2>1. book' = NoBook
    BY <1>5 DEF FinishReset, Save
  <2>. QED BY <1>1, <1>2, <2>1, Ends DEF IsWorld
<1>. QED BY <1>3, <1>4, <1>5

-----------------------------------------------------------------------------
(* A service opens.                                                        *)

\* The command that opens service s with a plan by manifest b.
LEMMA Opens ==
  ASSUME run.cmd \in {"seed", "delta"}, IsRunRecord(run),
         NEW s, Opening(s), NEW todo, NEW b, Open(todo, b),
         IsWorld(archive', drive', mail', cal', book'),
         GoodBook(b, archive', drive', mail'),
         book' = b \/ (book' = NoBook /\ b.drive = <<>>),
         s = "drive" => DriveTodo(todo, drive', b.drive, archive'.files),
         s = "gmail" => MailTodo(todo, archive'),
         s = "calendar" => CalendarTodo(todo, b.cal, archive'.events)
  PROVE  IInv'
<1>1. PICK opened, x : run' = RunOpened(run, opened, todo, b, x)
  BY Zenon DEF Open, RunOpened
<1>2. IsRunRecord(run') /\ run'.cmd = run.cmd /\ run'.left = run.left
      /\ run'.todo = todo /\ run'.mem = b
  BY <1>1, RunOpens
<1>3. \A q : Amid(run', q) => q = s
  BY <1>2 DEF Amid, Opening, Here
<1>4. IsRun(run', book', archive', drive', mail')
  <2>1. Amid(run', "drive") => DriveTodo(run'.todo, drive', run'.mem.drive, archive'.files)
    BY <1>2, <1>3
  <2>2. Amid(run', "gmail") => MailTodo(run'.todo, archive')
    BY <1>2, <1>3
  <2>3. Amid(run', "calendar") => CalendarTodo(run'.todo, run'.mem.cal, archive'.events)
    BY <1>2, <1>3
  <2>. QED BY <1>2, <2>1, <2>2, <2>3 DEF IsRun, IsRunRecord
<1>. QED BY <1>4 DEF IInv, IsState, IsWorld

LEMMA OpenDriveSeedKeeps ==
  ASSUME IInv, OpenDriveSeed
  PROVE  IInv'
<1>1. UNCHANGED <<archive, drive, mail, cal, book>> /\ run.cmd = "seed" /\ Opening("drive")
  BY DEF OpenDriveSeed, worlds
<1>2. /\ IsWorld(archive, drive, mail, cal, book) /\ IsAt(run, book, archive, drive, mail)
  BY <1>1, CommandIs
<1>3. CASE run' = Idle
  BY <1>1, <1>2, <1>3, Ends
<1>4. CASE Open(DriveSeedTodo(run.mem.drive, archive.files), run.mem)
  <2>. DEFINE todo == DriveSeedTodo(run.mem.drive, archive.files)
  <2>1. DriveTodo(todo, drive, run.mem.drive, archive.files)
    BY DriveSeedPlans
  <2>. HIDE DEF todo
  <2>2. Open(todo, run.mem)
    BY <1>4 DEF todo
  <2>. QED BY <1>1, <1>2, <2>1, <2>2, Opens DEF IsAt
<1>. QED BY <1>3, <1>4 DEF OpenDriveSeed, End

LEMMA OpenCalendarSeedKeeps ==
  ASSUME IInv, OpenCalendarSeed
  PROVE  IInv'
<1>1. UNCHANGED <<archive, drive, mail, cal, book>> /\ run.cmd = "seed" /\ Opening("calendar")
  BY DEF OpenCalendarSeed, worlds
<1>2. IsWorld(archive, drive, mail, cal, book) /\ IsAt(run, book, archive, drive, mail)
  BY <1>1, CommandIs
<1>. DEFINE todo == CalendarSeedTodo(run.mem.cal, archive.events)
<1>3. CalendarTodo(todo, run.mem.cal, archive.events)
  BY CalendarSeedPlans
<1>4. Open(todo, run.mem)
  BY DEF OpenCalendarSeed
<1>. HIDE DEF todo
<1>. QED BY <1>1, <1>2, <1>3, <1>4, Opens DEF IsAt

LEMMA OpenDriveDeltaKeeps ==
  ASSUME IInv, OpenDriveDelta
  PROVE  IInv'
<1>1. UNCHANGED <<archive, drive, mail, cal>> /\ run.cmd = "delta" /\ Opening("drive")
  BY DEF OpenDriveDelta, worlds
<1>2. /\ IsWorld(archive, drive, mail, cal, book) /\ IsAt(run, book, archive, drive, mail)
      /\ IsArchive(archive)
  BY <1>1, CommandIs
<1>. DEFINE plan == DrivePlan(drive, run.mem.drive, run.mem.tag, archive.files)
            d == DriveAdopted(drive, run.mem.drive, run.mem.tag, archive.files)
            b == [run.mem EXCEPT !.drive = d]
<1>3. \/ plan.ok /\ Open(plan.todo, b) /\ book' = b
      \/ run' = Idle /\ book' = book
  BY DEF OpenDriveDelta, Save, Keep, End
<1>4. CASE plan.ok /\ Open(plan.todo, b) /\ book' = b
  <2>1. \A p \in Paths(archive.files) :
          Unambiguous(drive, run.mem.drive, run.mem.tag, archive.files, p)
    BY <1>4 DEF DrivePlan
  <2>2. /\ OwnMarks(drive, d, run.mem.tag) /\ DOMAIN d \subseteq Paths(archive.files)
        /\ DriveTodo(plan.todo, drive, d, archive.files)
    BY <1>2, <2>1, AtKeeps, DriveAdopts DEF IsWorld, IsArchive
  <2>. HIDE DEF d, plan
  <2>3. IsBook(b, archive) /\ SameMail(b, run.mem) /\ SameCalendar(b, run.mem)
        /\ b.tag = run.mem.tag /\ b.drive = d
    BY <1>2, <2>2, AtKeeps, BookDrive
  <2>. HIDE DEF b
  <2>4. GoodBook(b, archive, drive, mail)
    BY <1>2, <2>2, <2>3, AtKeeps DEF GoodBook, SameMail, SameCalendar
  <2>5. IsWorld(archive', drive', mail', cal', book')
    BY <1>1, <1>2, <1>4, <2>4 DEF IsWorld
  <2>. QED BY <1>1, <1>2, <1>4, <2>2, <2>3, <2>4, <2>5, Opens DEF IsAt
<1>5. CASE run' = Idle /\ book' = book
  BY <1>1, <1>2, <1>5, Ends
<1>. QED BY <1>3, <1>4, <1>5

LEMMA OpenCalendarDeltaKeeps ==
  ASSUME IInv, OpenCalendarDelta
  PROVE  IInv'
<1>1. UNCHANGED <<archive, drive, mail, cal>> /\ run.cmd = "delta" /\ Opening("calendar")
  BY DEF OpenCalendarDelta, worlds
<1>2. /\ IsWorld(archive, drive, mail, cal, book) /\ IsAt(run, book, archive, drive, mail)
      /\ IsArchive(archive)
  BY <1>1, CommandIs
<1>. DEFINE plan == CalendarPlan(cal, run.mem.cal, run.mem.tag, archive.events)
            d == CalendarAdopted(cal, run.mem.cal, run.mem.tag, archive.events)
            b == [run.mem EXCEPT !.cal = d]
<1>3. \/ plan.ok /\ Open(plan.todo, b) /\ book' = b
      \/ run' = Idle /\ book' = book
  BY DEF OpenCalendarDelta, Save, Keep, End
<1>4. CASE plan.ok /\ Open(plan.todo, b) /\ book' = b
  <2>1. \A s \in ToSet(archive.events) :
          CalendarUnambiguous(cal, run.mem.cal, run.mem.tag, archive.events, s)
    BY <1>4 DEF CalendarPlan
  <2>2. /\ OwnIds(d) /\ DOMAIN d \subseteq ToSet(archive.events)
        /\ CalendarTodo(plan.todo, d, archive.events)
    BY <1>2, <2>1, AtKeeps, CalendarAdopts DEF IsWorld, IsArchive
  <2>. HIDE DEF d, plan
  <2>3. IsBook(b, archive) /\ SameMail(b, run.mem) /\ SameDrive(b, run.mem) /\ b.cal = d
    BY <1>2, <2>2, AtKeeps, BookCalendar
  <2>. HIDE DEF b
  <2>4. GoodBook(b, archive, drive, mail)
    BY <1>2, <2>2, <2>3, AtKeeps DEF GoodBook, SameMail, SameDrive
  <2>5. IsWorld(archive', drive', mail', cal', book')
    BY <1>1, <1>2, <1>4, <2>4 DEF IsWorld
  <2>. QED BY <1>1, <1>2, <1>4, <2>2, <2>3, <2>4, <2>5, Opens DEF IsAt
<1>5. CASE run' = Idle /\ book' = book
  BY <1>1, <1>2, <1>5, Ends
<1>. QED BY <1>3, <1>4, <1>5

\* A seed or a delta of Gmail that died when it had made the label, or in a call.
LEMMA MailDies ==
  ASSUME IInv, run.cmd \in {"seed", "delta"}, UNCHANGED <<archive, drive, cal, book>>,
         run' = Idle, MailLeft(run.mem.mail, mail')
  PROVE  IInv'
<1>1. IsWorld(archive, drive, mail, cal, book) /\ IsAt(run, book, archive, drive, mail)
  BY CommandIs
<1>2. book = NoBook \/ GoodBook(book, archive, drive, mail')
  BY <1>1, AtKeeps, BookMoves DEF MailLeft
<1>. QED BY <1>1, <1>2, Ends DEF IsWorld, MailLeft

\* The manifest with another mail section is good for the mailbox it was made for.
LEMMA MailBookGood ==
  ASSUME NEW r, NEW b, NEW a, NEW w, NEW m, IsAt(r, b, a, w, m),
         NEW m2, NEW x, IsMailBook(x, a), OwnMail(m2, x), NEW b2, b2 = [r.mem EXCEPT !.mail = x]
  PROVE  GoodBook(b2, a, w, m2) /\ b2.mail = x /\ SameDrive(b2, r.mem)
<1>1. IsBook(b2, a) /\ SameDrive(b2, r.mem) /\ SameCalendar(b2, r.mem) /\ b2.mail = x
  BY AtKeeps, BookMail
<1>. QED BY <1>1, AtKeeps DEF GoodBook, SameDrive, SameCalendar

LEMMA OpenMailSeedKeeps ==
  ASSUME IInv, OpenMailSeed
  PROVE  IInv'
<1>1. UNCHANGED <<archive, drive, cal>> /\ run.cmd = "seed" /\ Opening("gmail")
  BY DEF OpenMailSeed
<1>2. /\ IsWorld(archive, drive, mail, cal, book) /\ IsAt(run, book, archive, drive, mail)
      /\ NewInMail(run.mem, NewMailId)
  BY <1>1, CommandIs
<1>. DEFINE l == Labelled(mail, run.mem.mail, run.mem.tag, NewMailId)
            b == [run.mem EXCEPT !.mail = l.book]
            todo == MailSeedTodo(l.book, archive)
<1>3. /\ mail' = l.world
      /\ (Open(todo, b) /\ book' = b) \/ (run' = Idle /\ book' = book)
  BY DEF OpenMailSeed, Save, Died, Keep, End
<1>4. MailGood(run.mem.mail, archive, l.world, l.book)
  BY <1>2, AtKeeps, MailLabels DEF IsWorld, NewInMail
<1>5. MailTodo(todo, archive)
  BY MailPlans
<1>. HIDE DEF l, todo
<1>6. GoodBook(b, archive, drive, mail')
  BY <1>2, <1>3, <1>4, MailBookGood DEF MailGood
<1>. HIDE DEF b
<1>7. CASE Open(todo, b) /\ book' = b
  <2>1. IsWorld(archive', drive', mail', cal', book')
    BY <1>1, <1>2, <1>3, <1>4, <1>6, <1>7 DEF IsWorld, MailGood
  <2>. QED BY <1>1, <1>2, <1>5, <1>6, <1>7, <2>1, Opens DEF IsAt
<1>8. CASE run' = Idle /\ book' = book
  BY <1>1, <1>3, <1>4, <1>8, MailDies DEF MailGood, MailLeft
<1>. QED BY <1>3, <1>7, <1>8

LEMMA OpenMailDeltaKeeps ==
  ASSUME IInv, OpenMailDelta
  PROVE  IInv'
<1>1. UNCHANGED <<archive, drive, cal>> /\ run.cmd = "delta" /\ Opening("gmail")
  BY DEF OpenMailDelta
<1>2. /\ IsWorld(archive, drive, mail, cal, book) /\ IsAt(run, book, archive, drive, mail)
      /\ NewInMail(run.mem, NewMailId)
  BY <1>1, CommandIs
<1>. DEFINE l == Labelled(mail, run.mem.mail, run.mem.tag, NewMailId)
            x == MailAdopted(l.world, l.book, archive)
            b == [run.mem EXCEPT !.mail = x]
            todo == MailPlan(l.world, l.book, run.mem.tag, archive).todo
<1>3. \/ mail' = l.world /\ Open(todo, b) /\ book' = b
      \/ mail' = l.world /\ run' = Idle /\ book' = book
      \/ mail' = mail /\ run' = Idle /\ book' = book
  BY DEF OpenMailDelta, Save, Died, Keep, End
<1>4. MailGood(run.mem.mail, archive, l.world, l.book)
  BY <1>2, AtKeeps, MailLabels DEF IsWorld, NewInMail
<1>5. MailTodo(todo, archive)
  BY MailPlans
<1>. HIDE DEF l, todo
<1>6. IsMailBook(x, archive) /\ OwnMail(l.world, x)
  BY <1>4, MailAdopts DEF MailGood
<1>. HIDE DEF x
<1>7. GoodBook(b, archive, drive, l.world)
  BY <1>2, <1>6, MailBookGood
<1>. HIDE DEF b
<1>8. CASE mail' = l.world /\ Open(todo, b) /\ book' = b
  <2>1. IsWorld(archive', drive', mail', cal', book')
    BY <1>1, <1>2, <1>4, <1>7, <1>8 DEF IsWorld, MailGood
  <2>2. GoodBook(b, archive', drive', mail') /\ MailTodo(todo, archive')
    BY <1>1, <1>5, <1>7, <1>8
  <2>. QED BY <1>1, <1>2, <1>8, <2>1, <2>2, Opens DEF IsAt
<1>9. CASE mail' = l.world /\ run' = Idle /\ book' = book
  BY <1>1, <1>4, <1>9, MailDies DEF MailGood, MailLeft
<1>10. CASE mail' = mail /\ run' = Idle /\ book' = book
  BY <1>1, <1>2, <1>10, Ends
<1>. QED BY <1>3, <1>8, <1>9, <1>10

-----------------------------------------------------------------------------
(* The calls.                                                              *)

LEMMA WorkingIs ==
  ASSUME IInv, NEW s, Working(s)
  PROVE  /\ run.cmd \in {"seed", "delta"} /\ IsRunRecord(run)
         /\ s = "drive" => DriveTodo(run.todo, drive, run.mem.drive, archive.files)
         /\ s = "gmail" => MailTodo(run.todo, archive)
         /\ s = "calendar" => CalendarTodo(run.todo, run.mem.cal, archive.events)
<1>1. run.cmd # "none" /\ run.open /\ Amid(run, s)
  BY DEF Working, Here, Amid
<1>2. run # Idle
  BY <1>1 DEF Idle
<1>3. IsRun(run, book, archive, drive, mail)
  BY <1>2 DEF IInv, IsState
<1>. QED BY <1>1, <1>3 DEF IsRun, IsRunRecord

LEMMA Does ==
  ASSUME run.cmd \in {"seed", "delta"}, IsRunRecord(run),
         NEW s, Working(s), NEW a, NEW b, Did(a, b),
         IsWorld(archive', drive', mail', cal', book'),
         GoodBook(b, archive', drive', mail'),
         book' = b \/ (book' = NoBook /\ b.drive = <<>>),
         s = "drive" => DriveTodo(run.todo \ {a}, drive', b.drive, archive'.files),
         s = "gmail" => MailTodo(run.todo \ {a}, archive'),
         s = "calendar" => CalendarTodo(run.todo \ {a}, b.cal, archive'.events)
  PROVE  IInv'
<1>. DEFINE t == run.todo \ {a}
<1>1. run' = RunAfter(run, t, b)
  BY DEF Did, RunAfter
<1>. HIDE DEF t
<1>2. IsRunRecord(run') /\ run'.cmd = run.cmd /\ run'.left = run.left
      /\ run'.todo = t /\ run'.mem = b
  BY <1>1, RunDid
<1>3. \A q : Amid(run', q) => q = s
  BY <1>2 DEF Amid, Working, Here
<1>4. IsRun(run', book', archive', drive', mail')
  <2>1. Amid(run', "drive") => DriveTodo(run'.todo, drive', run'.mem.drive, archive'.files)
    BY <1>2, <1>3 DEF t
  <2>2. Amid(run', "gmail") => MailTodo(run'.todo, archive')
    BY <1>2, <1>3 DEF t
  <2>3. Amid(run', "calendar") => CalendarTodo(run'.todo, run'.mem.cal, archive'.events)
    BY <1>2, <1>3 DEF t
  <2>. QED BY <1>2, <2>1, <2>2, <2>3 DEF IsRun, IsRunRecord
<1>. QED BY <1>4 DEF IInv, IsState, IsWorld

\* The manifest is saved after the calls that change it, so it is on disk after each.
LEMMA Saves ==
  ASSUME NEW a, NEW b, Did(a, b), Checkpointed(a) \/ b = run.mem,
         book = run.mem \/ (book = NoBook /\ run.mem.drive = <<>>)
  PROVE  book' = b \/ (book' = NoBook /\ b.drive = <<>>)
BY DEF Did, Save, Keep

LEMMA DriveDies ==
  ASSUME IInv, run.cmd \in {"seed", "delta"}, UNCHANGED <<archive, mail, cal, book>>,
         run' = Idle, DriveLeft(run.mem.drive, run.mem.tag, drive')
  PROVE  IInv'
<1>1. IsWorld(archive, drive, mail, cal, book) /\ IsAt(run, book, archive, drive, mail)
  BY CommandIs
<1>2. book = NoBook \/ GoodBook(book, archive, drive', mail)
  BY <1>1, AtKeeps, BookMoves DEF DriveLeft
<1>. QED BY <1>1, <1>2, Ends DEF IsWorld, DriveLeft

LEMMA DriveDid ==
  ASSUME IInv, Working("drive"), UNCHANGED <<archive, mail, cal>>, NEW a \in run.todo, NEW x,
         DriveGood(run.mem.drive, run.mem.tag, archive.files, run.todo, a, drive', x),
         NEW b, b = [run.mem EXCEPT !.drive = x], Did(a, b),
         Checkpointed(a) \/ x = run.mem.drive
  PROVE  IInv'
<1>1. run.cmd \in {"seed", "delta"} /\ IsRunRecord(run)
  BY WorkingIs
<1>2. IsWorld(archive, drive, mail, cal, book) /\ IsAt(run, book, archive, drive, mail)
  BY <1>1, CommandIs
<1>3. /\ IsDrive(drive') /\ OwnMarks(drive', x, run.mem.tag) /\ DOMAIN x \subseteq Paths(archive.files)
      /\ DriveTodo(run.todo \ {a}, drive', x, archive.files)
  BY DEF DriveGood
<1>4. IsBook(b, archive) /\ SameMail(b, run.mem) /\ SameCalendar(b, run.mem)
      /\ b.tag = run.mem.tag /\ b.drive = x
  BY <1>2, <1>3, AtKeeps, BookDrive
<1>5. GoodBook(b, archive, drive', mail)
  BY <1>2, <1>3, <1>4, AtKeeps DEF GoodBook, SameMail, SameCalendar
<1>6. x = run.mem.drive => b = run.mem
  BY <1>2, AtKeeps, BookSame
<1>7. book' = b \/ (book' = NoBook /\ b.drive = <<>>)
  BY <1>2, <1>6, Saves DEF IsAt
<1>8. IsWorld(archive', drive', mail', cal', book')
  BY <1>2, <1>3, <1>5, <1>7 DEF IsWorld
<1>. QED BY <1>1, <1>3, <1>4, <1>5, <1>7, <1>8, Does

LEMMA StepDriveKeeps ==
  ASSUME IInv, StepDrive
  PROVE  IInv'
<1>1. UNCHANGED <<archive, mail, cal>> /\ Working("drive")
  BY DEF StepDrive
<1>2. PICK a \in run.todo : DriveCall(a)
  BY DEF StepDrive
<1>3. /\ run.cmd \in {"seed", "delta"}
      /\ DriveTodo(run.todo, drive, run.mem.drive, archive.files)
  BY <1>1, WorkingIs
<1>4. /\ IsWorld(archive, drive, mail, cal, book) /\ IsAt(run, book, archive, drive, mail)
      /\ NewDriveId \in Nat \ {Root} /\ NewInDrive(run.mem, NewDriveId)
  BY <1>3, CommandIs
<1>5. /\ run.mem # NoBook /\ run.mem.tag \in Nat \ {0}
      /\ OwnMarks(drive, run.mem.drive, run.mem.tag)
      /\ DOMAIN run.mem.drive \subseteq Paths(archive.files)
  BY <1>4, AtKeeps
<1>6. \A q \in DOMAIN run.mem.drive : run.mem.drive[q].id # NewDriveId
  BY <1>4, <1>5 DEF NewInDrive
<1>7. IsDrive(drive) /\ DriveLeft(run.mem.drive, run.mem.tag, drive)
  BY <1>4, <1>5 DEF IsWorld, DriveLeft
<1>8. CASE run' = Idle /\ book' = book /\ drive' = drive
  BY <1>1, <1>3, <1>7, <1>8, DriveDies
<1>9. CASE a.do = "seed"
  <2>. DEFINE r == DriveSeeded(drive, run.mem.drive, run.mem.tag, archive.files, a.path, NewDriveId)
  <2>1. DriveGood(run.mem.drive, run.mem.tag, archive.files, run.todo, a, r.world, r.book)
    BY <1>3, <1>5, <1>6, <1>7, <1>4, <1>9, DriveSeeds
  <2>2. \/ run' = Idle /\ book' = book /\ drive' = drive
        \/ drive' = r.world /\ Did(a, [run.mem EXCEPT !.drive = r.book])
        \/ run' = Idle /\ book' = book /\ drive' = r.world
    BY <1>2, <1>9 DEF DriveCall, End, Keep, Died
  <2>3. DriveLeft(run.mem.drive, run.mem.tag, r.world)
    BY <2>1 DEF DriveGood, DriveLeft
  <2>4. Checkpointed(a)
    BY <1>9 DEF Checkpointed
  <2>. HIDE DEF r
  <2>5. CASE drive' = r.world /\ Did(a, [run.mem EXCEPT !.drive = r.book])
    <3>. DEFINE b == [run.mem EXCEPT !.drive = r.book]
    <3>1. b = [run.mem EXCEPT !.drive = r.book] /\ Did(a, b)
      BY <2>5
    <3>. HIDE DEF b
    <3>. QED BY <1>1, <2>1, <2>4, <2>5, <3>1, DriveDid
  <2>6. CASE run' = Idle /\ book' = book /\ drive' = r.world
    BY <1>1, <1>3, <2>3, <2>6, DriveDies
  <2>. QED BY <1>8, <2>2, <2>5, <2>6
<1>10. CASE a.do # "seed"
  <2>. DEFINE r == DriveDone(a, drive, run.mem.drive, run.mem.tag, archive.files, NewDriveId)
              torn == DriveTorn(a, drive, run.mem.drive, run.mem.tag, archive.files, NewDriveId)
  <2>1. /\ DriveGood(run.mem.drive, run.mem.tag, archive.files, run.todo, a, r.world, r.book)
        /\ \A v \in torn : DriveLeft(run.mem.drive, run.mem.tag, v)
        /\ a.do \notin {"create", "replace"} => r.book = run.mem.drive
    <3>1. IsDrive(drive) /\ NewDriveId \in Nat \ {Root}
      BY <1>4, <1>7
    <3>2. DriveOutcome(a, drive, run.mem.drive, run.mem.tag, archive.files, run.todo, NewDriveId)
      BY ONLY <1>3, <1>5, <1>6, <1>10, <3>1, DriveDoes
    <3>. QED BY <3>2, Zenon DEF DriveOutcome
  <2>2. \/ run' = Idle /\ book' = book /\ drive' = drive
        \/ drive' = r.world /\ Did(a, [run.mem EXCEPT !.drive = r.book])
        \/ run' = Idle /\ book' = book /\ drive' \in torn
    BY <1>2, <1>10 DEF DriveCall, End, Keep, Died
  <2>3. Checkpointed(a) \/ r.book = run.mem.drive
    BY <2>1 DEF Checkpointed
  <2>. HIDE DEF r, torn
  <2>4. CASE drive' = r.world /\ Did(a, [run.mem EXCEPT !.drive = r.book])
    <3>. DEFINE b == [run.mem EXCEPT !.drive = r.book]
    <3>1. b = [run.mem EXCEPT !.drive = r.book] /\ Did(a, b)
      BY <2>4
    <3>. HIDE DEF b
    <3>. QED BY <1>1, <2>1, <2>3, <2>4, <3>1, DriveDid
  <2>5. CASE run' = Idle /\ book' = book /\ drive' \in torn
    BY <1>1, <1>3, <2>1, <2>5, DriveDies
  <2>. QED BY <1>8, <2>2, <2>4, <2>5
<1>. QED BY <1>9, <1>10

LEMMA StepMailKeeps ==
  ASSUME IInv, StepMail
  PROVE  IInv'
<1>1. UNCHANGED <<archive, drive, cal>> /\ Working("gmail")
  BY DEF StepMail
<1>2. PICK a \in run.todo : MailCall(a)
  BY DEF StepMail
<1>3. run.cmd \in {"seed", "delta"} /\ IsRunRecord(run) /\ MailTodo(run.todo, archive)
  BY <1>1, WorkingIs
<1>4. /\ IsWorld(archive, drive, mail, cal, book) /\ IsAt(run, book, archive, drive, mail)
      /\ NewInMail(run.mem, NewMailId)
  BY <1>3, CommandIs
<1>5. \A q \in DOMAIN run.mem.mail.messages : run.mem.mail.messages[q].id # NewMailId
  BY <1>4, AtKeeps DEF NewInMail
<1>. DEFINE r == MailDone(a, mail, run.mem.mail, archive, NewMailId)
            torn == MailTorn(a, mail, run.mem.mail, archive, NewMailId)
            b == [run.mem EXCEPT !.mail = r.book]
<1>6. /\ MailGood(run.mem.mail, archive, r.world, r.book)
      /\ \A v \in torn : MailLeft(run.mem.mail, v)
      /\ a.do \notin {"import", "reimport"} => r.book = run.mem.mail
  BY <1>3, <1>4, <1>5, AtKeeps, MailDoes DEF IsWorld
<1>7. \/ mail' = r.world /\ Did(a, b)
      \/ run' = Idle /\ book' = book /\ mail' \in torn
  BY <1>2 DEF MailCall, End, Keep, Died
<1>8. Checkpointed(a) \/ r.book = run.mem.mail
  BY <1>6 DEF Checkpointed
<1>. HIDE DEF r, torn
<1>9. CASE mail' = r.world /\ Did(a, b)
  <2>1. r.book = run.mem.mail => b = run.mem
    BY <1>4, AtKeeps, BookSame
  <2>2. b = [run.mem EXCEPT !.mail = r.book]
    OBVIOUS
  <2>. HIDE DEF b
  <2>3. GoodBook(b, archive, drive, mail') /\ b.mail = r.book /\ SameDrive(b, run.mem)
    BY <1>4, <1>6, <1>9, <2>2, MailBookGood DEF MailGood
  <2>4. book' = b \/ (book' = NoBook /\ b.drive = <<>>)
    BY <1>4, <1>8, <1>9, <2>1, Saves DEF IsAt
  <2>5. IsWorld(archive', drive', mail', cal', book')
    BY <1>1, <1>4, <1>6, <1>9, <2>3, <2>4 DEF IsWorld, MailGood
  <2>6. MailTodo(run.todo \ {a}, archive)
    BY <1>3 DEF MailTodo
  <2>. QED BY <1>1, <1>3, <1>9, <2>3, <2>4, <2>5, <2>6, Does
<1>10. CASE run' = Idle /\ book' = book /\ mail' \in torn
  BY <1>1, <1>3, <1>6, <1>10, MailDies
<1>. QED BY <1>7, <1>9, <1>10

LEMMA StepCalendarKeeps ==
  ASSUME IInv, StepCalendar
  PROVE  IInv'
<1>1. UNCHANGED <<archive, drive, mail>> /\ Working("calendar")
  BY DEF StepCalendar
<1>2. PICK a \in run.todo : CalendarCall(a)
  BY DEF StepCalendar
<1>3. /\ run.cmd \in {"seed", "delta"} /\ IsRunRecord(run)
      /\ CalendarTodo(run.todo, run.mem.cal, archive.events)
  BY <1>1, WorkingIs
<1>4. IsWorld(archive, drive, mail, cal, book) /\ IsAt(run, book, archive, drive, mail)
      /\ NoSource \notin ToSet(archive.events)
  BY <1>3, CommandIs DEF IsArchive
<1>. DEFINE r == IF a.do = "seed" THEN CalendarInserted(cal, run.mem.cal, run.mem.tag, a.src, 0)
                 ELSE CalendarDone(a, cal, run.mem.cal, run.mem.tag)
            b == [run.mem EXCEPT !.cal = r.book]
<1>5. /\ CalendarGood(archive.events, run.todo, a, r.world, r.book)
      /\ a.do \notin {"insert", "seed"} => r.book = run.mem.cal
  <2>1. CASE a.do = "seed"
    BY <1>3, <1>4, <2>1, AtKeeps, CalendarInserts DEF IsWorld
  <2>2. CASE a.do # "seed"
    BY <1>3, <1>4, <2>2, AtKeeps, CalendarDoes DEF IsWorld
  <2>. QED BY <2>1, <2>2
<1>6. \/ cal' = r.world /\ Did(a, b)
      \/ run' = Idle /\ book' = book /\ cal' \in {cal, r.world}
  BY <1>2 DEF CalendarCall, End, Keep, Died
<1>7. Checkpointed(a) \/ r.book = run.mem.cal
  BY <1>5 DEF Checkpointed
<1>. HIDE DEF r
<1>8. CASE cal' = r.world /\ Did(a, b)
  <2>1. r.book = run.mem.cal => b = run.mem
    BY <1>4, AtKeeps, BookSame
  <2>2. b = [run.mem EXCEPT !.cal = r.book]
    OBVIOUS
  <2>. HIDE DEF b
  <2>3. IsBook(b, archive) /\ SameMail(b, run.mem) /\ SameDrive(b, run.mem) /\ b.cal = r.book
    BY <1>4, <1>5, <2>2, AtKeeps, BookCalendar DEF CalendarGood
  <2>4. GoodBook(b, archive, drive, mail)
    BY <1>4, <1>5, <2>3, AtKeeps DEF GoodBook, SameMail, SameDrive, CalendarGood
  <2>5. book' = b \/ (book' = NoBook /\ b.drive = <<>>)
    BY <1>4, <1>7, <1>8, <2>1, Saves DEF IsAt
  <2>6. IsWorld(archive', drive', mail', cal', book')
    BY <1>1, <1>4, <1>5, <1>8, <2>4, <2>5 DEF IsWorld, CalendarGood
  <2>7. CalendarTodo(run.todo \ {a}, b.cal, archive.events)
    BY <1>5, <2>3 DEF CalendarGood
  <2>8. /\ IsWorld(archive', drive', mail', cal', book')
        /\ GoodBook(b, archive', drive', mail')
        /\ CalendarTodo(run.todo \ {a}, b.cal, archive'.events)
    BY <1>1, <2>4, <2>6, <2>7
  <2>. QED BY <1>1, <1>3, <1>8, <2>5, <2>8, Does
<1>9. CASE run' = Idle /\ book' = book /\ cal' \in {cal, r.world}
  BY <1>1, <1>4, <1>5, <1>9, Ends DEF IsWorld, CalendarGood
<1>. QED BY <1>6, <1>8, <1>9

-----------------------------------------------------------------------------
(* A reset, and the world between two commands.                            *)

LEMMA WipeKeeps ==
  ASSUME IInv, Wipe
  PROVE  IInv'
<1>1. UNCHANGED <<archive, book>> /\ run.cmd = "reset" /\ run # Idle
  BY DEF Wipe, Idle
<1>2. IsRun(run, book, archive, drive, mail)
  BY <1>1 DEF IInv, IsState
<1>3. IsRunRecord(run) /\ ~run.open
  BY <1>1, <1>2 DEF IsRun, IsRunRecord
<1>4. /\ archive \in Archives /\ IsDrive(drive) /\ IsMailbox(mail) /\ IsCalendar(cal)
      /\ book = NoBook \/ GoodBook(book, archive, drive, mail)
  BY DEF IInv, IsState
<1>5. PICK n : NewInDrive(book, n) /\ NewInMail(book, n)
  BY <1>4, StateArchive, SomeNewName DEF GoodBook
<1>6. /\ drive' = drive \/ drive' \in DriveWipes(drive)
      /\ mail' = mail \/ mail' \in MailWipes(mail)
      /\ cal' = cal \/ cal' \in CalendarWipes(cal)
  BY DEF Wipe
<1>. DEFINE l == Tail(run.left)
<1>7. run' = Idle \/ run' = RunWiped(run, l)
  BY DEF Wipe, Died, End, RunWiped
<1>. HIDE DEF l
<1>8. IsDrive(drive') /\ MarksKept(drive, drive', n)
  <2>1. MarksKept(drive, drive, n)
    BY DEF MarksKept
  <2>2. CASE drive' \in DriveWipes(drive)
    BY <1>4, <2>2, DriveWiped
  <2>. QED BY <1>4, <1>6, <2>1, <2>2
<1>9. IsMailbox(mail') /\ SourcesKept(mail, mail', n)
  <2>1. SourcesKept(mail, mail, n)
    BY DEF SourcesKept, SameLetter
  <2>2. CASE mail' \in MailWipes(mail)
    <3>1. MailGrows(mail, mail', n)
      BY <1>4, <2>2, MailWiped
    <3>. QED BY <3>1 DEF MailGrows
  <2>. QED BY <1>4, <1>6, <2>1, <2>2
<1>10. IsCalendar(cal')
  BY <1>4, <1>6, CalendarWiped
<1>11. book # NoBook => GoodBook(book, archive, drive', mail')
  <2>. HAVE book # NoBook
  <2>1. OwnMarks(drive', book.drive, book.tag)
    BY <1>4, <1>5, <1>8, MarksStay DEF GoodBook, NewInDrive
  <2>2. OwnMail(mail', book.mail)
    BY <1>4, <1>5, <1>9, MailStays DEF GoodBook, NewInMail
  <2>. QED BY <1>4, <2>1, <2>2 DEF GoodBook
<1>12. IsWorld(archive', drive', mail', cal', book')
  BY <1>1, <1>4, <1>8, <1>9, <1>10, <1>11 DEF IsWorld
<1>13. CASE run' = RunWiped(run, l)
  <2>1. IsRunRecord(run') /\ run'.cmd = "reset" /\ ~run'.open
    BY <1>1, <1>3, <1>13, RunWipes
  <2>2. IsRun(run', book', archive', drive', mail')
    BY <2>1 DEF IsRun, IsRunRecord, Amid
  <2>. QED BY <1>12, <2>2 DEF IInv, IsState, IsWorld
<1>. QED BY <1>7, <1>12, <1>13, Ends

LEMMA EditKeeps ==
  ASSUME IInv, Edit
  PROVE  IInv'
<1>1. UNCHANGED <<archive, book>> /\ run = Idle /\ run' = Idle
  BY DEF Edit
<1>2. /\ archive \in Archives /\ IsDrive(drive) /\ IsMailbox(mail) /\ IsCalendar(cal)
      /\ book = NoBook \/ GoodBook(book, archive, drive, mail)
  BY DEF IInv, IsState
<1>3. /\ NewDriveId \in Nat \ {Root}
      /\ NewInDrive(book, NewDriveId) /\ NewInMail(book, NewMailId)
  BY <1>1, NewIds DEF Idle
<1>4. /\ drive' = drive \/ drive' \in DriveEdits(drive, archive.files, NewDriveId)
      /\ mail' = mail \/ mail' \in MailEdits(mail, archive, NewMailId)
      /\ cal' = cal \/ cal' \in CalendarEdits(cal, archive.events, NewEventNumber)
  BY DEF Edit
<1>5. IsDrive(drive') /\ MarksKept(drive, drive', NewDriveId)
  BY <1>2, <1>3, <1>4, DriveEdited DEF MarksKept
<1>6. IsMailbox(mail') /\ SourcesKept(mail, mail', NewMailId)
  BY <1>2, <1>4, MailEdited DEF MailGrows, SourcesKept, SameLetter
<1>7. IsCalendar(cal')
  BY <1>2, <1>4, CalendarEdited
<1>8. book # NoBook => GoodBook(book, archive, drive', mail')
  <2>. HAVE book # NoBook
  <2>1. OwnMarks(drive', book.drive, book.tag)
    BY <1>2, <1>3, <1>5, MarksStay DEF GoodBook, NewInDrive
  <2>2. OwnMail(mail', book.mail)
    BY <1>2, <1>3, <1>6, MailStays DEF GoodBook, NewInMail
  <2>. QED BY <1>2, <2>1, <2>2 DEF GoodBook
<1>9. IsWorld(archive', drive', mail', cal', book')
  BY <1>1, <1>2, <1>5, <1>6, <1>7, <1>8 DEF IsWorld
<1>. QED BY <1>1, <1>9, Ends

LEMMA NextKeeps ==
  ASSUME IInv, [Next]_vars
  PROVE  IInv'
<1>1. CASE \E svcs \in (SUBSET archive.serves) \ {{}} :
             StartSeed(svcs) \/ StartDelta(svcs) \/ StartReset(svcs)
  BY <1>1, StartsKeep
<1>2. CASE NextService \/ FinishSeed \/ FinishDelta \/ FinishReset
  BY <1>2, NextServiceKeeps, FinishesKeep
<1>3. CASE OpenDriveSeed \/ OpenMailSeed \/ OpenCalendarSeed
  BY <1>3, OpenDriveSeedKeeps, OpenMailSeedKeeps, OpenCalendarSeedKeeps
<1>4. CASE OpenDriveDelta \/ OpenMailDelta \/ OpenCalendarDelta
  BY <1>4, OpenDriveDeltaKeeps, OpenMailDeltaKeeps, OpenCalendarDeltaKeeps
<1>5. CASE StepDrive \/ StepMail \/ StepCalendar
  BY <1>5, StepDriveKeeps, StepMailKeeps, StepCalendarKeeps
<1>6. CASE Wipe \/ Edit
  BY <1>6, WipeKeeps, EditKeeps
<1>7. CASE UNCHANGED <<archive, drive, mail, cal, book, run>>
  BY <1>7 DEF IInv
<1>8. TouchArchive \/ UNCHANGED vars => UNCHANGED <<archive, drive, mail, cal, book, run>>
  BY DEF TouchArchive, vars, worlds
<1>. QED BY <1>1, <1>2, <1>3, <1>4, <1>5, <1>6, <1>7, <1>8 DEF Next

LEMMA InitHolds ==
  ASSUME Init
  PROVE  IInv
<1>1. IsDrive(<<>>)
  <2>1. DOMAIN <<>> = {}
    OBVIOUS
  <2>. QED BY <2>1, FS_EmptySet DEF IsDrive
<1>2. IsMailbox(EmptyMailbox)
  <2>1. /\ EmptyMailbox = [messages |-> EmptyMailbox.messages, labels |-> EmptyMailbox.labels]
        /\ DOMAIN EmptyMailbox.messages = {} /\ DOMAIN EmptyMailbox.labels = {}
    BY DEF EmptyMailbox
  <2>. QED BY <2>1, FS_EmptySet DEF IsMailbox, IsLabels
<1>3. IsCalendar(EmptyCalendar)
  <2>1. /\ EmptyCalendar = [events |-> EmptyCalendar.events, gone |-> EmptyCalendar.gone]
        /\ DOMAIN EmptyCalendar.events = {} /\ EmptyCalendar.gone = {}
    BY DEF EmptyCalendar
  <2>. QED BY <2>1, FS_EmptySet DEF IsCalendar
<1>. QED BY <1>1, <1>2, <1>3 DEF Init, IInv, IsState

\* What the account and the manifest always are to each other: the manifest of a
\* completed or an interrupted command names a message once and under the letter it is
\* a copy of, an event once and under the source its id was made from, and an object
\* of Drive only with no mark of another seed or another entry; a command in flight
\* holds that manifest and a plan that is still about it.
THEOREM EngineInvariant == Spec => []IInv
<1>1. Init => IInv
  BY InitHolds
<1>2. IInv /\ [Next]_vars => IInv'
  BY NextKeeps
<1>. QED BY <1>1, <1>2, PTL DEF Spec

-----------------------------------------------------------------------------
(* What the read-back vouches for.                                         *)

LEMMA CountsAs ==
  ASSUME NEW S, IsFiniteSet(S), NEW T, NEW f \in [S -> T],
         \A x, y \in S : f[x] = f[y] => x = y, \A z \in T : \E x \in S : f[x] = z
  PROVE  Cardinality(T) = Cardinality(S)
<1>1. f \in Bijection(S, T)
  BY DEF Bijection, Injection, Surjection, IsInjective
<1>. QED BY <1>1, FS_Bijection DEF ExistsBijection

\* A list without repetitions has as many entries as what they are entered as.
LEMMA CountsList ==
  ASSUME NEW list, list \in Seq(ToSet(list)), IsInjective(list), NEW T,
         NEW g, g = [s \in ToSet(list) |-> g[s]],
         \A s \in ToSet(list) : g[s] \in T,
         \A r, s \in ToSet(list) : g[r] = g[s] => r = s,
         \A z \in T : \E s \in ToSet(list) : g[s] = z
  PROVE  Cardinality(T) = Len(list)
<1>. DEFINE S == 1 .. Len(list)
            f == [k \in S |-> g[list[k]]]
<1>1. Len(list) \in Nat /\ DOMAIN list = S
  OBVIOUS
<1>2. \A k \in S : list[k] \in ToSet(list)
  BY <1>1 DEF ToSet
<1>3. f \in [S -> T]
  BY <1>2
<1>4. \A x, y \in S : f[x] = f[y] => x = y
  BY <1>1, <1>2 DEF IsInjective
<1>5. \A z \in T : \E x \in S : f[x] = z
  <2>. TAKE z \in T
  <2>1. PICK s \in ToSet(list) : g[s] = z
    OBVIOUS
  <2>2. PICK k \in DOMAIN list : list[k] = s
    BY DEF ToSet
  <2>. QED BY <1>1, <2>1, <2>2
<1>6. IsFiniteSet(S) /\ Cardinality(S) = Len(list)
  <2>1. ASSUME NEW n \in Nat PROVE IsFiniteSet(1 .. n) /\ Cardinality(1 .. n) = n
    BY ONLY n \in Nat, FS_Interval
  <2>. QED BY <1>1, <2>1
<1>. HIDE DEF f, S
<1>. QED BY <1>3, <1>4, <1>5, <1>6, CountsAs

LEMMA CalendarVouched ==
  ASSUME NEW c, NEW b, NEW t, NEW sources, sources \in Seq(ToSet(sources)),
         IsInjective(sources), CalendarVerified(c, b, t, sources)
  PROVE  CalendarIs(c, sources)
<1>. DEFINE g == [s \in ToSet(sources) |-> WantedId(b, t, s)]
<1>1. \A s \in ToSet(sources) :
        /\ g[s] \in DOMAIN c.events
        /\ c.events[g[s]].src = s /\ c.events[g[s]].key = s /\ c.events[g[s]].fine
  <2>. TAKE s \in ToSet(sources)
  <2>1. g[s] \in DOMAIN c.events /\ c.events[g[s]] = Baseline(t, s)
    BY DEF CalendarVerified
  <2>. HIDE DEF g
  <2>. QED BY <2>1 DEF Baseline
<1>2. \A i \in DOMAIN c.events : \E s \in ToSet(sources) : g[s] = i
  BY DEF CalendarVerified
<1>3. g = [s \in ToSet(sources) |-> g[s]]
  OBVIOUS
<1>. HIDE DEF g
<1>4. \A r, s \in ToSet(sources) : g[r] = g[s] => r = s
  BY <1>1
<1>5. Cardinality(DOMAIN c.events) = Len(sources)
  BY <1>1, <1>2, <1>3, <1>4, CountsList
<1>6. ASSUME NEW s \in ToSet(sources)
      PROVE  Cardinality({i \in DOMAIN c.events : c.events[i].key = s /\ c.events[i].fine}) = 1
  <2>1. {i \in DOMAIN c.events : c.events[i].key = s /\ c.events[i].fine} = {g[s]}
    <3>1. ASSUME NEW i \in DOMAIN c.events, c.events[i].key = s
          PROVE  i = g[s]
      BY <1>1, <1>2, <3>1
    <3>. QED BY <1>1, <3>1
  <2>. QED BY <2>1, FS_Singleton
<1>. QED BY <1>5, <1>6 DEF CalendarIs

\* What the read-back finds of one letter.
LEMMA LetterPasses ==
  ASSUME NEW m, NEW b, NEW t, NEW cat, MailVerified(m, b, t, cat), NEW s \in Letters(cat)
  PROVE  LET o == m.messages[b.messages[s].id]
         IN /\ s \in DOMAIN b.messages /\ b.messages[s].id \in DOMAIN m.messages
            /\ KnownMail(m, b, s) = {b.messages[s].id}
            /\ o.src = s /\ o.whole /\ o.placed /\ o.sent /\ b.label \in o.labels
            /\ cat.parent[s] # NoLetter =>
                 \A j \in KnownMail(m, b, cat.parent[s]) : m.messages[j].thread = o.thread
<1>. DEFINE i == b.messages[s].id
<1>1. s \in DOMAIN b.messages /\ i \in DOMAIN m.messages /\ KnownMail(m, b, s) = {i}
  <2>1. KnownMail(m, b, s) # {}
    BY Zenon DEF MailVerified
  <2>. QED BY <2>1 DEF KnownMail
<1>2. /\ HeadersHold(m, s, i) /\ m.messages[i].placed /\ m.messages[i].sent
      /\ b.label \in m.messages[i].labels
  BY Zenon DEF MailVerified
<1>3. cat.parent[s] # NoLetter =>
        \A j \in KnownMail(m, b, cat.parent[s]) : m.messages[j].thread = m.messages[i].thread
  BY Zenon DEF MailVerified
<1>. QED BY <1>1, <1>2, <1>3 DEF HeadersHold

LEMMA MailVouched ==
  ASSUME NEW m, NEW b, OwnMail(m, b), NEW t \in Nat \ {0}, NEW cat,
         cat.letters \in Seq(Letters(cat)), IsInjective(cat.letters),
         \A s \in Letters(cat) : cat.parent[s] \in Letters(cat) \cup {NoLetter},
         MailVerified(m, b, t, cat)
  PROVE  MailIs(m, cat)
<1>. DEFINE g == [s \in Letters(cat) |-> b.messages[s].id]
<1>1. \A s \in Letters(cat) :
        /\ s \in DOMAIN b.messages /\ g[s] \in DOMAIN m.messages
        /\ KnownMail(m, b, s) = {g[s]}
        /\ m.messages[g[s]].src = s /\ m.messages[g[s]].whole
        /\ m.messages[g[s]].placed /\ m.messages[g[s]].sent
        /\ cat.parent[s] # NoLetter =>
             \A j \in KnownMail(m, b, cat.parent[s]) :
               m.messages[j].thread = m.messages[g[s]].thread
  <2>. TAKE s \in Letters(cat)
  <2>. QED BY LetterPasses
<1>2. \A i \in DOMAIN m.messages : \E s \in Letters(cat) : g[s] = i
  BY DEF MailVerified
<1>3. g = [s \in Letters(cat) |-> g[s]]
  OBVIOUS
<1>. HIDE DEF g
<1>4. \A r, s \in Letters(cat) : g[r] = g[s] => r = s
  BY <1>1
<1>5. Cardinality(DOMAIN m.messages) = Len(cat.letters)
  BY <1>1, <1>2, <1>3, <1>4, CountsList DEF Letters
<1>. DEFINE of(s) == {i \in DOMAIN m.messages : m.messages[i].src = s}
<1>6. \A s \in Letters(cat) : of(s) = {g[s]}
  BY <1>1, <1>2
<1>7. \A s \in Letters(cat) : Cardinality(of(s)) = 1
  BY <1>6, FS_Singleton
<1>8. \A k \in DOMAIN m.labels : m.labels[k] # 0
  BY DEF MailVerified
<1>. HIDE DEF of
<1>9. ASSUME NEW s \in Letters(cat), NEW i \in of(s)
      PROVE  /\ m.messages[i].whole /\ m.messages[i].placed /\ m.messages[i].sent
             /\ cat.parent[s] # NoLetter =>
                  \A j \in of(cat.parent[s]) : m.messages[j].thread = m.messages[i].thread
  <2>1. i = g[s]
    BY <1>6
  <2>2. ASSUME cat.parent[s] # NoLetter, NEW j \in of(cat.parent[s])
        PROVE  m.messages[j].thread = m.messages[i].thread
    <3>1. cat.parent[s] \in Letters(cat)
      BY <2>2
    <3>2. j \in KnownMail(m, b, cat.parent[s])
      BY <1>1, <1>6, <2>2, <3>1
    <3>. QED BY <1>1, <2>1, <2>2, <3>2
  <2>. QED BY <1>1, <2>1, <2>2
<1>. QED BY <1>5, <1>7, <1>8, <1>9 DEF MailIs, of

\* The file that is there is the archive's, or the one the manifest says is.
LEMMA DriveVouched ==
  ASSUME NEW w, IsDrive(w), NEW b, NEW t, NEW files, IsFiniteSet(Paths(files)),
         DOMAIN b \subseteq Paths(files), DriveVerified(w, b, t, files)
  PROVE  /\ Cardinality(DOMAIN w) = Cardinality(Paths(files))
         /\ \A p \in Paths(files) :
              /\ At(w, p) = {b[p].id} /\ b[p].id \in DOMAIN w /\ p \in DOMAIN b
              /\ (w[b[p].id].kind = "file") = (p \in files) /\ ~Trashed(w, b[p].id)
              /\ \/ w[b[p].id].bytes \in {Base(p), NoBytes}
                 \/ w[b[p].id].bytes = b[p].bytes /\ w[b[p].id].bytes = Twin(p)
<1>. DEFINE g == [p \in Paths(files) |-> b[p].id]
<1>1. \A p \in Paths(files) :
        /\ At(w, p) = {g[p]} /\ g[p] \in DOMAIN w /\ p \in DOMAIN b
        /\ (w[g[p]].kind = "file") = (p \in files) /\ ~Trashed(w, g[p])
        /\ w[g[p]].mark.path = p
        /\ p \in files => SameBytes(b, files, p, w[g[p]])
  <2>. TAKE p \in Paths(files)
  <2>1. p \in DOMAIN b /\ b[p].id \in DOMAIN w
    BY DEF DriveVerified, Known
  <2>2. w[b[p].id].mark = [tag |-> t, path |-> p]
    BY DEF DriveVerified
  <2>3. w[b[p].id].mark.path = p
    BY ONLY <2>2
  <2>4. /\ At(w, p) = {b[p].id} /\ ~Trashed(w, b[p].id)
        /\ (w[b[p].id].kind = "file") = (p \in files)
        /\ p \in files => SameBytes(b, files, p, w[b[p].id])
    BY DEF DriveVerified
  <2>5. g[p] = b[p].id
    OBVIOUS
  <2>. HIDE DEF g
  <2>. QED BY <2>1, <2>3, <2>4, <2>5
<1>2. g \in [Paths(files) -> DOMAIN w]
  BY <1>1
<1>3. \A z \in DOMAIN w : \E p \in Paths(files) : g[p] = z
  BY DEF DriveVerified
<1>4. \A p \in Paths(files) : g[p] = b[p].id
  OBVIOUS
<1>. HIDE DEF g
<1>5. \A p, q \in Paths(files) : g[p] = g[q] => p = q
  BY <1>1
<1>6. Cardinality(DOMAIN w) = Cardinality(Paths(files))
  BY <1>2, <1>3, <1>5, CountsAs
<1>7. ASSUME NEW p \in Paths(files)
      PROVE  \/ w[g[p]].bytes \in {Base(p), NoBytes}
             \/ w[g[p]].bytes = b[p].bytes /\ w[g[p]].bytes = Twin(p)
  <2>1. CASE p \in files
    BY <1>1, <2>1 DEF SameBytes, Asked
  <2>2. CASE p \notin files
    BY <1>1, <2>2 DEF IsDrive, IsObject
  <2>. QED BY <2>1, <2>2
<1>. QED BY <1>1, <1>4, <1>6, <1>7

LEMMA VouchedFor ==
  ASSUME IInv, book # NoBook, NEW s \in archive.serves, Verified(s, book)
  PROVE  Is(s)
<1>1. /\ IsDrive(drive) /\ GoodBook(book, archive, drive, mail)
  BY DEF IInv, IsState
<1>2. /\ IsBook(book, archive) /\ book.tag \in Nat \ {0} /\ OwnMail(mail, book.mail)
      /\ DOMAIN book.drive \subseteq Paths(archive.files)
  BY <1>1 DEF GoodBook, IsBook
<1>3. IsArchive(archive)
  BY StateArchive
<1>4. CASE s = "drive"
  <2>1. DriveVerified(drive, book.drive, book.tag, archive.files)
    BY <1>4 DEF Verified
  <2>2. IsFiniteSet(Paths(archive.files))
    BY <1>3, PathsAreFinite DEF IsArchive
  <2>3. /\ Cardinality(DOMAIN drive) = Cardinality(Paths(archive.files))
        /\ \A p \in Paths(archive.files) :
             LET o == drive[book.drive[p].id]
             IN /\ At(drive, p) = {book.drive[p].id} /\ p \in DOMAIN book.drive
                /\ (o.kind = "file") = (p \in archive.files) /\ ~Trashed(drive, book.drive[p].id)
                /\ \/ o.bytes \in {Base(p), NoBytes}
                   \/ o.bytes = book.drive[p].bytes /\ o.bytes = Twin(p)
    BY <1>1, <1>2, <2>1, <2>2, DriveVouched
  <2>4. ASSUME NEW p \in Paths(archive.files)
        PROVE  /\ Cardinality(At(drive, p)) = 1
               /\ \A i \in At(drive, p) :
                    (drive[i].kind = "file") = (p \in archive.files) /\ ~Trashed(drive, i)
                      /\ Booked(p, drive[i])
    <3>1. At(drive, p) = {book.drive[p].id} /\ Cardinality({book.drive[p].id}) = 1
      BY <2>3, FS_Singleton
    <3>. QED BY <2>3, <3>1 DEF Booked, Kept
  <2>5. DriveIs(drive, archive.files, Booked)
    BY <2>3, <2>4 DEF DriveIs
  <2>. QED BY <1>4, <2>5 DEF Is
<1>5. CASE s = "gmail"
  <2>1. MailVerified(mail, book.mail, book.tag, archive)
    BY <1>5 DEF Verified
  <2>2. MailIs(mail, archive)
    BY <1>2, <1>3, <2>1, MailVouched DEF IsArchive
  <2>. QED BY <1>5, <2>2 DEF Is
<1>6. CASE s = "calendar"
  <2>1. CalendarVerified(cal, book.cal, book.tag, archive.events)
    BY <1>6 DEF Verified
  <2>2. CalendarIs(cal, archive.events)
    BY <1>3, <2>1, CalendarVouched DEF IsArchive
  <2>. QED BY <1>6, <2>2 DEF Is
<1>. QED BY <1>3, <1>4, <1>5, <1>6 DEF IsArchive, Services

LEMMA Vouched ==
  ASSUME IInv
  PROVE  VerifyIsSound
BY VouchedFor DEF VerifyIsSound

\* The read-back vouches for the account (engine.py verify_persona): between two
\* commands, an account that passes it is the archive's baseline and holds nothing
\* else, for every archive and whatever was done to the account and the manifest.
THEOREM ReadBackIsSound == Spec => []VerifyIsSound
<1>. QED BY EngineInvariant, Vouched, PTL

-----------------------------------------------------------------------------
(* Which entries of the manifest can come to name one object.              *)

DriveApart ==
  book' # NoBook =>
    \A p, q \in DOMAIN book'.drive :
      LET i == book'.drive[p].id
      IN p # q /\ book'.drive[q].id = i =>
           /\ Names(book, p, i) \/ Names(book, q, i)
           /\ \/ Names(book, p, i) /\ Names(book, q, i)
              \/ i \in DOMAIN drive /\ drive[i].mark = NoMark

LEMMA ApartKept ==
  ASSUME book' = book \/ book' = NoBook
  PROVE  DriveApart
BY DEF DriveApart, Names

\* What a seed or a delta saves is compared with what it holds in memory, which is
\* what is on disk.
LEMMA ApartMoved ==
  ASSUME IsAt(run, book, archive, drive, mail), DriveTwins(run.mem.drive, book'.drive, drive)
  PROVE  DriveApart
<1>. SUFFICES ASSUME NEW p \in DOMAIN book'.drive, NEW q \in DOMAIN book'.drive, p # q,
                     book'.drive[p].id = book'.drive[q].id
              PROVE  LET i == book'.drive[p].id
                     IN /\ Names(book, p, i) \/ Names(book, q, i)
                        /\ \/ Names(book, p, i) /\ Names(book, q, i)
                           \/ i \in DOMAIN drive /\ drive[i].mark = NoMark
  BY DEF DriveApart
<1>. DEFINE i == book'.drive[p].id
            Has(x) == x \in DOMAIN run.mem.drive /\ run.mem.drive[x].id = i
<1>1. /\ Has(p) \/ Has(q)
      /\ (Has(p) /\ Has(q)) \/ (i \in DOMAIN drive /\ drive[i].mark = NoMark)
  BY DEF DriveTwins
<1>2. book = run.mem /\ book # NoBook
  <2>1. DOMAIN run.mem.drive # {}
    BY <1>1
  <2>2. run.mem.drive # <<>>
    BY <2>1
  <2>. QED BY <2>2, AtKeeps DEF IsAt
<1>. HIDE DEF i
<1>3. \A x : Has(x) => Names(book, x, i)
  BY <1>2 DEF Names
<1>. QED BY <1>1, <1>3 DEF i

LEMMA ApartWritten ==
  ASSUME IsAt(run, book, archive, drive, mail),
         book' = book \/ book'.drive = run.mem.drive
  PROVE  DriveApart
<1>1. CASE book'.drive = run.mem.drive
  BY <1>1, ApartMoved DEF DriveTwins
<1>. QED BY <1>1, ApartKept

LEMMA OpenApart ==
  ASSUME IInv,
         \/ OpenDriveSeed \/ OpenMailSeed \/ OpenCalendarSeed
         \/ OpenDriveDelta \/ OpenMailDelta \/ OpenCalendarDelta
  PROVE  DriveApart
<1>1. run.cmd \in {"seed", "delta"}
  BY DEF OpenDriveSeed, OpenMailSeed, OpenCalendarSeed, OpenDriveDelta, OpenMailDelta,
         OpenCalendarDelta
<1>2. IsWorld(archive, drive, mail, cal, book) /\ IsAt(run, book, archive, drive, mail)
      /\ IsArchive(archive)
  BY <1>1, CommandIs
<1>3. IsBook(run.mem, archive)
  BY <1>2, AtKeeps
<1>4. CASE OpenDriveSeed \/ OpenCalendarSeed
  BY <1>4, ApartKept DEF OpenDriveSeed, OpenCalendarSeed
<1>5. CASE OpenMailSeed \/ OpenMailDelta
  <2>1. PICK x : book' = book \/ book' = [run.mem EXCEPT !.mail = x]
    BY <1>5 DEF OpenMailSeed, OpenMailDelta, Died, Keep, Save
  <2>2. book' = book \/ book'.drive = run.mem.drive
    BY <1>3, <2>1 DEF IsBook
  <2>. QED BY <1>2, <2>2, ApartWritten
<1>6. CASE OpenCalendarDelta
  <2>1. PICK x : book' = book \/ book' = [run.mem EXCEPT !.cal = x]
    BY <1>6 DEF OpenCalendarDelta, Keep, Save
  <2>2. book' = book \/ book'.drive = run.mem.drive
    BY <1>3, <2>1 DEF IsBook
  <2>. QED BY <1>2, <2>2, ApartWritten
<1>7. CASE OpenDriveDelta
  <2>. DEFINE plan == DrivePlan(drive, run.mem.drive, run.mem.tag, archive.files)
              d == DriveAdopted(drive, run.mem.drive, run.mem.tag, archive.files)
  <2>1. book' = book \/ (plan.ok /\ book' = [run.mem EXCEPT !.drive = d])
    BY <1>7 DEF OpenDriveDelta, Save, Keep
  <2>2. CASE plan.ok /\ book' = [run.mem EXCEPT !.drive = d]
    <3>1. \A p \in Paths(archive.files) :
            Unambiguous(drive, run.mem.drive, run.mem.tag, archive.files, p)
      BY <2>2 DEF DrivePlan
    <3>2. DriveTwins(run.mem.drive, d, drive)
      BY <1>2, <3>1, AtKeeps, DriveAdopts DEF IsWorld, IsArchive
    <3>. HIDE DEF d
    <3>3. book'.drive = d
      BY <1>3, <2>2 DEF IsBook
    <3>. QED BY <1>2, <3>2, <3>3, ApartMoved
  <2>. QED BY <2>1, <2>2, ApartKept
<1>. QED BY <1>4, <1>5, <1>6, <1>7

LEMMA CallApart ==
  ASSUME IInv, StepDrive
  PROVE  DriveApart
<1>1. Working("drive")
  BY DEF StepDrive
<1>2. PICK a \in run.todo : DriveCall(a)
  BY DEF StepDrive
<1>3. /\ run.cmd \in {"seed", "delta"}
      /\ DriveTodo(run.todo, drive, run.mem.drive, archive.files)
  BY <1>1, WorkingIs
<1>4. /\ IsWorld(archive, drive, mail, cal, book) /\ IsAt(run, book, archive, drive, mail)
      /\ NewDriveId \in Nat \ {Root} /\ NewInDrive(run.mem, NewDriveId)
  BY <1>3, CommandIs
<1>5. /\ run.mem # NoBook /\ run.mem.tag \in Nat \ {0} /\ IsBook(run.mem, archive)
      /\ OwnMarks(drive, run.mem.drive, run.mem.tag)
      /\ DOMAIN run.mem.drive \subseteq Paths(archive.files)
  BY <1>4, AtKeeps
<1>6. \A q \in DOMAIN run.mem.drive : run.mem.drive[q].id # NewDriveId
  BY <1>4, <1>5 DEF NewInDrive
<1>7. IsDrive(drive) /\ NewDriveId \in Nat \ {Root}
  BY <1>4 DEF IsWorld
<1>. DEFINE r == IF a.do = "seed"
                 THEN DriveSeeded(drive, run.mem.drive, run.mem.tag, archive.files, a.path,
                                  NewDriveId)
                 ELSE DriveDone(a, drive, run.mem.drive, run.mem.tag, archive.files, NewDriveId)
<1>8. NoNewTwins(run.mem.drive, r.book)
  <2>1. CASE a.do = "seed"
    BY <1>3, <1>5, <1>6, <1>7, <2>1, DriveSeeds DEF DriveGood
  <2>2. CASE a.do # "seed"
    <3>1. DriveOutcome(a, drive, run.mem.drive, run.mem.tag, archive.files, run.todo, NewDriveId)
      BY ONLY <1>3, <1>5, <1>6, <1>7, <2>2, DriveDoes
    <3>. QED BY <2>2, <3>1, Zenon DEF DriveOutcome, DriveGood
  <2>. QED BY <2>1, <2>2
<1>9. book' = book \/ book' = [run.mem EXCEPT !.drive = r.book]
  BY <1>2 DEF DriveCall, Did, Save, Keep, Died
<1>. HIDE DEF r
<1>10. CASE book' = [run.mem EXCEPT !.drive = r.book]
  <2>1. book'.drive = r.book
    BY <1>5, <1>10 DEF IsBook
  <2>2. DriveTwins(run.mem.drive, book'.drive, drive)
    BY <1>8, <2>1 DEF NoNewTwins, DriveTwins
  <2>. QED BY <1>4, <2>2, ApartMoved
<1>. QED BY <1>9, <1>10, ApartKept

LEMMA OtherCallApart ==
  ASSUME IInv, StepMail \/ StepCalendar
  PROVE  DriveApart
<1>1. Working("gmail") \/ Working("calendar")
  BY DEF StepMail, StepCalendar
<1>2. run.cmd \in {"seed", "delta"}
  BY <1>1, WorkingIs
<1>3. IsAt(run, book, archive, drive, mail)
  BY <1>2, CommandIs
<1>4. IsBook(run.mem, archive)
  BY <1>3, AtKeeps
<1>5. CASE StepMail
  <2>1. PICK x : book' = book \/ book' = [run.mem EXCEPT !.mail = x]
    BY <1>5 DEF StepMail, MailCall, Did, Died, Keep, Save
  <2>2. book' = book \/ book'.drive = run.mem.drive
    BY <1>4, <2>1 DEF IsBook
  <2>. QED BY <1>3, <2>2, ApartWritten
<1>6. CASE StepCalendar
  <2>1. PICK x : book' = book \/ book' = [run.mem EXCEPT !.cal = x]
    BY <1>6 DEF StepCalendar, CalendarCall, Did, Died, Keep, Save
  <2>2. book' = book \/ book'.drive = run.mem.drive
    BY <1>4, <2>1 DEF IsBook
  <2>. QED BY <1>3, <2>2, ApartWritten
<1>. QED BY <1>5, <1>6

LEMMA FinishApart ==
  ASSUME IInv, FinishSeed \/ FinishDelta \/ FinishReset
  PROVE  DriveApart
<1>1. CASE FinishReset
  BY <1>1, ApartKept DEF FinishReset, Save
<1>2. CASE FinishSeed \/ FinishDelta
  <2>1. run.cmd \in {"seed", "delta"}
    BY <1>2 DEF FinishSeed, FinishDelta
  <2>2. IsAt(run, book, archive, drive, mail)
    BY <2>1, CommandIs
  <2>3. IsBook(run.mem, archive)
    BY <2>2, AtKeeps
  <2>4. PICK x : book' = book \/ book' = run.mem \/ book' = [run.mem EXCEPT !.done = x]
    BY <1>2 DEF FinishSeed, FinishDelta, Save, Keep
  <2>5. book' = book \/ book'.drive = run.mem.drive
    BY <2>3, <2>4 DEF IsBook
  <2>. QED BY <2>2, <2>5, ApartWritten
<1>. QED BY <1>1, <1>2

LEMMA StepApart ==
  ASSUME IInv, [Next]_vars
  PROVE  DriveApart
<1>1. CASE \E svcs \in (SUBSET archive.serves) \ {{}} :
             StartSeed(svcs) \/ StartDelta(svcs) \/ StartReset(svcs)
  BY <1>1, ApartKept DEF StartSeed, StartDelta, StartReset, Command
<1>2. CASE FinishSeed \/ FinishDelta \/ FinishReset
  BY <1>2, FinishApart
<1>3. CASE \/ OpenDriveSeed \/ OpenMailSeed \/ OpenCalendarSeed
           \/ OpenDriveDelta \/ OpenMailDelta \/ OpenCalendarDelta
  BY <1>3, OpenApart
<1>4. CASE StepDrive \/ StepMail \/ StepCalendar
  BY <1>4, CallApart, OtherCallApart
<1>5. CASE NextService \/ Wipe \/ Edit \/ TouchArchive \/ UNCHANGED vars
  BY <1>5, ApartKept DEF NextService, Wipe, Edit, TouchArchive, vars
<1>. QED BY <1>1, <1>2, <1>3, <1>4, <1>5 DEF Next

LEMMA OnceNamed ==
  ASSUME IInv', book' # NoBook
  PROVE  ~NamesTwice(book'.mail.messages) /\ ~NamesTwice(book'.cal)
BY DEF IInv, IsState, GoodBook, OwnMail, OwnIds

\* The manifest (drive.py, gmail.py and calendar_seed.py over store.py) never names a
\* message or an event twice, and comes to name one object of Drive under two paths
\* only by the adoption of an object without a mark which one of the two named before.
THEOREM BookIsInjective == Spec => BookStaysInjective
<1>1. IInv /\ IInv' /\ [Next]_vars =>
        [book' # NoBook =>
           /\ ~NamesTwice(book'.mail.messages) /\ ~NamesTwice(book'.cal)
           /\ \A p, q \in DOMAIN book'.drive :
                LET i == book'.drive[p].id
                IN p # q /\ book'.drive[q].id = i =>
                     /\ Names(book, p, i) \/ Names(book, q, i)
                     /\ \/ Names(book, p, i) /\ Names(book, q, i)
                        \/ i \in DOMAIN drive /\ drive[i].mark = NoMark]_vars
  BY StepApart, OnceNamed DEF DriveApart
<1>. QED BY <1>1, EngineInvariant, PTL DEF Spec, BookStaysInjective

-----------------------------------------------------------------------------
(* A delta that reads back what it did.                                    *)

\* A delta works by the manifest that is on disk, for services of its archive.
DeltaBook == run.cmd = "delta" => book # NoBook /\ run.svcs \subseteq archive.serves

\* What it vouched for stays true until the account or the manifest changes.
DeltaInv ==
  /\ DeltaBook
  /\ last.cmd = "delta" /\ last.result = "ok" =>
       run = Idle /\ \A s \in last.svcs : Is(s)

LEMMA DeltaHasBook ==
  ASSUME IInv, run.cmd = "delta", book # NoBook
  PROVE  book = run.mem
BY CommandIs DEF IsAt

\* Whether an account is the baseline depends on the archive, the account and the
\* bytes that the manifest names.
LEMMA IsKept ==
  ASSUME UNCHANGED <<archive, drive, mail, cal, book>>, NEW s
  PROVE  Is(s)' <=> Is(s)
BY DEF Is, DriveIs, Booked, Kept

\* A manifest with another part is a manifest.
LEMMA BookStays ==
  ASSUME NEW a, NEW b, IsBook(b, a), NEW x, NEW b2,
         \/ b2 = [b EXCEPT !.drive = x] \/ b2 = [b EXCEPT !.mail = x]
         \/ b2 = [b EXCEPT !.cal = x] \/ b2 = [b EXCEPT !.done = x]
  PROVE  b2 # NoBook
<1>1. b = [tag |-> b.tag, stamp |-> b.stamp, done |-> b.done, drive |-> b.drive,
           mail |-> b.mail, cal |-> b.cal]
  BY DEF IsBook
<1>2. "drive" \in DOMAIN b
  BY ONLY <1>1
<1>3. DOMAIN b2 = DOMAIN b
  OBVIOUS
<1>4. DOMAIN NoBook = {"tag"}
  BY DEF NoBook
<1>. QED BY <1>2, <1>3, <1>4

\* The run goes on as the same command for the same services, or ends without success.
Onward ==
  \/ run' = Idle /\ last'.result \notin {"ok", "unverified"}
  \/ last' = last /\ run'.cmd = run.cmd /\ run'.svcs = run.svcs

LEMMA RunServes ==
  ASSUME NEW r, IsRunRecord(r), NEW o, NEW t, NEW b, NEW x, NEW l, NEW r2,
         \/ r2 = RunOpened(r, o, t, b, x) \/ r2 = RunAfter(r, t, b)
         \/ r2 = RunOnward(r, l, o) \/ r2 = RunWiped(r, l)
  PROVE  r2.cmd = r.cmd /\ r2.svcs = r.svcs
<1>1. r = [cmd |-> r.cmd, svcs |-> r.svcs, left |-> r.left, open |-> r.open,
           todo |-> r.todo, mem |-> r.mem, twice |-> r.twice]
  BY DEF IsRunRecord
<1>2. {"cmd", "svcs"} \subseteq DOMAIN r
  BY ONLY <1>1
<1>. QED BY <1>2 DEF RunOpened, RunAfter, RunOnward, RunWiped

LEMMA OpenedOn ==
  ASSUME IsRunRecord(run), NEW todo, NEW b, Open(todo, b), UNCHANGED last
  PROVE  Onward
<1>1. PICK o, x : run' = RunOpened(run, o, todo, b, x)
  BY Zenon DEF Open, RunOpened
<1>. QED BY <1>1, RunServes DEF Onward

LEMMA EndedOn ==
  ASSUME NEW result \in {"refused", "failed", "aborted"}, End(result)
  PROVE  Onward
BY DEF End, Onward

LEMMA DidOn ==
  ASSUME IsRunRecord(run), NEW a, NEW b, Did(a, b)
  PROVE  Onward
<1>1. PICK t : run' = RunAfter(run, t, b) /\ last' = last
  BY Zenon DEF Did, RunAfter
<1>. QED BY <1>1, RunServes DEF Onward

LEMMA CommandsGoOn ==
  ASSUME IInv,
         \/ NextService \/ OpenDriveSeed \/ OpenMailSeed \/ OpenCalendarSeed
         \/ OpenDriveDelta \/ OpenMailDelta \/ OpenCalendarDelta
         \/ StepDrive \/ StepMail \/ StepCalendar \/ Wipe
  PROVE  run # Idle /\ archive' = archive /\ Onward
<1>1. run.cmd # "none" /\ archive' = archive
  BY DEF NextService, OpenDriveSeed, OpenMailSeed, OpenCalendarSeed, OpenDriveDelta,
         OpenMailDelta, OpenCalendarDelta, StepDrive, StepMail, StepCalendar, Wipe,
         Opening, Working, Here
<1>2. run # Idle
  BY <1>1 DEF Idle
<1>3. IsRunRecord(run)
  BY <1>2 DEF IInv, IsState, IsRun, IsRunRecord
<1>. SUFFICES Onward
  BY <1>1, <1>2
<1>5. CASE NextService
  <2>1. PICK l, o : run' = RunOnward(run, l, o) /\ last' = last
    BY <1>5, Zenon DEF NextService, RunOnward
  <2>. QED BY <1>3, <2>1, RunServes DEF Onward
<1>6. CASE OpenDriveSeed \/ OpenCalendarSeed \/ OpenDriveDelta \/ OpenCalendarDelta
  <2>1. \/ \E todo, b : Open(todo, b) /\ UNCHANGED last
        \/ End("refused")
    BY <1>6, Zenon DEF OpenDriveSeed, OpenCalendarSeed, OpenDriveDelta, OpenCalendarDelta
  <2>. QED BY <1>3, <2>1, OpenedOn, EndedOn
<1>7. CASE OpenMailSeed \/ OpenMailDelta
  <2>1. \/ \E todo, b : Open(todo, b) /\ UNCHANGED last
        \/ End("refused") \/ \E s, x : Died(s, x)
    BY <1>7, Zenon DEF OpenMailSeed, OpenMailDelta
  <2>. QED BY <1>3, <2>1, OpenedOn, EndedOn DEF Died
<1>8. CASE StepDrive \/ StepMail \/ StepCalendar
  <2>1. \/ \E a, b : Did(a, b)
        \/ End("failed") \/ \E s, x : Died(s, x)
    <3>1. PICK a : DriveCall(a) \/ MailCall(a) \/ CalendarCall(a)
      BY <1>8 DEF StepDrive, StepMail, StepCalendar
    <3>. QED BY <3>1, Zenon DEF DriveCall, MailCall, CalendarCall
  <2>. QED BY <1>3, <2>1, DidOn, EndedOn DEF Died
<1>9. CASE Wipe
  <2>1. \/ run' = RunWiped(run, Tail(run.left)) /\ last' = last
        \/ \E s, x : Died(s, x)
    BY <1>9 DEF Wipe, RunWiped
  <2>. QED BY <1>3, <2>1, RunServes, EndedOn DEF Onward, Died
<1>. QED BY <1>1, <1>2, <1>5, <1>6, <1>7, <1>8, <1>9

\* While a delta runs there is a manifest.
LEMMA DeltaSaves ==
  ASSUME IInv, run.cmd = "delta", book # NoBook,
         \/ NextService \/ OpenDriveSeed \/ OpenMailSeed \/ OpenCalendarSeed
         \/ OpenDriveDelta \/ OpenMailDelta \/ OpenCalendarDelta
         \/ StepDrive \/ StepMail \/ StepCalendar \/ Wipe
  PROVE  book' # NoBook
<1>1. IsBook(run.mem, archive)
  BY CommandIs, AtKeeps
<1>2. CASE NextService \/ Wipe
  BY <1>2 DEF NextService, Wipe
<1>3. CASE OpenDriveSeed \/ OpenMailSeed \/ OpenCalendarSeed
  BY <1>3 DEF OpenDriveSeed, OpenMailSeed, OpenCalendarSeed
<1>4. CASE OpenDriveDelta \/ OpenMailDelta \/ OpenCalendarDelta
  <2>1. PICK x : \/ book' = book
                 \/ book' = [run.mem EXCEPT !.drive = x] \/ book' = [run.mem EXCEPT !.mail = x]
                 \/ book' = [run.mem EXCEPT !.cal = x]
    BY <1>4, Zenon DEF OpenDriveDelta, OpenMailDelta, OpenCalendarDelta, Save, Keep, Died
  <2>. QED BY <1>1, <2>1, BookStays
<1>5. CASE StepDrive \/ StepMail \/ StepCalendar
  <2>1. PICK a : DriveCall(a) \/ MailCall(a) \/ CalendarCall(a)
    BY <1>5 DEF StepDrive, StepMail, StepCalendar
  <2>2. PICK x : \/ book' = book
                 \/ book' = [run.mem EXCEPT !.drive = x] \/ book' = [run.mem EXCEPT !.mail = x]
                 \/ book' = [run.mem EXCEPT !.cal = x]
    BY <2>1 DEF DriveCall, MailCall, CalendarCall, Did, Save, Keep, Died
  <2>. QED BY <1>1, <2>2, BookStays
<1>. QED BY <1>2, <1>3, <1>4, <1>5

LEMMA DeltaBookKept ==
  ASSUME IInv, DeltaBook, [Next]_vars
  PROVE  DeltaBook'
<1>1. CASE \E svcs \in (SUBSET archive.serves) \ {{}} :
             StartSeed(svcs) \/ StartDelta(svcs) \/ StartReset(svcs)
  <2>1. PICK svcs \in (SUBSET archive.serves) \ {{}} :
               StartSeed(svcs) \/ StartDelta(svcs) \/ StartReset(svcs)
    BY <1>1
  <2>2. UNCHANGED <<archive, book>>
    BY <2>1 DEF StartSeed, StartDelta, StartReset, Command
  <2>3. \/ run' = Idle \/ run'.cmd \in {"seed", "reset"}
        \/ (run'.cmd = "delta" /\ run'.svcs = svcs /\ book # NoBook)
    BY <2>1 DEF StartSeed, StartDelta, StartReset, Refuse, Start
  <2>. QED BY <2>2, <2>3 DEF DeltaBook, Idle
<1>2. CASE FinishSeed \/ FinishDelta \/ FinishReset
  <2>1. run' = Idle
    BY <1>2 DEF FinishSeed, FinishDelta, FinishReset, End
  <2>. QED BY <2>1 DEF DeltaBook, Idle
<1>3. CASE \/ NextService \/ OpenDriveSeed \/ OpenMailSeed \/ OpenCalendarSeed
           \/ OpenDriveDelta \/ OpenMailDelta \/ OpenCalendarDelta
           \/ StepDrive \/ StepMail \/ StepCalendar \/ Wipe
  <2>1. archive' = archive /\ Onward
    BY <1>3, CommandsGoOn
  <2>2. run.cmd = "delta" => book' # NoBook
    BY <1>3, DeltaSaves DEF DeltaBook
  <2>. QED BY <2>1, <2>2 DEF DeltaBook, Onward, Idle
<1>4. CASE Edit \/ TouchArchive \/ UNCHANGED vars
  <2>1. UNCHANGED <<archive, book, run>>
    BY <1>4 DEF Edit, TouchArchive, vars
  <2>. QED BY <2>1 DEF DeltaBook
<1>. QED BY <1>1, <1>2, <1>3, <1>4 DEF Next

LEMMA DeltaVouches ==
  ASSUME Readbacks = {TRUE}, IInv, DeltaBook, FinishDelta, last'.result = "ok",
         NEW s \in last'.svcs
  PROVE  Is(s)'
<1>1. run.cmd = "delta" /\ UNCHANGED <<archive, drive, mail, cal>>
  BY DEF FinishDelta, worlds
<1>2. book = run.mem /\ book # NoBook /\ run.svcs \subseteq archive.serves
  BY <1>1, DeltaHasBook DEF DeltaBook
<1>3. book' = book /\ s \in run.svcs /\ Verified(s, book)
  BY <1>2 DEF FinishDelta, End, Save, Keep
<1>4. Is(s)
  BY <1>2, <1>3, VouchedFor
<1>. QED BY <1>1, <1>3, <1>4, IsKept

LEMMA DeltaNext ==
  ASSUME Readbacks = {TRUE}, IInv, DeltaInv, [Next]_vars
  PROVE  DeltaInv'
<1>1. DeltaBook'
  BY DeltaBookKept DEF DeltaInv
<1>. SUFFICES ASSUME last'.cmd = "delta" /\ last'.result = "ok"
              PROVE  run' = Idle /\ \A s \in last'.svcs : Is(s)'
  BY <1>1 DEF DeltaInv
<1>2. CASE \E svcs \in (SUBSET archive.serves) \ {{}} :
             StartSeed(svcs) \/ StartDelta(svcs) \/ StartReset(svcs)
  BY <1>2 DEF StartSeed, StartDelta, StartReset, Refuse, Start, NoCommand
<1>3. CASE FinishSeed \/ FinishReset
  BY <1>3 DEF FinishSeed, FinishReset, End
<1>4. CASE FinishDelta
  <2>1. run' = Idle
    BY <1>4 DEF FinishDelta, End
  <2>. QED BY <1>4, <2>1, DeltaVouches DEF DeltaInv
<1>5. CASE \/ NextService \/ OpenDriveSeed \/ OpenMailSeed \/ OpenCalendarSeed
           \/ OpenDriveDelta \/ OpenMailDelta \/ OpenCalendarDelta
           \/ StepDrive \/ StepMail \/ StepCalendar \/ Wipe
  BY <1>5, CommandsGoOn DEF DeltaInv, Onward
<1>6. CASE Edit
  BY <1>6 DEF Edit, NoCommand
<1>7. CASE TouchArchive \/ UNCHANGED vars
  <2>1. UNCHANGED <<archive, drive, mail, cal, book, run, last>>
    BY <1>7 DEF TouchArchive, worlds, vars
  <2>2. \A s : Is(s)' <=> Is(s)
    BY <2>1, IsKept
  <2>. QED BY <2>1, <2>2 DEF DeltaInv
<1>. QED BY <1>2, <1>3, <1>4, <1>5, <1>6, <1>7 DEF Next

\* With the read-back on (engine.py, GAB_SKIP_VERIFY=0), a delta that ends well leaves
\* each of its services holding the baseline and nothing else, for every archive and
\* whatever was done to the account and the manifest before: also by a manifest that
\* names an object twice.
THEOREM ReadBackDeltaRestores ==
  ASSUME Readbacks = {TRUE}
  PROVE  Spec => [](last.cmd = "delta" /\ last.result = "ok" => \A s \in last.svcs : Is(s))
<1>1. Init => DeltaInv
  BY DEF Init, DeltaInv, DeltaBook, Idle, NoCommand
<1>2. IInv /\ DeltaInv /\ [Next]_vars => DeltaInv'
  BY DeltaNext
<1>3. DeltaInv => (last.cmd = "delta" /\ last.result = "ok" => \A s \in last.svcs : Is(s))
  BY DEF DeltaInv
<1>. QED BY <1>1, <1>2, <1>3, EngineInvariant, PTL DEF Spec

-----------------------------------------------------------------------------
(* A delta at one service.                                                 *)

\* What a step leaves a command in the middle of: what it was in the middle of, or a
\* service that the step opened or worked on.
LEMMA CommandAmid ==
  ASSUME IInv, [Next]_vars, run' # Idle, NEW q, Amid(run', q)
  PROVE  /\ archive' = archive /\ run # Idle /\ run'.cmd = run.cmd
         /\ \/ UNCHANGED <<drive, mail, cal, book, run>>
            \/ q = "drive" /\ (OpenDriveSeed \/ OpenDriveDelta \/ StepDrive)
            \/ q = "gmail" /\ (OpenMailSeed \/ OpenMailDelta \/ StepMail)
            \/ q = "calendar" /\ (OpenCalendarSeed \/ OpenCalendarDelta \/ StepCalendar)
<1>2. CASE \E svcs \in (SUBSET archive.serves) \ {{}} :
             StartSeed(svcs) \/ StartDelta(svcs) \/ StartReset(svcs)
  <2>1. run' = Idle \/ ~run'.open
    BY <1>2 DEF StartSeed, StartDelta, StartReset, Refuse, Start
  <2>. QED BY <2>1 DEF Amid
<1>3. CASE FinishSeed \/ FinishDelta \/ FinishReset
  BY <1>3 DEF FinishSeed, FinishDelta, FinishReset, End
<1>4. CASE Edit \/ TouchArchive \/ UNCHANGED vars
  <2>1. run' = run /\ archive' = archive
    BY <1>4 DEF Edit, TouchArchive, vars
  <2>2. ~Edit
    BY <2>1 DEF Edit
  <2>. QED BY <1>4, <2>1, <2>2 DEF TouchArchive, worlds, vars
<1>5. CASE \/ NextService \/ OpenDriveSeed \/ OpenMailSeed \/ OpenCalendarSeed
           \/ OpenDriveDelta \/ OpenMailDelta \/ OpenCalendarDelta
           \/ StepDrive \/ StepMail \/ StepCalendar \/ Wipe
  <2>1. run # Idle /\ archive' = archive /\ run'.cmd = run.cmd
    BY <1>5, CommandsGoOn DEF Onward
  <2>2. IsRunRecord(run)
    BY <2>1 DEF IInv, IsState, IsRun, IsRunRecord
  <2>3. ~NextService
    <3>. SUFFICES ASSUME NextService PROVE FALSE
      OBVIOUS
    <3>1. PICK l, o : run' = RunOnward(run, l, o) /\ ~o
      BY Zenon DEF NextService, RunOnward
    <3>. QED BY <2>2, <3>1, RunMoves DEF Amid
  <2>4. ~Wipe
    <3>. SUFFICES ASSUME Wipe PROVE FALSE
      OBVIOUS
    <3>1. ~run.open
      BY <2>1 DEF Wipe, IInv, IsState, IsRun
    <3>2. PICK l : run' = RunWiped(run, l)
      BY DEF Wipe, RunWiped, Died, End
    <3>. QED BY <2>2, <3>1, <3>2, RunWipes DEF Amid
  <2>5. ASSUME NEW s, NEW todo, NEW b, Opening(s), Open(todo, b) PROVE q = s
    <3>1. PICK o, x : run' = RunOpened(run, o, todo, b, x)
      BY <2>5, Zenon DEF Open, RunOpened
    <3>. QED BY <2>2, <2>5, <3>1, RunOpens DEF Amid, Opening, Here
  <2>6. ASSUME NEW s, NEW a, NEW b, Working(s), Did(a, b) PROVE q = s
    <3>1. PICK t : run' = RunAfter(run, t, b)
      BY <2>6, Zenon DEF Did, RunAfter
    <3>. QED BY <2>2, <2>6, <3>1, RunDid DEF Amid, Working, Here
  <2>7. CASE OpenDriveSeed \/ OpenDriveDelta
    BY <2>1, <2>5, <2>7 DEF OpenDriveSeed, OpenDriveDelta, End
  <2>8. CASE OpenMailSeed \/ OpenMailDelta
    BY <2>1, <2>5, <2>8 DEF OpenMailSeed, OpenMailDelta, End, Died
  <2>9. CASE OpenCalendarSeed \/ OpenCalendarDelta
    BY <2>1, <2>5, <2>9 DEF OpenCalendarSeed, OpenCalendarDelta, End
  <2>10. CASE StepDrive
    BY <2>1, <2>6, <2>10 DEF StepDrive, DriveCall, End, Died
  <2>11. CASE StepMail
    BY <2>1, <2>6, <2>11 DEF StepMail, MailCall, End, Died
  <2>12. CASE StepCalendar
    BY <2>1, <2>6, <2>12 DEF StepCalendar, CalendarCall, End, Died
  <2>. QED BY <1>5, <2>3, <2>4, <2>7, <2>8, <2>9, <2>10, <2>11, <2>12
<1>. QED BY <1>2, <1>3, <1>4, <1>5 DEF Next

LEMMA DeltaAmid ==
  ASSUME IInv, [Next]_vars, run'.cmd = "delta", NEW q, Amid(run', q)
  PROVE  /\ run.cmd = "delta" /\ archive' = archive
         /\ \/ UNCHANGED <<drive, mail, cal, book, run>>
            \/ q = "drive" /\ (OpenDriveDelta \/ StepDrive)
            \/ q = "gmail" /\ (OpenMailDelta \/ StepMail)
            \/ q = "calendar" /\ (OpenCalendarDelta \/ StepCalendar)
<1>1. run' # Idle
  BY DEF Idle
<1>. QED BY <1>1, CommandAmid DEF OpenDriveSeed, OpenMailSeed, OpenCalendarSeed

-----------------------------------------------------------------------------
(* A delta keeps the events that the manifest names.                       *)

\* No call is a seed's, and nothing left to delete is entered, or will be by an insertion.
CalendarKept(todo, b, t) ==
  \A d \in todo :
    /\ d.do # "seed"
    /\ d.do = "delete" =>
         /\ \A s \in DOMAIN b : b[s].id # d.id
         /\ \A a \in todo : a.do = "insert" => \A g : d.id # EventId(a.src, t, g)

LEMMA CalendarPlanKeeps ==
  ASSUME NEW c, IsCalendar(c), NEW b, NEW t \in Nat \ {0},
         NEW events, events \in Seq(ToSet(events)), NoSource \notin ToSet(events),
         DOMAIN b \subseteq ToSet(events),
         \A s \in ToSet(events) : CalendarUnambiguous(c, b, t, events, s)
  PROVE  CalendarKept(CalendarPlan(c, b, t, events).todo, CalendarAdopted(c, b, t, events), t)
<1>. DEFINE todo == CalendarPlan(c, b, t, events).todo
            b2 == CalendarAdopted(c, b, t, events)
            S(s) == Standing(c, b, t, s)
<1>0. \A d \in todo : d.do # "seed"
  BY DEF CalendarPlan
<1>1. ASSUME NEW d \in todo, d.do = "delete"
      PROVE  d.id \in DOMAIN c.events /\ \A s \in ToSet(events) : d.id \notin S(s)
  BY <1>1 DEF CalendarPlan
<1>2. ASSUME NEW a \in todo, a.do = "insert"
      PROVE  a.src \in ToSet(events) /\ S(a.src) = {}
  BY <1>2 DEF CalendarPlan
<1>3. ASSUME NEW s \in DOMAIN b2, b2[s].id \in DOMAIN c.events
      PROVE  s \in ToSet(events) /\ b2[s].id \in S(s)
  <2>1. s \in ToSet(events) /\ (s \in DOMAIN b \/ S(s) # {})
    BY <1>3 DEF CalendarAdopted
  <2>2. CASE S(s) \subseteq {WantedId(b, t, s)} /\ s \in DOMAIN b
    <3>1. b2[s] = b[s]
      BY <1>3, <2>2 DEF CalendarAdopted
    <3>. QED BY <1>3, <2>1, <2>2, <3>1 DEF Standing, WantedId
  <2>3. CASE ~(S(s) \subseteq {WantedId(b, t, s)} /\ s \in DOMAIN b)
    <3>. DEFINE i == CHOOSE i \in S(s) : TRUE
    <3>1. b2[s] = [id |-> i, gen |-> GenerationOf(b, s)]
      BY <1>3, <2>3 DEF CalendarAdopted
    <3>2. S(s) # {}
      BY <2>1, <2>3
    <3>3. i \in S(s)
      BY <3>2
    <3>. QED BY <2>1, <3>1, <3>3
  <2>. QED BY <2>2, <2>3
<1>4. ASSUME NEW s \in ToSet(events), S(s) = {}, NEW i \in DOMAIN c.events, NEW g,
             i = EventId(s, t, g)
      PROVE  \E r \in ToSet(events) : i \in S(r)
  <2>. DEFINE e == c.events[i]
  <2>1. i[1] # 0 /\ i[2] = s
    BY <1>4 DEF EventId
  <2>2. e.src \in {s, NoSource} /\ (e.src = NoSource => e.tag = 0)
    BY <2>1 DEF IsCalendar, IsEvent
  <2>3. Marked(c, t, s) = {} /\ Marked(c, 0, s) = {} /\ Foreign(c, t, s) = {}
    BY <1>4 DEF Standing
  <2>4. e.src # s
    <3>. SUFFICES ASSUME e.src = s PROVE FALSE
      OBVIOUS
    <3>1. i \in Marked(c, e.tag, s)
      BY DEF Marked
    <3>2. e.tag \in ForeignTags(c, t)
      BY <2>3, <3>1 DEF ForeignTags
    <3>. QED BY <2>3, <3>1, <3>2 DEF Foreign
  <2>5. i \in Bare(c)
    BY <2>2, <2>4 DEF Bare, Marked
  <2>6. i \in StandingBefore(c, b, t, events, s)
    BY <1>4, <2>5 DEF CalendarUnambiguous
  <2>. DEFINE m == CHOOSE n \in DOMAIN events : events[n] = s
  <2>7. m \in DOMAIN events
    <3>1. \E n \in DOMAIN events : events[n] = s
      BY DEF ToSet
    <3>. QED BY <3>1
  <2>8. PICK k \in 1 .. m - 1 : i \in S(events[k])
    BY <2>6 DEF StandingBefore
  <2>9. k \in DOMAIN events
    <3>. HIDE DEF m
    <3>1. DOMAIN events = 1 .. Len(events) /\ Len(events) \in Nat
      OBVIOUS
    <3>. QED BY <2>7, <2>8, <3>1
  <2>. QED BY <2>8, <2>9 DEF ToSet
<1>. HIDE DEF todo, b2, S
<1>5. CalendarKept(todo, b2, t)
  BY <1>0, <1>1, <1>2, <1>3, <1>4 DEF CalendarKept
<1>. QED BY <1>5 DEF todo, b2

LEMMA CalendarCallKeeps ==
  ASSUME NEW c, NEW b, NEW t, NEW todo, CalendarKept(todo, b, t), NEW a \in todo,
         a.do \in {"insert", "update", "delete"},
         a.do = "update" => a.src \in DOMAIN b /\ b[a.src].id = a.id
  PROVE  CalendarKept(todo \ {a}, CalendarDone(a, c, b, t).book, t)
<1>. DEFINE b2 == CalendarDone(a, c, b, t).book
<1>1. ASSUME NEW d \in todo, d.do = "delete", NEW s \in DOMAIN b2
      PROVE  b2[s].id # d.id
  <2>1. CASE a.do = "insert"
    <3>. DEFINE g == FreshGeneration(c, b, t, a.src)
    <3>1. b2 = Put(b, a.src, [id |-> EventId(a.src, t, g), gen |-> g])
      BY <2>1 DEF CalendarDone, CalendarInserted
    <3>. HIDE DEF g, b2
    <3>2. (s = a.src /\ b2[s].id = EventId(a.src, t, g)) \/ (s \in DOMAIN b /\ b2[s] = b[s])
      BY <1>1, <3>1 DEF Put
    <3>. QED BY <1>1, <2>1, <3>2 DEF CalendarKept
  <2>2. CASE a.do = "update"
    <3>1. b2 = Put(b, a.src, [id |-> a.id, gen |-> GenerationOf(b, a.src)])
      BY <2>2 DEF CalendarDone
    <3>. HIDE DEF b2
    <3>2. s \in DOMAIN b /\ b2[s].id = b[s].id
      BY <1>1, <2>2, <3>1 DEF Put
    <3>. QED BY <1>1, <3>2 DEF CalendarKept
  <2>3. CASE a.do = "delete"
    <3>1. b2 = b
      BY <2>3 DEF CalendarDone
    <3>. QED BY <1>1, <3>1 DEF CalendarKept
  <2>. QED BY <2>1, <2>2, <2>3
<1>. HIDE DEF b2
<1>2. CalendarKept(todo \ {a}, b2, t)
  BY <1>1 DEF CalendarKept
<1>. QED BY <1>2 DEF b2

\* A delta in the middle of the calendar has nothing of the manifest's to delete.
CalendarSaved ==
  run.cmd = "delta" /\ Amid(run, "calendar") => CalendarKept(run.todo, run.mem.cal, run.mem.tag)

LEMMA CalendarStaysSaved ==
  ASSUME IInv, CalendarSaved, [Next]_vars
  PROVE  CalendarSaved'
<1>. SUFFICES ASSUME run'.cmd = "delta", Amid(run', "calendar")
              PROVE  CalendarKept(run'.todo, run'.mem.cal, run'.mem.tag)
  BY DEF CalendarSaved, Amid
<1>1. /\ run.cmd = "delta"
      /\ UNCHANGED run \/ OpenCalendarDelta \/ StepCalendar
  BY DeltaAmid
<1>2. run' # Idle
  BY DEF Idle
<1>3. /\ IsAt(run, book, archive, drive, mail) /\ IsCalendar(cal) /\ IsArchive(archive)
      /\ IsRunRecord(run)
  BY <1>1, CommandIs DEF IsWorld, IsAt
<1>4. IsBook(run.mem, archive) /\ run.mem.tag \in Nat \ {0}
  BY <1>3, AtKeeps
<1>5. CASE UNCHANGED run
  BY <1>5 DEF CalendarSaved
<1>6. CASE OpenCalendarDelta
  <2>. DEFINE plan == CalendarPlan(cal, run.mem.cal, run.mem.tag, archive.events)
              d == CalendarAdopted(cal, run.mem.cal, run.mem.tag, archive.events)
  <2>1. plan.ok /\ Open(plan.todo, [run.mem EXCEPT !.cal = d])
    BY <1>2, <1>6 DEF OpenCalendarDelta, End
  <2>2. \A s \in ToSet(archive.events) :
          CalendarUnambiguous(cal, run.mem.cal, run.mem.tag, archive.events, s)
    BY <2>1 DEF CalendarPlan
  <2>3. CalendarKept(plan.todo, d, run.mem.tag)
    BY <1>3, <1>4, <2>2, CalendarPlanKeeps DEF IsBook, IsArchive
  <2>4. DOMAIN d \subseteq ToSet(archive.events)
    BY <1>4 DEF CalendarAdopted, IsBook
  <2>. DEFINE b == [run.mem EXCEPT !.cal = d]
              todo == plan.todo
  <2>5. Open(todo, b)
    BY <2>1
  <2>. HIDE DEF d, todo
  <2>6. b.tag = run.mem.tag /\ b.cal = d
    BY <1>4, <2>4, BookCalendar DEF SameDrive
  <2>. HIDE DEF b
  <2>7. PICK o, x : run' = RunOpened(run, o, todo, b, x)
    BY <2>5, Zenon DEF Open, RunOpened
  <2>8. run'.todo = todo /\ run'.mem = b
    BY <1>3, <2>7, RunOpens
  <2>. QED BY <2>3, <2>6, <2>8 DEF todo
<1>7. CASE StepCalendar
  <2>1. PICK a \in run.todo : CalendarCall(a)
    BY <1>7 DEF StepCalendar
  <2>2. Working("calendar")
    BY <1>7 DEF StepCalendar
  <2>3. /\ CalendarKept(run.todo, run.mem.cal, run.mem.tag)
        /\ CalendarTodo(run.todo, run.mem.cal, archive.events)
    BY <1>1, <2>2, WorkingIs DEF CalendarSaved, Working, Here, Amid
  <2>4. /\ a.do \in {"insert", "update", "delete"}
        /\ a.do = "update" => a.src \in DOMAIN run.mem.cal /\ run.mem.cal[a.src].id = a.id
    BY <2>3 DEF CalendarKept, CalendarTodo
  <2>. DEFINE d == CalendarDone(a, cal, run.mem.cal, run.mem.tag).book
              b == [run.mem EXCEPT !.cal = d]
              todo == run.todo \ {a}
  <2>5. Did(a, b)
    BY <1>2, <2>1, <2>4 DEF CalendarCall, End, Died
  <2>6. CalendarKept(todo, d, run.mem.tag)
    BY <2>3, <2>4, CalendarCallKeeps
  <2>7. b.tag = run.mem.tag /\ b.cal = d
    BY <1>4 DEF IsBook
  <2>. HIDE DEF d, b
  <2>8. run' = RunAfter(run, todo, b)
    BY <2>5 DEF Did, RunAfter
  <2>. HIDE DEF todo
  <2>9. run'.todo = todo /\ run'.mem = b
    BY <1>3, <2>8, RunDid
  <2>. QED BY <2>6, <2>7, <2>9
<1>. QED BY <1>1, <1>5, <1>6, <1>7

\* What a delta changes in the account, it changes by a call of the service, but for
\* the label of the seed.
LEMMA DeltaTouches ==
  ASSUME run.cmd = "delta", [Next]_vars
  PROVE  /\ drive' = drive \/ StepDrive
         /\ mail' = mail \/ OpenMailDelta \/ StepMail
         /\ cal' = cal \/ StepCalendar
<1>1. \A cmd, svcs : ~Command(cmd, svcs)
  BY DEF Command, Idle
<1>2. ~(OpenMailSeed \/ Wipe \/ Edit)
  BY DEF OpenMailSeed, Wipe, Edit, Idle
<1>3. CASE NextService \/ FinishSeed \/ FinishDelta \/ FinishReset \/ TouchArchive
  BY <1>3 DEF NextService, FinishSeed, FinishDelta, FinishReset, TouchArchive, worlds
<1>4. CASE OpenDriveSeed \/ OpenCalendarSeed \/ OpenDriveDelta \/ OpenCalendarDelta
  BY <1>4 DEF OpenDriveSeed, OpenCalendarSeed, OpenDriveDelta, OpenCalendarDelta, worlds
<1>5. CASE OpenMailDelta
  BY <1>5 DEF OpenMailDelta
<1>6. CASE StepDrive \/ StepMail \/ StepCalendar
  BY <1>6 DEF StepDrive, StepMail, StepCalendar
<1>7. CASE UNCHANGED vars
  BY <1>7 DEF vars, worlds
<1>. QED BY <1>1, <1>2, <1>3, <1>4, <1>5, <1>6, <1>7 DEF Next, StartSeed, StartDelta, StartReset

EventsStay ==
  \A s \in DOMAIN book.cal :
    book.cal[s].id \in DOMAIN cal.events => book.cal[s].id \in DOMAIN cal'.events

LEMMA CalendarSaves ==
  ASSUME IInv, DeltaBook, CalendarSaved, run.cmd = "delta", [Next]_vars
  PROVE  EventsStay
<1>1. CASE cal' = cal
  BY <1>1 DEF EventsStay
<1>2. CASE StepCalendar
  <2>1. PICK a \in run.todo : CalendarCall(a)
    BY <1>2 DEF StepCalendar
  <2>2. Working("calendar")
    BY <1>2 DEF StepCalendar
  <2>3. book = run.mem
    BY DeltaHasBook DEF DeltaBook
  <2>4. CalendarKept(run.todo, book.cal, book.tag)
    BY <2>2, <2>3 DEF CalendarSaved, Working, Here, Amid
  <2>5. /\ CalendarTodo(run.todo, book.cal, archive.events)
        /\ a.do \in {"insert", "update", "delete"}
    BY <2>2, <2>3, <2>4, WorkingIs DEF CalendarKept, CalendarTodo
  <2>. DEFINE c == CalendarDone(a, cal, book.cal, book.tag).world
  <2>6. cal' = cal \/ cal' = c
    BY <2>1, <2>3, <2>5 DEF CalendarCall
  <2>7. IsCalendar(cal)
    BY DEF IInv, IsState
  <2>8. cal = [events |-> cal.events, gone |-> cal.gone]
    BY <2>7 DEF IsCalendar
  <2>9. CASE a.do = "insert"
    <3>. DEFINE i == EventId(a.src, book.tag, FreshGeneration(cal, book.cal, book.tag, a.src))
    <3>1. c = [cal EXCEPT !.events = PutNew(@, i, Baseline(book.tag, a.src))]
      BY <2>9 DEF CalendarDone, CalendarInserted
    <3>2. c.events = PutNew(cal.events, i, Baseline(book.tag, a.src))
      BY <2>8, <3>1
    <3>. HIDE DEF c, i
    <3>3. DOMAIN cal.events \subseteq DOMAIN c.events
      BY <3>2 DEF PutNew
    <3>. QED BY <1>1, <2>6, <3>3 DEF EventsStay
  <2>10. CASE a.do = "update"
    <3>1. c = [cal EXCEPT !.events[a.id] = Baseline(book.tag, a.src)]
      BY <2>10 DEF CalendarDone
    <3>2. DOMAIN c.events = DOMAIN cal.events
      BY <2>8, <3>1
    <3>. HIDE DEF c
    <3>. QED BY <1>1, <2>6, <3>2 DEF EventsStay
  <2>11. CASE a.do = "delete"
    <3>1. DOMAIN c.events = DOMAIN cal.events \ {a.id}
      BY <2>11 DEF CalendarDone, CalendarWithout
    <3>2. \A s \in DOMAIN book.cal : book.cal[s].id # a.id
      BY <2>4, <2>11 DEF CalendarKept
    <3>. HIDE DEF c
    <3>. QED BY <1>1, <2>6, <3>1, <3>2 DEF EventsStay
  <2>. QED BY <2>5, <2>9, <2>10, <2>11
<1>. QED BY <1>1, <1>2, DeltaTouches

-----------------------------------------------------------------------------
(* A delta keeps the messages that the manifest names, or makes them anew. *)

\* What is left to make anew is what the manifest names, each letter once; what is left
\* to delete is there, once, and not entered.
MailKept(todo, m, b) ==
  /\ \A a \in todo :
       a.do = "reimport" => a.src \in DOMAIN b.messages /\ b.messages[a.src].id = a.id
  /\ \A a, c \in todo :
       /\ a.do \in {"import", "reimport"} /\ c.do \in {"import", "reimport"} /\ a.src = c.src
            => a = c
       /\ a.do = "delete" /\ c.do = "delete" /\ a.id = c.id => a = c
  /\ \A d \in todo :
       d.do = "delete" => /\ d.id \in DOMAIN m.messages
                          /\ \A s \in DOMAIN b.messages : b.messages[s].id # d.id

\* The label of the seed changes nothing of what the plan goes by.
LEMMA MailLabelled ==
  ASSUME NEW m, IsMailbox(m), NEW b, b = [label |-> b.label, messages |-> b.messages],
         NEW t, NEW n, NEW cat, NEW s, MailUnambiguous(m, b, s)
  PROVE  /\ Labelled(m, b, t, n).world.messages = m.messages
         /\ MailUnambiguous(Labelled(m, b, t, n).world, Labelled(m, b, t, n).book, s)
<1>. DEFINE w == Labelled(m, b, t, n).world
            c == Labelled(m, b, t, n).book
<1>1. w.messages = m.messages
  BY DEF Labelled, IsMailbox
<1>2. c.messages = b.messages
  BY DEF Labelled
<1>. HIDE DEF w, c
<1>3. MailUnambiguous(w, c, s)
  BY <1>1, <1>2 DEF MailUnambiguous, Canonical, KnownMail, Lookalikes, HeadersHold
<1>. QED BY <1>1, <1>3 DEF w, c

\* The message that stands for a letter is a copy of it, and entered in the manifest.
LEMMA CanonicalIs ==
  ASSUME NEW m, IsMailbox(m), NEW b, NEW cat, IsMailBook(b, cat), OwnMail(m, b),
         NEW s \in Letters(cat), MailUnambiguous(m, b, s), NEW i \in Canonical(m, b, s)
  PROVE  /\ i \in DOMAIN m.messages /\ m.messages[i].src = s /\ Canonical(m, b, s) = {i}
         /\ s \in DOMAIN MailAdopted(m, b, cat).messages
         /\ MailAdopted(m, b, cat).messages[s].id = i
<1>. DEFINE K(r) == Canonical(m, b, r)
            b2 == MailAdopted(m, b, cat)
            f == [r \in DOMAIN b.messages \cup {r \in Letters(cat) : Canonical(m, b, r) # {}} |->
                    IF Canonical(m, b, r) = {} \/ KnownMail(m, b, r) # {} THEN b.messages[r]
                    ELSE LET j == CHOOSE j \in Canonical(m, b, r) : TRUE
                         IN [id |-> j, thread |-> m.messages[j].thread]]
<1>1. K(s) \subseteq DOMAIN m.messages
  BY DEF Canonical, KnownMail, Lookalikes
<1>2. K(s) = {i}
  <2>1. IsFiniteSet(K(s)) /\ Cardinality(K(s)) <= 1
    BY <1>1, FS_Subset DEF IsMailbox, MailUnambiguous
  <2>. HIDE DEF K
  <2>. QED BY <2>1, AtMostOne DEF K
<1>3. m.messages[i].src = s
  BY DEF Canonical, KnownMail, Lookalikes, OwnMail
<1>4. b2.messages = f
  BY DEF MailAdopted, IsMailBook
<1>5. s \in DOMAIN f
  OBVIOUS
<1>6. f[s].id = i
  <2>1. CASE KnownMail(m, b, s) # {}
    <3>1. f[s] = b.messages[s] /\ K(s) = {b.messages[s].id}
      BY <2>1, <1>5 DEF KnownMail, Canonical
    <3>. QED BY <1>2, <3>1
  <2>2. CASE KnownMail(m, b, s) = {}
    <3>1. f[s] = [id |-> CHOOSE j \in K(s) : TRUE,
                  thread |-> m.messages[CHOOSE j \in K(s) : TRUE].thread]
      BY <2>2, <1>5
    <3>. QED BY <1>2, <3>1
  <2>. QED BY <2>1, <2>2
<1>. QED BY <1>1, <1>2, <1>3, <1>4, <1>5, <1>6

LEMMA MailPlanKeeps ==
  ASSUME NEW m, IsMailbox(m), NEW b, NEW t, NEW cat, IsMailBook(b, cat), OwnMail(m, b),
         NoLetter \notin Letters(cat), \A s \in Letters(cat) : MailUnambiguous(m, b, s)
  PROVE  MailKept(MailPlan(m, b, t, cat).todo, m, MailAdopted(m, b, cat))
<1>. DEFINE todo == MailPlan(m, b, t, cat).todo
            b2 == MailAdopted(m, b, cat)
            K(s) == Canonical(m, b, s)
            drafts == {i \in DOMAIN m.messages : m.messages[i].draft}
            kept == UNION {K(s) : s \in Letters(cat)}
<1>1. ASSUME NEW a \in todo, a.do \in {"import", "reimport"}
      PROVE  /\ a.src \in Letters(cat) /\ (a.do = "import" <=> K(a.src) = {})
             /\ a.do = "reimport" => a.id \in K(a.src)
             /\ a = [do |-> a.do, src |-> a.src, id |-> IF a.do = "import" THEN 0 ELSE a.id,
                     rank |-> <<4, Order(cat, a.src)>>]
  BY <1>1 DEF MailPlan
<1>2. ASSUME NEW a \in todo, a.do = "delete"
      PROVE  /\ a.id \in DOMAIN m.messages /\ (a.id \in drafts \/ a.id \notin kept)
             /\ a = [do |-> "delete", src |-> NoLetter, id |-> a.id,
                     rank |-> IF a.id \in drafts THEN <<2, 0>> ELSE <<1, 0>>]
  BY <1>2 DEF MailPlan
<1>3. ASSUME NEW s \in Letters(cat), NEW i \in K(s)
      PROVE  /\ i \in DOMAIN m.messages /\ m.messages[i].src = s /\ K(s) = {i}
             /\ s \in DOMAIN b2.messages /\ b2.messages[s].id = i
  BY CanonicalIs
<1>4. ASSUME NEW s \in DOMAIN b2.messages, b2.messages[s].id \in DOMAIN m.messages
      PROVE  s \in Letters(cat) /\ b2.messages[s].id \in K(s)
  <2>. DEFINE D == DOMAIN b.messages \cup {r \in Letters(cat) : K(r) # {}}
  <2>1. s \in D /\ s \in Letters(cat)
    BY DEF MailAdopted, IsMailBook
  <2>2. CASE K(s) # {}
    BY <1>3, <2>1, <2>2
  <2>3. CASE K(s) = {}
    <3>1. b2.messages[s] = b.messages[s] /\ s \in DOMAIN b.messages
      BY <2>1, <2>3 DEF MailAdopted, IsMailBook
    <3>. QED BY <1>4, <2>3, <3>1 DEF Canonical, KnownMail
  <2>. QED BY <2>2, <2>3
<1>. HIDE DEF todo, b2, K
<1>5. ASSUME NEW a \in todo, a.do = "reimport"
      PROVE  a.src \in DOMAIN b2.messages /\ b2.messages[a.src].id = a.id
  BY <1>1, <1>3, <1>5
<1>6. ASSUME NEW a \in todo, NEW c \in todo, a.do \in {"import", "reimport"},
             c.do \in {"import", "reimport"}, a.src = c.src
      PROVE  a = c
  <2>1. a.do = c.do
    BY <1>1, <1>6
  <2>2. CASE a.do = "import"
    BY <1>1, <1>6, <2>1, <2>2
  <2>3. CASE a.do = "reimport"
    <3>1. a.id = c.id
      BY <1>5, <1>6, <2>1, <2>3
    <3>. QED BY <1>1, <1>6, <2>1, <2>3, <3>1
  <2>. QED BY <1>6, <2>2, <2>3
<1>7. ASSUME NEW d \in todo, d.do = "delete", NEW s \in DOMAIN b2.messages
      PROVE  b2.messages[s].id # d.id
  <2>. SUFFICES ASSUME b2.messages[s].id = d.id PROVE FALSE
    OBVIOUS
  <2>1. d.id \in DOMAIN m.messages
    BY <1>2, <1>7
  <2>2. s \in Letters(cat) /\ d.id \in K(s)
    BY <1>4, <2>1
  <2>3. d.id \in drafts
    BY <1>2, <1>7, <2>2
  <2>4. m.messages[d.id].src = NoLetter
    BY <2>1, <2>3 DEF IsMailbox, IsMessage
  <2>. QED BY <1>3, <2>2, <2>4
<1>8. MailKept(todo, m, b2)
  BY <1>2, <1>5, <1>6, <1>7 DEF MailKept
<1>. QED BY <1>8 DEF todo, b2

LEMMA MailImportedIs ==
  ASSUME NEW m, m = [messages |-> m.messages, labels |-> m.labels],
         NEW b, b = [label |-> b.label, messages |-> b.messages], NEW cat, NEW s, NEW n, NEW r,
         r = MailImported(m, b, cat, s, n)
  PROVE  /\ DOMAIN r.world.messages = DOMAIN m.messages \cup {n}
         /\ r.book.messages[s].id = n
         /\ DOMAIN r.book.messages = DOMAIN b.messages \cup {s}
         /\ \A q \in DOMAIN b.messages \ {s} : r.book.messages[q] = b.messages[q]
<1>. DEFINE thread == ThreadFor(m, b, cat, s, n)
            copy == [src |-> s, whole |-> TRUE, thread |-> thread, labels |-> {b.label},
                     placed |-> TRUE, sent |-> TRUE, draft |-> FALSE]
            f == Put(m.messages, n, copy)
            g == Put(b.messages, s, [id |-> n, thread |-> thread])
<1>1. r.world = [m EXCEPT !.messages = f] /\ r.book = [b EXCEPT !.messages = g]
  BY DEF MailImported
<1>2. DOMAIN f = DOMAIN m.messages \cup {n}
  BY DEF Put
<1>3. /\ DOMAIN g = DOMAIN b.messages \cup {s} /\ g[s].id = n
      /\ \A q \in DOMAIN b.messages \ {s} : g[q] = b.messages[q]
  BY DEF Put
<1>. HIDE DEF f, g
<1>4. r.world.messages = f /\ r.book.messages = g
  BY <1>1
<1>. QED BY <1>2, <1>3, <1>4

LEMMA MailCallKeeps ==
  ASSUME NEW m, IsMailbox(m), NEW b, NEW cat, IsMailBook(b, cat), OwnMail(m, b),
         NEW todo, MailTodo(todo, cat), MailKept(todo, m, b), NEW a \in todo,
         NEW n, n \notin DOMAIN m.messages, \A s \in DOMAIN b.messages : b.messages[s].id # n
  PROVE  MailKept(todo \ {a}, MailDone(a, m, b, cat, n).world, MailDone(a, m, b, cat, n).book)
<1>. DEFINE r == MailDone(a, m, b, cat, n)
<1>1. a.do \in {"import", "reimport", "relabel", "delete", "unlabel"}
  BY DEF MailTodo
<1>2. ASSUME NEW v, NEW c, DOMAIN v.messages \subseteq DOMAIN m.messages \cup {n},
             \A d \in todo \ {a} : d.do = "delete" => d.id \in DOMAIN v.messages,
             a.do \in {"import", "reimport"}, c.messages[a.src].id = n,
             \A s \in DOMAIN c.messages \ {a.src} :
               s \in DOMAIN b.messages /\ c.messages[s] = b.messages[s],
             \A s \in DOMAIN b.messages \ {a.src} : s \in DOMAIN c.messages
      PROVE  MailKept(todo \ {a}, v, c)
  <2>1. ASSUME NEW x \in todo \ {a}, x.do = "reimport"
        PROVE  x.src \in DOMAIN c.messages /\ c.messages[x.src].id = x.id
    <3>1. x.src # a.src /\ x.src \in DOMAIN b.messages /\ b.messages[x.src].id = x.id
      BY <1>2, <2>1 DEF MailKept
    <3>. QED BY <1>2, <3>1
  <2>2. ASSUME NEW d \in todo \ {a}, d.do = "delete", NEW s \in DOMAIN c.messages
        PROVE  c.messages[s].id # d.id
    <3>1. d.id \in DOMAIN m.messages /\ \A x \in DOMAIN b.messages : b.messages[x].id # d.id
      BY <2>2 DEF MailKept
    <3>. QED BY <1>2, <3>1
  <2>. QED BY <1>2, <2>1, <2>2 DEF MailKept
<1>3. ASSUME NEW v, DOMAIN v.messages = DOMAIN m.messages
      PROVE  MailKept(todo \ {a}, v, b)
  BY <1>3 DEF MailKept
<1>4. CASE a.do = "import"
  <2>1. r = MailImported(m, b, cat, a.src, n)
    BY <1>4 DEF MailDone
  <2>. HIDE DEF r
  <2>2. /\ DOMAIN r.world.messages = DOMAIN m.messages \cup {n}
        /\ r.book.messages[a.src].id = n
        /\ DOMAIN r.book.messages = DOMAIN b.messages \cup {a.src}
        /\ \A q \in DOMAIN b.messages \ {a.src} : r.book.messages[q] = b.messages[q]
    BY <2>1, MailImportedIs DEF IsMailbox, IsMailBook
  <2>3. \A d \in todo \ {a} : d.do = "delete" => d.id \in DOMAIN r.world.messages
    BY <2>2 DEF MailKept
  <2>4. /\ \A s \in DOMAIN r.book.messages \ {a.src} :
             s \in DOMAIN b.messages /\ r.book.messages[s] = b.messages[s]
        /\ \A s \in DOMAIN b.messages \ {a.src} : s \in DOMAIN r.book.messages
    BY <2>2
  <2>5. MailKept(todo \ {a}, r.world, r.book)
    BY <1>2, <1>4, <2>2, <2>3, <2>4
  <2>. QED BY <2>5 DEF r
<1>5. CASE a.do = "reimport"
  <2>. DEFINE v == MailWithout(m, a.id)
              c == Forgotten(b, a.src)
  <2>1. r = MailImported(v, c, cat, a.src, n)
    BY <1>5 DEF MailDone
  <2>2. v = [messages |-> v.messages, labels |-> v.labels]
        /\ DOMAIN v.messages = DOMAIN m.messages \ {a.id}
    BY DEF MailWithout, IsMailbox
  <2>3. c = [label |-> c.label, messages |-> c.messages]
        /\ c.messages = [s \in DOMAIN b.messages \ {a.src} |-> b.messages[s]]
    BY DEF Forgotten, IsMailBook
  <2>. HIDE DEF v, c
  <2>. HIDE DEF r
  <2>4. /\ DOMAIN r.world.messages = DOMAIN v.messages \cup {n}
        /\ r.book.messages[a.src].id = n
        /\ DOMAIN r.book.messages = DOMAIN c.messages \cup {a.src}
        /\ \A q \in DOMAIN c.messages \ {a.src} : r.book.messages[q] = c.messages[q]
    BY <2>1, <2>2, <2>3, MailImportedIs
  <2>5. \A d \in todo \ {a} : d.do = "delete" => d.id \in DOMAIN r.world.messages
    BY <1>5, <2>2, <2>4 DEF MailKept
  <2>6. /\ \A s \in DOMAIN r.book.messages \ {a.src} :
             s \in DOMAIN b.messages /\ r.book.messages[s] = b.messages[s]
        /\ \A s \in DOMAIN b.messages \ {a.src} : s \in DOMAIN r.book.messages
    BY <2>3, <2>4
  <2>7. MailKept(todo \ {a}, r.world, r.book)
    BY <1>2, <1>5, <2>2, <2>4, <2>5, <2>6
  <2>. QED BY <2>7 DEF r
<1>6. CASE a.do \in {"relabel", "unlabel"}
  <2>1. r.book = b /\ DOMAIN r.world.messages = DOMAIN m.messages
    BY <1>6 DEF MailDone, LabelDeleted, IsMailbox
  <2>. HIDE DEF r
  <2>2. MailKept(todo \ {a}, r.world, r.book)
    BY <1>3, <2>1
  <2>. QED BY <2>2 DEF r
<1>7. CASE a.do = "delete"
  <2>1. r.book = b /\ DOMAIN r.world.messages = DOMAIN m.messages \ {a.id}
    BY <1>7 DEF MailDone, MailWithout, IsMailbox
  <2>. HIDE DEF r
  <2>2. MailKept(todo \ {a}, r.world, r.book)
    BY <1>7, <2>1 DEF MailKept
  <2>. QED BY <2>2 DEF r
<1>. QED BY <1>1, <1>4, <1>5, <1>6, <1>7

\* A delta in the middle of Gmail has nothing of the manifest's to delete for good.
MailSaved ==
  run.cmd = "delta" /\ Amid(run, "gmail") => MailKept(run.todo, mail, run.mem.mail)

LEMMA MailStaysSaved ==
  ASSUME IInv, MailSaved, [Next]_vars
  PROVE  MailSaved'
<1>. SUFFICES ASSUME run'.cmd = "delta", Amid(run', "gmail")
              PROVE  MailKept(run'.todo, mail', run'.mem.mail)
  BY DEF MailSaved, Amid
<1>1. /\ run.cmd = "delta"
      /\ UNCHANGED <<mail, run>> \/ OpenMailDelta \/ StepMail
  BY DeltaAmid
<1>2. run' # Idle
  BY DEF Idle
<1>3. /\ IsAt(run, book, archive, drive, mail) /\ IsMailbox(mail) /\ IsArchive(archive)
      /\ IsRunRecord(run) /\ NewInMail(run.mem, NewMailId) /\ NewMailId \notin DOMAIN mail.messages
  BY <1>1, CommandIs DEF IsWorld, IsAt
<1>4. /\ IsBook(run.mem, archive) /\ IsMailBook(run.mem.mail, archive)
      /\ OwnMail(mail, run.mem.mail)
      /\ \A s \in DOMAIN run.mem.mail.messages : run.mem.mail.messages[s].id # NewMailId
  BY <1>3, AtKeeps DEF NewInMail
<1>5. CASE UNCHANGED <<mail, run>>
  BY <1>5 DEF MailSaved
<1>6. CASE OpenMailDelta
  <2>. DEFINE l == Labelled(mail, run.mem.mail, run.mem.tag, NewMailId)
              x == MailAdopted(l.world, l.book, archive)
              b == [run.mem EXCEPT !.mail = x]
              todo == MailPlan(l.world, l.book, run.mem.tag, archive).todo
  <2>1. /\ MailPlan(mail, run.mem.mail, run.mem.tag, archive).ok
        /\ mail' = l.world /\ Open(todo, b)
    BY <1>2, <1>6 DEF OpenMailDelta, End, Died
  <2>2. \A s \in Letters(archive) : MailUnambiguous(mail, run.mem.mail, s)
    BY <2>1 DEF MailPlan
  <2>3. \A s \in Letters(archive) : MailUnambiguous(l.world, l.book, s)
    BY <1>3, <1>4, <2>2, MailLabelled DEF IsMailBook
  <2>4. MailGood(run.mem.mail, archive, l.world, l.book)
    BY <1>3, <1>4, MailLabels
  <2>. HIDE DEF l
  <2>5. MailKept(todo, mail', x)
    BY <1>3, <2>1, <2>3, <2>4, MailPlanKeeps DEF MailGood, IsArchive
  <2>6. IsMailBook(x, archive)
    BY <2>4, MailAdopts DEF MailGood
  <2>. HIDE DEF x, todo
  <2>7. b.mail = x
    BY <1>4, <2>6, BookMail
  <2>. HIDE DEF b
  <2>8. PICK o, y : run' = RunOpened(run, o, todo, b, y)
    BY <2>1, Zenon DEF Open, RunOpened
  <2>9. run'.todo = todo /\ run'.mem = b
    BY <1>3, <2>8, RunOpens
  <2>. QED BY <2>5, <2>7, <2>9
<1>7. CASE StepMail
  <2>1. PICK a \in run.todo : MailCall(a)
    BY <1>7 DEF StepMail
  <2>2. Working("gmail")
    BY <1>7 DEF StepMail
  <2>3. MailKept(run.todo, mail, run.mem.mail) /\ MailTodo(run.todo, archive)
    BY <1>1, <2>2, WorkingIs DEF MailSaved, Working, Here, Amid
  <2>. DEFINE r == MailDone(a, mail, run.mem.mail, archive, NewMailId)
              b == [run.mem EXCEPT !.mail = r.book]
              todo == run.todo \ {a}
  <2>4. mail' = r.world /\ Did(a, b)
    BY <1>2, <2>1 DEF MailCall, End, Died
  <2>5. MailKept(todo, r.world, r.book)
    BY <1>3, <1>4, <2>3, MailCallKeeps
  <2>. HIDE DEF r
  <2>6. b.mail = r.book
    BY <1>4 DEF IsBook
  <2>. HIDE DEF b
  <2>7. run' = RunAfter(run, todo, b)
    BY <2>4 DEF Did, RunAfter
  <2>. HIDE DEF todo
  <2>8. run'.todo = todo /\ run'.mem = b
    BY <1>3, <2>7, RunDid
  <2>. QED BY <2>4, <2>5, <2>6, <2>8
<1>. QED BY <1>1, <1>5, <1>6, <1>7

MessagesStay ==
  \A s \in DOMAIN book.mail.messages :
    book.mail.messages[s].id \in DOMAIN mail.messages \ DOMAIN mail'.messages =>
      run' = Idle \/ book'.mail.messages[s].id \in DOMAIN mail'.messages

LEMMA MailSaves ==
  ASSUME IInv, DeltaBook, MailSaved, run.cmd = "delta", [Next]_vars
  PROVE  MessagesStay
<1>0. IsMailbox(mail)
  BY DEF IInv, IsState
<1>1. CASE DOMAIN mail.messages \subseteq DOMAIN mail'.messages
  BY <1>1 DEF MessagesStay
<1>2. CASE OpenMailDelta
  <2>. DEFINE v == Labelled(mail, run.mem.mail, run.mem.tag, NewMailId).world
  <2>1. mail' = mail \/ mail' = v
    BY <1>2 DEF OpenMailDelta
  <2>2. v.messages = mail.messages
    BY <1>0 DEF Labelled, IsMailbox
  <2>. HIDE DEF v
  <2>. QED BY <1>1, <2>1, <2>2
<1>3. CASE StepMail /\ run' # Idle
  <2>1. PICK a \in run.todo : MailCall(a)
    BY <1>3 DEF StepMail
  <2>2. Working("gmail")
    BY <1>3 DEF StepMail
  <2>3. book = run.mem
    BY DeltaHasBook DEF DeltaBook
  <2>4. /\ IsBook(book, archive) /\ IsMailBook(book.mail, archive) /\ OwnMail(mail, book.mail)
    BY <2>3, CommandIs, AtKeeps
  <2>5. MailKept(run.todo, mail, book.mail) /\ MailTodo(run.todo, archive)
    BY <2>2, <2>3, WorkingIs DEF MailSaved, Working, Here, Amid
  <2>. DEFINE r == MailDone(a, mail, book.mail, archive, NewMailId)
              b == [book EXCEPT !.mail = r.book]
  <2>6. mail' = r.world /\ Did(a, b)
    BY <1>3, <2>1, <2>3 DEF MailCall, End, Died
  <2>7. a.do \in {"import", "reimport", "relabel", "delete", "unlabel"}
    BY <2>5 DEF MailTodo
  <2>8. CASE a.do \in {"import", "relabel", "unlabel"}
    <3>1. DOMAIN mail.messages \subseteq DOMAIN r.world.messages
      BY <1>0, <2>8 DEF MailDone, MailImported, LabelDeleted, IsMailbox, Put
    <3>. HIDE DEF r
    <3>. QED BY <1>1, <2>6, <3>1
  <2>9. CASE a.do = "delete"
    <3>1. DOMAIN r.world.messages = DOMAIN mail.messages \ {a.id}
      BY <1>0, <2>9 DEF MailDone, MailWithout, IsMailbox
    <3>2. \A s \in DOMAIN book.mail.messages : book.mail.messages[s].id # a.id
      BY <2>5, <2>9 DEF MailKept
    <3>. HIDE DEF r
    <3>. QED BY <2>6, <3>1, <3>2 DEF MessagesStay
  <2>10. CASE a.do = "reimport"
    <3>. DEFINE v == MailWithout(mail, a.id)
                c == Forgotten(book.mail, a.src)
    <3>1. r = MailImported(v, c, archive, a.src, NewMailId)
      BY <2>10 DEF MailDone
    <3>2. v = [messages |-> v.messages, labels |-> v.labels]
          /\ DOMAIN v.messages = DOMAIN mail.messages \ {a.id}
      BY <1>0 DEF MailWithout, IsMailbox
    <3>3. c = [label |-> c.label, messages |-> c.messages]
      BY <2>4 DEF Forgotten, IsMailBook
    <3>. HIDE DEF v, c, r
    <3>4. /\ DOMAIN r.world.messages = DOMAIN v.messages \cup {NewMailId}
          /\ r.book.messages[a.src].id = NewMailId
      BY <3>1, <3>2, <3>3, MailImportedIs
    <3>5. book' = b /\ b.mail = r.book
      BY <2>4, <2>6, <2>10 DEF Did, Save, Checkpointed, IsBook
    <3>. HIDE DEF b
    <3>6. \A s \in DOMAIN book.mail.messages : book.mail.messages[s].id = a.id => s = a.src
      BY <2>4, <2>5, <2>10 DEF MailKept, OwnMail, NamesTwice
    <3>. QED BY <2>6, <3>2, <3>4, <3>5, <3>6 DEF MessagesStay
  <2>. QED BY <2>7, <2>8, <2>9, <2>10
<1>. QED BY <1>1, <1>2, <1>3, DeltaTouches DEF MessagesStay

-----------------------------------------------------------------------------
(* What is above an object, and what goes with it.                         *)

\* The line of an object is what it reaches going up, as often as there are objects.
LEMMA LineUps ==
  ASSUME NEW w, IsFiniteSet(DOMAIN w), NEW i
  PROVE  /\ Cardinality(DOMAIN w) \in Nat
         /\ \E f : /\ Ups(w, i, Cardinality(DOMAIN w), f)
                   /\ Line(w, i) = f[Cardinality(DOMAIN w)] \cap DOMAIN w
<1>. DEFINE k == Cardinality(DOMAIN w)
            f == CHOOSE f : Ups(w, i, k, f)
<1>1. k \in Nat
  BY FS_CardinalityType
<1>2. Ups(w, i, k, f)
  BY <1>1, UpsExist
<1>3. Line(w, i) = f[k] \cap DOMAIN w
  BY DEF Line, Ups
<1>. QED BY <1>1, <1>2, <1>3

\* A set with the object in it and with what its members are in has the whole line.
LEMMA LineWithin ==
  ASSUME NEW w, IsFiniteSet(DOMAIN w), NEW S, NEW i \in S,
         \A j \in S \cap DOMAIN w : w[j].in \in S
  PROVE  Line(w, i) \subseteq S
<1>. DEFINE k == Cardinality(DOMAIN w)
<1>1. k \in Nat /\ \E f : Ups(w, i, k, f) /\ Line(w, i) = f[k] \cap DOMAIN w
  BY LineUps
<1>. HIDE DEF k
<1>2. PICK f : Ups(w, i, k, f) /\ Line(w, i) = f[k] \cap DOMAIN w
  BY <1>1
<1>. DEFINE T == {n \in 0 .. k : ~(f[n] \subseteq S)}
            m == Min(T)
<1>3. T = {}
  <2>. SUFFICES ASSUME T # {} PROVE FALSE
    OBVIOUS
  <2>1. m \in T /\ \A y \in T : m <= y
    <3>1. T \subseteq Nat
      OBVIOUS
    <3>. HIDE DEF T
    <3>. QED BY <3>1, LeastNumber
  <2>. HIDE DEF m
  <2>2. f[m] = IF m = 0 THEN {i} ELSE f[m - 1] \cup {w[j].in : j \in f[m - 1] \cap DOMAIN w}
    BY <1>2, <2>1 DEF Ups
  <2>3. m # 0
    BY <2>1, <2>2
  <2>4. m - 1 \in 0 .. k /\ m - 1 \notin T
    BY <1>1, <2>1, <2>3
  <2>5. f[m - 1] \subseteq S
    BY <2>4
  <2>6. f[m] \subseteq S
    BY <2>2, <2>3, <2>5
  <2>. QED BY <2>1, <2>6
<1>4. k \in 0 .. k
  BY <1>1
<1>. QED BY <1>2, <1>3, <1>4

\* As often as there are objects is often enough: the folder of an object in the line
\* is in the line.
LEMMA LineClosed ==
  ASSUME NEW w, IsFiniteSet(DOMAIN w), NEW i \in DOMAIN w, NEW j \in Line(w, i),
         w[j].in \in DOMAIN w
  PROVE  w[j].in \in Line(w, i)
<1>. DEFINE k == Cardinality(DOMAIN w)
<1>1. k \in Nat /\ \E f : Ups(w, i, k, f) /\ Line(w, i) = f[k] \cap DOMAIN w
  BY LineUps
<1>. HIDE DEF k
<1>2. PICK f : Ups(w, i, k, f) /\ Line(w, i) = f[k] \cap DOMAIN w
  BY <1>1
<1>. DEFINE X(n) == f[n] \cap DOMAIN w
            Closed(n) == \A x \in X(n) : w[x].in \in DOMAIN w => w[x].in \in f[n]
<1>. SUFFICES ASSUME ~Closed(k) PROVE FALSE
  BY <1>2
<1>3. ASSUME NEW n \in 0 .. k, n # 0
      PROVE  /\ n - 1 \in 0 .. k
             /\ f[n] = f[n - 1] \cup {w[x].in : x \in X(n - 1)}
  <2>1. n - 1 \in 0 .. k
    BY <1>1, <1>3
  <2>2. f[n] = IF n = 0 THEN {i} ELSE f[n - 1] \cup {w[x].in : x \in f[n - 1] \cap DOMAIN w}
    BY <1>2 DEF Ups
  <2>. QED BY <1>3, <2>1, <2>2
<1>4. ASSUME NEW n \in 0 .. k, n # 0, Closed(n - 1) PROVE Closed(n)
  <2>1. f[n] = f[n - 1] \cup {w[x].in : x \in X(n - 1)}
    BY <1>3, <1>4
  <2>2. X(n) = X(n - 1)
    BY <1>4, <2>1
  <2>. QED BY <1>4, <2>1, <2>2
<1>5. \A n \in 0 .. k : ~Closed(n)
  <2>. SUFFICES ASSUME NEW n \in 0 .. k, Closed(n) PROVE FALSE
    OBVIOUS
  <2>. DEFINE T == {c \in n .. k : ~Closed(c)}
              m == Min(T)
  <2>1. T \subseteq Nat /\ k \in T
    BY <1>1
  <2>. HIDE DEF T
  <2>2. m \in T /\ \A y \in T : m <= y
    BY <2>1, LeastNumber
  <2>. HIDE DEF m, Closed
  <2>3. m \in 0 .. k /\ m # n /\ m >= n /\ ~Closed(m)
    BY <2>2 DEF T
  <2>4. m - 1 \in n .. k /\ m # 0
    BY <1>1, <2>3
  <2>5. Closed(m - 1)
    <3>1. m - 1 \notin T
      BY <2>2, <2>3
    <3>. QED BY <2>4, <3>1 DEF T
  <2>. QED BY <1>4, <2>3, <2>4, <2>5
<1>6. \A n \in 0 .. k : IsFiniteSet(X(n)) /\ Cardinality(X(n)) \in Nat /\ Cardinality(X(n)) <= k
  BY FS_Subset, FS_CardinalityType DEF k
<1>7. \A n \in 0 .. k : Cardinality(X(n)) >= n + 1
  <2>. DEFINE T == {n \in 0 .. k : ~(Cardinality(X(n)) >= n + 1)}
              m == Min(T)
  <2>. SUFFICES ASSUME T # {} PROVE FALSE
    OBVIOUS
  <2>1. T \subseteq Nat
    OBVIOUS
  <2>. HIDE DEF T
  <2>2. m \in T /\ \A y \in T : m <= y
    BY <2>1, LeastNumber
  <2>. HIDE DEF m
  <2>3. m \in 0 .. k /\ ~(Cardinality(X(m)) >= m + 1)
    BY <2>2 DEF T
  <2>4. m # 0
    <3>. SUFFICES ASSUME m = 0 PROVE FALSE
      OBVIOUS
    <3>1. f[0] = {i}
      BY <1>1, <1>2 DEF Ups
    <3>2. X(0) = {i}
      BY <3>1
    <3>3. Cardinality(X(0)) = 1
      BY <3>2, FS_Singleton
    <3>. QED BY <2>3, <3>3
  <2>5. m - 1 \in 0 .. k /\ m - 1 \notin T /\ f[m] = f[m - 1] \cup {w[x].in : x \in X(m - 1)}
    BY <1>3, <2>2, <2>3, <2>4
  <2>6. Cardinality(X(m - 1)) >= m
    <3>1. Cardinality(X(m - 1)) >= (m - 1) + 1
      BY <2>5 DEF T
    <3>. QED BY <2>3, <3>1
  <2>7. PICK x \in X(m - 1) : w[x].in \in DOMAIN w /\ w[x].in \notin f[m - 1]
    BY <1>5, <2>5
  <2>. DEFINE y == w[x].in
  <2>8. X(m - 1) \cup {y} \subseteq X(m) /\ y \notin X(m - 1)
    BY <2>5, <2>7
  <2>. HIDE DEF X, y
  <2>9. Cardinality(X(m - 1) \cup {y}) = Cardinality(X(m - 1)) + 1
    <3>. DEFINE Z == X(m - 1)
    <3>1. IsFiniteSet(Z) /\ y \notin Z
      BY <1>6, <2>5, <2>8
    <3>. HIDE DEF Z
    <3>2. Cardinality(Z \cup {y}) = Cardinality(Z) + 1
      BY <3>1, FS_AddElement
    <3>. QED BY <3>2 DEF Z
  <2>10. Cardinality(X(m - 1) \cup {y}) <= Cardinality(X(m))
    BY <1>6, <2>3, <2>8, FS_Subset
  <2>. QED BY <1>6, <2>3, <2>5, <2>6, <2>9, <2>10
<1>8. k \in 0 .. k
  BY <1>1
<1>. HIDE DEF X
<1>. QED BY <1>1, <1>6, <1>7, <1>8

-----------------------------------------------------------------------------
(* Nothing is in what is not there: the tree of a Drive is kept.           *)

LEMMA LineAbove ==
  ASSUME NEW w, IsFiniteSet(DOMAIN w), NEW i \in DOMAIN w, w[i].in \in DOMAIN w
  PROVE  w[i].in \in Line(w, i) /\ Line(w, w[i].in) \subseteq Line(w, i)
<1>. DEFINE y == w[i].in
            S == Line(w, i) \cup ({w[x].in : x \in DOMAIN w} \ DOMAIN w)
<1>1. i \in Line(w, i)
  BY LineBegins
<1>2. y \in Line(w, i)
  BY <1>1, LineClosed
<1>3. Line(w, i) \subseteq DOMAIN w /\ Line(w, y) \subseteq DOMAIN w
  BY DEF Line
<1>4. \A j \in S \cap DOMAIN w : w[j].in \in S
  <2>. SUFFICES ASSUME NEW j \in S \cap DOMAIN w PROVE w[j].in \in S
    OBVIOUS
  <2>1. j \in Line(w, i)
    OBVIOUS
  <2>2. w[j].in \in DOMAIN w => w[j].in \in Line(w, i)
    BY <2>1, LineClosed
  <2>. QED BY <2>2
<1>5. y \in S
  BY <1>2
<1>. HIDE DEF S, y
<1>6. Line(w, y) \subseteq S
  BY <1>4, <1>5, LineWithin
<1>7. Line(w, y) \subseteq Line(w, i)
  BY <1>3, <1>6 DEF S
<1>. QED BY <1>2, <1>7 DEF y

LEMMA TreeLess ==
  ASSUME NEW w, IsTree(w), NEW v, DOMAIN v \subseteq DOMAIN w, \A i \in DOMAIN v : v[i] = w[i],
         \A i \in DOMAIN v : w[i].in \in DOMAIN w => w[i].in \in DOMAIN v
  PROVE  IsTree(v)
BY DEF IsTree, HasPlace

LEMMA TreeWithout ==
  ASSUME NEW w, IsFiniteSet(DOMAIN w), IsTree(w), NEW i
  PROVE  IsTree(Without(w, i))
<1>. DEFINE v == Without(w, i)
<1>1. DOMAIN v = {k \in DOMAIN w : i \notin Line(w, k)}
  BY DEF Without
<1>2. \A k \in DOMAIN v : v[k] = w[k]
  BY WithoutIs
<1>3. \A k \in DOMAIN v : w[k].in \in DOMAIN w => w[k].in \in DOMAIN v
  BY <1>1, LineAbove
<1>. HIDE DEF v
<1>4. IsTree(v)
  BY <1>1, <1>2, <1>3, TreeLess
<1>. QED BY <1>4 DEF v

LEMMA TreeWiped ==
  ASSUME NEW w, IsFiniteSet(DOMAIN w), IsTree(w), NEW v \in DriveWipes(w)
  PROVE  IsTree(v)
<1>1. PICK keep \in SUBSET DOMAIN w :
        v = [i \in keep |-> w[i]] /\ \A i \in keep : Line(w, i) \subseteq keep
  BY DEF DriveWipes
<1>2. \A i \in DOMAIN v : w[i].in \in DOMAIN w => w[i].in \in DOMAIN v
  BY <1>1, LineAbove
<1>. QED BY <1>1, <1>2, TreeLess

LEMMA TreePut ==
  ASSUME NEW w, IsTree(w), NEW n, n \notin DOMAIN w, NEW o, HasPlace(w, o)
  PROVE  IsTree(Put(w, n, o))
<1>. DEFINE v == Put(w, n, o)
<1>1. DOMAIN v = DOMAIN w \cup {n} /\ v[n] = o /\ \A i \in DOMAIN w : v[i] = w[i]
  BY DEF Put
<1>. HIDE DEF v
<1>2. IsTree(v)
  BY <1>1 DEF IsTree, HasPlace
<1>. QED BY <1>2 DEF v

LEMMA TreeExcept ==
  ASSUME NEW w, IsTree(w), NEW i \in DOMAIN w, NEW o, o.kind = w[i].kind, HasPlace(w, o)
  PROVE  IsTree([w EXCEPT ![i] = o])
<1>. DEFINE v == [w EXCEPT ![i] = o]
<1>1. DOMAIN v = DOMAIN w /\ v[i] = o /\ \A j \in DOMAIN w : j # i => v[j] = w[j]
  OBVIOUS
<1>. HIDE DEF v
<1>2. IsTree(v)
  BY <1>1 DEF IsTree, HasPlace
<1>. QED BY <1>2 DEF v

\* A file has nothing below it: only it goes.
LEMMA WithoutLeaf ==
  ASSUME NEW w, IsDrive(w), IsTree(w), NEW i \in DOMAIN w, w[i].kind = "file"
  PROVE  DOMAIN Without(w, i) = DOMAIN w \ {i}
<1>1. IsFiniteSet(DOMAIN w) /\ Root \notin DOMAIN w
  BY DEF IsDrive
<1>. DEFINE S == (DOMAIN w \cup {Root}) \ {i}
<1>2. \A j \in S \cap DOMAIN w : w[j].in \in S
  BY <1>1 DEF IsTree, HasPlace
<1>3. \A k \in DOMAIN w \ {i} : Line(w, k) \subseteq S
  <2>. SUFFICES ASSUME NEW k \in DOMAIN w \ {i} PROVE Line(w, k) \subseteq S
    OBVIOUS
  <2>1. k \in S
    OBVIOUS
  <2>. HIDE DEF S
  <2>. QED BY <1>1, <1>2, <2>1, LineWithin
<1>4. i \in Line(w, i)
  BY <1>1, LineBegins
<1>. QED BY <1>3, <1>4 DEF Without

\* A set closed upwards loses nothing with an object outside it.
LEMMA WithoutKeeps ==
  ASSUME NEW w, IsFiniteSet(DOMAIN w), NEW S, \A j \in S \cap DOMAIN w : w[j].in \in S,
         NEW i, i \notin S
  PROVE  S \cap DOMAIN w \subseteq DOMAIN Without(w, i)
<1>1. \A k \in S \cap DOMAIN w : i \notin Line(w, k)
  BY LineWithin
<1>. QED BY <1>1 DEF Without

-----------------------------------------------------------------------------
(* Folders are entered before what is in them.                             *)

Under(b, p) == Len(p) = 1 \/ Front(p) \in DOMAIN b

\* The kinds of the objects entered, and the folders of what is entered or marked.
GoodTree(w, b, t, files) ==
  /\ \A p \in DOMAIN b : /\ b[p].id # Root /\ Under(b, p)
                         /\ b[p].id \in DOMAIN w => ((w[b[p].id].kind = "file") <=> p \in files)
  /\ \A i \in DOMAIN w : w[i].mark.tag = t => Under(b, w[i].mark.path)

\* But for n, v has the objects of w and their marks, or fewer; and is a tree.
Tended(w, v, b, t, n) ==
  /\ IsTree(v)
  /\ \A i \in DOMAIN v : i # n => i \in DOMAIN w /\ v[i].kind = w[i].kind
  /\ \A i \in DOMAIN v : \/ v[i].mark.tag = t => Under(b, v[i].mark.path)
                         \/ \E j \in DOMAIN w : v[i].mark = w[j].mark

LEMMA TreeStays ==
  ASSUME NEW w, NEW b, NEW t, NEW files, GoodTree(w, b, t, files), NEW v, NEW n,
         Tended(w, v, b, t, n), \A p \in DOMAIN b : b[p].id # n
  PROVE  GoodTree(v, b, t, files)
<1>1. \A i \in DOMAIN v : v[i].mark.tag = t => Under(b, v[i].mark.path)
  BY Zenon DEF Tended, GoodTree
<1>2. \A p \in DOMAIN b :
         b[p].id \in DOMAIN v => ((v[b[p].id].kind = "file") <=> p \in files)
  <2>. SUFFICES ASSUME NEW p \in DOMAIN b, b[p].id \in DOMAIN v
                PROVE  (v[b[p].id].kind = "file") <=> p \in files
    OBVIOUS
  <2>1. b[p].id \in DOMAIN w /\ v[b[p].id].kind = w[b[p].id].kind
    BY Zenon DEF Tended
  <2>. QED BY <2>1 DEF GoodTree
<1>. QED BY <1>1, <1>2 DEF GoodTree

LEMMA TreePutBook ==
  ASSUME NEW w, NEW b, NEW t, NEW files, GoodTree(w, b, t, files),
         NEW p, Under(b, p), NEW n, n # Root, NEW x,
         n \in DOMAIN w => ((w[n].kind = "file") <=> p \in files)
  PROVE  GoodTree(w, Put(b, p, [id |-> n, bytes |-> x]), t, files)
<1>. DEFINE e == [id |-> n, bytes |-> x]
            c == Put(b, p, e)
<1>1. e.id = n
  OBVIOUS
<1>. HIDE DEF e
<1>2. DOMAIN c = DOMAIN b \cup {p} /\ c[p] = e /\ \A q \in DOMAIN b : q # p => c[q] = b[q]
  BY DEF Put
<1>. HIDE DEF c
<1>3. \A q : Under(b, q) => Under(c, q)
  BY <1>2 DEF Under
<1>4. GoodTree(w, c, t, files)
  BY <1>1, <1>2, <1>3 DEF GoodTree
<1>. QED BY <1>4 DEF c, e

-----------------------------------------------------------------------------
(* The folder of a path.                                                   *)

FrontOf(files, q) ==
  \/ Len(q) = 1 /\ Front(q) = <<>>
  \/ Len(q) # 1 /\ Front(q) \in Folders(files) /\ Len(Front(q)) = Len(q) - 1 /\ Front(q) # <<>>

LEMMA FrontIs ==
  ASSUME NEW files, files \subseteq Seq(STRING) \ {<<>>}, NEW q \in Paths(files)
  PROVE  FrontOf(files, q)
<1>1. q \in Seq(STRING) /\ Len(q) \in Nat \ {0}
  BY PathsAreNames
<1>2. CASE Len(q) = 1
  <2>1. Front(q) = SubSeq(q, 1, 0)
    BY <1>2 DEF Front
  <2>2. SubSeq(q, 1, 0) = <<>>
    BY <1>1
  <2>. QED BY <1>2, <2>1, <2>2 DEF FrontOf
<1>3. CASE Len(q) # 1
  <2>1. PICK f \in files : \E n \in 1 .. Len(f) : q = SubSeq(f, 1, n)
    <3>1. CASE q \in files
      <4>1. q = SubSeq(q, 1, Len(q)) /\ Len(q) \in 1 .. Len(q)
        BY <1>1
      <4>. QED BY <3>1, <4>1
    <3>2. CASE q \in Folders(files)
      <4>1. PICK f \in files : \E n \in 1 .. Len(f) - 1 : q = SubSeq(f, 1, n)
        BY <3>2 DEF Folders
      <4>2. Len(f) \in Nat
        OBVIOUS
      <4>. QED BY <4>1, <4>2
    <3>. QED BY <3>1, <3>2 DEF Paths
  <2>2. PICK n \in 1 .. Len(f) : q = SubSeq(f, 1, n)
    BY <2>1
  <2>3. f \in Seq(STRING) /\ Len(f) \in Nat
    OBVIOUS
  <2>4. Len(q) = n /\ \A j \in 1 .. n : q[j] = f[j]
    BY <2>2, <2>3
  <2>. DEFINE d == SubSeq(f, 1, n - 1)
              c == SubSeq(q, 1, n - 1)
  <2>5. n - 1 \in 1 .. Len(f) - 1 /\ n - 1 \in 1 .. Len(q)
    BY <1>3, <2>3, <2>4
  <2>6. d \in Seq(STRING) /\ Len(d) = n - 1 /\ \A j \in 1 .. n - 1 : d[j] = f[j]
    BY <2>3, <2>5
  <2>7. c \in Seq(STRING) /\ Len(c) = n - 1 /\ \A j \in 1 .. n - 1 : c[j] = q[j]
    BY <1>1, <2>5
  <2>. HIDE DEF c, d
  <2>8. c = d
    BY <2>4, <2>5, <2>6, <2>7
  <2>9. Front(q) = c
    BY <2>4 DEF Front, c
  <2>10. d \in Folders(files)
    BY <2>5 DEF Folders, d
  <2>11. c # <<>>
    BY <2>5, <2>7
  <2>. QED BY <1>3, <2>4, <2>7, <2>8, <2>9, <2>10, <2>11 DEF FrontOf
<1>. QED BY <1>2, <1>3

-----------------------------------------------------------------------------
(* Drive: every call leaves a tree.                                        *)

TreeFit(w, b, t, files) == IsTree(w) /\ GoodTree(w, b, t, files)

\* What the walks to the paths of an archive rely on.
ProperNames(files) == files \subseteq Seq(STRING) \ {<<>>} /\ Folders(files) \cap files = {}

\* The folder that path p is to be in is there.
Seated(w, b, p) == FolderId(b, Front(p)) \in DOMAIN w \cup {Root}

LEMMA SeatIs ==
  ASSUME NEW w, NEW b, NEW t, NEW files, TreeFit(w, b, t, files), ProperNames(files),
         NEW p \in Paths(files), Under(b, p), Seated(w, b, p),
         NEW o, o.in = FolderId(b, Front(p))
  PROVE  HasPlace(w, o)
<1>1. FrontOf(files, p)
  BY FrontIs DEF ProperNames
<1>2. CASE Front(p) = <<>>
  BY <1>2 DEF FolderId, HasPlace
<1>3. CASE Front(p) # <<>>
  <2>. DEFINE q == Front(p)
  <2>1. q \in Folders(files) /\ q \in DOMAIN b /\ o.in = b[q].id
    BY <1>1, <1>3 DEF FrontOf, Under, FolderId
  <2>2. q \notin files
    BY <2>1 DEF ProperNames
  <2>. HIDE DEF q
  <2>3. b[q].id \in DOMAIN w => w[b[q].id].kind # "file"
    BY <2>1, <2>2, Zenon DEF TreeFit, GoodTree
  <2>. QED BY <2>1, <2>3 DEF Seated, HasPlace
<1>. QED BY <1>2, <1>3

LEMMA TreeLeft ==
  ASSUME NEW w, IsDrive(w), NEW b, NEW t, NEW files, TreeFit(w, b, t, files), NEW i
  PROVE  TreeFit(Without(w, i), b, t, files)
<1>. DEFINE v == Without(w, i)
<1>1. IsFiniteSet(DOMAIN w) /\ Root \notin DOMAIN w
  BY DEF IsDrive
<1>2. IsTree(v)
  BY <1>1, TreeWithout DEF TreeFit
<1>3. DOMAIN v \subseteq DOMAIN w /\ \A k \in DOMAIN v : v[k] = w[k]
  BY <1>1, WithoutIs
<1>. HIDE DEF v
<1>4. Tended(w, v, b, t, Root)
  BY <1>2, <1>3 DEF Tended
<1>5. \A p \in DOMAIN b : b[p].id # Root
  BY DEF TreeFit, GoodTree
<1>6. GoodTree(v, b, t, files)
  BY <1>4, <1>5, TreeStays DEF TreeFit
<1>. QED BY <1>2, <1>6 DEF TreeFit, v

LEMMA TreeCreates ==
  ASSUME NEW w, NEW b, NEW t, NEW files, TreeFit(w, b, t, files), ProperNames(files),
         NEW p \in Paths(files), Under(b, p), Seated(w, b, p),
         NEW n, n # Root, n \notin DOMAIN w, \A q \in DOMAIN b : b[q].id # n
  PROVE  /\ TreeFit(DriveCreated(w, b, t, files, p, n).world, b, t, files)
         /\ TreeFit(DriveCreated(w, b, t, files, p, n).world,
                    DriveCreated(w, b, t, files, p, n).book, t, files)
<1>. DEFINE o == NewObject(b, t, files, p)
            v == Put(w, n, o)
            x == o.bytes
            c == Put(b, p, [id |-> n, bytes |-> x])
<1>1. /\ o.in = FolderId(b, Front(p)) /\ o.mark = [tag |-> t, path |-> p]
      /\ (o.kind = "file") <=> p \in files
  BY DEF NewObject
<1>. HIDE DEF o
<1>2. HasPlace(w, o)
  BY <1>1, SeatIs
<1>3. IsTree(v)
  BY <1>2, TreePut DEF TreeFit
<1>4. DOMAIN v = DOMAIN w \cup {n} /\ v[n] = o /\ \A i \in DOMAIN w : v[i] = w[i]
  BY DEF Put
<1>. HIDE DEF v
<1>5. o.mark.path = p
  BY <1>1
<1>6. Tended(w, v, b, t, n)
  BY <1>3, <1>4, <1>5 DEF Tended
<1>7. GoodTree(v, b, t, files)
  BY <1>6, TreeStays DEF TreeFit
<1>. HIDE DEF x, c
<1>8. GoodTree(v, c, t, files)
  BY <1>1, <1>4, <1>7, TreePutBook DEF c
<1>. QED BY <1>3, <1>7, <1>8 DEF TreeFit, DriveCreated, o, v, x, c

LEMMA TreePatches ==
  ASSUME NEW w, IsDrive(w), NEW b, NEW t, NEW files, TreeFit(w, b, t, files), ProperNames(files),
         NEW p \in Paths(files), p \in DOMAIN b, Seated(w, b, p), NEW i \in DOMAIN w,
         NEW v, MendedOne(w, v, b, t, p, i)
  PROVE  TreeFit(v, b, t, files)
<1>1. /\ v[i].in = FolderId(b, Front(p)) /\ v[i].mark.path = p /\ v[i].kind = w[i].kind
      /\ DOMAIN v = DOMAIN w /\ \A j \in DOMAIN w : j # i => v[j] = w[j]
  BY DEF MendedOne, Mended
<1>2. Under(b, p)
  BY DEF TreeFit, GoodTree
<1>3. HasPlace(w, v[i])
  BY <1>1, <1>2, SeatIs
<1>4. IsTree(v)
  BY <1>1, <1>3 DEF TreeFit, IsTree, HasPlace
<1>5. Tended(w, v, b, t, Root)
  BY <1>1, <1>2, <1>4 DEF Tended
<1>6. \A q \in DOMAIN b : b[q].id # Root
  BY DEF TreeFit, GoodTree
<1>7. GoodTree(v, b, t, files)
  BY <1>5, <1>6, TreeStays DEF TreeFit
<1>. QED BY <1>4, <1>7 DEF TreeFit

\* A seed enters what it makes, or what it finds in its place.
LEMMA TreeSeeds ==
  ASSUME NEW w, NEW b, NEW t, NEW files, TreeFit(w, b, t, files), ProperNames(files), Root \notin DOMAIN w,
         NEW p \in Paths(files), DriveSeedNext(b, p), DriveSeedFits(w, b, t, files, p),
         NEW n, n # Root, n \notin DOMAIN w, \A q \in DOMAIN b : b[q].id # n,
         NEW r, r = DriveSeeded(w, b, t, files, p, n)
  PROVE  TreeFit(r.world, b, t, files) /\ TreeFit(r.world, r.book, t, files)
<1>. DEFINE held == SeedHeld(w, t, p)
<1>1. Under(b, p) /\ Seated(w, b, p)
  BY DEF DriveSeedNext, Under, DriveSeedFits, Seated
<1>2. CASE held = {}
  <2>1. r = DriveCreated(w, b, t, files, p, n)
    BY <1>2 DEF DriveSeeded
  <2>. QED BY <1>1, <2>1, TreeCreates
<1>3. CASE held # {}
  <2>. DEFINE j == CHOOSE i \in held : TRUE
              x == NewObject(b, t, files, p).bytes
              c == Put(b, p, [id |-> j, bytes |-> x])
  <2>1. j \in held /\ j \in DOMAIN w
    BY <1>3 DEF SeedHeld, Holders
  <2>2. r.world = w /\ r.book = c
    BY <1>3 DEF DriveSeeded
  <2>3. w[j].kind = NewObject(b, t, files, p).kind
    BY <2>1 DEF DriveSeedFits
  <2>4. (w[j].kind = "file") <=> p \in files
    BY <2>3 DEF NewObject
  <2>. HIDE DEF j, x
  <2>5. GoodTree(w, c, t, files)
    BY <1>1, <2>1, <2>4, TreePutBook DEF TreeFit
  <2>. QED BY <2>2, <2>5 DEF TreeFit
<1>. QED BY <1>2, <1>3

-----------------------------------------------------------------------------
(* What is left of a plan, in the order of its calls.                      *)

Building(a) == a.do \in {"create", "patch", "replace"}

\* Some call is still to be made for path p; p is entered and its object is there; and
\* it is in the folder it belongs in.
Pending(todo, p) == \E a \in todo : Building(a) /\ a.path = p
Present(w, b, p) == p \in DOMAIN b /\ b[p].id \in DOMAIN w
Settled(w, b, p) == Present(w, b, p) /\ w[b[p].id].in = FolderId(b, Front(p))

\* The calls have the ranks of their paths, and nothing entered is to be deleted.
Ranked(todo, b, files) ==
  \A a \in todo :
    /\ Building(a) => /\ a.rank = Rank(files, a.path)
                      /\ a.do = "replace" => a.path \in files
    /\ a.do = "delete" => /\ a.rank[1] \in {3, 4} /\ a.id # Root
                          /\ \A p \in DOMAIN b : b[p].id # a.id

\* While there is something to build, the other folders are there, and what is to be
\* deleted still is.
Founded(todo, w, b, files) ==
  (\E a \in todo : Building(a)) =>
    /\ \A q \in Folders(files) : Pending(todo, q) \/ Present(w, b, q)
    /\ \A d \in todo : d.do = "delete" => d.id \in DOMAIN w

PlanDue(todo, w, b, files) == Ranked(todo, b, files) /\ Founded(todo, w, b, files)

\* What is not to be built is in place.
Whole(todo, w, b, files) == \A p \in Paths(files) : Pending(todo, p) \/ Settled(w, b, p)

-----------------------------------------------------------------------------
(* Drive: the plan that a delta opens with.                                *)

\* What is at a path is what has its last name in what is at its folder's.
LEMMA AtIs ==
  ASSUME NEW w, NEW S, NEW p \in Seq(S), Len(p) \in Nat \ {0}
  PROVE  At(w, p) = {o \in DOMAIN w : w[o].in \in At(w, Front(p)) /\ w[o].name = Last(p)}
<1>. DEFINE q == Front(p)
            l == Len(p) - 1
<1>1. l \in Nat /\ Len(p) = l + 1
  OBVIOUS
<1>2. q \in Seq(S) /\ Len(q) = l /\ \A n \in 1 .. l : q[n] = p[n]
  <2>1. q = SubSeq(p, 1, l)
    BY DEF Front
  <2>. HIDE DEF q, l
  <2>. QED BY <1>1, <2>1
<1>. HIDE DEF q, l
<1>3. PICK f : Levels(w, p, Len(p), f) /\ At(w, p) = f[Len(p)]
  BY AtLevels
<1>4. PICK g : Levels(w, q, l, g) /\ At(w, q) = g[l]
  BY <1>1, <1>2, AtLevels
<1>5. ASSUME NEW n \in 0 .. l
      PROVE  /\ f[n] = IF n = 0 THEN {Root}
                       ELSE {o \in DOMAIN w : w[o].in \in f[n - 1] /\ w[o].name = p[n]}
             /\ g[n] = IF n = 0 THEN {Root}
                       ELSE {o \in DOMAIN w : w[o].in \in g[n - 1] /\ w[o].name = q[n]}
  <2>1. n \in 0 .. Len(p)
    BY <1>1
  <2>. QED BY <1>3, <1>4, <2>1 DEF Levels
<1>6. \A n \in 0 .. l : f[n] = g[n]
  <2>. DEFINE T == {n \in 0 .. l : f[n] # g[n]}
              m == Min(T)
  <2>. SUFFICES ASSUME T # {} PROVE FALSE
    OBVIOUS
  <2>1. m \in T /\ \A y \in T : m <= y
    <3>1. T \subseteq Nat
      BY <1>1
    <3>. HIDE DEF T
    <3>. QED BY <3>1, LeastNumber
  <2>. HIDE DEF m
  <2>2. m # 0
    BY <1>5, <2>1
  <2>3. m - 1 \in 0 .. l /\ m - 1 \notin T /\ m \in 1 .. l
    BY <1>1, <2>1, <2>2
  <2>4. f[m - 1] = g[m - 1] /\ q[m] = p[m]
    BY <1>2, <2>3
  <2>5. m \in 0 .. l /\ f[m] # g[m]
    BY <2>1
  <2>. HIDE DEF T
  <2>6. f[m] = {o \in DOMAIN w : w[o].in \in f[m - 1] /\ w[o].name = p[m]}
    BY <1>5, <2>2, <2>5
  <2>7. g[m] = {o \in DOMAIN w : w[o].in \in g[m - 1] /\ w[o].name = q[m]}
    BY <1>5, <2>2, <2>5
  <2>. QED BY <2>4, <2>5, <2>6, <2>7
<1>7. f[Len(p)] = {o \in DOMAIN w : w[o].in \in f[l] /\ w[o].name = p[Len(p)]}
  <2>1. Len(p) \in 0 .. Len(p) /\ Len(p) # 0 /\ Len(p) - 1 = l
    BY <1>1
  <2>2. f[Len(p)] = IF Len(p) = 0 THEN {Root}
                    ELSE {o \in DOMAIN w : w[o].in \in f[Len(p) - 1] /\ w[o].name = p[Len(p)]}
    BY <1>3, <2>1 DEF Levels
  <2>. QED BY <2>1, <2>2
<1>8. l \in 0 .. l
  BY <1>1
<1>9. Last(p) = p[Len(p)]
  BY DEF Last
<1>. QED BY <1>3, <1>4, <1>6, <1>7, <1>8, <1>9 DEF q

LEMMA AtFront ==
  ASSUME NEW w, NEW S, NEW p \in Seq(S), Len(p) \in Nat \ {0}, NEW i \in At(w, p)
  PROVE  w[i].in \in At(w, Front(p))
BY AtIs

\* When an object is taken for a path, its folder is entered, or one is taken for it.
LEMMA TakenUnder ==
  ASSUME NEW w, NEW b, NEW t, NEW files, GoodTree(w, b, t, files),
         files \subseteq Seq(STRING) \ {<<>>}, NEW p \in Paths(files), Claimed(w, b, t, p) # {}
  PROVE  Under(b, p) \/ Claimed(w, b, t, Front(p)) # {}
<1>1. CASE Known(w, b, p) # {}
  <2>1. p \in DOMAIN b
    BY <1>1 DEF Known
  <2>. QED BY <2>1 DEF GoodTree
<1>2. CASE Holders(w, t, p) # {}
  <2>1. PICK i \in DOMAIN w : w[i].mark = [tag |-> t, path |-> p]
    BY <1>2 DEF Holders
  <2>2. w[i].mark.tag = t /\ w[i].mark.path = p
    BY <2>1
  <2>. QED BY <2>2 DEF GoodTree
<1>3. CASE Known(w, b, p) = {} /\ Holders(w, t, p) = {} /\ Len(p) # 1
  <2>1. PICK i : i \in At(w, p)
    BY <1>3 DEF Claimed
  <2>2. p \in Seq(STRING) /\ Len(p) \in Nat \ {0, 1}
    BY <1>3, PathsAreNames
  <2>3. At(w, Front(p)) # {}
    BY <2>1, <2>2, AtFront
  <2>4. Claimed(w, b, t, Front(p)) # {}
    BY <2>3 DEF Claimed
  <2>. QED BY <2>4
<1>. QED BY <1>1, <1>2, <1>3 DEF Under

\* An object that is taken for a path is entered under it.
LEMMA TakenIs ==
  ASSUME NEW w, IsDrive(w), NEW b, NEW t,
         NEW files, files \subseteq Seq(STRING) \ {<<>>}, DOMAIN b \subseteq Paths(files),
         \A p \in Paths(files) : Unambiguous(w, b, t, files, p),
         NEW b2, b2 = DriveAdopted(w, b, t, files),
         NEW p \in Paths(files), Claimed(w, b, t, p) # {}
  PROVE  Present(w, b2, p) /\ Claimed(w, b, t, p) = {b2[p].id}
<1>1. p \in DOMAIN b2
  BY DEF DriveAdopted
<1>2. CASE EntryKept(w, b, t, b2, p)
  BY <1>1, <1>2, KnownIs DEF EntryKept, Present
<1>3. CASE Adopted(w, b, t, p, b2[p].id)
  BY <1>1, <1>3 DEF Adopted, Present
<1>. QED BY <1>1, <1>2, <1>3, EntryIs

\* The folders above what is entered are, after the adoptions too.
LEMMA AdoptsTree ==
  ASSUME NEW w, IsDrive(w), NEW b, NEW t,
         NEW files, ProperNames(files), DOMAIN b \subseteq Paths(files), TreeFit(w, b, t, files),
         \A p \in Paths(files) : Unambiguous(w, b, t, files, p),
         NEW b2, b2 = DriveAdopted(w, b, t, files)
  PROVE  TreeFit(w, b2, t, files)
<1>0. files \subseteq Seq(STRING) \ {<<>>} /\ GoodTree(w, b, t, files)
  BY DEF ProperNames, TreeFit
<1>1. DOMAIN b2 = DOMAIN b \cup {q \in Paths(files) : Claimed(w, b, t, q) # {}}
  BY DEF DriveAdopted
<1>2. \A p : Under(b, p) => Under(b2, p)
  BY <1>1 DEF Under
<1>3. ASSUME NEW p \in DOMAIN b2
      PROVE  /\ b2[p].id # Root /\ Under(b2, p)
             /\ b2[p].id \in DOMAIN w => ((w[b2[p].id].kind = "file") <=> p \in files)
  <2>1. CASE EntryKept(w, b, t, b2, p)
    BY <1>0, <1>2, <2>1 DEF EntryKept, GoodTree
  <2>2. CASE Adopted(w, b, t, p, b2[p].id)
    <3>1. p \in Paths(files)
      BY <1>1
    <3>2. Claimed(w, b, t, p) = {b2[p].id} /\ b2[p].id \in DOMAIN w /\ b2[p].id # Root
      BY <2>2 DEF Adopted, IsDrive
    <3>3. (w[b2[p].id].kind = "file") = (p \in files)
      BY <3>1, <3>2 DEF Unambiguous
    <3>4. Under(b2, p)
      <4>1. Under(b, p) \/ Claimed(w, b, t, Front(p)) # {}
        BY <1>0, <3>1, <3>2, TakenUnder
      <4>2. FrontOf(files, p)
        BY <1>0, <3>1, FrontIs
      <4>. QED BY <1>1, <1>2, <4>1, <4>2 DEF FrontOf, Under, Paths
    <3>. QED BY <3>2, <3>3, <3>4
  <2>. QED BY <1>0, <2>1, <2>2, EntryIs
<1>4. \A i \in DOMAIN w : w[i].mark.tag = t => Under(b2, w[i].mark.path)
  BY <1>0, <1>2 DEF GoodTree
<1>5. GoodTree(w, b2, t, files)
  BY <1>3, <1>4 DEF GoodTree
<1>. QED BY <1>5 DEF TreeFit

\* What the plan of a delta has a call for.
LEMMA PlanCalls ==
  ASSUME NEW w, NEW b, NEW t, NEW files, NEW todo, todo = DrivePlan(w, b, t, files).todo
  PROVE  /\ \A p \in Paths(files) : Claimed(w, b, t, p) = {} => Pending(todo, p)
         /\ \A p \in Paths(files) : \A i \in Claimed(w, b, t, p) :
              Pending(todo, p) \/ Placed(w, b, t, p, i)
         /\ \A a \in todo :
              /\ Building(a) \/ a.do = "delete"
              /\ Building(a) => /\ a.rank = Rank(files, a.path)
                                /\ a.do = "replace" => a.path \in files
              /\ a.do = "delete" => /\ a.rank[1] \in {3, 4} /\ a.id \in DOMAIN w
                                    /\ \A p \in Paths(files) : a.id \notin Claimed(w, b, t, p)
<1>. DEFINE Do(p, i) == IF SameBytes(b, files, p, w[i]) \/ p \notin files
                        THEN "patch" ELSE "replace"
            Fit(p, i) == Placed(w, b, t, p, i) /\ (p \in files => SameBytes(b, files, p, w[i]))
            new(p) == [do |-> "create", path |-> p, id |-> 0, rank |-> Rank(files, p)]
            old(p, i) == [do |-> Do(p, i), path |-> p, id |-> i, rank |-> Rank(files, p)]
            gone(i) == [do |-> "delete", path |-> <<>>, id |-> i, rank |-> RemovalRank(w, i)]
            C == Creates(w, b, t, files)
            R == Repairs(w, b, t, files)
            X == Removals(w, b, t, files)
<1>1. todo = C \cup R \cup X
  BY DEF DrivePlan
<1>2. /\ \A p \in Paths(files) : Claimed(w, b, t, p) = {} => new(p) \in C
      /\ \A a \in C : \E p \in Paths(files) : a = new(p)
  BY DEF Creates
<1>3. /\ \A p \in Paths(files) : \A i \in Claimed(w, b, t, p) : ~Fit(p, i) => old(p, i) \in R
      /\ \A a \in R : \E p \in Paths(files) : \E i \in Claimed(w, b, t, p) : a = old(p, i)
  BY DEF Repairs
<1>4. \A a \in X : \E i \in DOMAIN w : a = gone(i) /\ \A p \in Paths(files) : i \notin Claimed(w, b, t, p)
  BY DEF Removals
<1>. HIDE DEF C, R, X
<1>5. ASSUME NEW p \in Paths(files), Claimed(w, b, t, p) = {} PROVE Pending(todo, p)
  <2>1. new(p) \in todo
    BY <1>1, <1>2, <1>5
  <2>2. Building(new(p)) /\ new(p).path = p
    BY DEF Building
  <2>. QED BY <2>1, <2>2 DEF Pending
<1>6. ASSUME NEW p \in Paths(files), NEW i \in Claimed(w, b, t, p), ~Placed(w, b, t, p, i)
      PROVE  Pending(todo, p)
  <2>1. old(p, i) \in todo
    BY <1>1, <1>3, <1>6
  <2>2. Building(old(p, i)) /\ old(p, i).path = p
    BY DEF Building
  <2>. QED BY <2>1, <2>2 DEF Pending
<1>7. ASSUME NEW a \in todo
      PROVE  /\ Building(a) \/ a.do = "delete"
             /\ Building(a) => /\ a.rank = Rank(files, a.path)
                               /\ a.do = "replace" => a.path \in files
             /\ a.do = "delete" => /\ a.rank[1] \in {3, 4} /\ a.id \in DOMAIN w
                                   /\ \A p \in Paths(files) : a.id \notin Claimed(w, b, t, p)
  <2>1. CASE a \in C
    <3>1. PICK p \in Paths(files) : a = new(p)
      BY <1>2, <2>1
    <3>. QED BY <3>1 DEF Building
  <2>2. CASE a \in R
    <3>1. PICK p \in Paths(files) : \E i \in Claimed(w, b, t, p) : a = old(p, i)
      BY <1>3, <2>2
    <3>2. PICK i \in Claimed(w, b, t, p) : a = old(p, i)
      BY <3>1
    <3>3. a.path = p /\ a.rank = Rank(files, p) /\ a.do = Do(p, i)
      BY <3>2
    <3>. QED BY <3>3 DEF Building
  <2>3. CASE a \in X
    <3>1. PICK i \in DOMAIN w : a = gone(i) /\ \A p \in Paths(files) : i \notin Claimed(w, b, t, p)
      BY <1>4, <2>3
    <3>2. a.do = "delete" /\ a.id = i /\ a.rank = RemovalRank(w, i)
      BY <3>1
    <3>3. a.rank[1] \in {3, 4}
      BY <3>2 DEF RemovalRank
    <3>. QED BY <3>1, <3>2, <3>3 DEF Building
  <2>. QED BY <1>1, <2>1, <2>2, <2>3
<1>. QED BY <1>5, <1>6, <1>7

\* The plan of a delta is in order, and what it has no call for is in place.
LEMMA TreeAdopts ==
  ASSUME NEW w, IsDrive(w), NEW b, NEW t,
         NEW files, ProperNames(files), DOMAIN b \subseteq Paths(files), TreeFit(w, b, t, files),
         \A p \in Paths(files) : Unambiguous(w, b, t, files, p),
         NEW b2, b2 = DriveAdopted(w, b, t, files),
         NEW todo, todo = DrivePlan(w, b, t, files).todo
  PROVE  TreeFit(w, b2, t, files) /\ PlanDue(todo, w, b2, files) /\ Whole(todo, w, b2, files)
<1>0. files \subseteq Seq(STRING) \ {<<>>} /\ GoodTree(w, b, t, files)
  BY DEF ProperNames, TreeFit
<1>1. TreeFit(w, b2, t, files)
  BY AdoptsTree
<1>2. ASSUME NEW p \in Paths(files), Claimed(w, b, t, p) = {} PROVE Pending(todo, p)
  BY <1>2, PlanCalls
<1>3. ASSUME NEW p \in Paths(files), NEW i \in Claimed(w, b, t, p), ~Placed(w, b, t, p, i)
      PROVE  Pending(todo, p)
  BY <1>3, PlanCalls
<1>4. ASSUME NEW p \in Paths(files), Claimed(w, b, t, p) # {}
      PROVE  Present(w, b2, p) /\ Claimed(w, b, t, p) = {b2[p].id}
  BY <1>0, <1>4, TakenIs
<1>5. Ranked(todo, b2, files)
  <2>1. ASSUME NEW a \in todo, a.do = "delete", NEW p \in DOMAIN b2 PROVE b2[p].id # a.id
    <3>1. a.id \in DOMAIN w /\ \A q \in Paths(files) : a.id \notin Claimed(w, b, t, q)
      BY <2>1, PlanCalls
    <3>2. p \in Paths(files)
      BY DEF DriveAdopted
    <3>3. CASE EntryKept(w, b, t, b2, p)
      <4>1. b2[p] = b[p] /\ p \in DOMAIN b
        BY <3>3 DEF EntryKept
      <4>2. Known(w, b, p) # {} => Claimed(w, b, t, p) = {b[p].id}
        BY KnownIs
      <4>3. Known(w, b, p) = {} => b[p].id \notin DOMAIN w
        BY <4>1 DEF Known
      <4>. QED BY <3>1, <3>2, <4>1, <4>2, <4>3
    <3>4. CASE Adopted(w, b, t, p, b2[p].id)
      BY <3>1, <3>2, <3>4 DEF Adopted
    <3>. QED BY <1>0, <3>3, <3>4, EntryIs
  <2>2. ASSUME NEW a \in todo, a.do = "delete" PROVE a.rank[1] \in {3, 4} /\ a.id # Root
    BY <2>2, PlanCalls DEF IsDrive
  <2>3. ASSUME NEW a \in todo, Building(a)
        PROVE  a.rank = Rank(files, a.path) /\ (a.do = "replace" => a.path \in files)
    BY <2>3, PlanCalls
  <2>. QED BY <2>1, <2>2, <2>3 DEF Ranked
<1>6. Founded(todo, w, b2, files)
  <2>1. \A q \in Folders(files) : Pending(todo, q) \/ Present(w, b2, q)
    BY <1>2, <1>4 DEF Paths
  <2>2. \A d \in todo : d.do = "delete" => d.id \in DOMAIN w
    BY PlanCalls
  <2>. QED BY <2>1, <2>2 DEF Founded
<1>7. Whole(todo, w, b2, files)
  <2>. SUFFICES ASSUME NEW p \in Paths(files), ~Pending(todo, p) PROVE Settled(w, b2, p)
    BY DEF Whole
  <2>. DEFINE i == b2[p].id
              q == Front(p)
  <2>1. Claimed(w, b, t, p) = {i} /\ Present(w, b2, p)
    BY <1>2, <1>4
  <2>2. Seat(w, b, t, p) \subseteq {w[i].in}
    BY <1>3, <2>1 DEF Placed
  <2>3. FrontOf(files, p)
    BY <1>0, FrontIs
  <2>4. CASE Len(p) = 1
    <3>1. q = <<>>
      BY <2>3, <2>4 DEF FrontOf
    <3>. QED BY <2>1, <2>2, <2>4, <3>1 DEF Settled, Seat, FolderId
  <2>5. CASE Len(p) # 1
    <3>1. q \in Paths(files) /\ q # <<>>
      BY <2>3, <2>5 DEF FrontOf, Paths
    <3>2. FolderId(b2, q) = b2[q].id
      BY <3>1 DEF FolderId
    <3>3. CASE Claimed(w, b, t, q) # {}
      <4>1. Claimed(w, b, t, q) = {b2[q].id}
        BY <1>4, <3>1, <3>3
      <4>. QED BY <2>1, <2>2, <2>5, <3>2, <4>1 DEF Settled, Seat
    <3>4. CASE Claimed(w, b, t, q) = {}
      <4>1. q \in DOMAIN b
        BY <1>0, <2>1, <2>5, <3>4, TakenUnder DEF Under
      <4>2. b2[q] = b[q]
        BY <3>4, <4>1 DEF DriveAdopted
      <4>. QED BY <2>1, <2>2, <2>5, <3>2, <3>4, <4>1, <4>2 DEF Settled, Seat
    <3>. QED BY <3>3, <3>4
  <2>. QED BY <2>4, <2>5
<1>. QED BY <1>1, <1>5, <1>6, <1>7 DEF PlanDue

-----------------------------------------------------------------------------
(* Drive: every call leaves a plan in order, and the rest in its place.    *)

First(todo, a) ==
  \A o \in todo : \/ a.rank[1] < o.rank[1]
                  \/ a.rank[1] = o.rank[1] /\ a.rank[2] <= o.rank[2]

\* Where the plan stands: in order, in a tree, and its next call.
Poised(todo, a, w, b, t, files) ==
  /\ TreeFit(w, b, t, files) /\ PlanDue(todo, w, b, files) /\ DriveTodo(todo, w, b, files)
  /\ a \in todo /\ a.do # "seed" /\ First(todo, a)

\* The call leaves v and c in order.
Orderly(todo, a, b, t, files, v, c) ==
  TreeFit(v, b, t, files) /\ TreeFit(v, c, t, files) /\ PlanDue(todo \ {a}, v, c, files)

\* An object that is entered goes by the replacement of its file, or stays.
CallStays(a, w, b, files, v) ==
  \A q \in DOMAIN b : b[q].id \in DOMAIN w \ DOMAIN v => q = a.path /\ q \in files /\ a.do = "replace"

\* What was in place stays in place, if no object is entered twice.
Holding(todo, a, w, b, files, v, c) ==
  ~NamesTwice(b) /\ Whole(todo, w, b, files) =>
    ~NamesTwice(c) /\ Whole(todo \ {a}, v, c, files) /\ CallStays(a, w, b, files, v)

LEMMA PendingLess ==
  ASSUME NEW todo, NEW a, NEW q, Pending(todo, q)
  PROVE  Pending(todo \ {a}, q) \/ q = a.path
BY DEF Pending

\* The folder for what comes next is made.
LEMMA NextIsSeated ==
  ASSUME NEW todo, NEW a, NEW w, NEW b, NEW files, PlanDue(todo, w, b, files), ProperNames(files),
         a \in todo, First(todo, a), Building(a), a.path \in Paths(files)
  PROVE  Under(b, a.path) /\ Seated(w, b, a.path) /\ Front(a.path) # a.path
<1>. DEFINE p == a.path
            q == Front(p)
<1>1. FrontOf(files, p) /\ p \in Seq(STRING) /\ Len(p) \in Nat \ {0}
  BY FrontIs, PathsAreNames DEF ProperNames
<1>2. CASE Len(p) = 1
  BY <1>1, <1>2 DEF FrontOf, Under, Seated, FolderId
<1>3. CASE Len(p) # 1
  <2>1. q \in Folders(files) /\ Len(q) = Len(p) - 1 /\ q # <<>>
    BY <1>1, <1>3 DEF FrontOf
  <2>2. q \notin files
    BY <2>1 DEF ProperNames
  <2>. HIDE DEF p, q
  <2>3. ~Pending(todo, q)
    <3>. SUFFICES ASSUME Pending(todo, q) PROVE FALSE
      OBVIOUS
    <3>1. PICK o \in todo : Building(o) /\ o.path = q
      BY DEF Pending
    <3>2. o.rank = Rank(files, q) /\ a.rank = Rank(files, p)
      BY <3>1 DEF PlanDue, Ranked, p
    <3>3. o.rank[1] = 1 /\ o.rank[2] = Len(p) - 1
      BY <2>1, <2>2, <3>2 DEF Rank
    <3>4. a.rank[1] \in {1, 2} /\ a.rank[2] = Len(p)
      BY <3>2 DEF Rank
    <3>. QED BY <1>1, <3>3, <3>4 DEF First
  <2>4. Present(w, b, q)
    BY <2>1, <2>3 DEF PlanDue, Founded
  <2>5. q # p
    BY <1>1, <2>1
  <2>. QED BY <2>1, <2>4, <2>5 DEF Under, Seated, FolderId, Present, p, q
<1>. QED BY <1>2, <1>3

\* Nothing is deleted while there is something to build.
LEMMA DeletesLast ==
  ASSUME NEW todo, NEW a, NEW w, NEW b, NEW files, PlanDue(todo, w, b, files),
         a \in todo, First(todo, a), a.do = "delete"
  PROVE  \A o \in todo : ~Building(o)
<1>. SUFFICES ASSUME NEW o \in todo, Building(o) PROVE FALSE
  OBVIOUS
<1>1. a.rank[1] \in {3, 4} /\ o.rank = Rank(files, o.path)
  BY DEF PlanDue, Ranked
<1>2. o.rank[1] \in {1, 2}
  BY <1>1 DEF Rank
<1>. QED BY <1>1, <1>2 DEF First

\* An object is made: x, if it was there, is the file that it replaces.
Replaced(a, w, b, files, x) ==
  IF x \in DOMAIN w THEN a.do = "replace" /\ a.path \in files /\ a.path \in DOMAIN b /\ b[a.path].id = x
  ELSE Known(w, b, a.path) = {}

LEMMA MakesOrderly ==
  ASSUME NEW w, IsDrive(w), NEW b, NEW t, NEW files, ProperNames(files),
         NEW todo, NEW a, Poised(todo, a, w, b, t, files), a.do \in {"create", "replace"},
         NEW x, Replaced(a, w, b, files, x),
         NEW w1, TreeFit(w1, b, t, files), DOMAIN w1 = DOMAIN w \ {x},
         NEW n, n # Root, n \notin DOMAIN w, \A q \in DOMAIN b : b[q].id # n,
         NEW r, r = DriveCreated(w1, b, t, files, a.path, n)
  PROVE  /\ Orderly(todo, a, b, t, files, r.world, r.book)
         /\ \A q \in Folders(files) : Present(w, b, q) => b[q].id \in DOMAIN w1
<1>. DEFINE p == a.path
            v == r.world
            c == r.book
<1>1. Building(a) /\ a \in todo /\ First(todo, a) /\ p \in Paths(files)
  BY DEF Poised, Building, DriveTodo
<1>2. PlanDue(todo, w, b, files) /\ GoodTree(w, b, t, files)
  BY DEF Poised, TreeFit
<1>3. Under(b, p) /\ Seated(w, b, p)
  BY <1>1, <1>2, NextIsSeated
<1>4. ASSUME NEW q \in Folders(files), Present(w, b, q) PROVE b[q].id \in DOMAIN w1
  <2>. SUFFICES ASSUME b[q].id = x PROVE FALSE
    BY <1>4 DEF Present
  <2>1. x \in DOMAIN w /\ q \in DOMAIN b
    BY <1>4 DEF Present
  <2>2. p \in files /\ p \in DOMAIN b /\ b[p].id = x
    BY <2>1 DEF Replaced
  <2>3. q \notin files
    BY DEF ProperNames
  <2>. HIDE DEF p
  <2>4. (w[x].kind = "file") <=> p \in files
    BY <1>2, <2>1, <2>2 DEF GoodTree
  <2>5. (w[x].kind = "file") <=> q \in files
    BY <1>2, <2>1 DEF GoodTree
  <2>. QED BY <2>2, <2>3, <2>4, <2>5
<1>5. Seated(w1, b, p)
  <2>1. FrontOf(files, p)
    BY <1>1, FrontIs DEF ProperNames
  <2>2. CASE Front(p) = <<>>
    BY <2>2 DEF Seated, FolderId
  <2>3. CASE Front(p) # <<>>
    <3>1. Front(p) \in Folders(files) /\ Front(p) \in DOMAIN b
      BY <1>3, <2>1, <2>3 DEF FrontOf, Under
    <3>2. b[Front(p)].id \in DOMAIN w \cup {Root}
      BY <1>3, <2>3 DEF Seated, FolderId
    <3>3. Present(w, b, Front(p)) => b[Front(p)].id \in DOMAIN w1
      BY <1>4, <3>1
    <3>. QED BY <2>3, <3>1, <3>2, <3>3 DEF Seated, FolderId, Present
  <2>. QED BY <2>2, <2>3
<1>6. TreeFit(v, b, t, files) /\ TreeFit(v, c, t, files)
  BY <1>1, <1>3, <1>5, TreeCreates
<1>7. /\ DOMAIN v = DOMAIN w1 \cup {n}
      /\ DOMAIN c = DOMAIN b \cup {p} /\ c[p].id = n /\ \A q \in DOMAIN b : q # p => c[q] = b[q]
  BY DEF DriveCreated, Put
<1>. HIDE DEF v, c, p
<1>8. \A d \in todo : d.do = "delete" => d.id \in DOMAIN w /\ d.id # n /\ \A q \in DOMAIN b : b[q].id # d.id
  BY <1>1, <1>2 DEF PlanDue, Ranked, Founded
<1>9. Ranked(todo \ {a}, c, files)
  <2>1. \A d \in todo \ {a} : d.do = "delete" => \A q \in DOMAIN c : c[q].id # d.id
    BY <1>7, <1>8
  <2>. QED BY <1>2, <2>1 DEF PlanDue, Ranked
<1>10. Founded(todo \ {a}, v, c, files)
  <2>1. ASSUME NEW q \in Folders(files), ~Pending(todo \ {a}, q) PROVE Present(v, c, q)
    <3>1. CASE q = p
      BY <1>7, <3>1 DEF Present
    <3>2. CASE q # p
      <4>1. ~Pending(todo, q)
        BY <2>1, <3>2, PendingLess DEF p
      <4>2. Present(w, b, q)
        BY <1>1, <1>2, <4>1 DEF PlanDue, Founded
      <4>3. b[q].id \in DOMAIN w1
        BY <1>4, <4>2
      <4>. QED BY <1>7, <3>2, <4>2, <4>3 DEF Present
    <3>. QED BY <3>1, <3>2
  <2>2. ASSUME NEW d \in todo, d.do = "delete" PROVE d.id \in DOMAIN v
    <3>1. d.id # x
      BY <1>8, <2>2 DEF Replaced
    <3>. QED BY <1>7, <1>8, <2>2, <3>1
  <2>. QED BY <2>1, <2>2 DEF Founded
<1>11. PlanDue(todo \ {a}, v, c, files)
  BY <1>9, <1>10 DEF PlanDue
<1>12. Orderly(todo, a, b, t, files, v, c)
  BY <1>6, <1>11 DEF Orderly
<1>. QED BY <1>4, <1>12 DEF v, c

LEMMA MakesHold ==
  ASSUME NEW w, IsDrive(w), NEW b, NEW t, NEW files, ProperNames(files),
         NEW todo, NEW a, Poised(todo, a, w, b, t, files), a.do \in {"create", "replace"},
         NEW x, Replaced(a, w, b, files, x),
         NEW w1, DOMAIN w1 = DOMAIN w \ {x}, \A i \in DOMAIN w1 : w1[i] = w[i],
         NEW n, n # Root, n \notin DOMAIN w, \A q \in DOMAIN b : b[q].id # n,
         NEW r, r = DriveCreated(w1, b, t, files, a.path, n)
  PROVE  Holding(todo, a, w, b, files, r.world, r.book)
<1>. DEFINE p == a.path
            v == r.world
            c == r.book
<1>. SUFFICES ASSUME ~NamesTwice(b), Whole(todo, w, b, files)
              PROVE  ~NamesTwice(c) /\ Whole(todo \ {a}, v, c, files) /\ CallStays(a, w, b, files, v)
  BY DEF Holding
<1>1. Building(a) /\ a \in todo /\ First(todo, a) /\ p \in Paths(files)
  BY DEF Poised, Building, DriveTodo
<1>2. PlanDue(todo, w, b, files) /\ GoodTree(w, b, t, files) /\ IsTree(w)
  BY DEF Poised, TreeFit
<1>3. Front(p) # p /\ p # <<>>
  <2>1. Front(p) # p
    BY <1>1, <1>2, NextIsSeated
  <2>2. p \in Seq(STRING) /\ Len(p) # 0
    BY <1>1, PathsAreNames DEF ProperNames
  <2>. QED BY <2>1, <2>2
<1>4. /\ DOMAIN v = DOMAIN w1 \cup {n} /\ v[n].in = FolderId(b, Front(p))
      /\ \A i \in DOMAIN w1 : v[i] = w1[i]
      /\ DOMAIN c = DOMAIN b \cup {p} /\ c[p].id = n /\ \A q \in DOMAIN b : q # p => c[q] = b[q]
  BY DEF DriveCreated, Put, NewObject
<1>. HIDE DEF v, c, p
<1>5. \A q \in Paths(files) : Pending(todo, q) => Pending(todo \ {a}, q) \/ q = p
  BY PendingLess DEF p
<1>6. \A q : q # p => FolderId(c, q) = FolderId(b, q) \/ q \notin DOMAIN b
  BY <1>4 DEF FolderId
<1>7. ~NamesTwice(c)
  BY <1>4 DEF NamesTwice
<1>8. ASSUME NEW q \in DOMAIN b, b[q].id \in DOMAIN w, b[q].id \notin DOMAIN w1
      PROVE  q = p /\ p \in files /\ a.do = "replace"
  <2>1. b[q].id = x /\ x \in DOMAIN w
    BY <1>8
  <2>2. p \in files /\ p \in DOMAIN b /\ b[p].id = x /\ a.do = "replace"
    BY <2>1 DEF Replaced, p
  <2>. QED BY <2>1, <2>2 DEF NamesTwice
<1>9. ASSUME NEW q \in Paths(files), q # p, Settled(w, b, q) PROVE Settled(v, c, q)
  <2>. DEFINE i == b[q].id
  <2>1. q \in DOMAIN b /\ i \in DOMAIN w /\ w[i].in = FolderId(b, Front(q))
    BY <1>9 DEF Settled, Present
  <2>2. i \in DOMAIN w1 /\ c[q] = b[q] /\ v[i] = w[i]
    BY <1>4, <1>8, <1>9, <2>1
  <2>3. FrontOf(files, q) /\ Under(b, q)
    BY <1>2, <2>1, FrontIs DEF ProperNames, GoodTree
  <2>. HIDE DEF i
  <2>4. Front(q) # p
    <3>. SUFFICES ASSUME Front(q) = p PROVE FALSE
      OBVIOUS
    <3>1. p \in Folders(files) /\ p \in DOMAIN b
      BY <1>3, <2>3 DEF FrontOf, Under
    <3>2. p \notin files
      BY <3>1 DEF ProperNames
    <3>3. w[i].in = b[p].id /\ b[p].id # Root
      BY <1>2, <1>3, <2>1, <3>1 DEF FolderId, GoodTree
    <3>4. b[p].id \in DOMAIN w
      BY <1>2, <2>1, <3>3 DEF IsTree, HasPlace
    <3>5. Known(w, b, p) = {}
      BY <3>2 DEF Replaced, p
    <3>. QED BY <3>1, <3>4, <3>5 DEF Known
  <2>5. FolderId(c, Front(q)) = FolderId(b, Front(q))
    <3>1. CASE Front(q) = <<>>
      BY <3>1 DEF FolderId
    <3>2. CASE Front(q) # <<>>
      <4>1. Front(q) \in DOMAIN b
        BY <2>3, <3>2 DEF FrontOf, Under
      <4>. QED BY <1>6, <2>4, <4>1
    <3>. QED BY <3>1, <3>2
  <2>6. q \in DOMAIN c /\ c[q].id = i /\ i \in DOMAIN v
    BY <1>4, <2>1, <2>2 DEF i
  <2>. QED BY <2>1, <2>2, <2>5, <2>6 DEF Settled, Present
<1>10. Settled(v, c, p)
  <2>1. FolderId(c, Front(p)) = FolderId(b, Front(p))
    <3>1. FrontOf(files, p) /\ Under(b, p)
      BY <1>1, <1>2, NextIsSeated, FrontIs DEF ProperNames, p
    <3>2. CASE Front(p) = <<>>
      BY <3>2 DEF FolderId
    <3>3. CASE Front(p) # <<>>
      <4>1. Front(p) \in DOMAIN b
        BY <3>1, <3>3 DEF FrontOf, Under
      <4>. QED BY <1>3, <1>6, <4>1
    <3>. QED BY <3>2, <3>3
  <2>. QED BY <1>4, <2>1 DEF Settled, Present
<1>11. Whole(todo \ {a}, v, c, files)
  BY <1>5, <1>9, <1>10 DEF Whole
<1>12. CallStays(a, w, b, files, v)
  BY <1>4, <1>8 DEF CallStays, p
<1>. QED BY <1>7, <1>11, <1>12

LEMMA PatchHolds ==
  ASSUME NEW w, IsDrive(w), NEW b, NEW t, NEW files, ProperNames(files),
         NEW todo, NEW a, Poised(todo, a, w, b, t, files), a.do = "patch", a.id \in DOMAIN w,
         NEW v, MendedOne(w, v, b, t, a.path, a.id)
  PROVE  Orderly(todo, a, b, t, files, v, b) /\ Holding(todo, a, w, b, files, v, b)
<1>. DEFINE p == a.path
            i == a.id
<1>1. /\ Building(a) /\ a \in todo /\ First(todo, a) /\ p \in Paths(files)
      /\ p \in DOMAIN b /\ b[p].id = i
  BY DEF Poised, Building, DriveTodo
<1>2. PlanDue(todo, w, b, files) /\ TreeFit(w, b, t, files)
  BY DEF Poised
<1>3. Seated(w, b, p)
  BY <1>1, <1>2, NextIsSeated
<1>4. TreeFit(v, b, t, files)
  BY <1>1, <1>2, <1>3, TreePatches
<1>5. /\ DOMAIN v = DOMAIN w /\ v[i].in = FolderId(b, Front(p))
      /\ \A j \in DOMAIN w : j # i => v[j] = w[j]
  BY DEF MendedOne, Mended
<1>. HIDE DEF p, i
<1>6. \A q : Pending(todo, q) => Pending(todo \ {a}, q) \/ q = p
  BY PendingLess DEF p
<1>7. Present(v, b, p)
  BY <1>1, <1>5 DEF Present, i
<1>8. Founded(todo \ {a}, v, b, files)
  <2>1. ASSUME NEW q \in Folders(files) PROVE Pending(todo \ {a}, q) \/ Present(v, b, q)
    BY <1>1, <1>2, <1>5, <1>6, <1>7 DEF PlanDue, Founded, Present
  <2>2. \A d \in todo : d.do = "delete" => d.id \in DOMAIN v
    BY <1>1, <1>2, <1>5 DEF PlanDue, Founded
  <2>. QED BY <2>1, <2>2 DEF Founded
<1>9. Ranked(todo \ {a}, b, files)
  BY <1>2 DEF PlanDue, Ranked
<1>10. Orderly(todo, a, b, t, files, v, b)
  BY <1>2, <1>4, <1>8, <1>9 DEF Orderly, PlanDue
<1>11. ASSUME ~NamesTwice(b), Whole(todo, w, b, files) PROVE Whole(todo \ {a}, v, b, files)
  <2>1. ASSUME NEW q \in Paths(files), q # p, Settled(w, b, q) PROVE Settled(v, b, q)
    <3>1. b[q].id # i
      BY <1>1, <1>11, <2>1 DEF NamesTwice, Settled, Present
    <3>. QED BY <1>5, <2>1, <3>1 DEF Settled, Present
  <2>2. Settled(v, b, p)
    BY <1>1, <1>5, <1>7 DEF Settled
  <2>. QED BY <1>6, <1>11, <2>1, <2>2 DEF Whole
<1>12. CallStays(a, w, b, files, v)
  BY <1>5 DEF CallStays
<1>. QED BY <1>10, <1>11, <1>12 DEF Holding

LEMMA DeleteHolds ==
  ASSUME NEW w, IsDrive(w), NEW b, NEW t, NEW files, ProperNames(files),
         DOMAIN b \subseteq Paths(files),
         NEW todo, NEW a, Poised(todo, a, w, b, t, files), a.do = "delete",
         NEW v, v = Without(w, a.id)
  PROVE  Orderly(todo, a, b, t, files, v, b) /\ Holding(todo, a, w, b, files, v, b)
<1>1. PlanDue(todo, w, b, files) /\ TreeFit(w, b, t, files) /\ a \in todo /\ First(todo, a)
  BY DEF Poised
<1>2. \A o \in todo : ~Building(o)
  BY <1>1, DeletesLast
<1>3. TreeFit(v, b, t, files)
  BY <1>1, TreeLeft
<1>4. PlanDue(todo \ {a}, v, b, files)
  BY <1>1, <1>2 DEF PlanDue, Ranked, Founded
<1>5. ASSUME Whole(todo, w, b, files)
      PROVE  Whole(todo \ {a}, v, b, files) /\ CallStays(a, w, b, files, v)
  <2>. DEFINE S == {b[q].id : q \in Paths(files)} \cup {Root}
  <2>1. ASSUME NEW q \in Paths(files)
        PROVE  q \in DOMAIN b /\ b[q].id \in DOMAIN w /\ w[b[q].id].in = FolderId(b, Front(q))
    BY <1>2, <1>5 DEF Whole, Pending, Settled, Present
  <2>2. ASSUME NEW q \in Paths(files) PROVE FolderId(b, Front(q)) \in S
    <3>1. FrontOf(files, q)
      BY FrontIs DEF ProperNames
    <3>. QED BY <3>1 DEF FrontOf, FolderId, Paths
  <2>3. \A j \in S \cap DOMAIN w : w[j].in \in S
    <3>. SUFFICES ASSUME NEW j \in S, j \in DOMAIN w PROVE w[j].in \in S
      OBVIOUS
    <3>1. PICK q \in Paths(files) : j = b[q].id
      BY DEF IsDrive
    <3>. HIDE DEF S
    <3>. QED BY <2>1, <2>2, <3>1
  <2>4. a.id \notin S
    BY <1>1, <2>1 DEF PlanDue, Ranked
  <2>5. \A q \in Paths(files) : b[q].id \in S
    OBVIOUS
  <2>. HIDE DEF S
  <2>6. S \cap DOMAIN w \subseteq DOMAIN v
    BY <2>3, <2>4, WithoutKeeps DEF IsDrive
  <2>7. \A i \in DOMAIN v : v[i] = w[i]
    BY DEF Without
  <2>8. \A q \in Paths(files) : Settled(v, b, q)
    BY <2>1, <2>5, <2>6, <2>7 DEF Settled, Present
  <2>9. CallStays(a, w, b, files, v)
    BY <2>1, <2>5, <2>6 DEF CallStays
  <2>. QED BY <2>8, <2>9 DEF Whole
<1>. QED BY <1>1, <1>3, <1>4, <1>5 DEF Orderly, Holding

\* What a call of the reconcile leaves of the plan and of what was in place, finished or
\* cut short.
CallOutcome(todo, a, w, b, t, files, n) ==
  LET r == DriveDone(a, w, b, t, files, n)
  IN /\ Orderly(todo, a, b, t, files, r.world, r.book)
     /\ Holding(todo, a, w, b, files, r.world, r.book)
     /\ a.do = "replace" => r.book[a.path].id \in DOMAIN r.world
     /\ \A v \in DriveTorn(a, w, b, t, files, n) :
          /\ TreeFit(v, b, t, files)
          /\ ~NamesTwice(b) /\ Whole(todo, w, b, files) => CallStays(a, w, b, files, v)

LEMMA DriveKeepsOrder ==
  ASSUME NEW w, IsDrive(w), NEW b, NEW t, NEW files, ProperNames(files),
         DOMAIN b \subseteq Paths(files),
         NEW todo, NEW a, Poised(todo, a, w, b, t, files), DriveAnswers(a, w),
         NEW n, n # Root, n \notin DOMAIN w, \A q \in DOMAIN b : b[q].id # n
  PROVE  CallOutcome(todo, a, w, b, t, files, n)
<1>. DEFINE r == DriveDone(a, w, b, t, files, n)
            Good(v, c) == Orderly(todo, a, b, t, files, v, c) /\ Holding(todo, a, w, b, files, v, c)
<1>1. /\ a.do \in {"create", "patch", "replace", "delete"} /\ TreeFit(w, b, t, files)
      /\ a.do = "create" => Known(w, b, a.path) = {}
      /\ a.do \in {"patch", "replace"} => a.path \in DOMAIN b /\ b[a.path].id = a.id
      /\ a.do = "replace" => a.path \in files
  BY DEF Poised, DriveTodo, PlanDue, Ranked, Building
<1>2. CallStays(a, w, b, files, w)
  BY DEF CallStays
<1>3. ASSUME NEW v, NEW c, Good(v, c)
      PROVE  /\ TreeFit(v, b, t, files)
             /\ ~NamesTwice(b) /\ Whole(todo, w, b, files) => CallStays(a, w, b, files, v)
  BY <1>3 DEF Orderly, Holding
<1>4. ASSUME NEW x, Replaced(a, w, b, files, x), a.do \in {"create", "replace"},
             NEW w1, TreeFit(w1, b, t, files), DOMAIN w1 = DOMAIN w \ {x},
             \A i \in DOMAIN w1 : w1[i] = w[i], r = DriveCreated(w1, b, t, files, a.path, n)
      PROVE  Good(r.world, r.book) /\ r.book[a.path].id \in DOMAIN r.world
  <2>. DEFINE d == DriveCreated(w1, b, t, files, a.path, n)
  <2>1. d.book[a.path].id = n /\ n \in DOMAIN d.world
    BY DEF DriveCreated, Put
  <2>. HIDE DEF d, r
  <2>2. Orderly(todo, a, b, t, files, d.world, d.book)
    BY <1>4, MakesOrderly DEF d
  <2>3. Holding(todo, a, w, b, files, d.world, d.book)
    BY <1>4, MakesHold DEF d
  <2>4. r = d
    BY <1>4 DEF d
  <2>. QED BY <2>1, <2>2, <2>3, <2>4
<1>5. CASE a.do = "create"
  <2>1. r = DriveCreated(w, b, t, files, a.path, n)
    BY <1>5 DEF DriveDone
  <2>2. Replaced(a, w, b, files, Root) /\ DOMAIN w = DOMAIN w \ {Root}
    BY <1>1, <1>5 DEF Replaced, IsDrive
  <2>. HIDE DEF r
  <2>3. Good(r.world, r.book)
    BY <1>1, <1>4, <1>5, <2>1, <2>2
  <2>4. DriveTorn(a, w, b, t, files, n) = {w, r.world}
    BY <1>5 DEF DriveTorn, r
  <2>. HIDE DEF Good
  <2>. QED BY <1>1, <1>2, <1>3, <1>5, <2>3, <2>4 DEF CallOutcome, r, Good
<1>6. CASE a.do = "patch"
  <2>1. r = DrivePatched(w, b, t, a.path, a.id) /\ a.id \in DOMAIN w
    BY <1>6 DEF DriveDone, DriveAnswers
  <2>2. r.book = b
    BY <2>1 DEF DrivePatched
  <2>. HIDE DEF r
  <2>3. MendedOne(w, r.world, b, t, a.path, a.id)
    BY <2>1, DrivePatchedIs
  <2>4. Good(r.world, r.book)
    BY <1>6, <2>1, <2>2, <2>3, PatchHolds
  <2>5. DriveTorn(a, w, b, t, files, n) = {w, r.world}
    BY <1>6 DEF DriveTorn, r
  <2>. HIDE DEF Good
  <2>. QED BY <1>1, <1>2, <1>3, <1>6, <2>4, <2>5 DEF CallOutcome, r, Good
<1>7. CASE a.do = "replace"
  <2>. DEFINE w1 == Without(w, a.id)
  <2>1. r = DriveCreated(w1, b, t, files, a.path, n) /\ a.id \in DOMAIN w
    BY <1>7 DEF DriveDone, DriveAnswers
  <2>2. w[a.id].kind = "file"
    BY <1>1, <1>7, <2>1 DEF TreeFit, GoodTree
  <2>3. DOMAIN w1 = DOMAIN w \ {a.id}
    BY <1>1, <2>1, <2>2, WithoutLeaf DEF TreeFit
  <2>4. TreeFit(w1, b, t, files)
    BY <1>1, TreeLeft
  <2>5. \A i \in DOMAIN w1 : w1[i] = w[i]
    BY DEF Without
  <2>. HIDE DEF w1, r
  <2>6. Replaced(a, w, b, files, a.id)
    BY <1>1, <1>7, <2>1 DEF Replaced
  <2>7. Good(r.world, r.book) /\ r.book[a.path].id \in DOMAIN r.world
    BY <1>4, <1>7, <2>1, <2>3, <2>4, <2>5, <2>6
  <2>8. DriveTorn(a, w, b, t, files, n) = {w, r.world, w1}
    BY <1>7 DEF DriveTorn, r, w1
  <2>9. ~NamesTwice(b) => CallStays(a, w, b, files, w1)
    BY <1>1, <1>7, <2>3 DEF CallStays, NamesTwice
  <2>. HIDE DEF Good
  <2>. QED BY <1>1, <1>2, <1>3, <1>7, <2>4, <2>7, <2>8, <2>9 DEF CallOutcome, r, Good
<1>8. CASE a.do = "delete"
  <2>. DEFINE w1 == Without(w, a.id)
  <2>1. r = [world |-> w1, book |-> b]
    BY <1>8 DEF DriveDone
  <2>2. Good(w1, b)
    BY <1>8, DeleteHolds
  <2>. HIDE DEF w1, r
  <2>3. r.world = w1 /\ r.book = b
    BY <2>1
  <2>4. DriveTorn(a, w, b, t, files, n) = {w, r.world}
    BY <1>8 DEF DriveTorn, r
  <2>. HIDE DEF Good
  <2>. QED BY <1>1, <1>2, <1>3, <1>8, <2>2, <2>3, <2>4 DEF CallOutcome, r, Good
<1>. QED BY <1>1, <1>5, <1>6, <1>7, <1>8

-----------------------------------------------------------------------------
(* Drive is a tree, whoever changes it, and its plans are in order.        *)

BookFits(w, b, files) == b # NoBook => GoodTree(w, b.drive, b.tag, files)

TInv ==
  /\ IsTree(drive) /\ BookFits(drive, book, archive.files)
  /\ run.cmd \in {"seed", "delta"} =>
       /\ BookFits(drive, run.mem, archive.files)
       /\ Amid(run, "drive") => PlanDue(run.todo, drive, run.mem.drive, archive.files)

\* A manifest that a step saves or holds without a change of Drive.
KnownBook(b) ==
  \/ b = book \/ b = NoBook
  \/ \E t \in Nat : b = NewBook(t) /\ \A i \in DOMAIN drive : drive[i].mark.tag # t
  \/ run.cmd \in {"seed", "delta"} /\ run.mem # NoBook /\ SameDrive(b, run.mem)

LEMMA KnownFits ==
  ASSUME TInv, NEW b, KnownBook(b)
  PROVE  BookFits(drive, b, archive.files)
<1>1. CASE \E t \in Nat : b = NewBook(t) /\ \A i \in DOMAIN drive : drive[i].mark.tag # t
  <2>1. PICK t \in Nat : b = NewBook(t) /\ \A i \in DOMAIN drive : drive[i].mark.tag # t
    BY <1>1
  <2>2. b.tag = t /\ b.drive = <<>>
    BY <2>1 DEF NewBook
  <2>3. DOMAIN b.drive = {}
    BY <2>2
  <2>. QED BY <2>1, <2>2, <2>3 DEF BookFits, GoodTree
<1>2. CASE run.cmd \in {"seed", "delta"} /\ run.mem # NoBook /\ SameDrive(b, run.mem)
  BY <1>2 DEF TInv, BookFits, SameDrive
<1>. QED BY <1>1, <1>2 DEF KnownBook, TInv, BookFits

\* What a step that leaves Drive alone leaves to look at.
Quiet ==
  /\ drive' = drive /\ archive' = archive /\ KnownBook(book')
  /\ run'.cmd \in {"seed", "delta"} => KnownBook(run'.mem)

LEMMA StartsQuiet ==
  ASSUME IInv, NEW svcs, StartSeed(svcs) \/ StartDelta(svcs) \/ StartReset(svcs)
  PROVE  Quiet
<1>1. UNCHANGED <<archive, drive, book>>
  BY DEF StartSeed, StartDelta, StartReset, Command, worlds
<1>2. ASSUME NEW cmd, NEW b, Start(cmd, svcs, b) PROVE run'.mem = b /\ run'.cmd = cmd
  BY <1>2 DEF Start
<1>3. CASE run' = Idle
  BY <1>1, <1>3 DEF Quiet, KnownBook, Idle
<1>4. CASE StartSeed(svcs) /\ run' # Idle
  <2>1. run'.mem = book \/ run'.mem = NewBook(NewTag)
    BY <1>2, <1>4 DEF StartSeed, Refuse
  <2>2. NewTag \in Nat /\ \A i \in DOMAIN drive : drive[i].mark.tag # NewTag
    BY NewTagIs
  <2>. QED BY <1>1, <2>1, <2>2 DEF Quiet, KnownBook
<1>5. CASE StartDelta(svcs) /\ run' # Idle
  <2>1. run'.mem = book
    BY <1>2, <1>5 DEF StartDelta, Refuse
  <2>. QED BY <1>1, <2>1 DEF Quiet, KnownBook
<1>6. CASE StartReset(svcs)
  <2>1. run'.cmd = "reset"
    BY <1>2, <1>6 DEF StartReset
  <2>. QED BY <1>1, <2>1 DEF Quiet, KnownBook
<1>. QED BY <1>3, <1>4, <1>5, <1>6

\* A command at work has a manifest of some Drive and the record of a run.
LEMMA AtWork ==
  ASSUME IInv, run.cmd \in {"seed", "delta"}
  PROVE  IsRunRecord(run) /\ run.mem # NoBook /\ IsBook(run.mem, archive) /\ KnownBook(run.mem)
<1>1. IsAt(run, book, archive, drive, mail)
  BY CommandIs
<1>. QED BY <1>1, AtKeeps DEF IsAt, KnownBook, SameDrive

LEMMA PartsQuiet ==
  ASSUME IInv,
         \/ OpenDriveSeed \/ OpenMailSeed \/ OpenCalendarSeed \/ OpenMailDelta
         \/ OpenCalendarDelta \/ StepMail \/ StepCalendar
  PROVE  Quiet
<1>1. UNCHANGED <<archive, drive>>
  BY DEF OpenDriveSeed, OpenMailSeed, OpenCalendarSeed, OpenMailDelta, OpenCalendarDelta,
         StepMail, StepCalendar, worlds
<1>2. run.cmd \in {"seed", "delta"}
  BY WorkingIs DEF OpenDriveSeed, OpenMailSeed, OpenCalendarSeed, OpenMailDelta,
         OpenCalendarDelta, StepMail, StepCalendar
<1>3. IsRunRecord(run) /\ run.mem # NoBook /\ IsBook(run.mem, archive) /\ KnownBook(run.mem)
  BY <1>2, AtWork
<1>4. ASSUME NEW b, NEW x,
             b = run.mem \/ b = [run.mem EXCEPT !.mail = x] \/ b = [run.mem EXCEPT !.cal = x]
      PROVE  KnownBook(b)
  <2>1. SameDrive(b, run.mem)
    BY <1>3, <1>4 DEF IsBook, SameDrive
  <2>. QED BY <1>2, <1>3, <2>1 DEF KnownBook
<1>5. ASSUME NEW todo, NEW b, Open(todo, b) PROVE run'.mem = b
  <2>1. PICK o, y : run' = RunOpened(run, o, todo, b, y)
    BY <1>5, Zenon DEF Open, RunOpened
  <2>. QED BY <1>3, <2>1, RunOpens
<1>6. ASSUME NEW a, NEW b, Did(a, b) PROVE run'.mem = b
  <2>1. PICK t : run' = RunAfter(run, t, b)
    BY <1>6, Zenon DEF Did, RunAfter
  <2>. QED BY <1>3, <2>1, RunDid
<1>. DEFINE Part(b) == \E x : \/ b = run.mem \/ b = [run.mem EXCEPT !.mail = x]
                              \/ b = [run.mem EXCEPT !.cal = x]
<1>7. \/ run' = Idle /\ book' = book
      \/ \E todo, b : Open(todo, b) /\ Part(b) /\ (book' = b \/ book' = book)
      \/ \E a, b : Did(a, b) /\ Part(b) /\ (book' = b \/ book' = book)
  <2>1. CASE OpenDriveSeed \/ OpenCalendarSeed
    <3>1. \/ run' = Idle /\ book' = book
          \/ \E todo : Open(todo, run.mem) /\ book' = book
      BY <2>1, Zenon DEF OpenDriveSeed, OpenCalendarSeed, End
    <3>. QED BY <3>1
  <2>2. CASE OpenMailSeed \/ OpenMailDelta
    <3>1. \/ run' = Idle /\ book' = book
          \/ \E todo, x : Open(todo, [run.mem EXCEPT !.mail = x]) /\ book' = [run.mem EXCEPT !.mail = x]
      BY <2>2, Zenon DEF OpenMailSeed, OpenMailDelta, End, Died, Keep, Save
    <3>. QED BY <3>1
  <2>3. CASE OpenCalendarDelta
    <3>1. \/ run' = Idle /\ book' = book
          \/ \E todo, x : Open(todo, [run.mem EXCEPT !.cal = x]) /\ book' = [run.mem EXCEPT !.cal = x]
      BY <2>3, Zenon DEF OpenCalendarDelta, End, Keep, Save
    <3>. QED BY <3>1
  <2>4. CASE StepMail
    <3>1. \/ run' = Idle /\ book' = book
          \/ \E a, x : Did(a, [run.mem EXCEPT !.mail = x])
                       /\ (book' = [run.mem EXCEPT !.mail = x] \/ book' = book)
      BY <2>4 DEF StepMail, MailCall, Did, End, Died, Keep, Save
    <3>. QED BY <3>1
  <2>5. CASE StepCalendar
    <3>1. \/ run' = Idle /\ book' = book
          \/ \E a, x : Did(a, [run.mem EXCEPT !.cal = x])
                       /\ (book' = [run.mem EXCEPT !.cal = x] \/ book' = book)
      BY <2>5 DEF StepCalendar, CalendarCall, Did, End, Died, Keep, Save
    <3>. QED BY <3>1
  <2>. QED BY <2>1, <2>2, <2>3, <2>4, <2>5
<1>8. \A b : Part(b) => KnownBook(b)
  BY <1>4
<1>. HIDE DEF Part
<1>9. CASE run' = Idle /\ book' = book
  BY <1>1, <1>9 DEF Quiet, KnownBook, Idle
<1>10. ASSUME NEW b, Part(b), run'.mem = b, book' = b \/ book' = book PROVE Quiet
  BY <1>1, <1>8, <1>10 DEF Quiet, KnownBook
<1>. QED BY <1>5, <1>6, <1>7, <1>9, <1>10

LEMMA OthersQuiet ==
  ASSUME IInv,
         NextService \/ FinishSeed \/ FinishDelta \/ FinishReset \/ TouchArchive \/ UNCHANGED vars
  PROVE  Quiet
<1>1. UNCHANGED <<archive, drive>>
  BY DEF NextService, FinishSeed, FinishDelta, FinishReset, TouchArchive, vars, worlds
<1>2. CASE NextService
  <2>1. book' = book /\ run # Idle
    BY <1>2 DEF NextService, Idle
  <2>2. IsRunRecord(run)
    BY <2>1 DEF IInv, IsState, IsRun, IsRunRecord
  <2>3. PICK l, o : run' = RunOnward(run, l, o)
    BY <1>2, Zenon DEF NextService, RunOnward
  <2>4. run'.cmd = run.cmd /\ run'.mem = run.mem
    BY <2>2, <2>3, RunMoves
  <2>. QED BY <1>1, <2>1, <2>4, AtWork DEF Quiet, KnownBook
<1>3. CASE FinishReset
  BY <1>1, <1>3 DEF FinishReset, Quiet, KnownBook, Save, End, Idle
<1>4. CASE FinishSeed \/ FinishDelta
  <2>1. run.cmd \in {"seed", "delta"} /\ run' = Idle
    BY <1>4 DEF FinishSeed, FinishDelta, End
  <2>2. run.mem # NoBook /\ IsBook(run.mem, archive) /\ KnownBook(run.mem)
    BY <2>1, AtWork
  <2>3. PICK x : book' = book \/ book' = run.mem \/ book' = [run.mem EXCEPT !.done = x]
    BY <1>4 DEF FinishSeed, FinishDelta, Save, Keep
  <2>4. book' = [run.mem EXCEPT !.done = x] => SameDrive(book', run.mem)
    BY <2>2 DEF IsBook, SameDrive
  <2>. QED BY <1>1, <2>1, <2>2, <2>3, <2>4 DEF Quiet, KnownBook, Idle
<1>5. CASE TouchArchive \/ UNCHANGED vars
  <2>1. book' = book /\ run' = run
    BY <1>5 DEF TouchArchive, vars
  <2>. QED BY <1>1, <2>1, AtWork DEF Quiet, KnownBook
<1>. QED BY <1>2, <1>3, <1>4, <1>5

\* Drive, the manifest and the plan of a command at Drive.
LEMMA AtDrive ==
  ASSUME IInv, TInv, Here("drive"), run.cmd \in {"seed", "delta"}
  PROVE  /\ IsDrive(drive) /\ ProperNames(archive.files) /\ IsRunRecord(run)
         /\ run.mem # NoBook /\ IsBook(run.mem, archive)
         /\ DOMAIN run.mem.drive \subseteq Paths(archive.files)
         /\ TreeFit(drive, run.mem.drive, run.mem.tag, archive.files)
         /\ NewDriveId # Root /\ NewDriveId \notin DOMAIN drive
         /\ \A q \in DOMAIN run.mem.drive : run.mem.drive[q].id # NewDriveId
         /\ book = run.mem \/ book = NoBook
<1>1. /\ IsWorld(archive, drive, mail, cal, book) /\ IsArchive(archive)
      /\ IsAt(run, book, archive, drive, mail)
      /\ NewDriveId \in Nat \ {Root} /\ NewInDrive(run.mem, NewDriveId)
      /\ NewDriveId \notin DOMAIN drive
  BY CommandIs
<1>2. /\ run.mem # NoBook /\ IsBook(run.mem, archive) /\ IsRunRecord(run)
      /\ DOMAIN run.mem.drive \subseteq Paths(archive.files)
  BY <1>1, AtKeeps, AtWork
<1>3. ProperNames(archive.files)
  BY <1>1 DEF IsArchive, ProperNames
<1>4. TreeFit(drive, run.mem.drive, run.mem.tag, archive.files)
  BY <1>2 DEF TInv, BookFits, TreeFit
<1>. QED BY <1>1, <1>2, <1>3, <1>4 DEF IsWorld, IsAt, NewInDrive

\* A call of the reconcile, and one of a seed.
LEMMA DriveCalls ==
  ASSUME IInv, TInv, Working("drive"), NEW a \in run.todo, Ready(a), a.do # "seed",
         DriveAnswers(a, drive)
  PROVE  CallOutcome(run.todo, a, drive, run.mem.drive, run.mem.tag, archive.files, NewDriveId)
<1>1. /\ run.cmd \in {"seed", "delta"} /\ Here("drive") /\ Amid(run, "drive")
      /\ DriveTodo(run.todo, drive, run.mem.drive, archive.files)
  BY WorkingIs DEF Working, Here, Amid
<1>2. First(run.todo, a)
  BY DEF Ready, First
<1>3. PlanDue(run.todo, drive, run.mem.drive, archive.files)
  BY <1>1 DEF TInv
<1>. DEFINE w == drive
            b == run.mem.drive
            t == run.mem.tag
            files == archive.files
            todo == run.todo
            n == NewDriveId
<1>4. /\ IsDrive(w) /\ ProperNames(files) /\ DOMAIN b \subseteq Paths(files)
      /\ TreeFit(w, b, t, files) /\ n # Root /\ n \notin DOMAIN w
      /\ \A q \in DOMAIN b : b[q].id # n
  BY <1>1, AtDrive
<1>5. Poised(todo, a, w, b, t, files)
  BY <1>1, <1>2, <1>3, <1>4 DEF Poised
<1>6. DriveAnswers(a, w)
  OBVIOUS
<1>. HIDE DEF w, b, t, files, todo, n
<1>7. CallOutcome(todo, a, w, b, t, files, n)
  BY ONLY <1>4, <1>5, <1>6, DriveKeepsOrder
<1>. QED BY <1>7 DEF w, b, t, files, todo, n

LEMMA SeedCalls ==
  ASSUME IInv, TInv, Working("drive"), NEW a \in run.todo, a.do = "seed",
         DriveSeedNext(run.mem.drive, a.path),
         DriveSeedFits(drive, run.mem.drive, run.mem.tag, archive.files, a.path),
         NEW r, r = DriveSeeded(drive, run.mem.drive, run.mem.tag, archive.files, a.path, NewDriveId)
  PROVE  /\ TreeFit(r.world, run.mem.drive, run.mem.tag, archive.files)
         /\ TreeFit(r.world, r.book, run.mem.tag, archive.files)
         /\ PlanDue(run.todo \ {a}, r.world, r.book, archive.files)
<1>1. /\ run.cmd \in {"seed", "delta"} /\ Here("drive")
      /\ DriveTodo(run.todo, drive, run.mem.drive, archive.files)
  BY WorkingIs DEF Working, Here
<1>2. a.path \in Paths(archive.files) /\ \A c \in run.todo : c.do = "seed"
  BY <1>1 DEF DriveTodo
<1>3. PlanDue(run.todo \ {a}, r.world, r.book, archive.files)
  BY <1>2 DEF PlanDue, Ranked, Founded, Building
<1>. QED BY <1>1, <1>2, <1>3, AtDrive, TreeSeeds DEF IsDrive

\* What a step of Drive leaves.
Stepped(a) ==
  \/ /\ run' = Idle /\ book' = book
     /\ TreeFit(drive', run.mem.drive, run.mem.tag, archive.files)
  \/ \E c : /\ Did(a, [run.mem EXCEPT !.drive = c])
            /\ TreeFit(drive', c, run.mem.tag, archive.files)
            /\ PlanDue(run.todo \ {a}, drive', c, archive.files)

LEMMA DriveStepped ==
  ASSUME IInv, TInv, Working("drive"), NEW a \in run.todo, Ready(a), DriveCall(a)
  PROVE  Stepped(a)
<1>. DEFINE b == run.mem.drive
            t == run.mem.tag
            files == archive.files
            r == IF a.do = "seed" THEN DriveSeeded(drive, b, t, files, a.path, NewDriveId)
                 ELSE DriveDone(a, drive, b, t, files, NewDriveId)
            answers == IF a.do = "seed" THEN DriveSeedFits(drive, b, t, files, a.path)
                       ELSE DriveAnswers(a, drive)
            torn == IF a.do = "seed" THEN {drive, r.world}
                    ELSE DriveTorn(a, drive, b, t, files, NewDriveId)
<1>1. run.cmd \in {"seed", "delta"} /\ Here("drive")
  BY WorkingIs DEF Working
<1>2. TreeFit(drive, b, t, files)
  BY <1>1, AtDrive
<1>3. \/ ~answers /\ run' = Idle /\ book' = book /\ drive' = drive
      \/ answers /\ drive' = r.world /\ Did(a, [run.mem EXCEPT !.drive = r.book])
      \/ answers /\ run' = Idle /\ book' = book /\ drive' \in torn
  BY DEF DriveCall, End, Keep, Died
<1>4. ASSUME answers
      PROVE  /\ TreeFit(r.world, r.book, t, files)
             /\ PlanDue(run.todo \ {a}, r.world, r.book, files)
             /\ \A v \in torn : TreeFit(v, b, t, files)
  <2>1. CASE a.do = "seed"
    <3>1. DriveSeedNext(b, a.path)
      BY <2>1 DEF DriveCall
    <3>. QED BY <1>2, <1>4, <2>1, <3>1, SeedCalls
  <2>2. CASE a.do # "seed"
    <3>1. CallOutcome(run.todo, a, drive, b, t, files, NewDriveId)
      BY <1>4, <2>2, DriveCalls
    <3>. QED BY <2>2, <3>1, Zenon DEF CallOutcome, Orderly
  <2>. QED BY <2>1, <2>2
<1>. HIDE DEF r, answers, torn
<1>. QED BY <1>2, <1>3, <1>4 DEF Stepped

\* The manifest on disk is the one in memory, or none yet.
LEMMA DiskFits ==
  ASSUME IInv, run.cmd \in {"seed", "delta"}, NEW w, BookFits(w, run.mem, archive.files)
  PROVE  BookFits(w, book, archive.files)
<1>1. IsAt(run, book, archive, drive, mail)
  BY CommandIs
<1>. QED BY <1>1 DEF IsAt, BookFits

LEMMA StepDriveFits ==
  ASSUME IInv, TInv, StepDrive, IInv'
  PROVE  TInv'
<1>1. PICK a \in run.todo : Ready(a) /\ DriveCall(a)
  BY DEF StepDrive
<1>2. Working("drive") /\ archive' = archive
  BY DEF StepDrive
<1>3. Stepped(a)
  BY <1>1, <1>2, DriveStepped
<1>4. run.cmd \in {"seed", "delta"} /\ Here("drive")
  BY <1>2, WorkingIs DEF Working
<1>5. IsBook(run.mem, archive) /\ IsRunRecord(run)
  BY <1>4, AtDrive
<1>6. CASE /\ run' = Idle /\ book' = book
           /\ TreeFit(drive', run.mem.drive, run.mem.tag, archive.files)
  <2>1. BookFits(drive', book, archive.files)
    BY <1>4, <1>6, DiskFits DEF BookFits, TreeFit
  <2>. QED BY <1>2, <1>6, <2>1 DEF TInv, TreeFit, Idle
<1>7. ASSUME NEW c, Did(a, [run.mem EXCEPT !.drive = c]),
             TreeFit(drive', c, run.mem.tag, archive.files),
             PlanDue(run.todo \ {a}, drive', c, archive.files)
      PROVE  TInv'
  <2>. DEFINE b == [run.mem EXCEPT !.drive = c]
              todo == run.todo \ {a}
  <2>1. b.drive = c /\ b.tag = run.mem.tag
    BY <1>5 DEF IsBook
  <2>. HIDE DEF b
  <2>2. run' = RunAfter(run, todo, b)
    BY <1>7 DEF Did, RunAfter, b
  <2>. HIDE DEF todo
  <2>3. run'.mem = b /\ run'.todo = todo /\ run'.cmd = run.cmd
    BY <1>5, <2>2, RunDid
  <2>4. BookFits(drive', run'.mem, archive'.files)
    BY <1>2, <1>7, <2>1, <2>3 DEF BookFits, TreeFit
  <2>5. book' = run'.mem \/ book' = NoBook
    <3>1. run' # Idle
      BY <1>4, <2>3 DEF Idle
    <3>. QED BY <1>4, <2>3, <3>1 DEF IInv, IsState, IsRun
  <2>6. PlanDue(run'.todo, drive', run'.mem.drive, archive'.files)
    BY <1>2, <1>7, <2>1, <2>3 DEF todo
  <2>7. BookFits(drive', book', archive'.files)
    BY <2>4, <2>5 DEF BookFits
  <2>. QED BY <1>7, <2>4, <2>6, <2>7 DEF TInv, TreeFit
<1>. QED BY <1>3, <1>6, <1>7, Zenon DEF Stepped

-----------------------------------------------------------------------------
(* Drive stays a tree, and its plans in order.                             *)

LEMMA OpensWith ==
  ASSUME IsRunRecord(run), NEW todo, NEW b, Open(todo, b)
  PROVE  /\ run'.cmd = run.cmd /\ run'.todo = todo /\ run'.mem = b
         /\ ~run'.twice => ~NamesTwice(b.drive)
<1>1. PICK o, x : run' = RunOpened(run, o, todo, b, x) /\ (~x => ~NamesTwice(b.drive))
  BY Zenon DEF Open, RunOpened
<1>. QED BY <1>1, RunOpens

\* A delta opens Drive with a plan in order, and with the rest in its place.
LEMMA DeltaOpens ==
  ASSUME IInv, TInv, OpenDriveDelta, run' # Idle
  PROVE  /\ book' = run'.mem /\ TreeFit(drive, run'.mem.drive, run'.mem.tag, archive.files)
         /\ PlanDue(run'.todo, drive, run'.mem.drive, archive.files)
         /\ Whole(run'.todo, drive, run'.mem.drive, archive.files)
         /\ \A a \in run'.todo : Building(a) \/ a.do = "delete"
         /\ ~run'.twice => ~NamesTwice(run'.mem.drive)
<1>. DEFINE t == run.mem.tag
            files == archive.files
            b2 == DriveAdopted(drive, run.mem.drive, t, files)
            plan == DrivePlan(drive, run.mem.drive, t, files)
            b == [run.mem EXCEPT !.drive = b2]
<1>1. run.cmd = "delta" /\ Here("drive")
  BY DEF OpenDriveDelta, Opening
<1>2. /\ IsDrive(drive) /\ ProperNames(files) /\ IsRunRecord(run) /\ IsBook(run.mem, archive)
      /\ DOMAIN run.mem.drive \subseteq Paths(files)
      /\ TreeFit(drive, run.mem.drive, t, files)
  BY <1>1, AtDrive
<1>3. plan.ok /\ Open(plan.todo, b) /\ book' = b
  BY DEF OpenDriveDelta, End, Save
<1>4. \A p \in Paths(files) : Unambiguous(drive, run.mem.drive, t, files, p)
  BY <1>3 DEF DrivePlan
<1>5. b.drive = b2 /\ b.tag = t
  BY <1>2 DEF IsBook
<1>6. /\ TreeFit(drive, b2, t, files) /\ PlanDue(plan.todo, drive, b2, files)
      /\ Whole(plan.todo, drive, b2, files)
  BY <1>2, <1>4, TreeAdopts
<1>7. \A a \in plan.todo : Building(a) \/ a.do = "delete"
  BY PlanCalls
<1>. HIDE DEF b, plan, b2
<1>8. run'.todo = plan.todo /\ run'.mem = b /\ (~run'.twice => ~NamesTwice(b.drive))
  BY <1>2, <1>3, OpensWith
<1>. QED BY <1>3, <1>5, <1>6, <1>7, <1>8 DEF t

LEMMA OpenDriveDeltaFits ==
  ASSUME IInv, TInv, OpenDriveDelta
  PROVE  TInv'
<1>1. UNCHANGED <<archive, drive>>
  BY DEF OpenDriveDelta, worlds
<1>2. CASE run' = Idle
  <2>1. run.cmd = "delta" /\ IsRunRecord(run)
    BY AtDrive DEF OpenDriveDelta, Opening
  <2>2. ASSUME NEW todo, NEW b PROVE ~Open(todo, b)
    BY <1>2, <2>1, OpensWith DEF Idle
  <2>3. book' = book
    BY <2>2 DEF OpenDriveDelta, Keep
  <2>. QED BY <1>1, <1>2, <2>3 DEF TInv, Idle
<1>3. CASE run' # Idle
  <2>1. BookFits(drive, run'.mem, archive.files)
    BY <1>3, DeltaOpens DEF BookFits, TreeFit
  <2>. QED BY <1>1, <1>3, <2>1, DeltaOpens DEF TInv, TreeFit
<1>. QED BY <1>2, <1>3

\* A step that leaves Drive alone.
LEMMA QuietFits ==
  ASSUME IInv, TInv, IInv', Quiet, [Next]_vars, ~StepDrive, ~OpenDriveDelta
  PROVE  TInv'
<1>1. drive' = drive /\ archive' = archive /\ BookFits(drive, book', archive.files)
  BY KnownFits DEF Quiet
<1>. SUFFICES ASSUME run'.cmd \in {"seed", "delta"}
              PROVE  /\ BookFits(drive, run'.mem, archive.files)
                     /\ Amid(run', "drive") =>
                          PlanDue(run'.todo, drive, run'.mem.drive, archive.files)
  BY <1>1 DEF TInv
<1>2. BookFits(drive, run'.mem, archive.files)
  BY KnownFits DEF Quiet
<1>3. ASSUME Amid(run', "drive")
      PROVE  PlanDue(run'.todo, drive, run'.mem.drive, archive.files)
  <2>1. run' # Idle
    BY DEF Idle
  <2>2. \/ UNCHANGED <<drive, run>>
        \/ OpenDriveSeed
    BY <1>3, <2>1, CommandAmid
  <2>3. CASE UNCHANGED <<drive, run>>
    BY <1>1, <1>3, <2>3 DEF TInv
  <2>4. CASE OpenDriveSeed
    <3>. DEFINE todo == DriveSeedTodo(run.mem.drive, archive.files)
    <3>1. Open(todo, run.mem) /\ IsRunRecord(run)
      BY <2>1, <2>4, AtDrive DEF OpenDriveSeed, Opening, End
    <3>2. run'.todo = todo
      BY <3>1, OpensWith
    <3>3. \A a \in todo : a.do = "seed"
      BY DEF DriveSeedTodo
    <3>. QED BY <3>2, <3>3 DEF PlanDue, Ranked, Founded, Building
  <2>. QED BY <2>2, <2>3, <2>4
<1>. QED BY <1>2, <1>3

\* What the user and a wipe do to a tree leaves a tree.
LEMMA EditTends ==
  ASSUME NEW w, IsDrive(w), IsTree(w), NEW files, NEW n, n \notin DOMAIN w,
         NEW v \in DriveEdits(w, files, n), NEW b, NEW t, t # 0
  PROVE  Tended(w, v, b, t, n)
<1>1. IsFiniteSet(DOMAIN w)
  BY DEF IsDrive
<1>2. CASE Gone(w, v)
  <2>1. PICK i \in DOMAIN w : v = Without(w, i)
    BY <1>2 DEF Gone
  <2>2. IsTree(v)
    BY <1>1, <2>1, TreeWithout
  <2>3. DOMAIN v \subseteq DOMAIN w /\ \A k \in DOMAIN v : v[k] = w[k]
    BY <1>1, <2>1, WithoutIs
  <2>. QED BY <2>2, <2>3 DEF Tended
<1>3. CASE Altered(w, v)
  <2>1. PICK i \in DOMAIN w : \E o : Changed(w[i], o) /\ HasPlace(w, o) /\ v = [w EXCEPT ![i] = o]
    BY <1>3 DEF Altered
  <2>2. PICK o : Changed(w[i], o) /\ HasPlace(w, o) /\ v = [w EXCEPT ![i] = o]
    BY <2>1
  <2>3. o.kind = w[i].kind /\ o.mark = w[i].mark
    BY <2>2 DEF Changed
  <2>4. IsTree(v)
    BY <2>2, <2>3, TreeExcept
  <2>5. DOMAIN v = DOMAIN w /\ v[i] = o /\ \A k \in DOMAIN w : k # i => v[k] = w[k]
    BY <2>2
  <2>6. \A k \in DOMAIN v : k \in DOMAIN w /\ v[k].kind = w[k].kind /\ v[k].mark = w[k].mark
    BY <2>3, <2>5
  <2>. QED BY <2>4, <2>6 DEF Tended
<1>4. CASE Added(w, n, v)
  <2>1. PICK o : /\ HasPlace(w, o) /\ v = Put(w, n, o)
                 /\ o.mark = NoMark \/ \E j \in DOMAIN w : o.mark = w[j].mark
    BY <1>4 DEF Added
  <2>2. IsTree(v)
    BY <2>1, TreePut
  <2>3. /\ DOMAIN v = DOMAIN w \cup {n} /\ v[n] = o
        /\ \A k \in DOMAIN w : k # n => v[k] = w[k]
    BY <2>1 DEF Put
  <2>4. NoMark.tag = 0
    BY DEF NoMark
  <2>. QED BY <2>1, <2>2, <2>3, <2>4 DEF Tended
<1>. QED BY <1>2, <1>3, <1>4, DriveEditIs

LEMMA WipeTends ==
  ASSUME NEW w, IsDrive(w), IsTree(w), NEW v \in DriveWipes(w), NEW b, NEW t, NEW n
  PROVE  Tended(w, v, b, t, n)
<1>1. IsTree(v)
  BY TreeWiped DEF IsDrive
<1>2. DOMAIN v \subseteq DOMAIN w /\ \A k \in DOMAIN v : v[k] = w[k]
  BY DEF DriveWipes
<1>. QED BY <1>1, <1>2 DEF Tended

LEMMA TendedFits ==
  ASSUME TInv, NEW n, NEW v, IsTree(v), NEW b,
         b # NoBook => Tended(drive, v, b.drive, b.tag, n) /\ \A p \in DOMAIN b.drive : b.drive[p].id # n,
         BookFits(drive, b, archive.files)
  PROVE  BookFits(v, b, archive.files)
BY TreeStays DEF BookFits

LEMMA WipeFits ==
  ASSUME IInv, TInv, Wipe
  PROVE  TInv'
<1>1. run.cmd = "reset" /\ archive' = archive /\ book' = book
  BY DEF Wipe
<1>2. IsRunRecord(run)
  BY <1>1 DEF IInv, IsState, IsRun, IsRunRecord, Idle
<1>3. run'.cmd \notin {"seed", "delta"}
  <2>1. PICK l : run' = Idle \/ run' = RunWiped(run, l)
    BY DEF Wipe, RunWiped, Died, End
  <2>2. run' = RunWiped(run, l) => run'.cmd = "reset"
    BY <1>1, <1>2, RunWipes
  <2>. QED BY <2>1, <2>2 DEF Idle
<1>4. drive' = drive \/ drive' \in DriveWipes(drive)
  BY DEF Wipe
<1>5. IsDrive(drive) /\ IsTree(drive) /\ BookFits(drive, book, archive.files)
  BY DEF IInv, IsState, TInv
<1>6. CASE drive' \in DriveWipes(drive)
  <2>1. \A b, t : Tended(drive, drive', b, t, Root)
    BY <1>5, <1>6, WipeTends
  <2>2. IsTree(drive')
    BY <2>1 DEF Tended
  <2>3. book # NoBook => \A p \in DOMAIN book.drive : book.drive[p].id # Root
    BY <1>5 DEF BookFits, GoodTree
  <2>4. BookFits(drive', book, archive.files)
    BY <1>5, <2>1, <2>2, <2>3, TendedFits
  <2>. QED BY <1>1, <1>3, <2>2, <2>4 DEF TInv
<1>7. CASE drive' = drive
  BY <1>1, <1>3, <1>5, <1>7 DEF TInv
<1>. QED BY <1>4, <1>6, <1>7

LEMMA EditFits ==
  ASSUME IInv, TInv, Edit
  PROVE  TInv'
<1>1. run = Idle /\ run' = run /\ archive' = archive /\ book' = book
  BY DEF Edit
<1>2. IsDrive(drive) /\ IsTree(drive) /\ BookFits(drive, book, archive.files)
  BY DEF IInv, IsState, TInv
<1>3. NewDriveId \notin DOMAIN drive /\ NewInDrive(book, NewDriveId)
  BY <1>1, NewIds DEF Idle
<1>4. book # NoBook => book.tag # 0
  BY DEF IInv, IsState, GoodBook, IsBook
<1>5. CASE drive' \in DriveEdits(drive, archive.files, NewDriveId)
  <2>1. \A b, t : t # 0 => Tended(drive, drive', b, t, NewDriveId)
    BY <1>2, <1>3, <1>5, EditTends
  <2>2. IsTree(drive')
    <3>1. \E t : t # 0
      OBVIOUS
    <3>. QED BY <2>1, <3>1 DEF Tended
  <2>3. BookFits(drive', book, archive.files)
    BY <1>2, <1>3, <1>4, <2>1, <2>2, TendedFits DEF NewInDrive
  <2>. QED BY <1>1, <2>2, <2>3 DEF TInv, Idle
<1>6. CASE drive' = drive
  BY <1>1, <1>2, <1>6 DEF TInv, Idle
<1>7. drive' = drive \/ drive' \in DriveEdits(drive, archive.files, NewDriveId)
  BY DEF Edit
<1>. QED BY <1>5, <1>6, <1>7

LEMMA TreeInvariantNext ==
  ASSUME IInv, TInv, IInv', [Next]_vars
  PROVE  TInv'
<1>1. CASE Wipe
  BY <1>1, WipeFits
<1>2. CASE Edit
  BY <1>2, EditFits
<1>3. CASE StepDrive
  BY <1>3, StepDriveFits
<1>4. CASE OpenDriveDelta
  BY <1>4, OpenDriveDeltaFits
<1>5. CASE \/ OpenDriveSeed \/ OpenMailSeed \/ OpenCalendarSeed \/ OpenMailDelta
           \/ OpenCalendarDelta \/ StepMail \/ StepCalendar
  <2>1. Quiet
    BY <1>5, PartsQuiet
  <2>. QED BY <1>3, <1>4, <2>1, QuietFits
<1>6. CASE NextService \/ FinishSeed \/ FinishDelta \/ FinishReset \/ TouchArchive \/ UNCHANGED vars
  <2>1. Quiet
    BY <1>6, OthersQuiet
  <2>. QED BY <1>3, <1>4, <2>1, QuietFits
<1>7. CASE \E svcs \in (SUBSET archive.serves) \ {{}} :
             StartSeed(svcs) \/ StartDelta(svcs) \/ StartReset(svcs)
  <2>1. Quiet
    BY <1>7, StartsQuiet
  <2>. QED BY <1>3, <1>4, <2>1, QuietFits
<1>. QED BY <1>1, <1>2, <1>3, <1>4, <1>5, <1>6, <1>7 DEF Next

LEMMA TreeInvariantInit ==
  ASSUME Init
  PROVE  TInv
<1>1. drive = <<>> /\ book = NoBook /\ run = Idle
  BY DEF Init
<1>2. DOMAIN drive = {}
  BY <1>1
<1>. QED BY <1>1, <1>2 DEF TInv, IsTree, BookFits, Idle

-----------------------------------------------------------------------------
(* A delta keeps the objects of Drive that the manifest names.             *)

\* No call is a seed's; and unless the plan was made by a manifest that names an object
\* twice, what it has no call for is in place.
DriveSaved ==
  run.cmd = "delta" /\ Amid(run, "drive") =>
    /\ \A a \in run.todo : Building(a) \/ a.do = "delete"
    /\ ~run.twice => ~NamesTwice(run.mem.drive) /\ Whole(run.todo, drive, run.mem.drive, archive.files)

\* A call of a delta at Drive, with what it does.
DriveGoes(a) ==
  LET r == DriveDone(a, drive, run.mem.drive, run.mem.tag, archive.files, NewDriveId)
  IN /\ a \in run.todo
     /\ CallOutcome(run.todo, a, drive, run.mem.drive, run.mem.tag, archive.files, NewDriveId)
     /\ \/ /\ run' = Idle
           /\ drive' \in DriveTorn(a, drive, run.mem.drive, run.mem.tag, archive.files, NewDriveId)
        \/ drive' = r.world /\ Did(a, [run.mem EXCEPT !.drive = r.book])

LEMMA DeltaGoes ==
  ASSUME IInv, TInv, DriveSaved, run.cmd = "delta", StepDrive
  PROVE  (run' = Idle /\ drive' = drive) \/ \E a : DriveGoes(a)
<1>1. PICK a \in run.todo : Ready(a) /\ DriveCall(a)
  BY DEF StepDrive
<1>2. Working("drive")
  BY DEF StepDrive
<1>3. a.do # "seed"
  BY <1>2 DEF DriveSaved, Working, Here, Amid, Building
<1>4. CASE ~DriveAnswers(a, drive)
  BY <1>1, <1>3, <1>4 DEF DriveCall, End
<1>5. CASE DriveAnswers(a, drive)
  <2>1. CallOutcome(run.todo, a, drive, run.mem.drive, run.mem.tag, archive.files, NewDriveId)
    BY <1>1, <1>2, <1>3, <1>5, DriveCalls
  <2>. DEFINE r == DriveDone(a, drive, run.mem.drive, run.mem.tag, archive.files, NewDriveId)
              torn == DriveTorn(a, drive, run.mem.drive, run.mem.tag, archive.files, NewDriveId)
  <2>2. \/ run' = Idle /\ drive' \in torn
        \/ drive' = r.world /\ Did(a, [run.mem EXCEPT !.drive = r.book])
    BY <1>1, <1>3, <1>5 DEF DriveCall, Died, End
  <2>. HIDE DEF r, torn
  <2>3. DriveGoes(a)
    BY <2>1, <2>2 DEF DriveGoes, r, torn
  <2>. QED BY <2>3
<1>. QED BY <1>4, <1>5

LEMMA DriveStaysSaved ==
  ASSUME IInv, TInv, DriveSaved, [Next]_vars
  PROVE  DriveSaved'
<1>. SUFFICES ASSUME run'.cmd = "delta", Amid(run', "drive")
              PROVE  /\ \A a \in run'.todo : Building(a) \/ a.do = "delete"
                     /\ ~run'.twice => /\ ~NamesTwice(run'.mem.drive)
                                       /\ Whole(run'.todo, drive', run'.mem.drive, archive'.files)
  BY DEF DriveSaved
<1>1. /\ run.cmd = "delta" /\ archive' = archive /\ run' # Idle
      /\ UNCHANGED <<drive, mail, cal, book, run>> \/ OpenDriveDelta \/ StepDrive
  BY DeltaAmid DEF Idle
<1>2. CASE UNCHANGED <<drive, mail, cal, book, run>>
  BY <1>1, <1>2 DEF DriveSaved
<1>3. CASE OpenDriveDelta
  <2>1. drive' = drive
    BY <1>3 DEF OpenDriveDelta, worlds
  <2>. QED BY <1>1, <1>3, <2>1, DeltaOpens
<1>4. CASE StepDrive
  <2>. DEFINE b == run.mem.drive
              t == run.mem.tag
              files == archive.files
  <2>1. Amid(run, "drive") /\ Here("drive")
    BY <1>4 DEF StepDrive, Working, Here, Amid
  <2>2. IsRunRecord(run) /\ IsBook(run.mem, archive)
    BY <1>1, <2>1, AtDrive
  <2>3. PICK a : DriveGoes(a)
    BY <1>1, <1>4, DeltaGoes
  <2>. DEFINE r == DriveDone(a, drive, b, t, files, NewDriveId)
              c == r.book
              m == [run.mem EXCEPT !.drive = c]
              todo == run.todo \ {a}
  <2>4. drive' = r.world /\ Did(a, m)
    BY <1>1, <2>3 DEF DriveGoes
  <2>5. Holding(run.todo, a, drive, b, files, drive', c)
    BY <2>3, <2>4 DEF DriveGoes, CallOutcome
  <2>. HIDE DEF c
  <2>6. m.drive = c
    BY <2>2 DEF IsBook
  <2>. HIDE DEF m
  <2>7. run' = RunAfter(run, todo, m)
    BY <2>4 DEF Did, RunAfter
  <2>. HIDE DEF todo
  <2>8. run'.todo = todo /\ run'.mem = m /\ run'.twice = run.twice
    BY <2>2, <2>7, RunDid
  <2>9. \A x \in todo : Building(x) \/ x.do = "delete"
    BY <1>1, <2>1 DEF DriveSaved, todo
  <2>10. ~run.twice => ~NamesTwice(c) /\ Whole(todo, drive', c, files)
    BY <1>1, <2>1, <2>5 DEF DriveSaved, Holding, todo
  <2>. QED BY <1>1, <2>6, <2>8, <2>9, <2>10
<1>. QED BY <1>1, <1>2, <1>3, <1>4

ObjectsStay ==
  run.twice \/ \A p \in DOMAIN book.drive \cap Paths(archive.files) :
    book.drive[p].id \in DOMAIN drive \ DOMAIN drive' =>
      p \in archive.files /\ (run' = Idle \/ book'.drive[p].id \in DOMAIN drive')

LEMMA DriveSaves ==
  ASSUME IInv, TInv, DeltaBook, DriveSaved, run.cmd = "delta", [Next]_vars
  PROVE  ObjectsStay
<1>1. CASE drive' = drive
  BY <1>1 DEF ObjectsStay
<1>2. CASE StepDrive /\ drive' # drive /\ ~run.twice
  <2>1. Amid(run, "drive") /\ Here("drive")
    BY <1>2 DEF StepDrive, Working, Here, Amid
  <2>2. book = run.mem
    BY DeltaHasBook DEF DeltaBook
  <2>3. IsBook(book, archive)
    BY <2>1, <2>2, AtDrive
  <2>4. PICK a : DriveGoes(a)
    BY <1>2, DeltaGoes
  <2>. DEFINE b == book.drive
              files == archive.files
              r == DriveDone(a, drive, b, book.tag, files, NewDriveId)
              m == [book EXCEPT !.drive = r.book]
  <2>5. ~NamesTwice(b) /\ Whole(run.todo, drive, b, files)
    BY <1>2, <2>1, <2>2 DEF DriveSaved
  <2>6. \/ run' = Idle /\ CallStays(a, drive, b, files, drive')
        \/ /\ drive' = r.world /\ Did(a, m)
           /\ CallStays(a, drive, b, files, drive')
           /\ a.do = "replace" => r.book[a.path].id \in DOMAIN drive'
    BY <2>2, <2>4, <2>5 DEF DriveGoes, CallOutcome, Holding
  <2>7. CASE run' = Idle /\ CallStays(a, drive, b, files, drive')
    BY <2>7 DEF CallStays, ObjectsStay
  <2>8. CASE /\ drive' = r.world /\ Did(a, m)
             /\ CallStays(a, drive, b, files, drive')
             /\ a.do = "replace" => r.book[a.path].id \in DOMAIN drive'
    <3>. DEFINE c == r.book
    <3>1. a.do = "replace" => c[a.path].id \in DOMAIN drive'
      BY <2>8
    <3>2. a.do = "replace" => book' = m
      BY <2>8 DEF Did, Checkpointed, Save
    <3>. HIDE DEF c
    <3>3. m.drive = c
      BY <2>3 DEF IsBook, c
    <3>. HIDE DEF m
    <3>4. CallStays(a, drive, b, files, drive')
      BY <2>8
    <3>. QED BY <3>1, <3>2, <3>3, <3>4 DEF CallStays, ObjectsStay
  <2>. QED BY <2>6, <2>7, <2>8
<1>. QED BY <1>1, <1>2, DeltaTouches DEF ObjectsStay

LEMMA ObjectsSaved ==
  ASSUME IInv, TInv, DeltaBook, CalendarSaved, MailSaved, DriveSaved, [Next]_vars,
         run.cmd = "delta"
  PROVE  ObjectsStay /\ MessagesStay /\ EventsStay
BY DriveSaves, MailSaves, CalendarSaves

SavedInv == TInv /\ DeltaBook /\ CalendarSaved /\ MailSaved /\ DriveSaved

LEMMA SavedInvariant == Spec => []SavedInv
<1>1. Init => SavedInv
  <2>. SUFFICES ASSUME Init PROVE SavedInv
    OBVIOUS
  <2>1. run.cmd # "delta"
    BY DEF Init, Idle
  <2>. QED BY <2>1, TreeInvariantInit
         DEF SavedInv, DeltaBook, CalendarSaved, MailSaved, DriveSaved
<1>2. IInv /\ IInv' /\ SavedInv /\ [Next]_vars => SavedInv'
  BY TreeInvariantNext, DeltaBookKept, CalendarStaysSaved, MailStaysSaved, DriveStaysSaved
     DEF SavedInv
<1>. QED BY <1>1, <1>2, EngineInvariant, PTL DEF Spec

\* A delta (engine.py with drive.py, gmail.py and calendar_seed.py) never takes away an
\* object that the manifest names but to put its replacement there in the same call, for
\* every archive, every order of the calls that the ranks allow, wherever the user had
\* moved things and wherever earlier commands died; in Drive, unless the plan was made by
\* a manifest that names an object twice.
THEOREM SavedObjectsKept == Spec => SavedObjectsStay
<1>1. IInv /\ SavedInv /\ [Next]_vars =>
        (run.cmd = "delta" => ObjectsStay /\ MessagesStay /\ EventsStay)
  BY ObjectsSaved DEF SavedInv
<1>. DEFINE Stay == run.cmd = "delta" => ObjectsStay /\ MessagesStay /\ EventsStay
<1>2. SavedObjectsStay <=> [][Stay]_vars
  BY PTL DEF SavedObjectsStay, ObjectsStay, MessagesStay, EventsStay
<1>. QED BY <1>1, <1>2, EngineInvariant, SavedInvariant, PTL DEF Spec
=============================================================================

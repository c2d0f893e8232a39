-------------------------- MODULE EngineDeltaProofs --------------------------
(***************************************************************************)
(* Where a delta leads, for any archives, any number of commands, edits    *)
(* and deaths: a delta that ends well leaves the baseline in each of its   *)
(* services, and the next one finds nothing to do.                         *)
(***************************************************************************)
EXTENDS EngineProofs

-----------------------------------------------------------------------------
(* What a delta still owes the calendar: the events that its calls will     *)
(* write, and those they will take away.                                   *)

Entered(b, i) == \E s \in DOMAIN b : b[s].id = i
Going(todo, i) == \E d \in todo : d.do = "delete" /\ d.id = i

Writing(a) == a.do \in {"insert", "update"}
Written(todo, s) == \E a \in todo : Writing(a) /\ a.src = s

EventStands(c, b, t, s) ==
  s \in DOMAIN b /\ b[s].id \in DOMAIN c.events /\ c.events[b[s].id] = Baseline(t, s)

\* An insertion finds no event under an id that the engine makes for its source, nor
\* under the id that the manifest has for it; a source is written once.
Insertable(todo, c, b, t) ==
  /\ \A a \in todo : a.do = "insert" =>
       /\ \A i \in DOMAIN c.events : \A g : i # EventId(a.src, t, g)
       /\ a.src \in DOMAIN b => b[a.src].id \notin DOMAIN c.events
  /\ \A a, d \in todo : Writing(a) /\ Writing(d) /\ a.src = d.src => a = d
  /\ \A a \in todo : a.do = "update" => a.id \in DOMAIN c.events

EventsDue(todo, c, b, t, events) ==
  \A s \in ToSet(events) : Written(todo, s) \/ EventStands(c, b, t, s)
EventsKnown(todo, c, b) == \A i \in DOMAIN c.events : Entered(b, i) \/ Going(todo, i)

CalendarDue(todo, c, b, t, events) ==
  EventsDue(todo, c, b, t, events) /\ EventsKnown(todo, c, b) /\ Insertable(todo, c, b, t)

LEMMA CalendarPlanDue ==
  ASSUME NEW c, IsCalendar(c), NEW b, OwnIds(b), NEW t \in Nat \ {0},
         NEW events, events \in Seq(ToSet(events)), NoSource \notin ToSet(events),
         DOMAIN b \subseteq ToSet(events),
         \A s \in ToSet(events) : CalendarUnambiguous(c, b, t, events, s)
  PROVE  CalendarDue(CalendarPlan(c, b, t, events).todo, c,
                     CalendarAdopted(c, b, t, events), t, events)
<1>. DEFINE todo == CalendarPlan(c, b, t, events).todo
            b2 == CalendarAdopted(c, b, t, events)
            S(s) == Standing(c, b, t, s)
<1>1. DOMAIN b2 = DOMAIN b \cup {r \in ToSet(events) : S(r) # {}}
  BY DEF CalendarAdopted
<1>2. ASSUME NEW s \in ToSet(events), NEW i \in S(s)
      PROVE  S(s) = {i} /\ i \in DOMAIN c.events /\ (i[1] # 0 => i[2] = s)
  <2>1. \A j \in S(s) : j \in DOMAIN c.events /\ (j[1] # 0 => j[2] = s)
    BY StandingIs
  <2>2. Cardinality(S(s)) <= 1
    BY DEF CalendarUnambiguous
  <2>3. IsFiniteSet(S(s))
    BY <2>1, FS_Subset DEF IsCalendar
  <2>. HIDE DEF S
  <2>. QED BY <2>1, <2>2, <2>3, AtMostOne
<1>3. ASSUME NEW s \in ToSet(events), NEW i \in S(s)
      PROVE  s \in DOMAIN b2 /\ b2[s].id = i
  <2>1. S(s) = {i} /\ s \in DOMAIN b2
    BY <1>1, <1>2, <1>3
  <2>2. CASE S(s) \subseteq {WantedId(b, t, s)} /\ s \in DOMAIN b
    <3>1. b2[s] = b[s]
      BY <2>1, <2>2 DEF CalendarAdopted
    <3>. QED BY <2>1, <2>2, <3>1 DEF WantedId
  <2>3. CASE ~(S(s) \subseteq {WantedId(b, t, s)} /\ s \in DOMAIN b)
    <3>. DEFINE j == CHOOSE j \in S(s) : TRUE
    <3>1. b2[s] = [id |-> j, gen |-> GenerationOf(b, s)]
      BY <2>1, <2>3 DEF CalendarAdopted
    <3>2. j \in S(s)
      BY <1>3
    <3>. QED BY <2>1, <3>1, <3>2
  <2>. QED BY <2>2, <2>3
<1>4. ASSUME NEW s \in ToSet(events), S(s) = {}, s \in DOMAIN b2
      PROVE  b2[s].id \notin DOMAIN c.events
  <2>1. s \in DOMAIN b
    BY <1>1, <1>4
  <2>2. b2[s] = b[s]
    BY <1>4, <2>1 DEF CalendarAdopted
  <2>. QED BY <1>4, <2>1, <2>2 DEF Standing, WantedId
<1>5. ASSUME NEW s \in ToSet(events), S(s) = {}, NEW i \in DOMAIN c.events, NEW g,
             i = EventId(s, t, g)
      PROVE  FALSE
  <2>. DEFINE e == c.events[i]
  <2>1. i[1] # 0 /\ i[2] = s
    BY <1>5 DEF EventId
  <2>2. e.src \in {s, NoSource} /\ (e.src = NoSource => e.tag = 0)
    BY <2>1 DEF IsCalendar, IsEvent
  <2>3. Marked(c, t, s) = {} /\ Marked(c, 0, s) = {} /\ Foreign(c, t, s) = {}
    BY <1>5 DEF Standing
  <2>4. e.src # s
    <3>. SUFFICES ASSUME e.src = s PROVE FALSE
      OBVIOUS
    <3>1. i \in Marked(c, e.tag, s)
      BY DEF Marked
    <3>2. e.tag \in ForeignTags(c, t)
      BY <2>3, <3>1 DEF ForeignTags
    <3>. QED BY <2>3, <3>1, <3>2 DEF Foreign
  <2>5. i \in Bare(c)
    BY <2>2, <2>4 DEF Bare, Marked
  <2>6. i \in StandingBefore(c, b, t, events, s)
    BY <1>5, <2>5 DEF CalendarUnambiguous
  <2>. DEFINE m == CHOOSE n \in DOMAIN events : events[n] = s
  <2>7. m \in DOMAIN events
    <3>1. \E n \in DOMAIN events : events[n] = s
      BY DEF ToSet
    <3>. QED BY <3>1
  <2>8. PICK k \in 1 .. m - 1 : i \in S(events[k])
    BY <2>6 DEF StandingBefore
  <2>9. k \in DOMAIN events
    <3>. HIDE DEF m
    <3>1. DOMAIN events = 1 .. Len(events) /\ Len(events) \in Nat
      OBVIOUS
    <3>. QED BY <2>7, <2>8, <3>1
  <2>10. events[k] \in ToSet(events)
    BY <2>9 DEF ToSet
  <2>. HIDE DEF S
  <2>11. events[k] = s
    BY <1>2, <2>1, <2>8, <2>10
  <2>. QED BY <1>5, <2>8, <2>11
<1>6. ASSUME NEW a \in todo
      PROVE  \/ a.do = "insert" /\ a.src \in ToSet(events) /\ S(a.src) = {}
                  /\ a = [do |-> "insert", src |-> a.src, id |-> WantedId(b, t, a.src), rank |-> <<1, 0>>]
             \/ a.do = "update" /\ a.src \in ToSet(events) /\ a.id \in S(a.src)
                  /\ a = [do |-> "update", src |-> a.src, id |-> a.id, rank |-> <<0, 0>>]
             \/ a.do = "delete"
  BY <1>6 DEF CalendarPlan
<1>7. EventsDue(todo, c, b2, t, events)
  <2>. SUFFICES ASSUME NEW s \in ToSet(events), ~Written(todo, s)
                PROVE  EventStands(c, b2, t, s)
    BY DEF EventsDue
  <2>1. S(s) # {}
    <3>. SUFFICES ASSUME S(s) = {} PROVE FALSE
      OBVIOUS
    <3>. DEFINE a == [do |-> "insert", src |-> s, id |-> WantedId(b, t, s), rank |-> <<1, 0>>]
    <3>1. a \in todo
      BY DEF CalendarPlan
    <3>. QED BY <3>1 DEF Written, Writing
  <2>2. PICK i \in S(s) : TRUE
    BY <2>1
  <2>3. c.events[i] = Baseline(t, s)
    <3>. SUFFICES ASSUME c.events[i] # Baseline(t, s) PROVE FALSE
      OBVIOUS
    <3>. DEFINE a == [do |-> "update", src |-> s, id |-> i, rank |-> <<0, 0>>]
    <3>1. a \in todo
      BY <2>1 DEF CalendarPlan
    <3>. QED BY <3>1 DEF Written, Writing
  <2>. HIDE DEF S, b2, todo
  <2>. QED BY <1>2, <1>3, <2>2, <2>3 DEF EventStands
<1>8. EventsKnown(todo, c, b2)
  <2>. SUFFICES ASSUME NEW i \in DOMAIN c.events, \A s \in ToSet(events) : i \notin S(s)
                PROVE  Going(todo, i)
    BY <1>3 DEF EventsKnown, Entered
  <2>. DEFINE a == [do |-> "delete", src |-> NoSource, id |-> i, rank |-> <<2, 0>>]
  <2>1. a \in todo
    BY DEF CalendarPlan
  <2>. QED BY <2>1 DEF Going
<1>. HIDE DEF todo, b2, S
<1>9. Insertable(todo, c, b2, t)
  <2>1. ASSUME NEW a \in todo, NEW d \in todo, Writing(a), Writing(d), a.src = d.src
        PROVE  a = d
    <3>1. CASE a.do = "insert"
      BY <1>6, <2>1, <3>1 DEF Writing
    <3>2. CASE a.do = "update"
      <4>1. d.do = "update"
        BY <1>6, <2>1, <3>2 DEF Writing
      <4>2. a.src \in ToSet(events) /\ a.id \in S(a.src) /\ d.id \in S(a.src)
        BY <1>6, <2>1, <3>2, <4>1
      <4>3. a.id = d.id
        BY <1>2, <4>2
      <4>. QED BY <1>6, <2>1, <3>2, <4>1, <4>3
    <3>. QED BY <2>1, <3>1, <3>2 DEF Writing
  <2>2. ASSUME NEW a \in todo, a.do = "insert"
        PROVE  /\ \A i \in DOMAIN c.events : \A g : i # EventId(a.src, t, g)
               /\ a.src \in DOMAIN b2 => b2[a.src].id \notin DOMAIN c.events
    BY <1>4, <1>5, <1>6, <2>2
  <2>3. ASSUME NEW a \in todo, a.do = "update" PROVE a.id \in DOMAIN c.events
    BY <1>2, <1>6, <2>3
  <2>. QED BY <2>1, <2>2, <2>3 DEF Insertable
<1>10. CalendarDue(todo, c, b2, t, events)
  BY <1>7, <1>8, <1>9 DEF CalendarDue
<1>. QED BY <1>10 DEF todo, b2

LEMMA CalendarCallDue ==
  ASSUME NEW c, IsCalendar(c), NEW b, OwnIds(b), NEW t \in Nat \ {0}, NEW events,
         NEW todo, CalendarTodo(todo, b, events), CalendarKept(todo, b, t),
         CalendarDue(todo, c, b, t, events), NEW a \in todo,
         NEW r, r = CalendarDone(a, c, b, t)
  PROVE  CalendarDue(todo \ {a}, r.world, r.book, t, events)
<1>. DEFINE rest == todo \ {a}
<1>0. a.do \in {"insert", "update", "delete"} /\ c = [events |-> c.events, gone |-> c.gone]
  BY DEF CalendarTodo, CalendarKept, IsCalendar
<1>1. ASSUME NEW s \in ToSet(events)
      PROVE  (Writing(a) /\ a.src = s) \/ Written(rest, s) \/ EventStands(c, b, t, s)
  BY DEF CalendarDue, EventsDue, Written
<1>2. ASSUME NEW i \in DOMAIN c.events
      PROVE  (a.do = "delete" /\ a.id = i) \/ Going(rest, i) \/ Entered(b, i)
  BY DEF CalendarDue, EventsKnown, Going
<1>3. CASE a.do = "insert"
  <2>. DEFINE g == FreshGeneration(c, b, t, a.src)
              i == EventId(a.src, t, g)
              f == PutNew(c.events, i, Baseline(t, a.src))
              c2 == [c EXCEPT !.events = PutNew(@, i, Baseline(t, a.src))]
              b2 == Put(b, a.src, [id |-> i, gen |-> g])
  <2>1. r = [world |-> c2, book |-> b2]
    BY <1>3 DEF CalendarDone, CalendarInserted
  <2>2. c2.events = f
    BY <1>0
  <2>3. /\ i \notin DOMAIN c.events /\ i[1] # 0 /\ i[2] = a.src
        /\ a.src \in DOMAIN b => b[a.src].id \notin DOMAIN c.events
    BY <1>3 DEF CalendarDue, Insertable, EventId
  <2>4. \A d \in rest : d.do = "insert" => d.src # a.src /\ \A h : i # EventId(d.src, t, h)
    <3>1. \A d \in rest : d.do = "insert" => d.src # a.src
      BY <1>3 DEF CalendarDue, Insertable, Writing
    <3>. QED BY <2>3, <3>1 DEF EventId
  <2>. HIDE DEF i, g
  <2>5. /\ DOMAIN f = DOMAIN c.events \cup {i} /\ f[i] = Baseline(t, a.src)
        /\ \A j \in DOMAIN c.events : f[j] = c.events[j]
    BY <2>3 DEF PutNew
  <2>6. /\ DOMAIN b2 = DOMAIN b \cup {a.src} /\ b2[a.src].id = i
        /\ \A s \in DOMAIN b : s # a.src => b2[s] = b[s]
    BY DEF Put
  <2>. HIDE DEF f, b2
  <2>7. ASSUME NEW s \in ToSet(events), ~Written(rest, s) PROVE EventStands(c2, b2, t, s)
    <3>1. CASE s = a.src
      BY <2>2, <2>5, <2>6, <3>1 DEF EventStands
    <3>2. CASE s # a.src
      <4>1. EventStands(c, b, t, s)
        BY <1>1, <2>7, <3>2
      <4>. QED BY <2>2, <2>5, <2>6, <3>2, <4>1 DEF EventStands
    <3>. QED BY <3>1, <3>2
  <2>8. ASSUME NEW j \in DOMAIN f, ~Going(rest, j) PROVE Entered(b2, j)
    <3>1. CASE j = i
      BY <2>6, <3>1 DEF Entered
    <3>2. CASE j # i
      <4>1. Entered(b, j) /\ j \in DOMAIN c.events
        BY <1>2, <1>3, <2>5, <2>8, <3>2
      <4>2. PICK s \in DOMAIN b : b[s].id = j
        BY <4>1 DEF Entered
      <4>. QED BY <2>3, <2>6, <4>1, <4>2 DEF Entered
    <3>. QED BY <3>1, <3>2
  <2>9. ASSUME NEW d \in rest, d.do = "insert"
        PROVE  /\ \A j \in DOMAIN f : \A h : j # EventId(d.src, t, h)
               /\ d.src \in DOMAIN b2 => b2[d.src].id \notin DOMAIN f
    <3>1. \A j \in DOMAIN c.events : \A h : j # EventId(d.src, t, h)
      BY <2>9 DEF CalendarDue, Insertable
    <3>2. \A j \in DOMAIN f : \A h : j # EventId(d.src, t, h)
      BY <2>4, <2>5, <2>9, <3>1
    <3>3. ASSUME d.src \in DOMAIN b2 PROVE b2[d.src].id \notin DOMAIN f
      <4>1. d.src # a.src /\ d.src \in DOMAIN b /\ b2[d.src].id = b[d.src].id
        BY <2>4, <2>6, <2>9, <3>3
      <4>2. b[d.src].id \notin DOMAIN c.events
        BY <2>9, <4>1 DEF CalendarDue, Insertable
      <4>3. b[d.src].id # i
        BY <2>3, <4>1 DEF OwnIds
      <4>. QED BY <2>5, <4>1, <4>2, <4>3
    <3>. QED BY <3>2, <3>3
  <2>10. Insertable(rest, c2, b2, t)
    <3>1. \A d \in rest : d.do = "update" => d.id \in DOMAIN f
      BY <2>5 DEF CalendarDue, Insertable
    <3>2. \A d, e \in rest : Writing(d) /\ Writing(e) /\ d.src = e.src => d = e
      BY DEF CalendarDue, Insertable
    <3>. HIDE DEF c2
    <3>. QED BY <2>2, <2>9, <3>1, <3>2 DEF Insertable
  <2>. HIDE DEF c2, rest
  <2>. QED BY <2>1, <2>2, <2>7, <2>8, <2>10 DEF CalendarDue, EventsDue, EventsKnown, rest
<1>4. CASE a.do = "update"
  <2>. DEFINE f == [c.events EXCEPT ![a.id] = Baseline(t, a.src)]
              c2 == [c EXCEPT !.events[a.id] = Baseline(t, a.src)]
  <2>1. a.src \in DOMAIN b /\ b[a.src].id = a.id
    BY <1>4 DEF CalendarTodo
  <2>2. r.world = c2 /\ r.book = Put(b, a.src, [id |-> a.id, gen |-> GenerationOf(b, a.src)])
    BY <1>4 DEF CalendarDone
  <2>3. r.book = b
    <3>1. b[a.src] = [id |-> a.id, gen |-> GenerationOf(b, a.src)]
      BY <2>1 DEF OwnIds, GenerationOf
    <3>2. b = [s \in DOMAIN b |-> b[s]]
      BY DEF OwnIds
    <3>3. r.book = [s \in DOMAIN b |-> b[s]]
      BY <2>1, <2>2, <3>1 DEF Put
    <3>. QED BY <3>2, <3>3
  <2>4. c2.events = f
    BY <1>0
  <2>5. a.id \in DOMAIN c.events
    BY <1>4 DEF CalendarDue, Insertable
  <2>6. DOMAIN f = DOMAIN c.events /\ f[a.id] = Baseline(t, a.src)
        /\ \A j \in DOMAIN c.events : j # a.id => f[j] = c.events[j]
    BY <2>5
  <2>. HIDE DEF f
  <2>7. ASSUME NEW s \in ToSet(events), ~Written(rest, s) PROVE EventStands(c2, b, t, s)
    <3>1. CASE s = a.src
      BY <2>1, <2>4, <2>5, <2>6, <3>1 DEF EventStands
    <3>2. CASE s # a.src
      <4>1. EventStands(c, b, t, s)
        BY <1>1, <2>7, <3>2
      <4>2. b[s].id # a.id
        BY <2>1, <3>2, <4>1 DEF EventStands, OwnIds, NamesTwice
      <4>. QED BY <2>4, <2>6, <4>1, <4>2 DEF EventStands
    <3>. QED BY <3>1, <3>2
  <2>8. ASSUME NEW j \in DOMAIN f, ~Going(rest, j) PROVE Entered(b, j)
    BY <1>2, <1>4, <2>6, <2>8
  <2>9. Insertable(rest, c2, b, t)
    BY <2>4, <2>6 DEF CalendarDue, Insertable
  <2>. HIDE DEF c2, rest
  <2>. QED BY <2>2, <2>3, <2>4, <2>7, <2>8, <2>9 DEF CalendarDue, EventsDue, EventsKnown, rest
<1>5. CASE a.do = "delete"
  <2>. DEFINE c2 == CalendarWithout(c, a.id)
  <2>1. r = [world |-> c2, book |-> b]
    BY <1>5 DEF CalendarDone
  <2>2. /\ DOMAIN c2.events = DOMAIN c.events \ {a.id}
        /\ \A j \in DOMAIN c2.events : c2.events[j] = c.events[j]
    BY DEF CalendarWithout
  <2>3. \A s \in DOMAIN b : b[s].id # a.id
    BY <1>5 DEF CalendarKept
  <2>. HIDE DEF c2
  <2>4. ASSUME NEW s \in ToSet(events), ~Written(rest, s) PROVE EventStands(c2, b, t, s)
    <3>1. EventStands(c, b, t, s)
      BY <1>1, <1>5, <2>4 DEF Writing
    <3>. QED BY <2>2, <2>3, <3>1 DEF EventStands
  <2>5. ASSUME NEW j \in DOMAIN c2.events, ~Going(rest, j) PROVE Entered(b, j)
    BY <1>2, <2>2, <2>5
  <2>6. Insertable(rest, c2, b, t)
    <3>1. ASSUME NEW d \in rest, d.do = "update" PROVE d.id \in DOMAIN c2.events
      <4>1. d.src \in DOMAIN b /\ b[d.src].id = d.id /\ d.id \in DOMAIN c.events
        BY <3>1 DEF CalendarTodo, CalendarDue, Insertable
      <4>. QED BY <2>2, <2>3, <4>1
    <3>. QED BY <2>2, <3>1 DEF CalendarDue, Insertable
  <2>. HIDE DEF rest
  <2>. QED BY <2>1, <2>4, <2>5, <2>6 DEF CalendarDue, EventsDue, EventsKnown, rest
<1>. QED BY <1>0, <1>3, <1>4, <1>5

LEMMA BaselineIs ==
  ASSUME NEW t, NEW s
  PROVE  Baseline(t, s).tag = t /\ Baseline(t, s).src = s
BY DEF Baseline

\* When no call is left, the calendar passes the read-back.
LEMMA CalendarPaid ==
  ASSUME NEW c, NEW b, NEW t, NEW events, CalendarDue({}, c, b, t, events),
         DOMAIN b \subseteq ToSet(events)
  PROVE  CalendarVerified(c, b, t, events)
<1>1. \A s \in ToSet(events) : EventStands(c, b, t, s)
  BY DEF CalendarDue, EventsDue, Written
<1>2. \A i \in DOMAIN c.events : Entered(b, i)
  BY DEF CalendarDue, EventsKnown, Going
<1>3. \A s \in ToSet(events) :
        /\ WantedId(b, t, s) = b[s].id /\ b[s].id \in DOMAIN c.events
        /\ c.events[b[s].id] = Baseline(t, s)
  BY <1>1 DEF EventStands, WantedId
<1>4. ASSUME NEW s \in ToSet(events) PROVE Cardinality(Marked(c, t, s)) = 1
  <2>1. ASSUME NEW i \in DOMAIN c.events, c.events[i].src = s PROVE i = b[s].id
    <3>1. PICK q \in DOMAIN b : b[q].id = i
      BY <1>2 DEF Entered
    <3>2. c.events[i] = Baseline(t, q)
      BY <1>3, <3>1
    <3>. QED BY <2>1, <3>1, <3>2 DEF Baseline
  <2>2. b[s].id \in Marked(c, t, s)
    <3>1. c.events[b[s].id].tag = t /\ c.events[b[s].id].src = s
      BY <1>3, BaselineIs
    <3>. QED BY <1>3, <3>1 DEF Marked
  <2>3. Marked(c, t, s) = {b[s].id}
    BY <2>1, <2>2 DEF Marked
  <2>. QED BY <2>3, FS_Singleton
<1>5. DOMAIN c.events \subseteq {WantedId(b, t, s) : s \in ToSet(events)}
  BY <1>2, <1>3 DEF Entered
<1>. QED BY <1>3, <1>4, <1>5 DEF CalendarVerified

\* A calendar that passes the read-back gives the next delta nothing to do.
LEMMA CalendarSettled ==
  ASSUME NEW c, NEW b, NEW t \in Nat \ {0}, NEW events, events \in Seq(ToSet(events)),
         IsInjective(events), CalendarVerified(c, b, t, events)
  PROVE  CalendarPlan(c, b, t, events) = [ok |-> TRUE, todo |-> {}]
<1>. DEFINE I(s) == WantedId(b, t, s)
            S(s) == Standing(c, b, t, s)
<1>1. \A s \in ToSet(events) : I(s) \in DOMAIN c.events /\ c.events[I(s)] = Baseline(t, s)
  BY DEF CalendarVerified
<1>2. \A i \in DOMAIN c.events : \E s \in ToSet(events) : i = I(s)
  BY DEF CalendarVerified
<1>3. \A s \in ToSet(events) : S(s) = {I(s)}
  BY <1>1 DEF Standing
<1>. HIDE DEF I, S
<1>a. \A s \in ToSet(events) : c.events[I(s)].tag = t /\ c.events[I(s)].src = s
  BY <1>1, BaselineIs
<1>4. \A r, s \in ToSet(events) : I(r) = I(s) => r = s
  BY <1>a
<1>5. \A i \in DOMAIN c.events : c.events[i].tag = t
  BY <1>2, <1>a
<1>6. \A s : Bare(c) = {} /\ Foreign(c, t, s) = {}
  BY <1>5 DEF Bare, Marked, Foreign, ForeignTags
<1>7. ASSUME NEW s \in ToSet(events) PROVE CalendarUnambiguous(c, b, t, events, s)
  <2>1. Marked(c, t, s) \subseteq {I(s)}
    <3>1. ASSUME NEW i \in DOMAIN c.events, c.events[i].src = s PROVE i = I(s)
      BY <1>2, <1>a, <3>1
    <3>. QED BY <3>1 DEF Marked
  <2>2. Cardinality(S(s)) <= 1
    <3>1. Cardinality({I(s)}) = 1
      BY FS_Singleton
    <3>2. Cardinality(S(s)) = 1
      BY <1>3, <3>1, Zenon
    <3>. QED BY <3>2
  <2>3. S(s) \cap StandingBefore(c, b, t, events, s) = {}
    <3>. DEFINE m == CHOOSE n \in DOMAIN events : events[n] = s
    <3>1. m \in DOMAIN events /\ events[m] = s
      <4>1. \E n \in DOMAIN events : events[n] = s
        BY DEF ToSet
      <4>. QED BY <4>1
    <3>2. StandingBefore(c, b, t, events, s) = UNION {S(events[k]) : k \in 1 .. m - 1}
      BY DEF StandingBefore, S
    <3>. HIDE DEF m
    <3>3. DOMAIN events = 1 .. Len(events) /\ Len(events) \in Nat
      OBVIOUS
    <3>4. ASSUME NEW k \in 1 .. m - 1 PROVE k \in DOMAIN events /\ k # m
      BY <3>1, <3>3
    <3>5. ASSUME NEW k \in 1 .. m - 1, I(s) \in S(events[k]) PROVE FALSE
      <4>1. k \in DOMAIN events /\ k # m /\ events[k] \in ToSet(events)
        BY <3>4 DEF ToSet
      <4>2. events[k] = s
        BY <1>3, <1>4, <3>5, <4>1
      <4>. QED BY <3>1, <4>1, <4>2 DEF IsInjective
    <3>. QED BY <1>3, <3>2, <3>5
  <2>4. S(s) # {} /\ \A i \in S(s) : c.events[i].tag = t
    BY <1>1, <1>3, <1>5
  <2>. QED BY <1>3, <1>6, <2>1, <2>2, <2>3, <2>4 DEF CalendarUnambiguous, S
<1>8. ASSUME NEW a \in CalendarPlan(c, b, t, events).todo PROVE FALSE
  <2>1. \/ \E s \in ToSet(events) : S(s) = {}
        \/ \E s \in ToSet(events) : \E i \in S(s) : c.events[i] # Baseline(t, s)
        \/ \E i \in DOMAIN c.events : \A s \in ToSet(events) : i \notin S(s)
    BY <1>8 DEF CalendarPlan, S
  <2>. QED BY <1>1, <1>2, <1>3, <2>1
<1>9. CalendarPlan(c, b, t, events)
        = [ok |-> CalendarPlan(c, b, t, events).ok, todo |-> CalendarPlan(c, b, t, events).todo]
  BY DEF CalendarPlan
<1>10. CalendarPlan(c, b, t, events).ok = TRUE
  BY <1>7 DEF CalendarPlan
<1>. QED BY <1>8, <1>9, <1>10


-----------------------------------------------------------------------------
(* The first letter of a thread is that of every answer in it.             *)

Climb(cat, s, k, f) ==
  f = [n \in 0 .. k |->
         IF n = 0 THEN s
         ELSE IF cat.parent[f[n - 1]] = NoLetter THEN f[n - 1]
         ELSE cat.parent[f[n - 1]]]

LEMMA ClimbExists ==
  ASSUME NEW cat, NEW s
  PROVE  \A k \in Nat : \E f : Climb(cat, s, k, f)
<1>. DEFINE S == {k \in Nat : ~\E f : Climb(cat, s, k, f)}
            m == Min(S)
<1>. SUFFICES ASSUME S # {} PROVE FALSE
  OBVIOUS
<1>1. m \in S /\ \A y \in S : m <= y
  BY LeastNumber
<1>. HIDE DEF m
<1>2. m # 0
  <2>. SUFFICES ASSUME m = 0 PROVE FALSE
    OBVIOUS
  <2>. DEFINE f == [n \in 0 .. 0 |-> s]
  <2>1. Climb(cat, s, 0, f)
    BY DEF Climb
  <2>. QED BY <1>1, <2>1
<1>3. m \in Nat /\ m - 1 \in Nat /\ m - 1 \notin S
  BY <1>1, <1>2
<1>4. PICK f : Climb(cat, s, m - 1, f)
  BY <1>3
<1>. DEFINE Up(x) == IF cat.parent[x] = NoLetter THEN x ELSE cat.parent[x]
            g == [n \in 0 .. m |-> IF n = 0 THEN s ELSE Up(f[n - 1])]
<1>5. \A n \in 0 .. m - 1 : f[n] = g[n]
  <2>. TAKE n \in 0 .. m - 1
  <2>1. f[n] = IF n = 0 THEN s ELSE Up(f[n - 1])
    BY <1>4 DEF Climb
  <2>2. n \in 0 .. m
    BY <1>3
  <2>. QED BY <2>1, <2>2
<1>6. g = [n \in 0 .. m |-> IF n = 0 THEN s ELSE Up(g[n - 1])]
  <2>. HIDE DEF g, Up
  <2>1. \A n \in 0 .. m : n # 0 => f[n - 1] = g[n - 1]
    <3>. SUFFICES ASSUME NEW n \in 0 .. m, n # 0 PROVE f[n - 1] = g[n - 1]
      OBVIOUS
    <3>1. n - 1 \in 0 .. m - 1
      BY <1>3
    <3>. QED BY <1>5, <3>1
  <2>2. g = [n \in 0 .. m |-> IF n = 0 THEN s ELSE Up(f[n - 1])]
    BY DEF g
  <2>. QED BY <2>1, <2>2
<1>7. Climb(cat, s, m, g)
  <2>. HIDE DEF g
  <2>. QED BY <1>6 DEF Climb
<1>. QED BY <1>1, <1>7

LEMMA OpenerClimbs ==
  ASSUME NEW cat, NEW s, Len(cat.letters) \in Nat
  PROVE  \E f : Climb(cat, s, Len(cat.letters), f) /\ Opener(cat, s) = f[Len(cat.letters)]
<1>. DEFINE f == CHOOSE f : Climb(cat, s, Len(cat.letters), f)
<1>1. Climb(cat, s, Len(cat.letters), f)
  BY ClimbExists
<1>2. Opener(cat, s) = f[Len(cat.letters)]
  BY DEF Opener, Climb
<1>. QED BY <1>1, <1>2

LEMMA ClimbsFollow ==
  ASSUME NEW cat, NEW s, cat.parent[s] # NoLetter, NEW k \in Nat,
         NEW f, Climb(cat, s, k, f), NEW g, Climb(cat, cat.parent[s], k, g)
  PROVE  \A n \in 0 .. k : n # k => f[n + 1] = g[n]
<1>. DEFINE S == {n \in 0 .. k : n # k /\ f[n + 1] # g[n]}
            m == Min(S)
<1>. SUFFICES ASSUME S # {} PROVE FALSE
  OBVIOUS
<1>1. m \in S /\ \A y \in S : m <= y
  <2>1. S \subseteq Nat
    OBVIOUS
  <2>. HIDE DEF S
  <2>. QED BY <2>1, LeastNumber
<1>. HIDE DEF m
<1>. DEFINE Up(x) == IF cat.parent[x] = NoLetter THEN x ELSE cat.parent[x]
<1>2. m \in 0 .. k /\ m + 1 \in 0 .. k /\ m + 1 # 0 /\ (m + 1) - 1 = m
  BY <1>1
<1>3. f[m + 1] = Up(f[m])
  BY <1>2 DEF Climb
<1>4. m # 0
  <2>. SUFFICES ASSUME m = 0 PROVE FALSE
    OBVIOUS
  <2>1. f[0] = s /\ g[0] = cat.parent[s]
    BY <1>2 DEF Climb
  <2>. QED BY <1>1, <1>3, <2>1
<1>5. g[m] = Up(g[m - 1])
  BY <1>2, <1>4 DEF Climb
<1>6. m - 1 \in 0 .. k /\ m - 1 # k /\ m - 1 \notin S /\ (m - 1) + 1 = m
  BY <1>1, <1>2, <1>4
<1>7. f[m] = g[m - 1]
  BY <1>6
<1>. QED BY <1>1, <1>3, <1>5, <1>7

LEMMA OrderIs ==
  ASSUME NEW cat, IsArchive(cat), NEW s \in Letters(cat)
  PROVE  /\ Order(cat, s) \in 1 .. Len(cat.letters) /\ Len(cat.letters) \in Nat
         /\ cat.parent[s] # NoLetter =>
              cat.parent[s] \in Letters(cat) /\ Order(cat, cat.parent[s]) < Order(cat, s)
<1>1. DOMAIN cat.letters = 1 .. Len(cat.letters) /\ Len(cat.letters) \in Nat
  BY DEF IsArchive
<1>2. \E k \in DOMAIN cat.letters : cat.letters[k] = s
  BY DEF Letters, ToSet
<1>3. Order(cat, s) \in DOMAIN cat.letters
  BY <1>2 DEF Order
<1>. QED BY <1>1, <1>3 DEF IsArchive

\* The climb ends at a letter that answers none before it has gone through all.
LEMMA ClimbEnds ==
  ASSUME NEW cat, IsArchive(cat), NEW s \in Letters(cat), NEW k \in Nat,
         NEW f, Climb(cat, s, k, f)
  PROVE  \A n \in 0 .. k : /\ f[n] \in Letters(cat)
                           /\ \/ cat.parent[f[n]] = NoLetter
                              \/ Order(cat, f[n]) + n <= Order(cat, s)
<1>. DEFINE Good(n) == /\ f[n] \in Letters(cat)
                       /\ \/ cat.parent[f[n]] = NoLetter
                          \/ Order(cat, f[n]) + n <= Order(cat, s)
            S == {n \in 0 .. k : ~Good(n)}
            m == Min(S)
<1>. SUFFICES ASSUME S # {} PROVE FALSE
  OBVIOUS
<1>1. m \in S /\ \A y \in S : m <= y
  <2>1. S \subseteq Nat
    OBVIOUS
  <2>. HIDE DEF S
  <2>. QED BY <2>1, LeastNumber
<1>. HIDE DEF m
<1>2. m # 0
  <2>. SUFFICES ASSUME m = 0 PROVE FALSE
    OBVIOUS
  <2>1. f[0] = s
    BY DEF Climb
  <2>2. Order(cat, s) \in Nat
    BY OrderIs
  <2>. QED BY <1>1, <2>1, <2>2
<1>3. m \in 0 .. k /\ m - 1 \in 0 .. k /\ m - 1 \notin S
  BY <1>1, <1>2
<1>4. Good(m - 1)
  BY <1>3
<1>5. f[m] = IF cat.parent[f[m - 1]] = NoLetter THEN f[m - 1] ELSE cat.parent[f[m - 1]]
  BY <1>2, <1>3 DEF Climb
<1>6. CASE cat.parent[f[m - 1]] = NoLetter
  BY <1>1, <1>4, <1>5, <1>6
<1>7. CASE cat.parent[f[m - 1]] # NoLetter
  <2>. DEFINE p == f[m - 1]
              q == f[m]
  <2>1. p \in Letters(cat) /\ q = cat.parent[p] /\ Order(cat, p) + (m - 1) <= Order(cat, s)
    BY <1>4, <1>5, <1>7
  <2>2. q \in Letters(cat) /\ Order(cat, q) < Order(cat, p) /\ Order(cat, p) \in Nat
    BY <1>7, <2>1, OrderIs
  <2>3. Order(cat, q) \in Nat /\ Order(cat, s) \in Nat
    BY <2>2, OrderIs
  <2>. HIDE DEF p
  <2>4. Order(cat, q) + m <= Order(cat, s)
    BY <1>3, <2>1, <2>2, <2>3
  <2>. QED BY <1>1, <2>2, <2>4
<1>. QED BY <1>6, <1>7

LEMMA AnswersShare ==
  ASSUME NEW cat, IsArchive(cat), NEW s \in Letters(cat), cat.parent[s] # NoLetter
  PROVE  Opener(cat, s) = Opener(cat, cat.parent[s])
<1>. DEFINE k == Len(cat.letters)
            p == cat.parent[s]
<1>1. k \in Nat /\ p \in Letters(cat) /\ Order(cat, p) < Order(cat, s)
      /\ Order(cat, s) \in 1 .. k
  BY OrderIs
<1>2. Order(cat, p) \in 1 .. k
  BY <1>1, OrderIs
<1>3. PICK f : Climb(cat, s, k, f) /\ Opener(cat, s) = f[k]
  BY <1>1, OpenerClimbs
<1>4. PICK g : Climb(cat, p, k, g) /\ Opener(cat, p) = g[k]
  BY <1>1, OpenerClimbs
<1>. HIDE DEF k
<1>5. k - 1 \in 0 .. k /\ k - 1 # k /\ (k - 1) + 1 = k /\ k # 0 /\ k \in 0 .. k
  BY <1>1
<1>6. f[k] = g[k - 1]
  <2>1. \A n \in 0 .. k : n # k => f[n + 1] = g[n]
    BY <1>1, <1>3, <1>4, ClimbsFollow
  <2>. QED BY <1>5, <2>1
<1>7. cat.parent[g[k - 1]] = NoLetter
  <2>1. \A n \in 0 .. k : /\ g[n] \in Letters(cat)
                          /\ \/ cat.parent[g[n]] = NoLetter
                             \/ Order(cat, g[n]) + n <= Order(cat, p)
    BY <1>1, <1>4, ClimbEnds
  <2>2. g[k - 1] \in Letters(cat)
    BY <1>5, <2>1
  <2>3. Order(cat, g[k - 1]) \in 1 .. k
    BY <2>2, OrderIs DEF k
  <2>4. ~(Order(cat, g[k - 1]) + (k - 1) <= Order(cat, p))
    BY <1>1, <1>2, <2>3
  <2>. QED BY <1>5, <2>1, <2>4
<1>8. g[k] = g[k - 1]
  BY <1>4, <1>5, <1>7 DEF Climb
<1>. QED BY <1>3, <1>4, <1>6, <1>8

-----------------------------------------------------------------------------
(* What a delta still owes Gmail: the letters that its calls will send, the *)
(* labels they will put right, and what they will take away.                *)

Sends(a) == a.do \in {"import", "reimport"}
Sent(todo, s) == \E a \in todo : Sends(a) /\ a.src = s
Relabels(todo, s) == \E a \in todo : a.do = "relabel" /\ a.src = s
Unlabels(todo, k) == \E a \in todo : a.do = "unlabel" /\ a.id = k

\* The message of a letter is right but for its labels.
MessageStands(m, b, s) ==
  /\ s \in DOMAIN b.messages /\ b.messages[s].id \in DOMAIN m.messages
  /\ m.messages[b.messages[s].id].whole /\ m.messages[b.messages[s].id].sent
LabelsStand(m, b, s) ==
  /\ b.label \in m.messages[b.messages[s].id].labels
  /\ m.messages[b.messages[s].id].placed
Threaded(todo, b, cat, s) ==
  LET p == cat.parent[s]
  IN p # NoLetter => ~Sent(todo, p) /\ b.messages[s].thread = b.messages[p].thread

LettersDue(todo, m, b, cat) ==
  \A s \in Letters(cat) :
    \/ Sent(todo, s)
    \/ /\ MessageStands(m, b, s) /\ Threaded(todo, b, cat, s)
       /\ Relabels(todo, s) \/ LabelsStand(m, b, s)
MessagesKnown(todo, m, b) == \A i \in DOMAIN m.messages : Entered(b.messages, i) \/ Going(todo, i)
LabelsDue(todo, m, b, t) ==
  /\ b.label \in DOMAIN m.labels /\ m.labels[b.label] = t
  /\ \A k \in DOMAIN m.labels : m.labels[k] = t \/ Unlabels(todo, k)

\* Parents are sent before their answers; what is relabelled is sent already; what is
\* imported is not there.
Sendable(todo, m, b, cat) ==
  /\ \A a \in todo : Sends(a) => a.rank = <<4, Order(cat, a.src)>>
  /\ \A a \in todo : a.do = "relabel" =>
       /\ a.src \in DOMAIN b.messages /\ b.messages[a.src].id = a.id
       /\ a.id \in DOMAIN m.messages /\ ~Sent(todo, a.src)
  /\ \A a \in todo : a.do = "import" /\ a.src \in DOMAIN b.messages =>
       b.messages[a.src].id \notin DOMAIN m.messages
  /\ \A a \in todo : a.do = "unlabel" => a.id # b.label

MailDue(todo, m, b, t, cat) ==
  /\ LettersDue(todo, m, b, cat) /\ MessagesKnown(todo, m, b)
  /\ LabelsDue(todo, m, b, t) /\ Sendable(todo, m, b, cat)

LEMMA MailPlanDue ==
  ASSUME NEW m, IsMailbox(m), NEW b, NEW t \in Nat \ {0}, NEW cat, IsArchive(cat),
         IsMailBook(b, cat), OwnMail(m, b), b.label \in DOMAIN m.labels, m.labels[b.label] = t,
         \A s \in Letters(cat) : MailUnambiguous(m, b, s)
  PROVE  MailDue(MailPlan(m, b, t, cat).todo, m, MailAdopted(m, b, cat), t, cat)
<1>. DEFINE todo == MailPlan(m, b, t, cat).todo
            b2 == MailAdopted(m, b, cat)
            K(s) == Canonical(m, b, s)
            redone == Rebuilt(m, b, cat)
            kept == UNION {K(s) : s \in Letters(cat)}
            drafts == {i \in DOMAIN m.messages : m.messages[i].draft}
            Act(do, s, i, stage) ==
              [do |-> do, src |-> s, id |-> i,
               rank |-> <<stage, IF s = NoLetter THEN 0 ELSE Order(cat, s)>>]
<1>0. NoLetter \notin Letters(cat)
  BY DEF IsArchive
<1>1. ASSUME NEW a \in todo
      PROVE  \/ a.do = "import" /\ a.src \in Letters(cat) /\ K(a.src) = {}
                  /\ a.rank = <<4, Order(cat, a.src)>>
             \/ a.do = "reimport" /\ a.src \in Letters(cat) /\ K(a.src) # {} /\ a.src \in redone
                  /\ a.rank = <<4, Order(cat, a.src)>>
             \/ a.do = "relabel" /\ a.src \in Letters(cat) /\ a.id \in K(a.src) /\ a.src \notin redone
             \/ a.do = "delete"
             \/ a.do = "unlabel" /\ m.labels[a.id] # t
  <2>1. \/ \E s \in Letters(cat) : K(s) = {} /\ a = Act("import", s, 0, 4)
        \/ \E s \in Letters(cat) : K(s) # {} /\ s \in redone /\ \E i \in K(s) : a = Act("reimport", s, i, 4)
        \/ \E s \in Letters(cat) : s \notin redone /\ \E i \in K(s) : a = Act("relabel", s, i, 6)
        \/ \E i \in DOMAIN m.messages : a = Act("delete", NoLetter, i, 1)
        \/ \E i \in DOMAIN m.messages : a = Act("delete", NoLetter, i, 2)
        \/ \E k \in DOMAIN m.labels \ BaselineLabels(m, t) : a = Act("unlabel", NoLetter, k, 3)
    BY <1>1 DEF MailPlan
  <2>. HIDE DEF K, redone
  <2>. QED BY <1>0, <2>1 DEF BaselineLabels
<1>2. ASSUME NEW s \in Letters(cat), K(s) = {}
      PROVE  Sent(todo, s)
  <2>1. Act("import", s, 0, 4) \in todo
    BY <1>2 DEF MailPlan
  <2>. QED BY <2>1 DEF Sent, Sends
<1>3. ASSUME NEW s \in Letters(cat), NEW i \in K(s), s \in redone
      PROVE  Sent(todo, s)
  <2>1. Act("reimport", s, i, 4) \in todo
    BY <1>3 DEF MailPlan
  <2>. QED BY <2>1 DEF Sent, Sends
<1>4. ASSUME NEW s \in Letters(cat), NEW i \in K(s), s \notin redone, s \in Mislabelled(m, b, cat)
      PROVE  Relabels(todo, s)
  <2>1. Act("relabel", s, i, 6) \in todo
    BY <1>4 DEF MailPlan
  <2>. QED BY <2>1 DEF Relabels
<1>5. ASSUME NEW i \in DOMAIN m.messages, i \notin kept \/ i \in drafts
      PROVE  Going(todo, i)
  <2>1. Act("delete", NoLetter, i, 1) \in todo \/ Act("delete", NoLetter, i, 2) \in todo
    BY <1>5 DEF MailPlan
  <2>. QED BY <2>1 DEF Going
<1>6. ASSUME NEW k \in DOMAIN m.labels, m.labels[k] # t
      PROVE  Unlabels(todo, k)
  <2>1. Act("unlabel", NoLetter, k, 3) \in todo
    BY <1>6 DEF MailPlan, BaselineLabels
  <2>. QED BY <2>1 DEF Unlabels
<1>7. ASSUME NEW s \in Letters(cat), NEW i \in K(s)
      PROVE  /\ i \in DOMAIN m.messages /\ m.messages[i].src = s /\ K(s) = {i}
             /\ s \in DOMAIN b2.messages /\ b2.messages[s].id = i
             /\ b2.messages[s].thread = m.messages[i].thread
  <2>1. /\ i \in DOMAIN m.messages /\ m.messages[i].src = s /\ K(s) = {i}
        /\ s \in DOMAIN b2.messages /\ b2.messages[s].id = i
    BY CanonicalIs
  <2>2. OwnMail(m, b2)
    BY MailAdopts
  <2>. QED BY <2>1, <2>2 DEF OwnMail
<1>8. ASSUME NEW s \in Letters(cat), s \in redone, NEW r \in Letters(cat), Opener(cat, r) = Opener(cat, s)
      PROVE  r \in redone
  BY <1>8 DEF Rebuilt
<1>9. ASSUME NEW s \in Letters(cat), s \in Spoiled(m, b, cat)
      PROVE  s \in redone
  BY <1>9 DEF Rebuilt
<1>10. ASSUME NEW s \in Letters(cat), cat.parent[s] \in Letters(cat), K(cat.parent[s]) = {},
              Opener(cat, s) = Opener(cat, cat.parent[s])
       PROVE  s \in redone
  BY <1>10 DEF Rebuilt, Missing
<1>a. /\ b2.label = b.label
      /\ \A s \in DOMAIN b2.messages : K(s) = {} =>
           s \in DOMAIN b.messages /\ b2.messages[s] = b.messages[s]
  BY DEF MailAdopted, IsMailBook
<1>b. \A s \in DOMAIN b.messages : K(s) = {} => b.messages[s].id \notin DOMAIN m.messages
  BY DEF Canonical, KnownMail
<1>c. \A s \in Letters(cat) : \A i \in K(s) : s \notin Spoiled(m, b, cat) =>
        /\ HeadersHold(m, s, i) /\ m.messages[i].sent /\ ThreadHolds(m, b, cat, s, i)
  BY DEF Spoiled
<1>d. \A s \in Letters(cat) : \A i \in K(s) : s \notin Mislabelled(m, b, cat) =>
        b.label \in m.messages[i].labels /\ m.messages[i].placed
  BY DEF Mislabelled
<1>e. \A s, i : ThreadHolds(m, b, cat, s, i) /\ cat.parent[s] # NoLetter =>
        \A j \in K(cat.parent[s]) : m.messages[j].thread = m.messages[i].thread
  BY DEF ThreadHolds
<1>. HIDE DEF todo, b2, K, redone, kept, drafts
<1>11. \A s \in Letters(cat) : Sent(todo, s) <=> K(s) = {} \/ s \in redone
  BY <1>1, <1>2, <1>3 DEF Sent, Sends
<1>12. ASSUME NEW s \in Letters(cat), ~Sent(todo, s)
       PROVE  /\ MessageStands(m, b2, s) /\ Threaded(todo, b2, cat, s)
              /\ Relabels(todo, s) \/ LabelsStand(m, b2, s)
  <2>1. PICK i : i \in K(s) /\ s \notin redone
    BY <1>11, <1>12
  <2>2. /\ HeadersHold(m, s, i) /\ m.messages[i].sent /\ ThreadHolds(m, b, cat, s, i)
    BY <1>9, <1>c, <2>1
  <2>3. /\ i \in DOMAIN m.messages /\ s \in DOMAIN b2.messages /\ b2.messages[s].id = i
        /\ b2.messages[s].thread = m.messages[i].thread
    BY <1>7, <2>1
  <2>4. MessageStands(m, b2, s)
    BY <2>2, <2>3 DEF MessageStands, HeadersHold
  <2>5. Relabels(todo, s) \/ LabelsStand(m, b2, s)
    BY <1>4, <1>a, <1>d, <2>1, <2>3 DEF LabelsStand
  <2>6. ASSUME cat.parent[s] # NoLetter
        PROVE  ~Sent(todo, cat.parent[s]) /\ b2.messages[s].thread = b2.messages[cat.parent[s]].thread
    <3>. DEFINE p == cat.parent[s]
    <3>1. p \in Letters(cat) /\ Opener(cat, s) = Opener(cat, p)
      BY <2>6, OrderIs, AnswersShare
    <3>2. K(p) # {} /\ p \notin redone
      BY <1>8, <1>10, <2>1, <3>1
    <3>3. PICK j : j \in K(p)
      BY <3>2
    <3>4. b2.messages[p].thread = m.messages[j].thread
      BY <1>7, <3>1, <3>3
    <3>5. m.messages[j].thread = m.messages[i].thread
      BY <1>e, <2>2, <2>6, <3>3
    <3>. HIDE DEF p
    <3>6. ~Sent(todo, p) /\ b2.messages[s].thread = b2.messages[p].thread
      BY <1>11, <2>3, <3>1, <3>2, <3>4, <3>5
    <3>. QED BY <3>6 DEF p
  <2>. QED BY <2>4, <2>5, <2>6 DEF Threaded
<1>13. LettersDue(todo, m, b2, cat)
  BY <1>12 DEF LettersDue
<1>14. MessagesKnown(todo, m, b2)
  <2>. SUFFICES ASSUME NEW i \in DOMAIN m.messages, ~Going(todo, i)
                PROVE  Entered(b2.messages, i)
    BY DEF MessagesKnown
  <2>1. PICK s \in Letters(cat) : i \in K(s)
    BY <1>5 DEF kept
  <2>. QED BY <1>7, <2>1 DEF Entered
<1>15. LabelsDue(todo, m, b2, t)
  BY <1>6, <1>a DEF LabelsDue
<1>16. Sendable(todo, m, b2, cat)
  <2>1. ASSUME NEW a \in todo, a.do = "relabel"
        PROVE  /\ a.src \in DOMAIN b2.messages /\ b2.messages[a.src].id = a.id
               /\ a.id \in DOMAIN m.messages /\ ~Sent(todo, a.src)
    <3>1. a.src \in Letters(cat) /\ a.id \in K(a.src) /\ a.src \notin redone
      BY <1>1, <2>1
    <3>. QED BY <1>7, <1>11, <3>1
  <2>2. ASSUME NEW a \in todo, a.do = "import", a.src \in DOMAIN b2.messages
        PROVE  b2.messages[a.src].id \notin DOMAIN m.messages
    <3>1. K(a.src) = {}
      BY <1>1, <2>2
    <3>. QED BY <1>a, <1>b, <2>2, <3>1
  <2>3. ASSUME NEW a \in todo, a.do = "unlabel" PROVE a.id # b2.label
    BY <1>1, <1>a, <2>3
  <2>4. ASSUME NEW a \in todo, Sends(a) PROVE a.rank = <<4, Order(cat, a.src)>>
    BY <1>1, <2>4 DEF Sends
  <2>. QED BY <2>1, <2>2, <2>3, <2>4 DEF Sendable
<1>17. MailDue(todo, m, b2, t, cat)
  BY <1>13, <1>14, <1>15, <1>16 DEF MailDue
<1>. QED BY <1>17 DEF todo, b2

\* What an import makes of a mailbox and of the manifest.
LEMMA ImportedIs ==
  ASSUME NEW m, m = [messages |-> m.messages, labels |-> m.labels],
         NEW b, b = [label |-> b.label, messages |-> b.messages], NEW cat, NEW s, NEW n, NEW r,
         r = MailImported(m, b, cat, s, n)
  PROVE  LET x == ThreadFor(m, b, cat, s, n)
         IN /\ DOMAIN r.world.messages = DOMAIN m.messages \cup {n}
            /\ r.world.messages[n].whole /\ r.world.messages[n].sent
            /\ r.world.messages[n].placed /\ b.label \in r.world.messages[n].labels
            /\ \A i \in DOMAIN m.messages \ {n} : r.world.messages[i] = m.messages[i]
            /\ r.world.labels = m.labels /\ r.book.label = b.label
            /\ DOMAIN r.book.messages = DOMAIN b.messages \cup {s}
            /\ r.book.messages[s].id = n /\ r.book.messages[s].thread = x
            /\ \A q \in DOMAIN b.messages \ {s} : r.book.messages[q] = b.messages[q]
<1>. DEFINE x == ThreadFor(m, b, cat, s, n)
            copy == [src |-> s, whole |-> TRUE, thread |-> x, labels |-> {b.label},
                     placed |-> TRUE, sent |-> TRUE, draft |-> FALSE]
            f == Put(m.messages, n, copy)
            g == Put(b.messages, s, [id |-> n, thread |-> x])
<1>1. r = [world |-> [m EXCEPT !.messages = f], book |-> [b EXCEPT !.messages = g]]
  BY DEF MailImported
<1>. HIDE DEF x
<1>2. copy.whole /\ copy.sent /\ copy.placed /\ b.label \in copy.labels
  OBVIOUS
<1>. HIDE DEF copy
<1>3. /\ DOMAIN f = DOMAIN m.messages \cup {n} /\ f[n] = copy
      /\ \A i \in DOMAIN m.messages \ {n} : f[i] = m.messages[i]
  BY DEF Put
<1>4. /\ DOMAIN g = DOMAIN b.messages \cup {s} /\ g[s].id = n /\ g[s].thread = x
      /\ \A q \in DOMAIN b.messages \ {s} : g[q] = b.messages[q]
  BY DEF Put
<1>. HIDE DEF f, g
<1>5. /\ r.world.messages = f /\ r.world.labels = m.labels
      /\ r.book.messages = g /\ r.book.label = b.label
  BY <1>1
<1>. QED BY <1>2, <1>3, <1>4, <1>5 DEF x

\* The mailbox m and the manifest b without what the call takes away first.
Freed(a, m, b, v, c) ==
  /\ v = [messages |-> v.messages, labels |-> v.labels] /\ v.labels = m.labels
  /\ c = [label |-> c.label, messages |-> c.messages] /\ c.label = b.label
  /\ \A i \in DOMAIN v.messages : i \in DOMAIN m.messages /\ v.messages[i] = m.messages[i]
  /\ \A i \in DOMAIN m.messages : i \in DOMAIN v.messages <=> ~(a.do = "reimport" /\ i = a.id)
  /\ DOMAIN b.messages \ {a.src} \subseteq DOMAIN c.messages
  /\ \A q \in DOMAIN c.messages : q \in DOMAIN b.messages /\ c.messages[q] = b.messages[q]

\* A letter is sent: what was owed for the others still is all that is owed.
LEMMA SendDue ==
  ASSUME NEW m, IsMailbox(m), NEW b, NEW t, NEW cat, IsArchive(cat), IsMailBook(b, cat),
         OwnMail(m, b), NEW todo, MailTodo(todo, cat), MailKept(todo, m, b),
         MailDue(todo, m, b, t, cat), NEW a \in todo, Sends(a),
         \A o \in todo : \/ a.rank[1] < o.rank[1]
                         \/ a.rank[1] = o.rank[1] /\ a.rank[2] <= o.rank[2],
         NEW n, n \notin DOMAIN m.messages, \A q \in DOMAIN b.messages : b.messages[q].id # n,
         NEW v, NEW c, Freed(a, m, b, v, c),
         NEW r, r = MailImported(v, c, cat, a.src, n)
  PROVE  MailDue(todo \ {a}, r.world, r.book, t, cat)
<1>0. /\ v = [messages |-> v.messages, labels |-> v.labels] /\ v.labels = m.labels
      /\ c = [label |-> c.label, messages |-> c.messages] /\ c.label = b.label
      /\ \A i \in DOMAIN v.messages : i \in DOMAIN m.messages /\ v.messages[i] = m.messages[i]
      /\ \A i \in DOMAIN m.messages : ~(a.do = "reimport" /\ i = a.id) => i \in DOMAIN v.messages
      /\ a.do = "reimport" => a.id \notin DOMAIN v.messages
      /\ DOMAIN b.messages \ {a.src} \subseteq DOMAIN c.messages
      /\ \A q \in DOMAIN c.messages : q \in DOMAIN b.messages /\ c.messages[q] = b.messages[q]
  BY DEF Freed
<1>. DEFINE rest == todo \ {a}
            s == a.src
            m2 == r.world
            b2 == r.book
            x == ThreadFor(v, c, cat, s, n)
<1>1. /\ DOMAIN m2.messages = DOMAIN v.messages \cup {n}
      /\ m2.messages[n].whole /\ m2.messages[n].sent
      /\ m2.messages[n].placed /\ c.label \in m2.messages[n].labels
      /\ \A i \in DOMAIN v.messages \ {n} : m2.messages[i] = v.messages[i]
      /\ m2.labels = m.labels /\ b2.label = b.label
      /\ DOMAIN b2.messages = DOMAIN c.messages \cup {s}
      /\ b2.messages[s].id = n /\ b2.messages[s].thread = x
      /\ \A q \in DOMAIN c.messages \ {s} : b2.messages[q] = c.messages[q]
  BY <1>0, ImportedIs
<1>. HIDE DEF x
<1>2. /\ s \in Letters(cat) /\ a.rank = <<4, Order(cat, s)>>
      /\ \A d \in rest : Sends(d) => d.src # s
  BY DEF MailTodo, MailDue, Sendable, MailKept, Sends
<1>. HIDE DEF s, m2, b2, rest
<1>3. /\ \A q : Sent(rest, q) => Sent(todo, q) /\ q # s
      /\ \A q : Sent(todo, q) => Sent(rest, q) \/ q = s
      /\ \A q : Relabels(todo, q) => Relabels(rest, q)
      /\ \A i : Going(todo, i) => Going(rest, i)
      /\ \A k : Unlabels(todo, k) => Unlabels(rest, k)
      /\ Sent(todo, s)
  BY <1>2 DEF Sent, Relabels, Going, Unlabels, Sends, rest, s
<1>4. ASSUME NEW q \in DOMAIN b.messages, q # s
      PROVE  /\ q \in DOMAIN b2.messages /\ b2.messages[q] = b.messages[q]
             /\ b.messages[q].id \in DOMAIN m.messages =>
                  /\ b.messages[q].id \in DOMAIN v.messages
                  /\ b.messages[q].id \in DOMAIN m2.messages
                  /\ m2.messages[b.messages[q].id] = m.messages[b.messages[q].id]
  <2>1. q \in DOMAIN b2.messages /\ b2.messages[q] = b.messages[q]
    BY <1>0, <1>1, <1>4 DEF s
  <2>2. a.do = "reimport" => b.messages[q].id # a.id
    BY <1>4 DEF MailKept, OwnMail, NamesTwice, s
  <2>. QED BY <1>0, <1>1, <1>4, <2>1, <2>2
<1>5. ASSUME NEW q \in Letters(cat), ~Sent(todo, q)
      PROVE  /\ MessageStands(m, b, q) /\ Threaded(todo, b, cat, q)
             /\ Relabels(todo, q) \/ LabelsStand(m, b, q)
  BY <1>5 DEF MailDue, LettersDue
<1>6. ASSUME NEW q \in Letters(cat), ~Sent(rest, q), q # s
      PROVE  /\ MessageStands(m2, b2, q) /\ Threaded(rest, b2, cat, q)
             /\ Relabels(rest, q) \/ LabelsStand(m2, b2, q)
  <2>1. ~Sent(todo, q)
    BY <1>3, <1>6
  <2>2. q \in DOMAIN b.messages /\ b.messages[q].id \in DOMAIN m.messages
    BY <1>5, <2>1 DEF MessageStands
  <2>3. /\ q \in DOMAIN b2.messages /\ b2.messages[q] = b.messages[q]
        /\ b.messages[q].id \in DOMAIN m2.messages
        /\ m2.messages[b.messages[q].id] = m.messages[b.messages[q].id]
    BY <1>4, <1>6, <2>2
  <2>4. MessageStands(m2, b2, q)
    BY <1>5, <2>1, <2>3 DEF MessageStands
  <2>5. Relabels(rest, q) \/ LabelsStand(m2, b2, q)
    BY <1>1, <1>3, <1>5, <2>1, <2>3 DEF LabelsStand
  <2>6. Threaded(rest, b2, cat, q)
    <3>. DEFINE p == cat.parent[q]
    <3>. SUFFICES ASSUME p # NoLetter
                  PROVE  ~Sent(rest, p) /\ b2.messages[q].thread = b2.messages[p].thread
      BY DEF Threaded
    <3>1. ~Sent(todo, p) /\ b.messages[q].thread = b.messages[p].thread
      BY <1>5, <2>1 DEF Threaded
    <3>2. p \in Letters(cat) /\ p # s
      BY <1>3, <3>1, OrderIs
    <3>3. p \in DOMAIN b.messages
      BY <1>5, <3>1, <3>2 DEF MessageStands
    <3>. HIDE DEF p
    <3>4. b2.messages[p] = b.messages[p]
      BY <1>4, <3>2, <3>3
    <3>. QED BY <1>3, <2>3, <3>1, <3>4
  <2>. QED BY <2>4, <2>5, <2>6
<1>7. /\ MessageStands(m2, b2, s) /\ Threaded(rest, b2, cat, s) /\ LabelsStand(m2, b2, s)
  <2>1. MessageStands(m2, b2, s) /\ LabelsStand(m2, b2, s)
    BY <1>0, <1>1 DEF MessageStands, LabelsStand
  <2>2. Threaded(rest, b2, cat, s)
    <3>. DEFINE p == cat.parent[s]
    <3>. SUFFICES ASSUME p # NoLetter
                  PROVE  ~Sent(rest, p) /\ b2.messages[s].thread = b2.messages[p].thread
      BY DEF Threaded
    <3>1. p \in Letters(cat) /\ Order(cat, p) < Order(cat, s)
      BY <1>2, OrderIs
    <3>2. Order(cat, p) \in Nat /\ Order(cat, s) \in Nat
      BY <1>2, <3>1, OrderIs
    <3>3. ~Sent(todo, p)
      <4>. SUFFICES ASSUME NEW d \in todo, Sends(d), d.src = p PROVE FALSE
        BY DEF Sent
      <4>1. d.rank = <<4, Order(cat, p)>>
        BY DEF MailDue, Sendable
      <4>2. a.rank[1] = 4 /\ a.rank[2] = Order(cat, s) /\ d.rank[1] = 4 /\ d.rank[2] = Order(cat, p)
        BY <1>2, <4>1
      <4>3. \/ a.rank[1] < d.rank[1]
            \/ a.rank[1] = d.rank[1] /\ a.rank[2] <= d.rank[2]
        OBVIOUS
      <4>. QED BY <3>1, <3>2, <4>2, <4>3
    <3>4. p # s
      BY <3>1, <3>2
    <3>5. p \in DOMAIN b.messages /\ b.messages[p].id \in DOMAIN m.messages
      BY <1>5, <3>1, <3>3 DEF MessageStands
    <3>. DEFINE i == b.messages[p].id
    <3>6. /\ b2.messages[p] = b.messages[p]
          /\ i \in DOMAIN v.messages
      BY <1>4, <3>4, <3>5
    <3>7. m.messages[i].thread = b.messages[p].thread
      BY <3>5 DEF OwnMail
    <3>8. p \in DOMAIN c.messages /\ c.messages[p] = b.messages[p]
      BY <1>0, <3>4, <3>5 DEF s
    <3>9. v.messages[i].thread = c.messages[p].thread
      BY <1>0, <3>6, <3>7, <3>8
    <3>10. x = c.messages[p].thread
      BY <3>6, <3>8, <3>9 DEF ThreadFor, x
    <3>. HIDE DEF p
    <3>. QED BY <1>1, <1>3, <3>3, <3>6, <3>8, <3>10
  <2>. QED BY <2>1, <2>2
<1>8. LettersDue(rest, m2, b2, cat)
  BY <1>6, <1>7 DEF LettersDue
<1>9. MessagesKnown(rest, m2, b2)
  <2>. SUFFICES ASSUME NEW i \in DOMAIN m2.messages, ~Going(rest, i)
                PROVE  Entered(b2.messages, i)
    BY DEF MessagesKnown
  <2>1. CASE i = n
    BY <1>1, <2>1 DEF Entered
  <2>2. CASE i # n
    <3>1. i \in DOMAIN m.messages /\ (a.do = "reimport" => i # a.id)
      BY <1>0, <1>1, <2>2
    <3>2. Entered(b.messages, i)
      BY <1>3, <3>1 DEF MailDue, MessagesKnown
    <3>3. PICK q \in DOMAIN b.messages : b.messages[q].id = i
      BY <3>2 DEF Entered
    <3>4. q # s
      <4>. SUFFICES ASSUME q = s PROVE FALSE
        OBVIOUS
      <4>1. CASE a.do = "reimport"
        BY <3>1, <3>3, <4>1 DEF MailKept, s
      <4>2. CASE a.do = "import"
        BY <3>1, <3>3, <4>2 DEF MailDue, Sendable, s
      <4>. QED BY <4>1, <4>2 DEF Sends
    <3>. QED BY <1>4, <3>3, <3>4 DEF Entered
  <2>. QED BY <2>1, <2>2
<1>10. LabelsDue(rest, m2, b2, t)
  BY <1>0, <1>1, <1>3 DEF MailDue, LabelsDue
<1>11. Sendable(rest, m2, b2, cat)
  <2>1. \A d \in rest : Sends(d) => d.rank = <<4, Order(cat, d.src)>>
    BY DEF MailDue, Sendable, rest
  <2>2. ASSUME NEW d \in rest, d.do = "relabel"
        PROVE  /\ d.src \in DOMAIN b2.messages /\ b2.messages[d.src].id = d.id
               /\ d.id \in DOMAIN m2.messages /\ ~Sent(rest, d.src)
    <3>1. /\ d.src \in DOMAIN b.messages /\ b.messages[d.src].id = d.id
          /\ d.id \in DOMAIN m.messages /\ ~Sent(todo, d.src)
      BY <2>2 DEF MailDue, Sendable, rest
    <3>2. d.src # s
      BY <1>3, <3>1
    <3>. QED BY <1>3, <1>4, <3>1, <3>2
  <2>3. ASSUME NEW d \in rest, d.do = "import", d.src \in DOMAIN b2.messages
        PROVE  b2.messages[d.src].id \notin DOMAIN m2.messages
    <3>1. d.src # s
      BY <1>2, <2>3 DEF Sends
    <3>2. d.src \in DOMAIN b.messages
      BY <1>0, <1>1, <2>3, <3>1
    <3>3. b2.messages[d.src] = b.messages[d.src]
      BY <1>4, <3>1, <3>2
    <3>4. b.messages[d.src].id \notin DOMAIN m.messages
      BY <2>3, <3>2 DEF MailDue, Sendable, rest
    <3>. QED BY <1>0, <1>1, <3>2, <3>3, <3>4
  <2>4. \A d \in rest : d.do = "unlabel" => d.id # b2.label
    BY <1>1 DEF MailDue, Sendable, rest
  <2>. QED BY <2>1, <2>2, <2>3, <2>4 DEF Sendable
<1>12. MailDue(rest, m2, b2, t, cat)
  BY <1>8, <1>9, <1>10, <1>11 DEF MailDue
<1>. QED BY <1>12 DEF rest, m2, b2

\* A call that sends nothing takes away no more than it is for, and leaves the messages
\* as they were, or better; k is the label of the seed.
MailMended(a, m, v, k) ==
  /\ DOMAIN v.messages \subseteq DOMAIN m.messages
  /\ \A i \in DOMAIN m.messages : i \in DOMAIN v.messages <=> ~(a.do = "delete" /\ i = a.id)
  /\ \A i \in DOMAIN v.messages :
       LET o == m.messages[i]
           x == v.messages[i]
       IN /\ x.whole = o.whole /\ x.sent = o.sent
          /\ k \in o.labels /\ o.placed => k \in x.labels /\ x.placed
          /\ a.do = "relabel" /\ i = a.id => k \in x.labels /\ x.placed
  /\ k \in DOMAIN v.labels
  /\ \A j \in DOMAIN v.labels : /\ j \in DOMAIN m.labels /\ v.labels[j] = m.labels[j]
                                /\ a.do = "unlabel" => j # a.id

LEMMA MendDue ==
  ASSUME NEW m, NEW b, NEW t, NEW cat,
         NEW todo, MailKept(todo, m, b), MailDue(todo, m, b, t, cat), NEW a \in todo, ~Sends(a),
         NEW v, MailMended(a, m, v, b.label)
  PROVE  MailDue(todo \ {a}, v, b, t, cat)
<1>. DEFINE rest == todo \ {a}
<1>0. /\ \A i \in DOMAIN v.messages :
           /\ i \in DOMAIN m.messages /\ (a.do = "delete" => i # a.id)
           /\ v.messages[i].whole = m.messages[i].whole /\ v.messages[i].sent = m.messages[i].sent
           /\ b.label \in m.messages[i].labels /\ m.messages[i].placed =>
                b.label \in v.messages[i].labels /\ v.messages[i].placed
           /\ a.do = "relabel" /\ i = a.id =>
                b.label \in v.messages[i].labels /\ v.messages[i].placed
      /\ \A i \in DOMAIN m.messages : ~(a.do = "delete" /\ i = a.id) => i \in DOMAIN v.messages
      /\ b.label \in DOMAIN v.labels
      /\ \A j \in DOMAIN v.labels : /\ j \in DOMAIN m.labels /\ v.labels[j] = m.labels[j]
                                    /\ a.do = "unlabel" => j # a.id
  BY Zenon DEF MailMended
<1>1. /\ \A q : Sent(rest, q) => Sent(todo, q)
      /\ \A q : Sent(todo, q) => Sent(rest, q)
      /\ \A q : Relabels(todo, q) => Relabels(rest, q) \/ (a.do = "relabel" /\ a.src = q)
      /\ \A i : Going(todo, i) => Going(rest, i) \/ (a.do = "delete" /\ a.id = i)
      /\ \A k : Unlabels(todo, k) => Unlabels(rest, k) \/ (a.do = "unlabel" /\ a.id = k)
  BY DEF rest, Sent, Relabels, Going, Unlabels
<1>. HIDE DEF rest
<1>2. \A q \in DOMAIN b.messages :
        b.messages[q].id \in DOMAIN m.messages => b.messages[q].id \in DOMAIN v.messages
  BY <1>0 DEF MailKept
<1>3. ASSUME NEW q \in Letters(cat), ~Sent(rest, q)
      PROVE  /\ MessageStands(v, b, q) /\ Threaded(rest, b, cat, q)
             /\ Relabels(rest, q) \/ LabelsStand(v, b, q)
  <2>1. /\ MessageStands(m, b, q) /\ Threaded(todo, b, cat, q)
        /\ Relabels(todo, q) \/ LabelsStand(m, b, q)
    BY <1>1, <1>3 DEF MailDue, LettersDue
  <2>2. q \in DOMAIN b.messages /\ b.messages[q].id \in DOMAIN v.messages
    BY <1>2, <2>1 DEF MessageStands
  <2>3. MessageStands(v, b, q)
    BY <1>0, <2>1, <2>2 DEF MessageStands
  <2>4. Threaded(rest, b, cat, q)
    BY <1>1, <2>1 DEF Threaded
  <2>5. Relabels(rest, q) \/ LabelsStand(v, b, q)
    <3>1. CASE a.do = "relabel" /\ a.src = q
      <4>1. b.messages[q].id = a.id
        BY <3>1 DEF rest, MailDue, Sendable
      <4>. QED BY <1>0, <2>2, <3>1, <4>1 DEF LabelsStand
    <3>2. CASE ~(a.do = "relabel" /\ a.src = q) /\ Relabels(todo, q)
      BY <1>1, <3>2
    <3>3. CASE LabelsStand(m, b, q)
      BY <1>0, <2>2, <3>3 DEF LabelsStand
    <3>. QED BY <2>1, <3>1, <3>2, <3>3
  <2>. QED BY <2>3, <2>4, <2>5
<1>4. LettersDue(rest, v, b, cat)
  BY <1>3 DEF LettersDue
<1>5. MessagesKnown(rest, v, b)
  <2>. SUFFICES ASSUME NEW i \in DOMAIN v.messages, ~Going(rest, i) PROVE Entered(b.messages, i)
    BY DEF MessagesKnown
  <2>1. ~Going(todo, i) /\ i \in DOMAIN m.messages
    BY <1>0, <1>1
  <2>. QED BY <2>1 DEF MailDue, MessagesKnown
<1>6. LabelsDue(rest, v, b, t)
  BY <1>0, <1>1 DEF MailDue, LabelsDue
<1>7. Sendable(rest, v, b, cat)
  <2>1. ASSUME NEW d \in rest, d.do = "relabel"
        PROVE  /\ d.src \in DOMAIN b.messages /\ b.messages[d.src].id = d.id
               /\ d.id \in DOMAIN v.messages /\ ~Sent(rest, d.src)
    <3>1. /\ d.src \in DOMAIN b.messages /\ b.messages[d.src].id = d.id
          /\ d.id \in DOMAIN m.messages /\ ~Sent(todo, d.src)
      BY <2>1 DEF rest, MailDue, Sendable
    <3>. QED BY <1>1, <1>2, <3>1
  <2>2. \A d \in rest : d.do = "import" /\ d.src \in DOMAIN b.messages =>
          b.messages[d.src].id \notin DOMAIN v.messages
    BY <1>0 DEF rest, MailDue, Sendable
  <2>3. /\ \A d \in rest : Sends(d) => d.rank = <<4, Order(cat, d.src)>>
        /\ \A d \in rest : d.do = "unlabel" => d.id # b.label
    BY DEF rest, MailDue, Sendable
  <2>. QED BY <2>1, <2>2, <2>3 DEF Sendable
<1>. QED BY <1>4, <1>5, <1>6, <1>7 DEF MailDue, rest

LEMMA LabelsExcept ==
  ASSUME NEW o, IsMessage(o), NEW x
  PROVE  LET e == [o EXCEPT !.labels = x]
         IN /\ e.whole = o.whole /\ e.sent = o.sent /\ e.placed = o.placed /\ e.labels = x
<1>. DEFINE e == [o EXCEPT !.labels = x]
<1>1. o = [src |-> o.src, whole |-> o.whole, thread |-> o.thread, labels |-> o.labels,
           placed |-> o.placed, sent |-> o.sent, draft |-> o.draft]
  BY DEF IsMessage
<1>2. e = [src |-> o.src, whole |-> o.whole, thread |-> o.thread, labels |-> x,
           placed |-> o.placed, sent |-> o.sent, draft |-> o.draft]
  BY <1>1
<1>. HIDE DEF e
<1>3. e.whole = o.whole /\ e.sent = o.sent /\ e.placed = o.placed /\ e.labels = x
  BY <1>2
<1>. QED BY <1>3 DEF e

LEMMA MailCallDue ==
  ASSUME NEW m, IsMailbox(m), NEW b, NEW t, NEW cat, IsArchive(cat), IsMailBook(b, cat),
         OwnMail(m, b), NEW todo, MailTodo(todo, cat), MailKept(todo, m, b),
         MailDue(todo, m, b, t, cat), NEW a \in todo,
         \A o \in todo : \/ a.rank[1] < o.rank[1]
                         \/ a.rank[1] = o.rank[1] /\ a.rank[2] <= o.rank[2],
         NEW n, n \notin DOMAIN m.messages, \A q \in DOMAIN b.messages : b.messages[q].id # n,
         NEW r, r = MailDone(a, m, b, cat, n)
  PROVE  MailDue(todo \ {a}, r.world, r.book, t, cat)
<1>1. a.do \in {"import", "reimport", "relabel", "delete", "unlabel"}
  BY DEF MailTodo
<1>2. /\ m = [messages |-> m.messages, labels |-> m.labels]
      /\ b = [label |-> b.label, messages |-> b.messages]
  BY DEF IsMailbox, IsMailBook
<1>3. CASE a.do = "import"
  <2>1. r = MailImported(m, b, cat, a.src, n)
    BY <1>3 DEF MailDone
  <2>2. Freed(a, m, b, m, b)
    BY <1>2, <1>3 DEF Freed
  <2>. QED BY <1>3, <2>1, <2>2, SendDue DEF Sends
<1>4. CASE a.do = "reimport"
  <2>. DEFINE v == MailWithout(m, a.id)
              c == Forgotten(b, a.src)
  <2>1. r = MailImported(v, c, cat, a.src, n)
    BY <1>4 DEF MailDone
  <2>2. /\ v = [messages |-> v.messages, labels |-> v.labels] /\ v.labels = m.labels
        /\ DOMAIN v.messages = DOMAIN m.messages \ {a.id}
        /\ \A i \in DOMAIN v.messages : v.messages[i] = m.messages[i]
    BY <1>2 DEF MailWithout
  <2>3. /\ c = [label |-> c.label, messages |-> c.messages] /\ c.label = b.label
        /\ DOMAIN c.messages = DOMAIN b.messages \ {a.src}
        /\ \A q \in DOMAIN c.messages : c.messages[q] = b.messages[q]
    BY <1>2 DEF Forgotten
  <2>. HIDE DEF v, c
  <2>4. Freed(a, m, b, v, c)
    BY <1>4, <2>2, <2>3 DEF Freed
  <2>. QED BY <1>4, <2>1, <2>4, SendDue DEF Sends
<1>6. b.label \in DOMAIN m.labels
  BY DEF MailDue, LabelsDue
<1>7. CASE a.do = "relabel"
  <2>. DEFINE e == Relabelled(m.messages[a.id], b.label)
              f == [m.messages EXCEPT ![a.id] = e]
  <2>1. r = [world |-> [m EXCEPT !.messages[a.id] = e], book |-> b]
    BY <1>7 DEF MailDone
  <2>2. a.id \in DOMAIN m.messages
    BY <1>7 DEF MailDue, Sendable
  <2>3. /\ e.whole = m.messages[a.id].whole /\ e.sent = m.messages[a.id].sent /\ e.placed
        /\ b.label \in e.labels
    <3>. DEFINE o == m.messages[a.id]
    <3>1. IsMessage(o)
      BY <2>2 DEF IsMailbox
    <3>2. o = [src |-> o.src, whole |-> o.whole, thread |-> o.thread, labels |-> o.labels,
               placed |-> o.placed, sent |-> o.sent, draft |-> o.draft]
      BY <3>1 DEF IsMessage
    <3>3. e = Relabelled(o, b.label)
      OBVIOUS
    <3>. HIDE DEF e, o
    <3>4. e = [src |-> o.src, whole |-> o.whole, thread |-> o.thread, labels |-> o.labels \cup {b.label},
               placed |-> TRUE, sent |-> o.sent, draft |-> o.draft]
      BY <3>2, <3>3 DEF Relabelled
    <3>5. e.whole = o.whole /\ e.sent = o.sent /\ e.placed /\ b.label \in e.labels
      BY <3>4
    <3>. QED BY <3>5 DEF o
  <2>. HIDE DEF e
  <2>4. r.world.messages = f /\ r.world.labels = m.labels /\ r.book = b
    BY <1>2, <2>1
  <2>5. DOMAIN f = DOMAIN m.messages /\ f[a.id] = e
        /\ \A i \in DOMAIN f : i # a.id => f[i] = m.messages[i]
    BY <2>2
  <2>. HIDE DEF f
  <2>6. MailMended(a, m, r.world, b.label)
    BY <1>6, <1>7, <2>3, <2>4, <2>5 DEF MailMended
  <2>. QED BY <1>7, <2>4, <2>6, MendDue DEF Sends
<1>8. CASE a.do = "delete"
  <2>. DEFINE v == MailWithout(m, a.id)
  <2>1. r = [world |-> v, book |-> b]
    BY <1>8 DEF MailDone
  <2>2. /\ v.labels = m.labels
        /\ DOMAIN v.messages = DOMAIN m.messages \ {a.id}
        /\ \A i \in DOMAIN v.messages : v.messages[i] = m.messages[i]
    BY <1>2 DEF MailWithout
  <2>. HIDE DEF v
  <2>3. MailMended(a, m, v, b.label)
    BY <1>6, <1>8, <2>2 DEF MailMended
  <2>. QED BY <1>8, <2>1, <2>3, MendDue DEF Sends
<1>9. CASE a.do = "unlabel"
  <2>. DEFINE v == LabelDeleted(m, a.id)
              f == [i \in DOMAIN m.messages |-> [m.messages[i] EXCEPT !.labels = @ \ {a.id}]]
              g == [j \in DOMAIN m.labels \ {a.id} |-> m.labels[j]]
  <2>1. r = [world |-> v, book |-> b]
    BY <1>9 DEF MailDone
  <2>2. v.messages = f /\ v.labels = g
    BY DEF LabelDeleted
  <2>3. a.id # b.label
    BY <1>9 DEF MailDue, Sendable
  <2>4. ASSUME NEW i \in DOMAIN f
        PROVE  /\ f[i].whole = m.messages[i].whole /\ f[i].sent = m.messages[i].sent
               /\ f[i].placed = m.messages[i].placed
               /\ b.label \in m.messages[i].labels => b.label \in f[i].labels
    <3>. DEFINE o == m.messages[i]
                e == [o EXCEPT !.labels = @ \ {a.id}]
    <3>1. IsMessage(o) /\ f[i] = e
      BY DEF IsMailbox
    <3>. HIDE DEF f, o
    <3>4. /\ e.whole = o.whole /\ e.sent = o.sent /\ e.placed = o.placed
          /\ e.labels = o.labels \ {a.id}
      BY <3>1, LabelsExcept
    <3>. HIDE DEF e
    <3>5. f[i] = e
      BY <3>1
    <3>. QED BY <2>3, <3>4, <3>5 DEF o
  <2>5. DOMAIN f = DOMAIN m.messages
    OBVIOUS
  <2>6. DOMAIN g = DOMAIN m.labels \ {a.id} /\ \A k \in DOMAIN g : g[k] = m.labels[k]
    OBVIOUS
  <2>. HIDE DEF v, f, g
  <2>7. MailMended(a, m, v, b.label)
    BY <1>6, <1>9, <2>2, <2>3, <2>4, <2>5, <2>6 DEF MailMended
  <2>. QED BY <1>9, <2>1, <2>7, MendDue DEF Sends
<1>. QED BY <1>1, <1>3, <1>4, <1>7, <1>8, <1>9

\* When no call is left, the mailbox passes the read-back.
LEMMA MailPaid ==
  ASSUME NEW m, IsMailbox(m), NEW b, NEW t \in Nat \ {0}, NEW cat, IsArchive(cat),
         IsMailBook(b, cat), OwnMail(m, b), MailDue({}, m, b, t, cat)
  PROVE  MailVerified(m, b, t, cat)
<1>. DEFINE I(s) == b.messages[s].id
<1>1. \A s \in Letters(cat) :
        MessageStands(m, b, s) /\ Threaded({}, b, cat, s) /\ LabelsStand(m, b, s)
  BY DEF MailDue, LettersDue, Sent, Relabels
<1>2. \A i \in DOMAIN m.messages : Entered(b.messages, i)
  BY DEF MailDue, MessagesKnown, Going
<1>3. b.label \in DOMAIN m.labels /\ \A k \in DOMAIN m.labels : m.labels[k] = t
  BY DEF MailDue, LabelsDue, Unlabels
<1>4. ASSUME NEW s \in Letters(cat)
      PROVE  /\ s \in DOMAIN b.messages /\ I(s) \in DOMAIN m.messages
             /\ m.messages[I(s)].src = s /\ m.messages[I(s)].thread = b.messages[s].thread
             /\ KnownMail(m, b, s) = {I(s)}
  BY <1>1 DEF MessageStands, OwnMail, KnownMail
<1>5. ASSUME NEW i \in DOMAIN m.messages
      PROVE  \E s \in Letters(cat) : i = I(s)
  <2>1. PICK s \in DOMAIN b.messages : b.messages[s].id = i
    BY <1>2 DEF Entered
  <2>. QED BY <2>1 DEF IsMailBook
<1>6. ASSUME NEW s \in Letters(cat)
      PROVE  /\ KnownMail(m, b, s) # {}
             /\ HeadersHold(m, s, I(s)) /\ b.label \in m.messages[I(s)].labels
             /\ m.messages[I(s)].placed /\ m.messages[I(s)].sent
  BY <1>1, <1>4 DEF MessageStands, LabelsStand, HeadersHold
<1>7. ASSUME NEW s \in Letters(cat), cat.parent[s] # NoLetter,
             NEW j \in KnownMail(m, b, cat.parent[s])
      PROVE  m.messages[j].thread = m.messages[I(s)].thread
  <2>. DEFINE p == cat.parent[s]
  <2>1. p \in Letters(cat)
    BY <1>7, OrderIs
  <2>2. j = I(p) /\ b.messages[s].thread = b.messages[p].thread
    BY <1>1, <1>4, <1>7, <2>1 DEF Threaded
  <2>. HIDE DEF p, I
  <2>. QED BY <1>4, <2>1, <2>2
<1>8. ASSUME NEW s \in Letters(cat)
      PROVE  Cardinality({i \in DOMAIN m.messages : m.messages[i].src = s}) = 1
  <2>. DEFINE S == {i \in DOMAIN m.messages : m.messages[i].src = s}
  <2>1. S = {I(s)}
    <3>1. ASSUME NEW i \in S PROVE i = I(s)
      <4>1. PICK q \in Letters(cat) : i = I(q)
        BY <1>5
      <4>. QED BY <1>4, <4>1
    <3>. QED BY <1>4, <3>1
  <2>. HIDE DEF S
  <2>. QED BY <2>1, FS_Singleton DEF S
<1>9. Cardinality(DOMAIN m.labels) = 1
  <2>1. DOMAIN m.labels = {b.label}
    BY <1>3 DEF IsMailbox, IsLabels
  <2>. QED BY <2>1, FS_Singleton
<1>10. DOMAIN m.messages \subseteq {b.messages[s].id : s \in Letters(cat)}
  BY <1>5
<1>. QED BY <1>3, <1>6, <1>7, <1>8, <1>9, <1>10 DEF MailVerified

\* A mailbox that passes the read-back gives the next delta nothing to do.
LEMMA MailSettled ==
  ASSUME NEW m, IsMailbox(m), NEW b, NEW t, NEW cat, IsArchive(cat),
         MailVerified(m, b, t, cat)
  PROVE  MailPlan(m, b, t, cat) = [ok |-> TRUE, todo |-> {}]
<1>. DEFINE I(s) == b.messages[s].id
            K(s) == Canonical(m, b, s)
<1>1. ASSUME NEW s \in Letters(cat)
      PROVE  /\ s \in DOMAIN b.messages /\ I(s) \in DOMAIN m.messages
             /\ KnownMail(m, b, s) = {I(s)}
             /\ m.messages[I(s)].src = s /\ m.messages[I(s)].whole
             /\ m.messages[I(s)].placed /\ m.messages[I(s)].sent
             /\ b.label \in m.messages[I(s)].labels
             /\ cat.parent[s] # NoLetter =>
                  \A j \in KnownMail(m, b, cat.parent[s]) :
                    m.messages[j].thread = m.messages[I(s)].thread
  BY LetterPasses
<1>2. \A i \in DOMAIN m.messages : \E s \in Letters(cat) : i = I(s)
  BY DEF MailVerified
<1>3. \A k \in DOMAIN m.labels : m.labels[k] = t
  BY DEF MailVerified
<1>. HIDE DEF I
<1>4. ASSUME NEW s \in Letters(cat)
      PROVE  Lookalikes(m, b, s) = {} /\ K(s) = {I(s)}
  <2>1. ASSUME NEW i \in DOMAIN m.messages, m.messages[i].src = s PROVE i = I(s)
    BY <1>1, <1>2, <2>1
  <2>. QED BY <1>1, <2>1 DEF Lookalikes, Canonical
<1>5. ASSUME NEW s \in Letters(cat) PROVE MailUnambiguous(m, b, s)
  <2>1. Cardinality({I(s)}) = 1
    BY FS_Singleton
  <2>2. Cardinality(K(s)) = 1
    BY <1>4, <2>1, Zenon
  <2>3. Cardinality(K(s)) <= 1
    BY <2>2
  <2>. QED BY <1>4, <2>3 DEF MailUnambiguous
<1>6. Missing(m, b, cat) = {}
  BY <1>4 DEF Missing
<1>7. Spoiled(m, b, cat) = {}
  <2>. SUFFICES ASSUME NEW s \in Letters(cat), NEW i \in K(s)
                PROVE  /\ HeadersHold(m, s, i) /\ m.messages[i].sent
                       /\ ThreadHolds(m, b, cat, s, i)
    BY DEF Spoiled
  <2>1. i = I(s)
    BY <1>4
  <2>2. ThreadHolds(m, b, cat, s, i)
    <3>1. cat.parent[s] # NoLetter =>
            cat.parent[s] \in Letters(cat) /\ Canonical(m, b, cat.parent[s]) = KnownMail(m, b, cat.parent[s])
      BY <1>1, <1>4, OrderIs
    <3>. QED BY <1>1, <2>1, <3>1 DEF ThreadHolds
  <2>. QED BY <1>1, <2>1, <2>2 DEF HeadersHold
<1>8. Rebuilt(m, b, cat) = {}
  BY <1>6, <1>7 DEF Rebuilt
<1>9. Mislabelled(m, b, cat) = {}
  BY <1>1, <1>4 DEF Mislabelled
<1>10. ASSUME NEW i \in DOMAIN m.messages PROVE ~m.messages[i].draft
  <2>1. PICK s \in Letters(cat) : m.messages[i].src = s
    BY <1>1, <1>2
  <2>2. NoLetter \notin Letters(cat)
    BY DEF IsArchive
  <2>. QED BY <2>1, <2>2 DEF IsMailbox, IsMessage
<1>. HIDE DEF K
<1>11. ASSUME NEW a \in MailPlan(m, b, t, cat).todo PROVE FALSE
  <2>1. \/ \E s \in Letters(cat) : K(s) = {}
        \/ \E s \in Letters(cat) : s \in Rebuilt(m, b, cat)
        \/ \E s \in Letters(cat) : s \in Mislabelled(m, b, cat)
        \/ \E i \in DOMAIN m.messages : \A s \in Letters(cat) : i \notin K(s)
        \/ \E i \in DOMAIN m.messages : m.messages[i].draft
        \/ \E k \in DOMAIN m.labels : m.labels[k] # t
    BY <1>11 DEF MailPlan, BaselineLabels, K
  <2>. QED BY <1>2, <1>3, <1>4, <1>8, <1>9, <1>10, <2>1
<1>12. MailPlan(m, b, t, cat) = [ok |-> MailPlan(m, b, t, cat).ok, todo |-> MailPlan(m, b, t, cat).todo]
  BY DEF MailPlan
<1>13. MailPlan(m, b, t, cat).ok = TRUE
  BY <1>5 DEF MailPlan
<1>. QED BY <1>11, <1>12, <1>13

-----------------------------------------------------------------------------
(* What a delta still owes Drive.                                          *)

\* The object entered for path p has its name, its mark and its bytes.
Shaped(w, b, t, files, p) ==
  /\ Present(w, b, p)
  /\ w[b[p].id].name = Last(p) /\ ~w[b[p].id].binned
  /\ w[b[p].id].mark = [tag |-> t, path |-> p]
  /\ p \in files => SameBytes(b, files, p, w[b[p].id])

ObjectsDue(todo, w, b, t, files) ==
  \A p \in Paths(files) : Pending(todo, p) \/ Shaped(w, b, t, files, p)
ObjectsKnown(todo, w, b) == \A i \in DOMAIN w : Entered(b, i) \/ Going(todo, i)

\* Only a file with the right bytes is mended without new ones.
Mendable(todo, w, b, files) ==
  \A a \in todo : a.do = "patch" /\ a.path \in files /\ a.id \in DOMAIN w =>
                    SameBytes(b, files, a.path, w[a.id])

DriveDue(todo, w, b, t, files) ==
  /\ ~NamesTwice(b) /\ Whole(todo, w, b, files)
  /\ ObjectsDue(todo, w, b, t, files) /\ ObjectsKnown(todo, w, b) /\ Mendable(todo, w, b, files)

\* What the plan leaves as it is, what it only mends, and what it takes away.
LEMMA PlanMends ==
  ASSUME NEW w, NEW b, NEW t, NEW files, NEW todo, todo = DrivePlan(w, b, t, files).todo
  PROVE  /\ \A p \in Paths(files) : \A i \in Claimed(w, b, t, p) :
              \/ Pending(todo, p)
              \/ Placed(w, b, t, p, i) /\ (p \in files => SameBytes(b, files, p, w[i]))
         /\ \A a \in todo : a.do = "patch" =>
              /\ a.path \in Paths(files) /\ a.id \in Claimed(w, b, t, a.path)
              /\ a.path \in files => SameBytes(b, files, a.path, w[a.id])
         /\ \A i \in DOMAIN w :
              Going(todo, i) \/ \E p \in Paths(files) : i \in Claimed(w, b, t, p)
<1>. DEFINE Same(p, i) == SameBytes(b, files, p, w[i]) \/ p \notin files
            Fit(p, i) == Placed(w, b, t, p, i) /\ (p \in files => SameBytes(b, files, p, w[i]))
            old(p, i) == [do |-> IF Same(p, i) THEN "patch" ELSE "replace",
                          path |-> p, id |-> i, rank |-> Rank(files, p)]
            gone(i) == [do |-> "delete", path |-> <<>>, id |-> i, rank |-> RemovalRank(w, i)]
            C == Creates(w, b, t, files)
            R == Repairs(w, b, t, files)
            X == Removals(w, b, t, files)
<1>1. todo = C \cup R \cup X
  BY DEF DrivePlan
<1>2. \A a \in C : a.do = "create"
  BY DEF Creates
<1>3. /\ \A p \in Paths(files) : \A i \in Claimed(w, b, t, p) : ~Fit(p, i) => old(p, i) \in R
      /\ \A a \in R : \E p \in Paths(files) : \E i \in Claimed(w, b, t, p) : a = old(p, i)
  BY DEF Repairs
<1>4. /\ \A a \in X : \E i \in DOMAIN w : a = gone(i)
      /\ \A i \in DOMAIN w : (\A p \in Paths(files) : i \notin Claimed(w, b, t, p)) => gone(i) \in X
  BY DEF Removals
<1>. HIDE DEF C, R, X
<1>5. ASSUME NEW p \in Paths(files), NEW i \in Claimed(w, b, t, p), ~Fit(p, i)
      PROVE  Pending(todo, p)
  <2>1. old(p, i) \in todo
    BY <1>1, <1>3, <1>5
  <2>2. Building(old(p, i)) /\ old(p, i).path = p
    BY DEF Building
  <2>. QED BY <2>1, <2>2 DEF Pending
<1>6. ASSUME NEW a \in todo, a.do = "patch"
      PROVE  /\ a.path \in Paths(files) /\ a.id \in Claimed(w, b, t, a.path)
             /\ a.path \in files => SameBytes(b, files, a.path, w[a.id])
  <2>1. a \in R
    BY <1>1, <1>2, <1>4, <1>6
  <2>2. PICK p \in Paths(files) : \E i \in Claimed(w, b, t, p) : a = old(p, i)
    BY <1>3, <2>1
  <2>3. PICK i \in Claimed(w, b, t, p) : a = old(p, i)
    BY <2>2
  <2>4. a.path = p /\ a.id = i /\ Same(p, i)
    <3>. HIDE DEF Same
    <3>. QED BY <1>6, <2>3
  <2>. QED BY <2>4
<1>7. ASSUME NEW i \in DOMAIN w, \A p \in Paths(files) : i \notin Claimed(w, b, t, p)
      PROVE  Going(todo, i)
  <2>1. gone(i) \in todo
    BY <1>1, <1>4, <1>7
  <2>2. gone(i).do = "delete" /\ gone(i).id = i
    OBVIOUS
  <2>. QED BY <2>1, <2>2 DEF Going
<1>. QED BY <1>5, <1>6, <1>7

LEMMA DrivePlanDue ==
  ASSUME NEW w, IsDrive(w), NEW b, NEW t,
         NEW files, ProperNames(files), DOMAIN b \subseteq Paths(files), TreeFit(w, b, t, files),
         \A p \in Paths(files) : Unambiguous(w, b, t, files, p),
         NEW b2, b2 = DriveAdopted(w, b, t, files), ~NamesTwice(b2),
         NEW todo, todo = DrivePlan(w, b, t, files).todo
  PROVE  DriveDue(todo, w, b2, t, files)
<1>0. files \subseteq Seq(STRING) \ {<<>>} /\ IsFiniteSet(DOMAIN w)
  BY DEF ProperNames, IsDrive
<1>1. Whole(todo, w, b2, files)
  BY TreeAdopts
<1>2. ASSUME NEW p \in Paths(files), Claimed(w, b, t, p) # {}
      PROVE  Present(w, b2, p) /\ Claimed(w, b, t, p) = {b2[p].id}
  BY <1>0, <1>2, TakenIs
<1>3. ASSUME NEW p \in Paths(files), NEW i, Claimed(w, b, t, p) = {i},
             SameBytes(b, files, p, w[i]), p \in files
      PROVE  SameBytes(b2, files, p, w[i])
  <2>1. p \in DOMAIN b2 /\ i = b2[p].id
    BY <1>2, <1>3 DEF Present
  <2>2. CASE EntryKept(w, b, t, b2, p)
    BY <1>3, <2>1, <2>2 DEF EntryKept, SameBytes, Asked
  <2>3. CASE Known(w, b, p) = {}
    <3>. DEFINE x == CHOOSE j \in Claimed(w, b, t, p) : TRUE
    <3>1. b2[p] = [id |-> x, bytes |-> w[x].bytes]
      BY <1>3, <2>1, <2>3 DEF DriveAdopted
    <3>2. x = i
      BY <1>3
    <3>. HIDE DEF x
    <3>3. b2[p].bytes = w[i].bytes
      BY <3>1, <3>2
    <3>. QED BY <1>3, <2>1, <3>3 DEF SameBytes, Asked
  <2>. QED BY <1>0, <2>1, <2>2, <2>3, EntryIs DEF Adopted
<1>4. ASSUME NEW p \in Paths(files), ~Pending(todo, p)
      PROVE  Shaped(w, b2, t, files, p)
  <2>. DEFINE i == b2[p].id
  <2>1. Claimed(w, b, t, p) # {}
    BY <1>4, PlanCalls
  <2>2. Present(w, b2, p) /\ Claimed(w, b, t, p) = {i} /\ i \in DOMAIN w
    BY <1>2, <2>1 DEF Present
  <2>3. Placed(w, b, t, p, i) /\ (p \in files => SameBytes(b, files, p, w[i]))
    BY <1>4, <2>2, PlanMends
  <2>4. ~w[i].binned
    BY <1>0, <2>2, <2>3, LineBegins DEF Placed, Trashed
  <2>. QED BY <1>3, <2>2, <2>3, <2>4 DEF Shaped, Placed
<1>5. ASSUME NEW i \in DOMAIN w, ~Going(todo, i)
      PROVE  Entered(b2, i)
  <2>1. PICK p \in Paths(files) : i \in Claimed(w, b, t, p)
    BY <1>5, PlanMends
  <2>2. p \in DOMAIN b2 /\ b2[p].id = i
    BY <1>2, <2>1 DEF Present
  <2>. QED BY <2>2 DEF Entered
<1>6. ASSUME NEW a \in todo, a.do = "patch", a.path \in files
      PROVE  SameBytes(b2, files, a.path, w[a.id])
  <2>1. a.path \in Paths(files) /\ a.id \in Claimed(w, b, t, a.path)
    BY <1>6, PlanMends
  <2>2. Claimed(w, b, t, a.path) = {a.id}
    BY <1>2, <2>1
  <2>3. SameBytes(b, files, a.path, w[a.id])
    BY <1>6, PlanMends
  <2>. QED BY <1>3, <1>6, <2>1, <2>2, <2>3
<1>. QED BY <1>1, <1>4, <1>5, <1>6 DEF DriveDue, ObjectsDue, ObjectsKnown, Mendable

\* What the calls of a delta leave, one by one.
Parts(todo, w, b, t, files) ==
  ObjectsDue(todo, w, b, t, files) /\ ObjectsKnown(todo, w, b) /\ Mendable(todo, w, b, files)

LEMMA MakesDue ==
  ASSUME NEW w, NEW b, NEW t, NEW files, NEW todo, NEW a, a \in todo,
         DriveTodo(todo, w, b, files), DriveDue(todo, w, b, t, files),
         a.do \in {"create", "replace"}, NEW x, Replaced(a, w, b, files, x),
         NEW w1, DOMAIN w1 = DOMAIN w \ {x}, \A i \in DOMAIN w1 : w1[i] = w[i],
         NEW n, n \notin DOMAIN w, \A q \in DOMAIN b : b[q].id # n,
         NEW r, r = DriveCreated(w1, b, t, files, a.path, n)
  PROVE  Parts(todo \ {a}, r.world, r.book, t, files)
<1>. DEFINE p == a.path
            o == NewObject(b, t, files, p)
            v == r.world
            c == r.book
<1>1. /\ DOMAIN v = DOMAIN w1 \cup {n} /\ v[n] = o /\ \A i \in DOMAIN w1 : v[i] = w[i]
      /\ DOMAIN c = DOMAIN b \cup {p} /\ c[p].id = n /\ c[p].bytes = o.bytes
      /\ \A q \in DOMAIN b : q # p => c[q] = b[q]
  <2>. HIDE DEF o
  <2>. QED BY DEF DriveCreated, Put, o
<1>2. /\ o.name = Last(p) /\ ~o.binned /\ o.mark = [tag |-> t, path |-> p]
      /\ p \in files => o.bytes = Base(p)
  BY DEF NewObject
<1>3. ~NamesTwice(b)
  BY DEF DriveDue
<1>4. \A d \in todo : d.do = "patch" => d.path \in DOMAIN b /\ b[d.path].id = d.id /\ d.path # p
  BY DEF DriveTodo
<1>5. \A q : Pending(todo, q) => Pending(todo \ {a}, q) \/ q = p
  BY PendingLess
<1>6. Replaced(a, w, b, files, x)
  OBVIOUS
<1>7. \A i : Going(todo, i) => Going(todo \ {a}, i)
  BY DEF Going
<1>. HIDE DEF o, v, c
<1>8. ASSUME NEW q \in DOMAIN b, q # p, b[q].id \in DOMAIN w
      PROVE  b[q].id \in DOMAIN w1
  BY <1>3, <1>6, <1>8 DEF NamesTwice, Replaced
<1>9. ASSUME NEW q \in DOMAIN b, q # p
      PROVE  Asked(c, files, q) = Asked(b, files, q)
  BY <1>1, <1>9 DEF Asked
<1>10. ASSUME NEW q, q # p, Shaped(w, b, t, files, q) PROVE Shaped(v, c, t, files, q)
  <2>1. q \in DOMAIN b /\ b[q].id \in DOMAIN w
    BY <1>10 DEF Shaped, Present
  <2>2. q \in DOMAIN c /\ c[q] = b[q] /\ b[q].id \in DOMAIN v /\ v[b[q].id] = w[b[q].id]
    BY <1>1, <1>8, <1>10, <2>1
  <2>3. Asked(c, files, q) = Asked(b, files, q)
    BY <1>9, <1>10, <2>1
  <2>. QED BY <1>10, <2>2, <2>3 DEF Shaped, Present, SameBytes
<1>11. Shaped(v, c, t, files, p)
  BY <1>1, <1>2 DEF Shaped, Present, SameBytes, Asked
<1>12. ObjectsDue(todo \ {a}, v, c, t, files)
  <2>1. ObjectsDue(todo, w, b, t, files)
    BY DEF DriveDue
  <2>. HIDE DEF p
  <2>. QED BY <1>5, <1>10, <1>11, <2>1 DEF ObjectsDue
<1>13. ASSUME NEW i \in DOMAIN v PROVE Entered(c, i) \/ Going(todo \ {a}, i)
  <2>1. CASE i = n
    BY <1>1, <2>1 DEF Entered
  <2>2. CASE i # n
    <3>1. i \in DOMAIN w1 /\ i \in DOMAIN w /\ i # x
      BY <1>1, <1>13, <2>2
    <3>2. Entered(b, i) \/ Going(todo, i)
      BY <3>1 DEF DriveDue, ObjectsKnown
    <3>3. ASSUME Entered(b, i) PROVE Entered(c, i)
      <4>1. PICK q \in DOMAIN b : b[q].id = i
        BY <3>3 DEF Entered
      <4>2. q # p
        BY <1>6, <3>1, <4>1 DEF Replaced, Known
      <4>. QED BY <1>1, <4>1, <4>2 DEF Entered
    <3>. QED BY <1>7, <3>2, <3>3
  <2>. QED BY <2>1, <2>2
<1>14. ASSUME NEW d \in todo \ {a}, d.do = "patch", d.path \in files, d.id \in DOMAIN v
       PROVE  SameBytes(c, files, d.path, v[d.id])
  <2>1. d.path \in DOMAIN b /\ b[d.path].id = d.id /\ d.path # p
    BY <1>4, <1>14
  <2>2. d.id # n
    BY <2>1
  <2>3. d.id \in DOMAIN w /\ v[d.id] = w[d.id]
    BY <1>1, <1>14, <2>2
  <2>4. SameBytes(b, files, d.path, w[d.id])
    BY <1>14, <2>3 DEF DriveDue, Mendable
  <2>5. Asked(c, files, d.path) = Asked(b, files, d.path)
    BY <1>9, <2>1
  <2>. QED BY <2>3, <2>4, <2>5 DEF SameBytes
<1>15. Parts(todo \ {a}, v, c, t, files)
  BY <1>12, <1>13, <1>14 DEF Parts, ObjectsKnown, Mendable
<1>. QED BY <1>15 DEF v, c

LEMMA PatchDue ==
  ASSUME NEW w, NEW b, NEW t, NEW files, NEW todo, NEW a, a \in todo,
         DriveTodo(todo, w, b, files), DriveDue(todo, w, b, t, files),
         a.do = "patch", a.id \in DOMAIN w,
         NEW v, MendedOne(w, v, b, t, a.path, a.id)
  PROVE  Parts(todo \ {a}, v, b, t, files)
<1>. DEFINE p == a.path
            i == a.id
<1>1. /\ DOMAIN v = DOMAIN w /\ \A j \in DOMAIN w : j # i => v[j] = w[j]
      /\ v[i].name = Last(p) /\ ~v[i].binned /\ v[i].mark = [tag |-> t, path |-> p]
      /\ v[i].bytes = w[i].bytes
  BY DEF MendedOne, Mended
<1>2. ~NamesTwice(b) /\ p \in DOMAIN b /\ b[p].id = i
  BY DEF DriveDue, DriveTodo
<1>3. \A d \in todo : d.do = "patch" => d.path \in DOMAIN b /\ b[d.path].id = d.id
  BY DEF DriveTodo
<1>4. \A q : Pending(todo, q) => Pending(todo \ {a}, q) \/ q = p
  BY PendingLess
<1>5. \A j : Going(todo, j) => Going(todo \ {a}, j)
  BY DEF Going
<1>6. p \in files => SameBytes(b, files, p, w[i])
  BY DEF DriveDue, Mendable
<1>7. i \in DOMAIN w
  OBVIOUS
<1>. HIDE DEF p, i
<1>8. \A q, j : SameBytes(b, files, q, w[j]) /\ w[j].bytes = v[j].bytes => SameBytes(b, files, q, v[j])
  BY DEF SameBytes
<1>9. \A j \in DOMAIN w : v[j].bytes = w[j].bytes
  BY <1>1
<1>10. ASSUME NEW q, q # p, Shaped(w, b, t, files, q) PROVE Shaped(v, b, t, files, q)
  <2>1. q \in DOMAIN b /\ b[q].id \in DOMAIN w
    BY <1>10 DEF Shaped, Present
  <2>2. b[q].id # i
    BY <1>2, <1>10, <2>1 DEF NamesTwice
  <2>3. v[b[q].id] = w[b[q].id]
    BY <1>1, <2>1, <2>2
  <2>. QED BY <1>1, <1>10, <2>3 DEF Shaped, Present
<1>11. Shaped(v, b, t, files, p)
  BY <1>1, <1>2, <1>6, <1>7, <1>8 DEF Shaped, Present
<1>12. ObjectsDue(todo \ {a}, v, b, t, files)
  <2>1. ObjectsDue(todo, w, b, t, files)
    BY DEF DriveDue
  <2>. QED BY <1>4, <1>10, <1>11, <2>1 DEF ObjectsDue
<1>13. ObjectsKnown(todo \ {a}, v, b)
  BY <1>1, <1>5 DEF DriveDue, ObjectsKnown
<1>14. Mendable(todo \ {a}, v, b, files)
  BY <1>1, <1>8, <1>9 DEF DriveDue, Mendable
<1>. QED BY <1>12, <1>13, <1>14 DEF Parts

LEMMA DeleteDue ==
  ASSUME NEW w, IsFiniteSet(DOMAIN w), NEW b, NEW t, NEW files, NEW todo, NEW a, a \in todo,
         a.do = "delete", \A d \in todo : ~Building(d), DriveDue(todo, w, b, t, files),
         NEW v, v = Without(w, a.id), Whole(todo \ {a}, v, b, files)
  PROVE  Parts(todo \ {a}, v, b, t, files)
<1>1. DOMAIN v \subseteq DOMAIN w \ {a.id} /\ \A i \in DOMAIN v : v[i] = w[i]
  BY WithoutIs
<1>2. ASSUME NEW q \in Paths(files) PROVE Shaped(v, b, t, files, q)
  <2>1. Shaped(w, b, t, files, q)
    BY DEF DriveDue, ObjectsDue, Pending
  <2>2. Present(v, b, q)
    BY DEF Whole, Pending, Settled
  <2>3. v[b[q].id] = w[b[q].id]
    BY <1>1, <2>2 DEF Present
  <2>. QED BY <2>1, <2>2, <2>3 DEF Shaped
<1>3. ASSUME NEW i \in DOMAIN v PROVE Entered(b, i) \/ Going(todo \ {a}, i)
  BY <1>1 DEF DriveDue, ObjectsKnown, Going
<1>4. \A d \in todo : d.do # "patch"
  BY DEF Building
<1>. QED BY <1>2, <1>3, <1>4 DEF Parts, ObjectsDue, ObjectsKnown, Mendable

LEMMA DriveCallDue ==
  ASSUME NEW w, IsDrive(w), NEW b, NEW t, NEW files, ProperNames(files),
         DOMAIN b \subseteq Paths(files),
         NEW todo, NEW a, Poised(todo, a, w, b, t, files), DriveAnswers(a, w),
         NEW n, n # Root, n \notin DOMAIN w, \A q \in DOMAIN b : b[q].id # n,
         DriveDue(todo, w, b, t, files),
         NEW r, r = DriveDone(a, w, b, t, files, n)
  PROVE  DriveDue(todo \ {a}, r.world, r.book, t, files)
<1>1. /\ a.do \in {"create", "patch", "replace", "delete"} /\ TreeFit(w, b, t, files)
      /\ a \in todo /\ DriveTodo(todo, w, b, files) /\ IsFiniteSet(DOMAIN w)
      /\ a.do = "create" => Known(w, b, a.path) = {}
      /\ a.do \in {"patch", "replace"} => a.path \in DOMAIN b /\ b[a.path].id = a.id
      /\ a.do = "replace" => a.path \in files
  BY DEF Poised, DriveTodo, PlanDue, Ranked, Building, IsDrive
<1>2. CallOutcome(todo, a, w, b, t, files, n)
  BY DriveKeepsOrder
<1>3. ~NamesTwice(r.book) /\ Whole(todo \ {a}, r.world, r.book, files)
  <2>1. Holding(todo, a, w, b, files, r.world, r.book)
    BY <1>2, Zenon DEF CallOutcome
  <2>. QED BY <2>1 DEF Holding, DriveDue
<1>4. ASSUME NEW x, Replaced(a, w, b, files, x), a.do \in {"create", "replace"},
             NEW w1, DOMAIN w1 = DOMAIN w \ {x}, \A i \in DOMAIN w1 : w1[i] = w[i],
             r = DriveCreated(w1, b, t, files, a.path, n)
      PROVE  Parts(todo \ {a}, r.world, r.book, t, files)
  <2>1. a \in todo /\ DriveTodo(todo, w, b, files)
    BY <1>1
  <2>. QED BY ONLY <1>4, <2>1, MakesDue, DriveDue(todo, w, b, t, files), n \notin DOMAIN w,
              \A q \in DOMAIN b : b[q].id # n
<1>5. CASE a.do = "create"
  <2>1. r = DriveCreated(w, b, t, files, a.path, n)
    BY <1>5 DEF DriveDone
  <2>2. Replaced(a, w, b, files, Root) /\ DOMAIN w = DOMAIN w \ {Root}
    BY <1>1, <1>5 DEF Replaced, IsDrive
  <2>3. Parts(todo \ {a}, r.world, r.book, t, files)
    BY <1>5, <1>4, <2>1, <2>2
  <2>. QED BY <1>3, <2>3 DEF DriveDue, Parts
<1>6. CASE a.do = "patch"
  <2>1. r = DrivePatched(w, b, t, a.path, a.id) /\ a.id \in DOMAIN w
    BY <1>6 DEF DriveDone, DriveAnswers
  <2>2. r.book = b
    BY <2>1 DEF DrivePatched
  <2>3. MendedOne(w, r.world, b, t, a.path, a.id)
    BY <2>1, DrivePatchedIs
  <2>4. Parts(todo \ {a}, r.world, r.book, t, files)
    BY <1>1, <1>6, <2>1, <2>2, <2>3, PatchDue
  <2>. QED BY <1>3, <2>4 DEF DriveDue, Parts
<1>7. CASE a.do = "replace"
  <2>. DEFINE w1 == Without(w, a.id)
  <2>1. a.id \in DOMAIN w
    BY <1>7 DEF DriveAnswers
  <2>2. r = DriveCreated(w1, b, t, files, a.path, n)
    BY <1>7 DEF DriveDone
  <2>3. w[a.id].kind = "file" /\ IsTree(w)
    <3>. DEFINE p == a.path
    <3>1. p \in DOMAIN b /\ b[p].id \in DOMAIN w /\ p \in files /\ b[p].id = a.id
      BY <1>1, <1>7, <2>1
    <3>. HIDE DEF p
    <3>2. (w[b[p].id].kind = "file") <=> p \in files
      BY <1>1, <3>1 DEF TreeFit, GoodTree
    <3>. QED BY <1>1, <3>1, <3>2 DEF TreeFit
  <2>4. DOMAIN w1 = DOMAIN w \ {a.id}
    BY <2>1, <2>3, WithoutLeaf
  <2>5. \A i \in DOMAIN w1 : w1[i] = w[i]
    BY <1>1, WithoutIs
  <2>6. Replaced(a, w, b, files, a.id)
    BY <1>1, <1>7, <2>1 DEF Replaced
  <2>. HIDE DEF w1
  <2>7. a.do \in {"create", "replace"}
    BY <1>7
  <2>. DEFINE x == a.id
  <2>8. Replaced(a, w, b, files, x) /\ DOMAIN w1 = DOMAIN w \ {x}
    BY <2>4, <2>6
  <2>. HIDE DEF x
  <2>9. Parts(todo \ {a}, r.world, r.book, t, files)
    BY <1>4, <2>2, <2>5, <2>7, <2>8
  <2>. QED BY <1>3, <2>9 DEF DriveDue, Parts
<1>8. CASE a.do = "delete"
  <2>1. r.world = Without(w, a.id) /\ r.book = b
    BY <1>8 DEF DriveDone
  <2>2. \A d \in todo : ~Building(d)
    BY <1>8, DeletesLast DEF Poised
  <2>3. Whole(todo \ {a}, r.world, b, files)
    BY <1>3, <2>1
  <2>4. Parts(todo \ {a}, r.world, r.book, t, files)
    BY <1>1, <1>8, <2>1, <2>2, <2>3, DeleteDue
  <2>. QED BY <1>3, <2>4 DEF DriveDue, Parts
<1>. QED BY <1>1, <1>5, <1>6, <1>7, <1>8

-----------------------------------------------------------------------------
(* A delta that owes Drive nothing has made it the baseline.               *)

LEMMA SamePath ==
  ASSUME NEW S, NEW p \in Seq(S), NEW q \in Seq(S), Len(p) # 0, Len(q) # 0,
         Front(p) = Front(q), Last(p) = Last(q)
  PROVE  p = q
<1>. DEFINE l == Len(p) - 1
            k == Len(q) - 1
<1>1. l \in Nat /\ k \in Nat /\ Len(p) = l + 1 /\ Len(q) = k + 1
  OBVIOUS
<1>2. Front(p) = SubSeq(p, 1, l) /\ Front(q) = SubSeq(q, 1, k)
  BY DEF Front
<1>. HIDE DEF l, k
<1>3. Len(SubSeq(p, 1, l)) = l /\ \A n \in 1 .. l : SubSeq(p, 1, l)[n] = p[n]
  BY <1>1
<1>4. Len(SubSeq(q, 1, k)) = k /\ \A n \in 1 .. k : SubSeq(q, 1, k)[n] = q[n]
  BY <1>1
<1>5. l = k /\ \A n \in 1 .. l : p[n] = q[n]
  BY <1>2, <1>3, <1>4
<1>6. p[l + 1] = q[l + 1]
  BY <1>1, <1>5 DEF Last
<1>7. \A n \in 1 .. l + 1 : p[n] = q[n]
  BY <1>1, <1>5, <1>6
<1>. QED BY <1>1, <1>5, <1>7

\* Two paths whose folders are one object have one folder.
LEMMA SameFolder ==
  ASSUME NEW w, NEW b, NEW t, NEW files, GoodTree(w, b, t, files), ProperNames(files),
         ~NamesTwice(b), NEW p \in DOMAIN b, NEW q \in DOMAIN b, DOMAIN b \subseteq Paths(files),
         FolderId(b, Front(p)) = FolderId(b, Front(q))
  PROVE  Front(p) = Front(q)
<1>1. ASSUME NEW r \in DOMAIN b
      PROVE  \/ Front(r) = <<>> /\ FolderId(b, Front(r)) = Root
             \/ /\ Front(r) \in DOMAIN b /\ FolderId(b, Front(r)) = b[Front(r)].id
                /\ FolderId(b, Front(r)) # Root
  <2>1. FrontOf(files, r)
    BY FrontIs DEF ProperNames
  <2>. QED BY <2>1 DEF FrontOf, GoodTree, Under, FolderId
<1>. QED BY <1>1 DEF NamesTwice

LEMMA DrivePaid ==
  ASSUME NEW w, IsDrive(w), NEW b, NEW t, NEW files, ProperNames(files),
         DOMAIN b \subseteq Paths(files), GoodTree(w, b, t, files),
         DriveDue({}, w, b, t, files)
  PROVE  DriveVerified(w, b, t, files)
<1>1. ~NamesTwice(b) /\ IsFiniteSet(DOMAIN w)
  BY DEF DriveDue, IsDrive
<1>2. ASSUME NEW p \in Paths(files)
      PROVE  /\ p \in DOMAIN b /\ b[p].id \in DOMAIN w
             /\ Settled(w, b, p) /\ Shaped(w, b, t, files, p)
  BY DEF DriveDue, Whole, ObjectsDue, Pending, Settled, Present
<1>3. ASSUME NEW i \in DOMAIN w
      PROVE  \E p \in Paths(files) : b[p].id = i
  BY DEF DriveDue, ObjectsKnown, Entered, Going
<1>4. ASSUME NEW p \in Paths(files)
      PROVE  p \in Seq(STRING) /\ Len(p) \in Nat \ {0} /\ FrontOf(files, p)
  BY PathsAreNames, FrontIs DEF ProperNames
<1>5. ASSUME NEW p \in Paths(files), At(w, Front(p)) = {FolderId(b, Front(p))}
      PROVE  At(w, p) = {b[p].id}
  <2>1. At(w, p) = {o \in DOMAIN w : w[o].in \in At(w, Front(p)) /\ w[o].name = Last(p)}
    BY <1>4, AtIs
  <2>2. At(w, p) = {o \in DOMAIN w : w[o].in = FolderId(b, Front(p)) /\ w[o].name = Last(p)}
    BY <1>5, <2>1
  <2>3. b[p].id \in At(w, p)
    BY <1>2, <2>2 DEF Settled, Shaped
  <2>4. ASSUME NEW o \in At(w, p) PROVE o = b[p].id
    <3>1. o \in DOMAIN w /\ w[o].in = FolderId(b, Front(p)) /\ w[o].name = Last(p)
      BY <2>2
    <3>2. PICK q \in Paths(files) : b[q].id = o
      BY <1>3, <3>1
    <3>3. FolderId(b, Front(q)) = FolderId(b, Front(p)) /\ Last(q) = Last(p)
      BY <1>2, <3>1, <3>2 DEF Settled, Shaped
    <3>4. p \in DOMAIN b /\ q \in DOMAIN b
      BY <1>2
    <3>5. Front(q) = Front(p)
      BY <1>1, <3>3, <3>4, SameFolder
    <3>6. q = p
      BY <1>4, <3>3, <3>5, SamePath
    <3>. QED BY <3>2, <3>6
  <2>. QED BY <2>3, <2>4
<1>6. \A p \in Paths(files) : At(w, p) = {b[p].id}
  <2>. DEFINE T == {n \in Nat : \E p \in Paths(files) : Len(p) = n /\ At(w, p) # {b[p].id}}
              m == Min(T)
  <2>. SUFFICES ASSUME T # {} PROVE FALSE
    BY <1>4
  <2>1. T \subseteq Nat
    OBVIOUS
  <2>. HIDE DEF T
  <2>2. m \in T /\ \A n \in T : m <= n
    BY <2>1, LeastNumber
  <2>. HIDE DEF m
  <2>3. PICK p \in Paths(files) : Len(p) = m /\ At(w, p) # {b[p].id}
    BY <2>2 DEF T
  <2>4. CASE Len(p) = 1
    <3>1. Front(p) = <<>>
      BY <1>4, <2>4 DEF FrontOf
    <3>2. PICK f : Levels(w, <<>>, 0, f) /\ At(w, <<>>) = f[0]
      <4>1. Len(<<>>) = 0
        OBVIOUS
      <4>. QED BY <4>1, AtLevels
    <3>3. f[0] = {Root}
      BY <3>2 DEF Levels
    <3>4. At(w, Front(p)) = {FolderId(b, Front(p))}
      BY <3>1, <3>2, <3>3 DEF FolderId
    <3>. QED BY <1>5, <2>3, <3>4
  <2>5. CASE Len(p) # 1
    <3>. DEFINE q == Front(p)
    <3>1. q \in Paths(files) /\ Len(q) = m - 1 /\ q # <<>>
      BY <1>4, <2>3, <2>5 DEF FrontOf, Paths
    <3>2. m - 1 \in Nat /\ m - 1 \notin T
      BY <1>4, <2>2, <2>3
    <3>3. At(w, q) = {b[q].id}
      BY <3>1, <3>2 DEF T
    <3>4. FolderId(b, q) = b[q].id
      BY <3>1 DEF FolderId
    <3>5. At(w, Front(p)) = {FolderId(b, Front(p))}
      BY <3>3, <3>4
    <3>. QED BY <1>5, <2>3, <3>5
  <2>. QED BY <2>4, <2>5
<1>7. ASSUME NEW p \in Paths(files)
      PROVE  Cardinality(Holders(w, t, p)) <= 1 /\ ~Trashed(w, b[p].id)
  <2>1. Holders(w, t, p) = {b[p].id}
    <3>1. b[p].id \in Holders(w, t, p)
      BY <1>2 DEF Shaped, Holders
    <3>2. ASSUME NEW i \in Holders(w, t, p) PROVE i = b[p].id
      <4>1. i \in DOMAIN w /\ w[i].mark = [tag |-> t, path |-> p]
        BY <3>2 DEF Holders
      <4>2. PICK q \in Paths(files) : b[q].id = i
        BY <1>3, <4>1
      <4>3. w[i].mark = [tag |-> t, path |-> q]
        BY <1>2, <4>2 DEF Shaped
      <4>. QED BY <4>1, <4>2, <4>3
    <3>. QED BY <3>1, <3>2
  <2>2. Cardinality(Holders(w, t, p)) <= 1
    <3>1. Cardinality({b[p].id}) = 1
      BY FS_Singleton
    <3>2. Cardinality(Holders(w, t, p)) = 1
      BY <2>1, <3>1, Zenon
    <3>. QED BY <3>2
  <2>3. \A j \in Line(w, b[p].id) : ~w[j].binned
    <3>1. Line(w, b[p].id) \subseteq DOMAIN w
      BY DEF Line
    <3>. QED BY <1>2, <1>3, <3>1 DEF Shaped
  <2>. QED BY <2>2, <2>3 DEF Trashed
<1>8. \A p \in Paths(files) :
        /\ Known(w, b, p) # {} /\ (w[b[p].id].kind = "file") = (p \in files)
        /\ w[b[p].id].mark = [tag |-> t, path |-> p]
        /\ p \in files => SameBytes(b, files, p, w[b[p].id])
  <2>. SUFFICES ASSUME NEW p \in Paths(files)
                PROVE  /\ Known(w, b, p) # {} /\ (w[b[p].id].kind = "file") = (p \in files)
                       /\ w[b[p].id].mark = [tag |-> t, path |-> p]
                       /\ p \in files => SameBytes(b, files, p, w[b[p].id])
    OBVIOUS
  <2>1. (w[b[p].id].kind = "file") <=> p \in files
    BY <1>2 DEF GoodTree
  <2>. QED BY <1>2, <2>1 DEF Known, Shaped
<1>9. DOMAIN w \subseteq {b[p].id : p \in DOMAIN b}
  BY <1>2, <1>3
<1>. QED BY <1>6, <1>7, <1>8, <1>9 DEF DriveVerified

LEMMA DriveSettled ==
  ASSUME NEW w, IsDrive(w), NEW b, NEW t, NEW files, ProperNames(files),
         DOMAIN b \subseteq Paths(files), DriveVerified(w, b, t, files)
  PROVE  DrivePlan(w, b, t, files) = [ok |-> TRUE, todo |-> {}]
<1>1. ASSUME NEW p \in Paths(files)
      PROVE  /\ p \in DOMAIN b /\ b[p].id \in DOMAIN w /\ Known(w, b, p) = {b[p].id}
             /\ Claimed(w, b, t, p) = {b[p].id} /\ At(w, p) = {b[p].id}
  <2>1. Known(w, b, p) # {} /\ At(w, p) = {b[p].id}
    BY DEF DriveVerified
  <2>. QED BY <2>1, KnownIs DEF Known
<1>2. ASSUME NEW p \in Paths(files) PROVE Holders(w, t, p) = {b[p].id}
  <2>1. Cardinality(Holders(w, t, p)) <= 1 /\ b[p].id \in Holders(w, t, p)
    BY <1>1 DEF DriveVerified, Holders
  <2>2. IsFiniteSet(Holders(w, t, p))
    BY FS_Subset DEF IsDrive, Holders
  <2>. QED BY <2>1, <2>2, AtMostOne
<1>3. ASSUME NEW p \in Paths(files) PROVE Unambiguous(w, b, t, files, p)
  <2>1. Cardinality(Claimed(w, b, t, p)) <= 1
    <3>1. Cardinality({b[p].id}) = 1
      BY FS_Singleton
    <3>2. Cardinality(Claimed(w, b, t, p)) = 1
      BY <1>1, <3>1, Zenon
    <3>. QED BY <3>2
  <2>2. (w[b[p].id].kind = "file") = (p \in files)
    BY DEF DriveVerified
  <2>. QED BY <1>1, <1>2, <2>1, <2>2 DEF Unambiguous
<1>4. ASSUME NEW p \in Paths(files)
      PROVE  /\ Placed(w, b, t, p, b[p].id)
             /\ p \in files => SameBytes(b, files, p, w[b[p].id])
  <2>. DEFINE i == b[p].id
  <2>1. p \in Seq(STRING) /\ Len(p) \in Nat \ {0} /\ FrontOf(files, p)
    BY PathsAreNames, FrontIs DEF ProperNames
  <2>2. i \in At(w, p)
    BY <1>1
  <2>. HIDE DEF i
  <2>3. w[i].in \in At(w, Front(p)) /\ w[i].name = Last(p)
    BY <2>1, <2>2, AtIs
  <2>4. Seat(w, b, t, p) \subseteq {w[i].in}
    <3>1. CASE Len(p) = 1
      <4>1. Front(p) = <<>> /\ Len(<<>>) = 0
        BY <2>1, <3>1 DEF FrontOf
      <4>2. PICK f : Levels(w, <<>>, 0, f) /\ At(w, <<>>) = f[0]
        BY <4>1, AtLevels
      <4>3. f[0] = {Root}
        BY <4>2 DEF Levels
      <4>. QED BY <2>3, <3>1, <4>1, <4>2, <4>3 DEF Seat
    <3>2. CASE Len(p) # 1
      <4>1. Front(p) \in Paths(files)
        BY <2>1, <3>2 DEF FrontOf, Paths
      <4>2. At(w, Front(p)) = {b[Front(p)].id} /\ Claimed(w, b, t, Front(p)) = {b[Front(p)].id}
        BY <1>1, <4>1
      <4>. QED BY <2>3, <3>2, <4>2 DEF Seat
    <3>. QED BY <3>1, <3>2
  <2>5. /\ ~Trashed(w, i) /\ w[i].mark = [tag |-> t, path |-> p]
        /\ p \in files => SameBytes(b, files, p, w[i])
    BY DEF DriveVerified, i
  <2>. QED BY <2>3, <2>4, <2>5 DEF Placed, i
<1>5. Creates(w, b, t, files) = {}
  BY <1>1 DEF Creates
<1>6. Repairs(w, b, t, files) = {}
  BY <1>1, <1>4 DEF Repairs
<1>7. Removals(w, b, t, files) = {}
  <2>1. \A i \in DOMAIN w : \E p \in Paths(files) : i \in Claimed(w, b, t, p)
    BY <1>1 DEF DriveVerified
  <2>. QED BY <2>1 DEF Removals
<1>. QED BY <1>3, <1>5, <1>6, <1>7 DEF DrivePlan

-----------------------------------------------------------------------------
(* A delta owes nothing of a service that it is through with.              *)

\* What the calls of todo still have to do for a delta's service.
Owed(s, todo) ==
  /\ s = "drive" =>
       run.twice \/ DriveDue(todo, drive, run.mem.drive, run.mem.tag, archive.files)
  /\ s = "gmail" => MailDue(todo, mail, run.mem.mail, run.mem.tag, archive)
  /\ s = "calendar" => CalendarDue(todo, cal, run.mem.cal, run.mem.tag, archive.events)

\* The plan of the service at work does what is owed; nothing is, of those before it.
DueInv ==
  run.cmd = "delta" =>
    /\ run.left \in Seq(Services)
    /\ \A s \in run.svcs : /\ Amid(run, s) => Owed(s, run.todo)
                           /\ s \notin ToSet(run.left) => Owed(s, {})

\* A step leaves a service, and what the manifest says of it, alone.
Apart(s) ==
  /\ archive' = archive /\ run'.mem.tag = run.mem.tag
  /\ s = "drive" => /\ drive' = drive /\ run'.mem.drive = run.mem.drive
                    /\ run.twice => run'.twice
  /\ s = "gmail" => mail' = mail /\ run'.mem.mail = run.mem.mail
  /\ s = "calendar" => cal' = cal /\ run'.mem.cal = run.mem.cal

LEMMA ApartOwes ==
  ASSUME NEW s, Apart(s), NEW todo, Owed(s, todo)
  PROVE  Owed(s, todo)'
BY DEF Apart, Owed

\* The command stays at the service it is at, and holds manifest b.
Stays(b) ==
  /\ run'.left = run.left /\ run'.open /\ run'.mem = b /\ (run.twice => run'.twice)

LEMMA OpenStays ==
  ASSUME IsRunRecord(run), NEW todo, NEW b, Open(todo, b)
  PROVE  Stays(b) /\ run'.todo = todo /\ (~run'.twice => ~NamesTwice(b.drive))
<1>1. PICK o, x : run' = RunOpened(run, o, todo, b, x) /\ o
                  /\ (~x => ~run.twice /\ ~NamesTwice(b.drive))
  BY Zenon DEF Open, RunOpened
<1>2. run' = RunOpened(run, o, todo, b, x)
  BY <1>1, Zenon
<1>5. run'.left = run.left /\ run'.todo = todo /\ run'.mem = b
  BY <1>2, RunOpens
<1>6. run'.open = o
  BY <1>2, RunOpens
<1>7. run'.twice = x
  BY <1>2, RunOpens
<1>3. run'.open
  BY <1>1, <1>6, Zenon
<1>4. ~run'.twice => ~run.twice /\ ~NamesTwice(b.drive)
  BY <1>1, <1>7, Zenon
<1>. QED BY <1>3, <1>4, <1>5 DEF Stays

LEMMA DidStays ==
  ASSUME IsRunRecord(run), run.open, NEW a, NEW b, Did(a, b)
  PROVE  Stays(b) /\ run'.todo = run.todo \ {a} /\ run'.twice = run.twice
<1>. DEFINE t == run.todo \ {a}
<1>1. run' = RunAfter(run, t, b)
  BY DEF Did, RunAfter
<1>. HIDE DEF t
<1>2. run'.left = run.left /\ run'.todo = t /\ run'.mem = b
  BY <1>1, RunDid
<1>3. run'.open = run.open /\ run'.twice = run.twice
  BY ONLY IsRunRecord(run), <1>1, RunDid
<1>. QED BY <1>2, <1>3 DEF Stays, t

LEMMA MovesOn ==
  ASSUME IsRunRecord(run), NextService
  PROVE  /\ run'.left = Tail(run.left) /\ ~run'.open /\ run'.mem = run.mem
         /\ run'.twice = run.twice
<1>1. run = [cmd |-> run.cmd, svcs |-> run.svcs, left |-> run.left, open |-> run.open,
             todo |-> run.todo, mem |-> run.mem, twice |-> run.twice]
  BY DEF IsRunRecord
<1>. DEFINE l == Tail(run.left)
<1>2. PICK r : run' = r /\ r = [run EXCEPT !.left = l, !.open = FALSE]
  BY DEF NextService
<1>. HIDE DEF l
<1>3. r = [cmd |-> run.cmd, svcs |-> run.svcs, left |-> l, open |-> FALSE,
           todo |-> run.todo, mem |-> run.mem, twice |-> run.twice]
  BY ONLY <1>1, <1>2
<1>4. r.left = l /\ r.open = FALSE /\ r.mem = run.mem /\ r.twice = run.twice
  BY <1>3, RunIs
<1>. QED BY <1>2, <1>4 DEF l

\* What a delta does at one service leaves the others alone.
LEMMA DriveOnly ==
  ASSUME IInv, run.cmd = "delta", run' # Idle, OpenDriveDelta \/ StepDrive
  PROVE  /\ Here("drive") /\ run'.left = run.left
         /\ Apart("gmail") /\ Apart("calendar")
<1>1. IsRunRecord(run) /\ IsBook(run.mem, archive)
  BY CommandIs, AtKeeps DEF IsAt
<1>2. /\ Here("drive") /\ UNCHANGED <<archive, mail, cal>>
      /\ \E x : Stays([run.mem EXCEPT !.drive = x])
  <2>1. CASE OpenDriveDelta
    <3>1. PICK todo, x : Open(todo, [run.mem EXCEPT !.drive = x])
      BY <2>1, Zenon DEF OpenDriveDelta, End
    <3>2. Stays([run.mem EXCEPT !.drive = x])
      BY <1>1, <3>1, OpenStays
    <3>. QED BY <2>1, <3>2 DEF OpenDriveDelta, Opening, worlds
  <2>2. CASE StepDrive
    <3>1. Here("drive") /\ run.open
      BY <2>2 DEF StepDrive, Working
    <3>2. PICK a, x : Did(a, [run.mem EXCEPT !.drive = x])
      BY <2>2 DEF StepDrive, DriveCall, End, Died
    <3>3. Stays([run.mem EXCEPT !.drive = x])
      BY <1>1, <3>1, <3>2, DidStays
    <3>. QED BY <2>2, <3>1, <3>3 DEF StepDrive
  <2>. QED BY <2>1, <2>2
<1>3. PICK x, b : b = [run.mem EXCEPT !.drive = x] /\ Stays(b)
  BY <1>2
<1>4. b.tag = run.mem.tag /\ b.mail = run.mem.mail /\ b.cal = run.mem.cal
  BY <1>1, <1>3 DEF IsBook
<1>. QED BY <1>2, <1>3, <1>4 DEF Stays, Apart

LEMMA MailOnly ==
  ASSUME IInv, run.cmd = "delta", run' # Idle, OpenMailDelta \/ StepMail
  PROVE  /\ Here("gmail") /\ run'.left = run.left
         /\ Apart("drive") /\ Apart("calendar")
<1>1. IsRunRecord(run) /\ IsBook(run.mem, archive)
  BY CommandIs, AtKeeps DEF IsAt
<1>2. /\ Here("gmail") /\ UNCHANGED <<archive, drive, cal>>
      /\ \E x : Stays([run.mem EXCEPT !.mail = x])
  <2>1. CASE OpenMailDelta
    <3>1. PICK todo, x : Open(todo, [run.mem EXCEPT !.mail = x])
      BY <2>1, Zenon DEF OpenMailDelta, End, Died
    <3>2. Stays([run.mem EXCEPT !.mail = x])
      BY <1>1, <3>1, OpenStays
    <3>. QED BY <2>1, <3>2 DEF OpenMailDelta, Opening
  <2>2. CASE StepMail
    <3>1. Here("gmail") /\ run.open
      BY <2>2 DEF StepMail, Working
    <3>2. PICK a, x : Did(a, [run.mem EXCEPT !.mail = x])
      BY <2>2 DEF StepMail, MailCall, End, Died
    <3>3. Stays([run.mem EXCEPT !.mail = x])
      BY <1>1, <3>1, <3>2, DidStays
    <3>. QED BY <2>2, <3>1, <3>3 DEF StepMail
  <2>. QED BY <2>1, <2>2
<1>3. PICK x, b : b = [run.mem EXCEPT !.mail = x] /\ Stays(b)
  BY <1>2
<1>4. b.tag = run.mem.tag /\ b.drive = run.mem.drive /\ b.cal = run.mem.cal
  BY <1>1, <1>3 DEF IsBook
<1>. QED BY <1>2, <1>3, <1>4 DEF Stays, Apart

LEMMA CalendarOnly ==
  ASSUME IInv, run.cmd = "delta", run' # Idle, OpenCalendarDelta \/ StepCalendar
  PROVE  /\ Here("calendar") /\ run'.left = run.left
         /\ Apart("drive") /\ Apart("gmail")
<1>1. IsRunRecord(run) /\ IsBook(run.mem, archive)
  BY CommandIs, AtKeeps DEF IsAt
<1>2. /\ Here("calendar") /\ UNCHANGED <<archive, drive, mail>>
      /\ \E x : Stays([run.mem EXCEPT !.cal = x])
  <2>1. CASE OpenCalendarDelta
    <3>1. PICK todo, x : Open(todo, [run.mem EXCEPT !.cal = x])
      BY <2>1, Zenon DEF OpenCalendarDelta, End
    <3>2. Stays([run.mem EXCEPT !.cal = x])
      BY <1>1, <3>1, OpenStays
    <3>. QED BY <2>1, <3>2 DEF OpenCalendarDelta, Opening, worlds
  <2>2. CASE StepCalendar
    <3>1. Here("calendar") /\ run.open
      BY <2>2 DEF StepCalendar, Working
    <3>2. PICK a, x : Did(a, [run.mem EXCEPT !.cal = x])
      BY <2>2 DEF StepCalendar, CalendarCall, End, Died
    <3>3. Stays([run.mem EXCEPT !.cal = x])
      BY <1>1, <3>1, <3>2, DidStays
    <3>. QED BY <2>2, <3>1, <3>3 DEF StepCalendar
  <2>. QED BY <2>1, <2>2
<1>3. PICK x, b : b = [run.mem EXCEPT !.cal = x] /\ Stays(b)
  BY <1>2
<1>4. b.tag = run.mem.tag /\ b.drive = run.mem.drive /\ b.mail = run.mem.mail
  BY <1>1, <1>3 DEF IsBook
<1>. QED BY <1>2, <1>3, <1>4 DEF Stays, Apart

\* A service that opens owes what its plan does, and each call pays its part.
LEMMA OpenDriveOwes ==
  ASSUME IInv, TInv, OpenDriveDelta, run' # Idle
  PROVE  Owed("drive", run.todo)'
<1>. DEFINE t == run.mem.tag
            files == archive.files
            b2 == DriveAdopted(drive, run.mem.drive, t, files)
            plan == DrivePlan(drive, run.mem.drive, t, files)
            b == [run.mem EXCEPT !.drive = b2]
            todo == plan.todo
<1>1. run.cmd = "delta" /\ Here("drive") /\ UNCHANGED <<archive, drive>>
  BY DEF OpenDriveDelta, Opening, worlds
<1>2. /\ IsDrive(drive) /\ ProperNames(files) /\ IsRunRecord(run) /\ IsBook(run.mem, archive)
      /\ DOMAIN run.mem.drive \subseteq Paths(files)
      /\ TreeFit(drive, run.mem.drive, t, files)
  BY <1>1, AtDrive
<1>3. plan.ok /\ Open(todo, b)
  BY DEF OpenDriveDelta, End
<1>4. \A p \in Paths(files) : Unambiguous(drive, run.mem.drive, t, files, p)
  BY <1>3 DEF DrivePlan
<1>5. b.drive = b2 /\ b.tag = t
  BY <1>2 DEF IsBook
<1>6. ~NamesTwice(b2) => DriveDue(todo, drive, b2, t, files)
  BY <1>2, <1>4, DrivePlanDue
<1>. HIDE DEF b, todo, plan, b2
<1>7. run'.todo = todo /\ run'.mem = b
  BY <1>2, <1>3, OpenStays DEF Stays
<1>8. ~run'.twice => ~NamesTwice(b.drive)
  BY <1>2, <1>3, OpenStays
<1>9. DriveDue(run'.todo, drive', run'.mem.drive, run'.mem.tag, archive'.files) \/ run'.twice
  BY <1>1, <1>5, <1>6, <1>7, <1>8
<1>. QED BY <1>9 DEF Owed

LEMMA StepDriveOwes ==
  ASSUME IInv, TInv, DriveSaved, run.cmd = "delta", StepDrive, run' # Idle,
         Owed("drive", run.todo)
  PROVE  Owed("drive", run.todo)'
<1>. DEFINE w == drive
            b == run.mem.drive
            t == run.mem.tag
            files == archive.files
            n == NewDriveId
<1>1. PICK a \in run.todo : Ready(a) /\ DriveCall(a)
  BY DEF StepDrive
<1>2. /\ Working("drive") /\ Here("drive") /\ run.open /\ Amid(run, "drive")
      /\ archive' = archive
  BY DEF StepDrive, Working, Here, Amid
<1>3. a.do # "seed" /\ DriveAnswers(a, drive)
  <2>1. a.do # "seed"
    BY <1>2 DEF DriveSaved, Building
  <2>. QED BY <1>1, <2>1 DEF DriveCall, End
<1>4. /\ IsDrive(w) /\ ProperNames(files) /\ IsRunRecord(run) /\ IsBook(run.mem, archive)
      /\ DOMAIN b \subseteq Paths(files) /\ TreeFit(w, b, t, files)
      /\ n # Root /\ n \notin DOMAIN w /\ \A q \in DOMAIN b : b[q].id # n
  BY <1>2, AtDrive
<1>5. Poised(run.todo, a, w, b, t, files)
  BY <1>1, <1>2, <1>3, <1>4, WorkingIs DEF Poised, TInv, Ready, First
<1>. DEFINE r == DriveDone(a, w, b, t, files, n)
            m == [run.mem EXCEPT !.drive = r.book]
            todo == run.todo \ {a}
<1>6. run.twice \/ DriveDue(run.todo, w, b, t, files)
  BY DEF Owed
<1>7. run.twice \/ DriveDue(todo, r.world, r.book, t, files)
  <2>1. CASE DriveDue(run.todo, w, b, t, files)
    BY <1>3, <1>4, <1>5, <2>1, DriveCallDue
  <2>. QED BY <1>6, <2>1
<1>8. drive' = r.world /\ Did(a, m)
  BY <1>1, <1>3 DEF DriveCall, Died, End
<1>9. m.drive = r.book /\ m.tag = t
  BY <1>4 DEF IsBook
<1>. HIDE DEF r, m, todo
<1>10. run'.mem = m /\ run'.todo = todo
  BY <1>2, <1>4, <1>8, DidStays DEF Stays, todo
<1>11. run.twice => run'.twice
  BY <1>2, <1>4, <1>8, DidStays DEF Stays
<1>12. run'.twice \/ DriveDue(run'.todo, drive', run'.mem.drive, run'.mem.tag, archive'.files)
  BY <1>2, <1>7, <1>8, <1>9, <1>10, <1>11
<1>. QED BY <1>12 DEF Owed

\* The label that a delta goes on with is the seed's.
LEMMA LabelStands ==
  ASSUME NEW m, IsMailbox(m), NEW b, b = [label |-> b.label, messages |-> b.messages],
         NEW t, NEW n
  PROVE  /\ Labelled(m, b, t, n).book.label \in DOMAIN Labelled(m, b, t, n).world.labels
         /\ Labelled(m, b, t, n).world.labels[Labelled(m, b, t, n).book.label] = t
<1>. DEFINE have == BaselineLabels(m, t)
            id == IF have = {} THEN n ELSE CHOOSE k \in have : TRUE
            g == Put(m.labels, id, t)
            m2 == [m EXCEPT !.labels = g]
            b2 == [b EXCEPT !.label = id]
<1>1. Labelled(m, b, t, n) = [world |-> m2, book |-> b2]
  BY DEF Labelled
<1>2. id \in DOMAIN g /\ g[id] = t
  BY DEF Put
<1>. HIDE DEF id, g
<1>3. m2.labels = g
  BY DEF IsMailbox
<1>4. b2.label = id
  OBVIOUS
<1>. HIDE DEF m2, b2
<1>. QED BY <1>1, <1>2, <1>3, <1>4

LEMMA OpenMailOwes ==
  ASSUME IInv, OpenMailDelta, run' # Idle
  PROVE  Owed("gmail", run.todo)'
<1>1. run.cmd = "delta" /\ archive' = archive
  BY DEF OpenMailDelta
<1>2. /\ IsMailbox(mail) /\ IsArchive(archive) /\ IsRunRecord(run)
      /\ IsBook(run.mem, archive) /\ IsMailBook(run.mem.mail, archive)
      /\ OwnMail(mail, run.mem.mail) /\ run.mem.tag \in Nat \ {0}
      /\ \A s \in DOMAIN run.mem.mail.messages : run.mem.mail.messages[s].id # NewMailId
  BY <1>1, CommandIs, AtKeeps DEF IsWorld, IsAt, NewInMail
<1>. DEFINE t == run.mem.tag
            l == Labelled(mail, run.mem.mail, t, NewMailId)
            x == MailAdopted(l.world, l.book, archive)
            b == [run.mem EXCEPT !.mail = x]
            todo == MailPlan(l.world, l.book, t, archive).todo
<1>3. /\ MailPlan(mail, run.mem.mail, t, archive).ok
      /\ mail' = l.world /\ Open(todo, b)
  BY DEF OpenMailDelta, End, Died
<1>4. \A s \in Letters(archive) : MailUnambiguous(mail, run.mem.mail, s)
  BY <1>3 DEF MailPlan
<1>5. \A s \in Letters(archive) : MailUnambiguous(l.world, l.book, s)
  BY <1>2, <1>4, MailLabelled DEF IsMailBook
<1>6. MailGood(run.mem.mail, archive, l.world, l.book)
  BY <1>2, MailLabels
<1>7. l.book.label \in DOMAIN l.world.labels /\ l.world.labels[l.book.label] = t
  BY <1>2, LabelStands DEF IsMailBook
<1>. HIDE DEF l
<1>8. MailDue(todo, l.world, x, t, archive)
  BY <1>2, <1>5, <1>6, <1>7, MailPlanDue DEF MailGood
<1>9. IsMailBook(x, archive)
  BY <1>6, MailAdopts DEF MailGood
<1>. HIDE DEF x, todo
<1>10. b.mail = x /\ b.tag = t
  BY <1>2, <1>9, BookMail DEF SameDrive
<1>. HIDE DEF b
<1>11. run'.todo = todo /\ run'.mem = b
  BY <1>2, <1>3, OpenStays DEF Stays
<1>12. MailDue(run'.todo, mail', run'.mem.mail, run'.mem.tag, archive')
  BY <1>1, <1>3, <1>8, <1>10, <1>11
<1>. QED BY <1>12 DEF Owed

LEMMA StepMailOwes ==
  ASSUME IInv, MailSaved, run.cmd = "delta", StepMail, run' # Idle, Owed("gmail", run.todo)
  PROVE  Owed("gmail", run.todo)'
<1>1. /\ IsMailbox(mail) /\ IsArchive(archive) /\ IsRunRecord(run)
      /\ IsBook(run.mem, archive) /\ IsMailBook(run.mem.mail, archive)
      /\ OwnMail(mail, run.mem.mail) /\ NewMailId \notin DOMAIN mail.messages
      /\ \A s \in DOMAIN run.mem.mail.messages : run.mem.mail.messages[s].id # NewMailId
  BY CommandIs, AtKeeps DEF IsWorld, IsAt, NewInMail
<1>2. PICK a \in run.todo : Ready(a) /\ MailCall(a)
  BY DEF StepMail
<1>3. Working("gmail") /\ run.open /\ Amid(run, "gmail") /\ archive' = archive
  BY DEF StepMail, Working, Here, Amid
<1>4. /\ MailKept(run.todo, mail, run.mem.mail) /\ MailTodo(run.todo, archive)
      /\ MailDue(run.todo, mail, run.mem.mail, run.mem.tag, archive)
  BY <1>3, WorkingIs DEF MailSaved, Owed
<1>. DEFINE r == MailDone(a, mail, run.mem.mail, archive, NewMailId)
            b == [run.mem EXCEPT !.mail = r.book]
            todo == run.todo \ {a}
<1>5. mail' = r.world /\ Did(a, b)
  BY <1>2 DEF MailCall, End, Died
<1>6. \A o \in run.todo : \/ a.rank[1] < o.rank[1]
                          \/ a.rank[1] = o.rank[1] /\ a.rank[2] <= o.rank[2]
  BY <1>2 DEF Ready
<1>7. MailDue(todo, r.world, r.book, run.mem.tag, archive)
  BY <1>1, <1>4, <1>6, MailCallDue
<1>. HIDE DEF r
<1>8. b.mail = r.book /\ b.tag = run.mem.tag
  BY <1>1 DEF IsBook
<1>. HIDE DEF b, todo
<1>9. run'.todo = todo /\ run'.mem = b
  BY <1>1, <1>3, <1>5, DidStays DEF Stays, todo
<1>10. MailDue(run'.todo, mail', run'.mem.mail, run'.mem.tag, archive')
  BY <1>3, <1>5, <1>7, <1>8, <1>9
<1>. QED BY <1>10 DEF Owed

LEMMA OpenCalendarOwes ==
  ASSUME IInv, OpenCalendarDelta, run' # Idle
  PROVE  Owed("calendar", run.todo)'
<1>1. run.cmd = "delta" /\ archive' = archive /\ cal' = cal
  BY DEF OpenCalendarDelta, worlds
<1>2. /\ IsCalendar(cal) /\ IsArchive(archive) /\ IsRunRecord(run)
      /\ IsBook(run.mem, archive) /\ run.mem.tag \in Nat \ {0} /\ OwnIds(run.mem.cal)
      /\ DOMAIN run.mem.cal \subseteq ToSet(archive.events)
  BY <1>1, CommandIs, AtKeeps DEF IsWorld, IsAt
<1>. DEFINE t == run.mem.tag
            plan == CalendarPlan(cal, run.mem.cal, t, archive.events)
            d == CalendarAdopted(cal, run.mem.cal, t, archive.events)
            b == [run.mem EXCEPT !.cal = d]
            todo == plan.todo
<1>3. plan.ok /\ Open(todo, b)
  BY DEF OpenCalendarDelta, End
<1>4. \A s \in ToSet(archive.events) :
        CalendarUnambiguous(cal, run.mem.cal, t, archive.events, s)
  BY <1>3 DEF CalendarPlan
<1>5. CalendarDue(todo, cal, d, t, archive.events)
  BY <1>2, <1>4, CalendarPlanDue DEF IsArchive
<1>6. DOMAIN d \subseteq ToSet(archive.events)
  BY <1>2 DEF CalendarAdopted
<1>. HIDE DEF d, todo, plan
<1>7. b.tag = t /\ b.cal = d
  BY <1>2, <1>6, BookCalendar DEF SameDrive
<1>. HIDE DEF b
<1>8. run'.todo = todo /\ run'.mem = b
  BY <1>2, <1>3, OpenStays DEF Stays
<1>9. CalendarDue(run'.todo, cal', run'.mem.cal, run'.mem.tag, archive'.events)
  BY <1>1, <1>5, <1>7, <1>8
<1>. QED BY <1>9 DEF Owed

LEMMA StepCalendarOwes ==
  ASSUME IInv, CalendarSaved, run.cmd = "delta", StepCalendar, run' # Idle,
         Owed("calendar", run.todo)
  PROVE  Owed("calendar", run.todo)'
<1>1. /\ IsCalendar(cal) /\ IsRunRecord(run) /\ IsBook(run.mem, archive)
      /\ run.mem.tag \in Nat \ {0} /\ OwnIds(run.mem.cal)
  BY CommandIs, AtKeeps DEF IsWorld, IsAt
<1>2. PICK a \in run.todo : CalendarCall(a)
  BY DEF StepCalendar
<1>3. Working("calendar") /\ run.open /\ Amid(run, "calendar") /\ archive' = archive
  BY DEF StepCalendar, Working, Here, Amid
<1>4. /\ CalendarKept(run.todo, run.mem.cal, run.mem.tag)
      /\ CalendarTodo(run.todo, run.mem.cal, archive.events)
      /\ CalendarDue(run.todo, cal, run.mem.cal, run.mem.tag, archive.events)
  BY <1>3, WorkingIs DEF CalendarSaved, Owed
<1>5. a.do # "seed"
  BY <1>4 DEF CalendarKept
<1>. DEFINE r == CalendarDone(a, cal, run.mem.cal, run.mem.tag)
            b == [run.mem EXCEPT !.cal = r.book]
            todo == run.todo \ {a}
<1>6. cal' = r.world /\ Did(a, b)
  BY <1>2, <1>5 DEF CalendarCall, End, Died
<1>7. CalendarDue(todo, r.world, r.book, run.mem.tag, archive.events)
  BY <1>1, <1>4, CalendarCallDue
<1>. HIDE DEF r
<1>8. b.cal = r.book /\ b.tag = run.mem.tag
  BY <1>1 DEF IsBook
<1>. HIDE DEF b, todo
<1>9. run'.todo = todo /\ run'.mem = b
  BY <1>1, <1>3, <1>6, DidStays DEF Stays, todo
<1>10. CalendarDue(run'.todo, cal', run'.mem.cal, run'.mem.tag, archive'.events)
  BY <1>3, <1>6, <1>7, <1>8, <1>9
<1>. QED BY <1>10 DEF Owed

LEMMA InOrderIs ==
  ASSUME NEW svcs, svcs \subseteq Services
  PROVE  InOrder("delta", svcs) \in Seq(Services) /\ ToSet(InOrder("delta", svcs)) = svcs
<1>. DEFINE A == IF "drive" \in svcs THEN <<"drive">> ELSE <<>>
            B == IF "gmail" \in svcs THEN <<"gmail">> ELSE <<>>
            C == IF "calendar" \in svcs THEN <<"calendar">> ELSE <<>>
<1>1. InOrder("delta", svcs) = A \o B \o C
  BY DEF InOrder, OrderOf
<1>2. /\ A \in Seq(Services) /\ B \in Seq(Services) /\ C \in Seq(Services)
  <2>1. {"drive", "gmail", "calendar"} = Services
    BY DEF Services
  <2>2. \A x \in Services : <<x>> \in Seq(Services)
    OBVIOUS
  <2>3. <<"drive">> \in Seq(Services) /\ <<"gmail">> \in Seq(Services) /\ <<"calendar">> \in Seq(Services)
    BY <2>1, <2>2
  <2>. QED BY <2>3
<1>3. /\ ToSet(A) = {x \in {"drive"} : x \in svcs} /\ ToSet(B) = {x \in {"gmail"} : x \in svcs}
      /\ ToSet(C) = {x \in {"calendar"} : x \in svcs}
  BY DEF ToSet
<1>. HIDE DEF A, B, C
<1>4. ASSUME NEW S \in Seq(Services), NEW T \in Seq(Services)
      PROVE  S \o T \in Seq(Services) /\ ToSet(S \o T) = ToSet(S) \cup ToSet(T)
  <2>. DEFINE U == S \o T
  <2>1. U \in Seq(Services) /\ Len(U) = Len(S) + Len(T)
        /\ \A i \in 1 .. Len(U) : U[i] = IF i <= Len(S) THEN S[i] ELSE T[i - Len(S)]
    OBVIOUS
  <2>2. DOMAIN U = 1 .. Len(U) /\ DOMAIN S = 1 .. Len(S) /\ DOMAIN T = 1 .. Len(T)
        /\ Len(S) \in Nat /\ Len(T) \in Nat
    BY <2>1
  <2>. HIDE DEF U
  <2>3. ToSet(U) \subseteq ToSet(S) \cup ToSet(T)
    <3>1. ASSUME NEW i \in DOMAIN U PROVE U[i] \in ToSet(S) \cup ToSet(T)
      <4>1. CASE i <= Len(S)
        BY <2>1, <2>2, <3>1, <4>1 DEF ToSet
      <4>2. CASE ~(i <= Len(S))
        <5>1. U[i] = T[i - Len(S)] /\ i - Len(S) \in DOMAIN T
          BY <2>1, <2>2, <3>1, <4>2
        <5>. QED BY <5>1 DEF ToSet
      <4>. QED BY <4>1, <4>2
    <3>. QED BY <3>1 DEF ToSet
  <2>4. ToSet(S) \subseteq ToSet(U)
    <3>1. ASSUME NEW i \in DOMAIN S PROVE S[i] \in ToSet(U)
      <4>1. i \in DOMAIN U /\ U[i] = S[i]
        BY <2>1, <2>2, <3>1
      <4>. QED BY <4>1 DEF ToSet
    <3>. QED BY <3>1 DEF ToSet
  <2>5. ToSet(T) \subseteq ToSet(U)
    <3>1. ASSUME NEW i \in DOMAIN T PROVE T[i] \in ToSet(U)
      <4>1. i + Len(S) \in DOMAIN U /\ U[i + Len(S)] = T[i]
        BY <2>1, <2>2, <3>1
      <4>. QED BY <4>1 DEF ToSet
    <3>. QED BY <3>1 DEF ToSet
  <2>. QED BY <2>1, <2>3, <2>4, <2>5 DEF U
<1>5. A \o B \in Seq(Services) /\ ToSet(A \o B) = ToSet(A) \cup ToSet(B)
  BY <1>2, <1>4
<1>6. A \o B \o C \in Seq(Services) /\ ToSet(A \o B \o C) = ToSet(A \o B) \cup ToSet(C)
  BY <1>2, <1>4, <1>5
<1>. QED BY <1>1, <1>3, <1>5, <1>6 DEF Services

LEMMA TurnsLeft ==
  ASSUME NEW left \in Seq(Services)
  PROVE  /\ left # <<>> => /\ Tail(left) \in Seq(Services)
                           /\ ToSet(left) = {Head(left)} \cup ToSet(Tail(left))
         /\ left = <<>> => ToSet(left) = {}
<1>1. CASE left # <<>>
  <2>. DEFINE T == Tail(left)
  <2>1. /\ T \in Seq(Services) /\ Len(left) \in Nat \ {0} /\ Len(T) = Len(left) - 1
        /\ \A i \in 1 .. Len(T) : T[i] = left[i + 1]
    BY <1>1
  <2>2. DOMAIN left = 1 .. Len(left) /\ DOMAIN T = 1 .. Len(T) /\ Head(left) = left[1]
    BY <1>1, <2>1
  <2>. HIDE DEF T
  <2>3. ASSUME NEW i \in DOMAIN left PROVE left[i] = Head(left) \/ left[i] \in ToSet(T)
    <3>1. i = 1 \/ (i - 1 \in DOMAIN T /\ T[i - 1] = left[i])
      BY <2>1, <2>2, <2>3
    <3>. QED BY <2>2, <3>1 DEF ToSet
  <2>4. ASSUME NEW i \in DOMAIN T PROVE T[i] \in ToSet(left)
    <3>1. i + 1 \in DOMAIN left /\ T[i] = left[i + 1]
      BY <2>1, <2>2, <2>4
    <3>. QED BY <3>1 DEF ToSet
  <2>5. Head(left) \in ToSet(left)
    BY <2>1, <2>2 DEF ToSet
  <2>6. ToSet(left) \subseteq {Head(left)} \cup ToSet(T)
    BY <2>3 DEF ToSet
  <2>7. ToSet(T) \subseteq ToSet(left)
    BY <2>4 DEF ToSet
  <2>. QED BY <1>1, <2>1, <2>5, <2>6, <2>7 DEF T
<1>2. CASE left = <<>>
  BY <1>2 DEF ToSet
<1>. QED BY <1>1, <1>2

\* A delta that goes on: it leaves a service for the next, or opens or works at one.
LEMMA DeltaMoves ==
  ASSUME IInv, [Next]_vars, run.cmd = "delta", run'.cmd = "delta"
  PROVE  /\ run' # Idle /\ run # Idle /\ IsRunRecord(run)
         /\ archive' = archive /\ run'.svcs = run.svcs
         /\ \/ UNCHANGED <<drive, mail, cal, book, run>>
            \/ NextService
            \/ OpenDriveDelta \/ StepDrive
            \/ OpenMailDelta \/ StepMail
            \/ OpenCalendarDelta \/ StepCalendar
<1>1. run # Idle /\ run' # Idle
  BY DEF Idle
<1>2. IsRunRecord(run)
  BY <1>1 DEF IInv, IsState, IsRun, IsRunRecord
<1>3. ~\E svcs \in (SUBSET archive.serves) \ {{}} :
             StartSeed(svcs) \/ StartDelta(svcs) \/ StartReset(svcs)
  BY <1>1 DEF StartSeed, StartDelta, StartReset, Command
<1>4. ~(FinishSeed \/ FinishDelta \/ FinishReset)
  BY <1>1 DEF FinishSeed, FinishDelta, FinishReset, End
<1>5. ~(OpenDriveSeed \/ OpenMailSeed \/ OpenCalendarSeed \/ Wipe \/ Edit \/ TouchArchive)
  BY <1>1 DEF OpenDriveSeed, OpenMailSeed, OpenCalendarSeed, Wipe, Edit, TouchArchive
<1>6. CASE UNCHANGED vars
  BY <1>1, <1>2, <1>6 DEF vars
<1>7. CASE \/ NextService \/ OpenDriveDelta \/ OpenMailDelta \/ OpenCalendarDelta
           \/ StepDrive \/ StepMail \/ StepCalendar
  <2>1. archive' = archive /\ Onward
    BY <1>7, CommandsGoOn
  <2>. QED BY <1>1, <1>2, <1>7, <2>1 DEF Onward
<1>. QED BY <1>3, <1>4, <1>5, <1>6, <1>7 DEF Next

\* A step at service q, of which the rest of the manifest and the account know nothing.
LEMMA DueAt ==
  ASSUME DueInv, run.cmd = "delta", run'.cmd = "delta", run'.svcs = run.svcs,
         NEW q, Here(q), run'.left = run.left,
         \A s \in Services \ {q} : Apart(s),
         q \in run.svcs => Owed(q, run.todo)'
  PROVE  DueInv'
<1>1. run.left \in Seq(Services)
  BY DEF DueInv
<1>2. q \in ToSet(run.left)
  BY <1>1, TurnsLeft DEF Here
<1>. SUFFICES ASSUME NEW s \in run.svcs
              PROVE  /\ Amid(run, s)' => Owed(s, run.todo)'
                     /\ s \notin ToSet(run.left) => Owed(s, {})'
  BY <1>1 DEF DueInv, Amid
<1>3. ASSUME Amid(run, s)' PROVE Owed(s, run.todo)'
  BY <1>3 DEF Amid, Here
<1>4. ASSUME s \notin ToSet(run.left) PROVE Owed(s, {})'
  <2>1. Owed(s, {})
    BY <1>4 DEF DueInv
  <2>2. CASE s \in Services
    BY <1>2, <1>4, <2>1, <2>2, ApartOwes
  <2>3. CASE s \notin Services
    BY <2>3 DEF Owed, Services
  <2>. QED BY <2>2, <2>3
<1>. QED BY <1>3, <1>4

LEMMA DueMovesOn ==
  ASSUME IInv, DueInv, run.cmd = "delta", run'.cmd = "delta", run'.svcs = run.svcs,
         IsRunRecord(run), NextService
  PROVE  DueInv'
<1>1. /\ run'.left = Tail(run.left) /\ ~run'.open /\ run'.mem = run.mem
      /\ run'.twice = run.twice
  BY MovesOn
<1>2. \A s : Apart(s)
  BY <1>1 DEF NextService, worlds, Apart
<1>3. run.left # <<>> /\ run.open /\ run.todo = {} /\ run.left \in Seq(Services)
  BY DEF NextService, DueInv
<1>4. Tail(run.left) \in Seq(Services) /\ ToSet(run.left) = {Head(run.left)} \cup ToSet(Tail(run.left))
  BY <1>3, TurnsLeft
<1>5. ASSUME NEW s \in run.svcs, s \notin ToSet(Tail(run.left)) PROVE Owed(s, {})'
  <2>1. Owed(s, {})
    BY <1>3, <1>4, <1>5 DEF DueInv, Amid
  <2>. QED BY <1>2, <2>1, ApartOwes
<1>. QED BY <1>1, <1>4, <1>5 DEF DueInv, Amid

LEMMA DueStarts ==
  ASSUME IInv, run = Idle, run'.cmd = "delta", [Next]_vars
  PROVE  DueInv'
<1>1. PICK svcs \in (SUBSET archive.serves) \ {{}} : StartDelta(svcs)
  <2>1. run' # Idle /\ run' # run
    BY DEF Idle
  <2>2. ~(Edit \/ TouchArchive \/ UNCHANGED vars)
    BY <2>1 DEF Edit, TouchArchive, vars
  <2>3. ~(FinishSeed \/ FinishDelta \/ FinishReset \/ NextService \/ Wipe)
    BY DEF FinishSeed, FinishDelta, FinishReset, NextService, Wipe, Idle
  <2>4. ~(OpenDriveSeed \/ OpenMailSeed \/ OpenCalendarSeed \/ OpenDriveDelta \/ OpenMailDelta
          \/ OpenCalendarDelta \/ StepDrive \/ StepMail \/ StepCalendar)
    BY DEF OpenDriveSeed, OpenMailSeed, OpenCalendarSeed, OpenDriveDelta, OpenMailDelta,
           OpenCalendarDelta, StepDrive, StepMail, StepCalendar, Opening, Working, Here, Idle
  <2>5. \A svcs : ~(StartSeed(svcs) \/ StartReset(svcs))
    BY DEF StartSeed, StartReset, Start, Refuse, Idle
  <2>. QED BY <2>2, <2>3, <2>4, <2>5 DEF Next
<1>2. run'.left = InOrder("delta", svcs) /\ run'.svcs = svcs /\ ~run'.open
  BY <1>1 DEF StartDelta, Start, Refuse, Idle
<1>3. svcs \subseteq Services
  BY <1>1, StateArchive DEF IsArchive
<1>4. InOrder("delta", svcs) \in Seq(Services) /\ ToSet(InOrder("delta", svcs)) = svcs
  BY <1>3, InOrderIs
<1>. QED BY <1>2, <1>4 DEF DueInv, Amid

LEMMA DueNext ==
  ASSUME IInv, TInv, DriveSaved, MailSaved, CalendarSaved, DueInv, [Next]_vars
  PROVE  DueInv'
<1>. SUFFICES ASSUME run'.cmd = "delta" PROVE DueInv'
  BY DEF DueInv
<1>1. CASE run = Idle
  BY <1>1, DueStarts
<1>2. CASE run # Idle
  <2>1. run.cmd = "delta"
    <3>1. ~(\E svcs \in (SUBSET archive.serves) \ {{}} :
              StartSeed(svcs) \/ StartDelta(svcs) \/ StartReset(svcs))
      BY <1>2 DEF StartSeed, StartDelta, StartReset, Command
    <3>2. ~(FinishSeed \/ FinishDelta \/ FinishReset)
      BY DEF FinishSeed, FinishDelta, FinishReset, End, Idle
    <3>3. CASE Edit \/ TouchArchive \/ UNCHANGED vars
      BY <3>3 DEF Edit, TouchArchive, vars
    <3>4. CASE \/ NextService \/ OpenDriveSeed \/ OpenMailSeed \/ OpenCalendarSeed
               \/ OpenDriveDelta \/ OpenMailDelta \/ OpenCalendarDelta
               \/ StepDrive \/ StepMail \/ StepCalendar \/ Wipe
      BY <3>4, CommandsGoOn DEF Onward, Idle
    <3>. QED BY <3>1, <3>2, <3>3, <3>4 DEF Next
  <2>2. /\ run' # Idle /\ IsRunRecord(run) /\ archive' = archive /\ run'.svcs = run.svcs
        /\ \/ UNCHANGED <<drive, mail, cal, book, run>>
           \/ NextService
           \/ OpenDriveDelta \/ StepDrive
           \/ OpenMailDelta \/ StepMail
           \/ OpenCalendarDelta \/ StepCalendar
    BY <2>1, DeltaMoves
  <2>3. \A s : Here(s) /\ run.open => Amid(run, s)
    BY DEF Here, Amid
  <2>4. CASE UNCHANGED <<drive, mail, cal, book, run>>
    <3>1. \A s : Apart(s)
      BY <2>2, <2>4 DEF Apart
    <3>2. \A s, todo : Owed(s, todo) => Owed(s, todo)'
      BY <2>2, <2>4 DEF Owed
    <3>. QED BY <2>4, <3>2 DEF DueInv, Amid
  <2>5. CASE NextService
    BY <2>1, <2>2, <2>5, DueMovesOn
  <2>6. CASE OpenDriveDelta \/ StepDrive
    <3>1. Here("drive") /\ run'.left = run.left /\ Apart("gmail") /\ Apart("calendar")
      BY <2>1, <2>2, <2>6, DriveOnly
    <3>2. "drive" \in run.svcs => Owed("drive", run.todo)'
      <4>1. CASE OpenDriveDelta
        BY <2>2, <4>1, OpenDriveOwes
      <4>2. CASE StepDrive
        <5>1. "drive" \in run.svcs => Owed("drive", run.todo)
          BY <2>1, <2>3, <4>2 DEF DueInv, StepDrive, Working
        <5>. QED BY <2>1, <2>2, <4>2, <5>1, StepDriveOwes
      <4>. QED BY <2>6, <4>1, <4>2
    <3>. QED BY <2>1, <2>2, <3>1, <3>2, DueAt DEF Services
  <2>7. CASE OpenMailDelta \/ StepMail
    <3>1. Here("gmail") /\ run'.left = run.left /\ Apart("drive") /\ Apart("calendar")
      BY <2>1, <2>2, <2>7, MailOnly
    <3>2. "gmail" \in run.svcs => Owed("gmail", run.todo)'
      <4>1. CASE OpenMailDelta
        BY <2>2, <4>1, OpenMailOwes
      <4>2. CASE StepMail
        <5>1. "gmail" \in run.svcs => Owed("gmail", run.todo)
          BY <2>1, <2>3, <4>2 DEF DueInv, StepMail, Working
        <5>. QED BY <2>1, <2>2, <4>2, <5>1, StepMailOwes
      <4>. QED BY <2>7, <4>1, <4>2
    <3>. QED BY <2>1, <2>2, <3>1, <3>2, DueAt DEF Services
  <2>8. CASE OpenCalendarDelta \/ StepCalendar
    <3>1. Here("calendar") /\ run'.left = run.left /\ Apart("drive") /\ Apart("gmail")
      BY <2>1, <2>2, <2>8, CalendarOnly
    <3>2. "calendar" \in run.svcs => Owed("calendar", run.todo)'
      <4>1. CASE OpenCalendarDelta
        BY <2>2, <4>1, OpenCalendarOwes
      <4>2. CASE StepCalendar
        <5>1. "calendar" \in run.svcs => Owed("calendar", run.todo)
          BY <2>1, <2>3, <4>2 DEF DueInv, StepCalendar, Working
        <5>. QED BY <2>1, <2>2, <4>2, <5>1, StepCalendarOwes
      <4>. QED BY <2>8, <4>1, <4>2
    <3>. QED BY <2>1, <2>2, <3>1, <3>2, DueAt DEF Services
  <2>. QED BY <2>2, <2>4, <2>5, <2>6, <2>7, <2>8
<1>. QED BY <1>1, <1>2

\* A delta that owes nothing has verified what it did, and has nothing left to plan.
LEMMA DeltaEnds ==
  ASSUME IInv, TInv, DeltaBook, DueInv, run.cmd = "delta", run.left = <<>>,
         NEW s \in run.svcs, s = "drive" => ~run.twice
  PROVE  Verified(s, book) /\ PlanOf(s) = [ok |-> TRUE, todo |-> {}] /\ Is(s)
<1>1. Owed(s, {})
  BY TurnsLeft DEF DueInv
<1>2. book = run.mem /\ book # NoBook /\ s \in archive.serves
  BY DeltaHasBook DEF DeltaBook
<1>3. /\ IsWorld(archive, drive, mail, cal, book) /\ IsArchive(archive)
      /\ IsAt(run, book, archive, drive, mail)
  BY CommandIs
<1>4. /\ book.tag \in Nat \ {0} /\ OwnMail(mail, book.mail) /\ OwnIds(book.cal)
      /\ DOMAIN book.drive \subseteq Paths(archive.files)
      /\ IsMailBook(book.mail, archive) /\ DOMAIN book.cal \subseteq ToSet(archive.events)
  BY <1>2, <1>3, AtKeeps
<1>5. IsDrive(drive) /\ IsMailbox(mail)
  BY <1>3 DEF IsWorld
<1>6. CASE s = "drive"
  <2>1. DriveDue({}, drive, book.drive, book.tag, archive.files)
    BY <1>1, <1>2, <1>6 DEF Owed
  <2>2. ProperNames(archive.files) /\ GoodTree(drive, book.drive, book.tag, archive.files)
    BY <1>2, <1>3 DEF TInv, BookFits, IsArchive, ProperNames
  <2>3. DriveVerified(drive, book.drive, book.tag, archive.files)
    BY <1>4, <1>5, <2>1, <2>2, DrivePaid
  <2>4. DrivePlan(drive, book.drive, book.tag, archive.files) = [ok |-> TRUE, todo |-> {}]
    BY <1>4, <1>5, <2>2, <2>3, DriveSettled
  <2>5. Verified(s, book)
    BY <1>6, <2>3 DEF Verified
  <2>. QED BY <1>2, <1>6, <2>4, <2>5, VouchedFor DEF PlanOf
<1>7. CASE s = "gmail"
  <2>1. MailDue({}, mail, book.mail, book.tag, archive)
    BY <1>1, <1>2, <1>7 DEF Owed
  <2>2. MailVerified(mail, book.mail, book.tag, archive)
    BY <1>3, <1>4, <1>5, <2>1, MailPaid
  <2>3. MailPlan(mail, book.mail, book.tag, archive) = [ok |-> TRUE, todo |-> {}]
    BY <1>3, <1>5, <2>2, MailSettled
  <2>4. Verified(s, book)
    BY <1>7, <2>2 DEF Verified
  <2>. QED BY <1>2, <1>7, <2>3, <2>4, VouchedFor DEF PlanOf
<1>8. CASE s = "calendar"
  <2>1. CalendarDue({}, cal, book.cal, book.tag, archive.events)
    BY <1>1, <1>2, <1>8 DEF Owed
  <2>2. CalendarVerified(cal, book.cal, book.tag, archive.events)
    BY <1>4, <2>1, CalendarPaid
  <2>3. CalendarPlan(cal, book.cal, book.tag, archive.events) = [ok |-> TRUE, todo |-> {}]
    BY <1>3, <1>4, <2>2, CalendarSettled DEF IsArchive
  <2>4. Verified(s, book)
    BY <1>8, <2>2 DEF Verified
  <2>. QED BY <1>2, <1>8, <2>3, <2>4, VouchedFor DEF PlanOf
<1>9. s \in Services
  BY <1>2, <1>3 DEF IsArchive
<1>. QED BY <1>6, <1>7, <1>8, <1>9 DEF Services

\* How a service stands after a delta that carried out its plan.
AtRest(s) == Is(s) /\ Verified(s, book) /\ PlanOf(s) = [ok |-> TRUE, todo |-> {}]

\* It stays so until the account, the manifest or the command changes.
EndInv ==
  last.cmd = "delta" /\ last.result \in {"ok", "unverified"} =>
    run = Idle /\ \A s \in last.svcs : AtRest(s) \/ (s = "drive" /\ last.twice)

LEMMA AtRestKept ==
  ASSUME UNCHANGED <<archive, drive, mail, cal, book>>, NEW s
  PROVE  AtRest(s)' <=> AtRest(s)
<1>1. Is(s)' <=> Is(s)
  BY IsKept
<1>2. Verified(s, book)' <=> Verified(s, book)
  BY DEF Verified
<1>3. PlanOf(s)' = PlanOf(s)
  BY DEF PlanOf
<1>. QED BY <1>1, <1>2, <1>3 DEF AtRest

LEMMA FinishSettles ==
  ASSUME IInv, SavedInv, DueInv, FinishDelta
  PROVE  EndInv'
<1>1. run.cmd = "delta" /\ run.left = <<>> /\ UNCHANGED <<archive, drive, mail, cal>>
  BY DEF FinishDelta, worlds
<1>2. book' = book
  BY <1>1, DeltaHasBook DEF FinishDelta, Save, Keep, SavedInv, DeltaBook
<1>3. run' = Idle /\ \E x : last' = [cmd |-> run.cmd, svcs |-> run.svcs, result |-> x,
                                     at |-> "none", twice |-> run.twice]
  BY <1>1 DEF FinishDelta, End
<1>4. last'.svcs = run.svcs /\ last'.twice = run.twice
  BY <1>3
<1>5. ASSUME NEW s \in run.svcs PROVE AtRest(s)' \/ (s = "drive" /\ run.twice)
  <2>1. CASE s = "drive" /\ run.twice
    BY <2>1
  <2>2. CASE s = "drive" => ~run.twice
    <3>1. AtRest(s)
      BY <1>1, <2>2, DeltaEnds DEF AtRest, SavedInv
    <3>. QED BY <1>1, <1>2, <3>1, AtRestKept
  <2>. QED BY <2>1, <2>2
<1>. QED BY <1>3, <1>4, <1>5 DEF EndInv

LEMMA EndNext ==
  ASSUME IInv, SavedInv, DueInv, EndInv, [Next]_vars
  PROVE  EndInv'
<1>1. CASE FinishDelta
  BY <1>1, FinishSettles
<1>. SUFFICES ASSUME last'.cmd = "delta" /\ last'.result \in {"ok", "unverified"}, ~FinishDelta
              PROVE  run' = Idle /\ \A s \in last'.svcs : AtRest(s)' \/ (s = "drive" /\ last'.twice)
  BY <1>1 DEF EndInv
<1>2. CASE \E svcs \in (SUBSET archive.serves) \ {{}} :
             StartSeed(svcs) \/ StartDelta(svcs) \/ StartReset(svcs)
  BY <1>2 DEF StartSeed, StartDelta, StartReset, Refuse, Start, NoCommand
<1>3. CASE FinishSeed \/ FinishReset
  BY <1>3 DEF FinishSeed, FinishReset, End
<1>5. CASE \/ NextService \/ OpenDriveSeed \/ OpenMailSeed \/ OpenCalendarSeed
           \/ OpenDriveDelta \/ OpenMailDelta \/ OpenCalendarDelta
           \/ StepDrive \/ StepMail \/ StepCalendar \/ Wipe
  BY <1>5, CommandsGoOn DEF EndInv, Onward
<1>6. CASE Edit
  BY <1>6 DEF Edit, NoCommand
<1>7. CASE TouchArchive \/ UNCHANGED vars
  <2>1. UNCHANGED <<archive, drive, mail, cal, book, run, last>>
    BY <1>7 DEF TouchArchive, worlds, vars
  <2>2. \A s : AtRest(s)' <=> AtRest(s)
    BY <2>1, AtRestKept
  <2>. QED BY <2>1, <2>2 DEF EndInv
<1>. QED BY <1>2, <1>3, <1>5, <1>6, <1>7 DEF Next

LEMMA DeltaInvariant == Spec => [](DueInv /\ EndInv)
<1>1. Init => DueInv /\ EndInv
  BY DEF Init, DueInv, EndInv, Idle, NoCommand
<1>2. IInv /\ SavedInv /\ DueInv /\ EndInv /\ [Next]_vars => DueInv' /\ EndInv'
  BY DueNext, EndNext DEF SavedInv
<1>. QED BY <1>1, <1>2, EngineInvariant, SavedInvariant, PTL DEF Spec

\* A delta (engine.py with drive.py, gmail.py and calendar_seed.py) that ends well leaves
\* each of its services holding the baseline and nothing else, whether it reads back what
\* it did or not: for every archive, every order of the calls that the ranks allow,
\* whatever the user did before and wherever earlier commands died; in Drive, unless the
\* plan was made by a manifest that names an object twice.
THEOREM DeltaAlwaysRestores == Spec => []DeltaRestores
<1>1. EndInv => DeltaRestores
  BY DEF EndInv, AtRest, DeltaRestores
<1>. QED BY <1>1, DeltaInvariant, PTL

\* A delta that has carried out its plan passes its own read-back, and the next one finds
\* nothing left to do: one pass converges.
THEOREM DeltaConverges == Spec => []DeltaSettles
<1>1. EndInv => DeltaSettles
  BY DEF EndInv, AtRest, DeltaSettles
<1>. QED BY <1>1, DeltaInvariant, PTL
=============================================================================

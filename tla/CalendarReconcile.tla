-------------------------- MODULE CalendarReconcile --------------------------
(***************************************************************************)
(* The Calendar half of the engine.  A calendar holds live events by id and *)
(* the ids of deleted events (gone), which Google keeps as tombstones.  An  *)
(* id the engine makes is <<seed tag, source, generation>>; an id Google    *)
(* makes for an event of the user is <<0, "", k>>.  An event carries the    *)
(* seed tag and the source of its private properties (0 and "" when it has  *)
(* none), the source whose title and times it shows (key), and whether all  *)
(* its other fields are that source's (fine).  Two sources never share      *)
(* title and times.  The events of an archive are a sequence of sources.    *)
(***************************************************************************)
EXTENDS Naturals, SequencesExt, Entries

NoSource == ""
EmptyCalendar == [events |-> <<>>, gone |-> {}]

EventId(s, t, g) == <<t, s, g>>
Baseline(t, s) == [tag |-> t, src |-> s, key |-> s, fine |-> TRUE]

(***************************************************************************)
(* The plan of a delta.                                                    *)
(***************************************************************************)
GenerationOf(b, s) == IF s \in DOMAIN b THEN b[s].gen ELSE 0
WantedId(b, t, s) == IF s \in DOMAIN b THEN b[s].id ELSE EventId(s, t, 0)

Marked(c, t, s) == {i \in DOMAIN c.events : c.events[i].tag = t /\ c.events[i].src = s}
ForeignTags(c, t) == {c.events[i].tag : i \in DOMAIN c.events} \ {0, t}
Foreign(c, t, s) == UNION {Marked(c, r, s) : r \in ForeignTags(c, t)}
Bare(c) == Marked(c, 0, NoSource)
SameKey(c, s) == {i \in Bare(c) : c.events[i].key = s}

\* The one earlier seed whose events stand for every source exactly once, when
\* nothing of this seed is there: a generation to adopt as a whole.
LegacyTags(c, t, sources) ==
  LET whole == {r \in ForeignTags(c, t) :
                  /\ \A s \in ToSet(sources) : Cardinality(Marked(c, r, s)) = 1
                  /\ {c.events[i].src : i \in {k \in DOMAIN c.events : c.events[k].tag = r}}
                       \subseteq ToSet(sources) \cup {NoSource}}
  IN IF Cardinality(whole) = 1 /\ \A i \in DOMAIN c.events : c.events[i].tag # t
     THEN whole ELSE {}

Standing(c, b, t, s) ==
  IF WantedId(b, t, s) \in DOMAIN c.events THEN {WantedId(b, t, s)}
  ELSE IF Marked(c, t, s) # {} THEN Marked(c, t, s)
  ELSE IF Marked(c, 0, s) # {} THEN Marked(c, 0, s)
  ELSE IF Foreign(c, t, s) # {} THEN Foreign(c, t, s)
  ELSE SameKey(c, s)

StandingBefore(c, b, t, sources, s) ==
  UNION {Standing(c, b, t, sources[k]) :
           k \in 1 .. (CHOOSE n \in DOMAIN sources : sources[n] = s) - 1}

CalendarUnambiguous(c, b, t, sources, s) ==
  LET mine == Standing(c, b, t, s)
      earlier == StandingBefore(c, b, t, sources, s)
      adoptable == LegacyTags(c, t, sources)
  IN /\ \A i \in Foreign(c, t, s) :
          c.events[i].tag \in adoptable /\ Foreign(c, t, s) = {i}
     /\ Cardinality(mine) <= 1
     /\ mine = {} => Bare(c) \subseteq earlier
     /\ mine \cap earlier = {}
     /\ \A i \in mine : c.events[i].tag \in {0, t} \cup adoptable
     /\ Marked(c, t, s) \subseteq mine

CalendarPlan(c, b, t, sources) ==
  LET Act(do, s, i, stage) == [do |-> do, src |-> s, id |-> i, rank |-> <<stage, 0>>]
      PlanOf(s) ==
        IF Standing(c, b, t, s) = {} THEN {Act("insert", s, WantedId(b, t, s), 1)}
        ELSE {Act("update", s, i, 0) :
                i \in {k \in Standing(c, b, t, s) : c.events[k] # Baseline(t, s)}}
  IN [ok |-> \A s \in ToSet(sources) : CalendarUnambiguous(c, b, t, sources, s),
      todo |-> (UNION {PlanOf(s) : s \in ToSet(sources)})
        \cup {Act("delete", NoSource, i, 2) :
                i \in DOMAIN c.events \ UNION {Standing(c, b, t, s) : s \in ToSet(sources)}}]

\* An adopted event keeps the generation the manifest had for its source.
CalendarAdopted(c, b, t, sources) ==
  [s \in DOMAIN b \cup {r \in ToSet(sources) : Standing(c, b, t, r) # {}} |->
     IF Standing(c, b, t, s) \subseteq {WantedId(b, t, s)} /\ s \in DOMAIN b THEN b[s]
     ELSE [id |-> CHOOSE i \in Standing(c, b, t, s) : TRUE, gen |-> GenerationOf(b, s)]]

(***************************************************************************)
(* The calls.  A tombstone cannot be used again, so an insertion takes the *)
(* first generation of the id that is not one.                             *)
(***************************************************************************)
FreshGeneration(c, b, t, s) ==
  Min({g \in GenerationOf(b, s) .. GenerationOf(b, s) + Cardinality(c.gone) :
         EventId(s, t, g) \notin c.gone})

CalendarInserted(c, b, t, s, g) ==
  LET i == EventId(s, t, g)
  IN [world |-> [c EXCEPT !.events = PutNew(@, i, Baseline(t, s))],
      book |-> Put(b, s, [id |-> i, gen |-> g])]

CalendarWithout(c, i) ==
  [events |-> [j \in DOMAIN c.events \ {i} |-> c.events[j]], gone |-> c.gone \cup {i}]

CalendarDone(a, c, b, t) ==
  CASE a.do = "insert" -> CalendarInserted(c, b, t, a.src, FreshGeneration(c, b, t, a.src))
    [] a.do = "update" ->
         [world |-> [c EXCEPT !.events[a.id] = Baseline(t, a.src)],
          book |-> Put(b, a.src, [id |-> a.id, gen |-> GenerationOf(b, a.src)])]
    [] a.do = "delete" -> [world |-> CalendarWithout(c, a.id), book |-> b]

CalendarTorn(a, c, b, t) == {c, CalendarDone(a, c, b, t).world}

(***************************************************************************)
(* Seed, verify and reset.  A seed uses generation 0 only.                 *)
(***************************************************************************)
CalendarSeedTodo(b, sources) ==
  {[do |-> "seed", src |-> s, id |-> 0, rank |-> <<0, 0>>] : s \in ToSet(sources) \ DOMAIN b}

CalendarSeedFits(c, t, s) == EventId(s, t, 0) \notin c.gone

CalendarVerified(c, b, t, sources) ==
  /\ \A s \in ToSet(sources) :
       /\ WantedId(b, t, s) \in DOMAIN c.events
       /\ c.events[WantedId(b, t, s)] = Baseline(t, s)
       /\ Cardinality(Marked(c, t, s)) = 1
  /\ DOMAIN c.events \subseteq {WantedId(b, t, s) : s \in ToSet(sources)}

CalendarWipes(c) ==
  {[events |-> [i \in keep |-> c.events[i]], gone |-> c.gone \cup (DOMAIN c.events \ keep)] :
     keep \in SUBSET DOMAIN c.events}

(***************************************************************************)
(* The account's user.  k numbers the events Google names.                 *)
(***************************************************************************)
CalendarEdits(c, sources, k) ==
  LET New(e) == [c EXCEPT !.events = Put(@, <<0, NoSource, k>>, e)]
  IN {CalendarWithout(c, i) : i \in DOMAIN c.events}
     \cup {[c EXCEPT !.events[i].fine = FALSE] : i \in DOMAIN c.events}
     \cup {[c EXCEPT !.events[i].key = NoSource] : i \in DOMAIN c.events}
     \cup {[c EXCEPT !.events[i].tag = 0] : i \in DOMAIN c.events}
     \cup {[c EXCEPT !.events[i].tag = 0, !.events[i].src = NoSource] : i \in DOMAIN c.events}
     \cup {New([tag |-> 0, src |-> NoSource, key |-> s, fine |-> FALSE]) :
             s \in ToSet(sources) \cup {NoSource}}
     \cup {New(c.events[i]) : i \in DOMAIN c.events}

\* The baseline without manifest or private properties: one event for each
\* source, showing exactly that source, and no other.
CalendarIs(c, sources) ==
  /\ \A s \in ToSet(sources) :
       Cardinality({i \in DOMAIN c.events : c.events[i].key = s /\ c.events[i].fine}) = 1
  /\ Cardinality(DOMAIN c.events) = Len(sources)
=============================================================================

---------------------------- MODULE MailReconcile ----------------------------
(***************************************************************************)
(* The Gmail half of the engine.  A mailbox holds messages by id and labels *)
(* by id.  A message carries the synthetic headers of the archive's letter  *)
(* it was imported from (src, with whole FALSE when only one of the two     *)
(* headers is there), its thread, the labels it carries and whether the     *)
(* mutable and the immutable system labels are those the letter asks for.   *)
(* A label's name is the seed tag of a baseline label, or 0 for a label of  *)
(* the user.  The book is the "gmail" section of the manifest.  The mail of *)
(* an archive is a sequence of letters, parents first, and a function       *)
(* "parent" from a letter to the letter it answers under the same subject.  *)
(***************************************************************************)
EXTENDS Naturals, SequencesExt, Entries

NoLetter == ""
Letters(cat) == ToSet(cat.letters)
Order(cat, s) == CHOOSE k \in DOMAIN cat.letters : cat.letters[k] = s

EmptyMailbox == [messages |-> <<>>, labels |-> <<>>]
EmptyMailBook == [label |-> 0, messages |-> <<>>]

BaselineLabels(m, t) == {k \in DOMAIN m.labels : m.labels[k] = t}

\* The label of this seed, made when it is missing; n is the id of the new label.
Labelled(m, b, t, n) ==
  LET have == BaselineLabels(m, t)
      id == IF have = {} THEN n ELSE CHOOSE k \in have : TRUE
  IN [world |-> [m EXCEPT !.labels = Put(@, id, t)],
      book |-> [b EXCEPT !.label = id]]

\* The first letter of s's thread.
Opener(cat, s) ==
  LET up[n \in 0 .. Len(cat.letters)] ==
        IF n = 0 THEN s
        ELSE IF cat.parent[up[n - 1]] = NoLetter THEN up[n - 1]
        ELSE cat.parent[up[n - 1]]
  IN up[Len(cat.letters)]

(***************************************************************************)
(* The plan of a delta.                                                    *)
(***************************************************************************)
KnownMail(m, b, s) ==
  IF s \in DOMAIN b.messages THEN {b.messages[s].id} \cap DOMAIN m.messages ELSE {}
Lookalikes(m, b, s) == {i \in DOMAIN m.messages : m.messages[i].src = s} \ KnownMail(m, b, s)

Canonical(m, b, s) ==
  IF KnownMail(m, b, s) # {} THEN KnownMail(m, b, s) ELSE Lookalikes(m, b, s)

\* Headers of the message that stands for s are s's own.
HeadersHold(m, s, i) == m.messages[i].src = s /\ m.messages[i].whole

MailUnambiguousAlone(m, b, s) ==
  Cardinality(Canonical(m, b, s)) <= 1 /\ (s \in DOMAIN b.messages => Lookalikes(m, b, s) = {})

MailUnambiguous(m, b, s) ==
  /\ Cardinality(Canonical(m, b, s)) <= 1
  /\ KnownMail(m, b, s) # {} /\ Lookalikes(m, b, s) # {}
       => \A i \in Canonical(m, b, s) : HeadersHold(m, s, i)

ThreadHolds(m, b, cat, s, i) ==
  cat.parent[s] # NoLetter =>
    \A j \in Canonical(m, b, cat.parent[s]) : m.messages[j].thread = m.messages[i].thread

Missing(m, b, cat) == {s \in Letters(cat) : Canonical(m, b, s) = {}}

\* Letters whose message cannot be put right by changing labels.
Spoiled(m, b, cat) ==
  {s \in Letters(cat) :
     \E i \in Canonical(m, b, s) : ~(/\ HeadersHold(m, s, i)
                                     /\ m.messages[i].sent
                                     /\ ThreadHolds(m, b, cat, s, i))}

RebuiltAlone(m, b, cat) == Spoiled(m, b, cat)

\* A spoiled message, or a missing one that has answers, rebuilds its whole thread.
Rebuilt(m, b, cat) ==
  LET causes == Spoiled(m, b, cat)
        \cup {s \in Missing(m, b, cat) : \E c \in Letters(cat) : cat.parent[c] = s}
  IN {s \in Letters(cat) : Opener(cat, s) \in {Opener(cat, c) : c \in causes}}

Mislabelled(m, b, cat) ==
  {s \in Letters(cat) :
     \E i \in Canonical(m, b, s) : ~(b.label \in m.messages[i].labels /\ m.messages[i].placed)}

MailPlan(m, b, t, cat) ==
  LET Act(do, s, i, stage) ==
        [do |-> do, src |-> s, id |-> i,
         rank |-> <<stage, IF s = NoLetter THEN 0 ELSE Order(cat, s)>>]
      kept == UNION {Canonical(m, b, s) : s \in Letters(cat)}
      drafts == {i \in DOMAIN m.messages : m.messages[i].draft}
      redone == Rebuilt(m, b, cat)
      PlanOf(s) ==
        IF Canonical(m, b, s) = {} THEN {Act("import", s, 0, 4)}
        ELSE IF s \in redone
             THEN {Act("reimport", s, i, 4) : i \in Canonical(m, b, s)}
        ELSE {Act("relabel", s, i, 6) :
                i \in {k \in Canonical(m, b, s) : s \in Mislabelled(m, b, cat)}}
  IN [ok |-> \A s \in Letters(cat) : MailUnambiguous(m, b, s),
      todo |-> (UNION {PlanOf(s) : s \in Letters(cat)})
        \cup {Act("delete", NoLetter, i, 1) : i \in DOMAIN m.messages \ (kept \cup drafts)}
        \cup {Act("delete", NoLetter, i, 2) : i \in drafts}
        \cup {Act("unlabel", NoLetter, k, 3) : k \in DOMAIN m.labels \ BaselineLabels(m, t)}]

MailAdopted(m, b, cat) ==
  [b EXCEPT !.messages =
     [s \in DOMAIN @ \cup {r \in Letters(cat) : Canonical(m, b, r) # {}} |->
        IF Canonical(m, b, s) = {} \/ KnownMail(m, b, s) # {} THEN @[s]
        ELSE LET i == CHOOSE i \in Canonical(m, b, s) : TRUE
             IN [id |-> i, thread |-> m.messages[i].thread]]]

(***************************************************************************)
(* The calls.  n is a new message id; Gmail names a new thread after it.   *)
(***************************************************************************)

\* An answer asks for the thread the manifest has for its parent; Gmail opens a
\* new one when that thread is gone.
ThreadFor(m, b, cat, s, n) ==
  LET p == cat.parent[s]
  IN IF /\ p \in DOMAIN b.messages
        /\ \E i \in DOMAIN m.messages : m.messages[i].thread = b.messages[p].thread
     THEN b.messages[p].thread ELSE n

MailImported(m, b, cat, s, n) ==
  LET thread == ThreadFor(m, b, cat, s, n)
      copy == [src |-> s, whole |-> TRUE, thread |-> thread, labels |-> {b.label},
               placed |-> TRUE, sent |-> TRUE, draft |-> FALSE]
  IN [world |-> [m EXCEPT !.messages = Put(@, n, copy)],
      book |-> [b EXCEPT !.messages = Put(@, s, [id |-> n, thread |-> thread])]]

MailWithout(m, i) == [m EXCEPT !.messages = [j \in DOMAIN @ \ {i} |-> @[j]]]
Forgotten(b, s) == [b EXCEPT !.messages = [r \in DOMAIN @ \ {s} |-> @[r]]]

LabelDeleted(m, k) ==
  [messages |-> [i \in DOMAIN m.messages |-> [m.messages[i] EXCEPT !.labels = @ \ {k}]],
   labels |-> [j \in DOMAIN m.labels \ {k} |-> m.labels[j]]]

Relabelled(o, k) == [o EXCEPT !.placed = TRUE, !.labels = @ \cup {k}]

MailDone(a, m, b, cat, n) ==
  CASE a.do = "import" -> MailImported(m, b, cat, a.src, n)
    [] a.do = "reimport" ->
         MailImported(MailWithout(m, a.id), Forgotten(b, a.src), cat, a.src, n)
    [] a.do = "relabel" ->
         [world |-> [m EXCEPT !.messages[a.id] = Relabelled(m.messages[a.id], b.label)],
          book |-> b]
    [] a.do = "delete" -> [world |-> MailWithout(m, a.id), book |-> b]
    [] a.do = "unlabel" -> [world |-> LabelDeleted(m, a.id), book |-> b]

MailTorn(a, m, b, cat, n) ==
  {m, MailDone(a, m, b, cat, n).world}
    \cup (IF a.do = "reimport" THEN {MailWithout(m, a.id)} ELSE {})

(***************************************************************************)
(* Seed, verify and reset.                                                 *)
(***************************************************************************)
MailSeedTodo(b, cat) ==
  {[do |-> "import", src |-> s, id |-> 0, rank |-> <<0, Order(cat, s)>>] :
     s \in Letters(cat) \ DOMAIN b.messages}

MailVerified(m, b, t, cat) ==
  /\ \A s \in Letters(cat) :
       /\ KnownMail(m, b, s) # {}
       /\ LET i == b.messages[s].id
          IN /\ HeadersHold(m, s, i)
             /\ b.label \in m.messages[i].labels
             /\ m.messages[i].placed /\ m.messages[i].sent
             /\ cat.parent[s] # NoLetter =>
                  \A j \in KnownMail(m, b, cat.parent[s]) :
                    m.messages[j].thread = m.messages[i].thread
       /\ Cardinality({i \in DOMAIN m.messages : m.messages[i].src = s}) = 1
  /\ DOMAIN m.messages \subseteq {b.messages[s].id : s \in Letters(cat)}
  /\ \A k \in DOMAIN m.labels : m.labels[k] = t
  /\ Cardinality(DOMAIN m.labels) = 1

\* Messages go in batches, then the labels one by one.
MailWipes(m) ==
  {[m EXCEPT !.messages = [i \in keep |-> @[i]]] : keep \in SUBSET DOMAIN m.messages}
    \cup {[messages |-> <<>>, labels |-> [k \in keep |-> m.labels[k]]] :
            keep \in SUBSET DOMAIN m.labels}

(***************************************************************************)
(* The account's user.  n is an id for a new message or label.             *)
(***************************************************************************)
MailEdits(m, cat, n) ==
  LET New(s, whole, sent, draft) ==
        [m EXCEPT !.messages = Put(@, n, [src |-> s, whole |-> whole, thread |-> n,
           labels |-> {}, placed |-> TRUE, sent |-> sent, draft |-> draft])]
  IN {MailWithout(m, i) : i \in DOMAIN m.messages}
     \cup {[m EXCEPT !.messages[i].placed = ~@] : i \in DOMAIN m.messages}
     \cup {[m EXCEPT !.messages[i].labels = {}] : i \in DOMAIN m.messages}
     \cup {New(NoLetter, FALSE, TRUE, draft) : draft \in BOOLEAN}
     \cup {New(s, whole, sent, FALSE) : s \in Letters(cat), whole \in BOOLEAN, sent \in BOOLEAN}
     \cup {[m EXCEPT !.labels = Put(@, n, 0)]}
     \cup {LabelDeleted(m, k) : k \in DOMAIN m.labels}

\* The baseline without manifest or tag: one message for each letter, where the
\* letter asks, answers in their parent's thread, and nothing of the user's.
MailIs(m, cat) ==
  LET of(s) == {i \in DOMAIN m.messages : m.messages[i].src = s}
  IN /\ \A s \in Letters(cat) :
          /\ Cardinality(of(s)) = 1
          /\ \A i \in of(s) :
               /\ m.messages[i].whole /\ m.messages[i].placed /\ m.messages[i].sent
               /\ cat.parent[s] # NoLetter =>
                    \A j \in of(cat.parent[s]) : m.messages[j].thread = m.messages[i].thread
     /\ Cardinality(DOMAIN m.messages) = Len(cat.letters)
     /\ \A k \in DOMAIN m.labels : m.labels[k] # 0
=============================================================================

--------------------------- MODULE DriveReconcile ---------------------------
(***************************************************************************)
(* The Drive half of the engine: what seed, delta, verify and reset read   *)
(* from an account's Drive and what each of their calls does to it.        *)
(*                                                                         *)
(* A path is the sequence of its names.  A drive is a function from file   *)
(* ids to objects; ids start at 1 and Root is the id of My Drive.  A book  *)
(* is the "drive" section of the manifest: a function from paths to        *)
(* entries.  The archive of a persona is the set of paths of its files;    *)
(* folders are the prefixes of those.  Every operator here is a function   *)
(* of these values, so that Engine can say when each is read or written.   *)
(***************************************************************************)
EXTENDS Naturals, SequencesExt, Entries

Root == 0
NoMark == [tag |-> 0, path |-> <<>>]

\* Bytes are told apart as far as the planner can: the baseline's own, other
\* bytes (or another type) of the same size, and bytes of another size.
Base(p) == [of |-> p, as |-> "base"]
Twin(p) == [of |-> p, as |-> "twin"]
Other == [of |-> <<>>, as |-> "other"]
NoBytes == [of |-> <<>>, as |-> "folder"]

Folders(files) == UNION {{SubSeq(p, 1, n) : n \in 1 .. Len(p) - 1} : p \in files}
Paths(files) == Folders(files) \cup files

(***************************************************************************)
(* Reading the remote tree.                                                *)
(***************************************************************************)

\* The objects found at path p, walking down from the root by name.
At(w, p) ==
  LET level[n \in 0 .. Len(p)] ==
        IF n = 0 THEN {Root}
        ELSE {i \in DOMAIN w : w[i].in \in level[n - 1] /\ w[i].name = p[n]}
  IN level[Len(p)]

\* i and the folders above it.
Line(w, i) ==
  LET up[n \in 0 .. Cardinality(DOMAIN w)] ==
        IF n = 0 THEN {i}
        ELSE up[n - 1] \cup {w[j].in : j \in up[n - 1] \cap DOMAIN w}
  IN up[Cardinality(DOMAIN w)] \cap DOMAIN w

\* Drive reports an object as trashed when it or a folder above it is.
Trashed(w, i) == \E j \in Line(w, i) : w[j].binned

\* Deleting a folder deletes what is below it.
Without(w, i) == [j \in {k \in DOMAIN w : i \notin Line(w, k)} |-> w[j]]

Holders(w, t, p) == {i \in DOMAIN w : w[i].mark = [tag |-> t, path |-> p]}

(***************************************************************************)
(* The plan of a delta.                                                    *)
(***************************************************************************)
Known(w, b, p) == IF p \in DOMAIN b THEN {b[p].id} \cap DOMAIN w ELSE {}

\* The object taken for path p: the manifest's, else the marked, else the one there.
Claimed(w, b, t, p) ==
  IF Known(w, b, p) # {} THEN Known(w, b, p)
  ELSE IF Holders(w, t, p) # {} THEN Holders(w, t, p)
  ELSE At(w, p)

UnambiguousUnmarked(w, b, t, files, p) ==
  LET mine == Claimed(w, b, t, p)
  IN /\ Cardinality(mine) <= 1
     /\ \A i \in mine : (w[i].kind = "file") = (p \in files)

\* No problem is recorded for p.
Unambiguous(w, b, t, files, p) ==
  LET mine == Claimed(w, b, t, p)
      here == At(w, p)
      held == Holders(w, t, p)
  IN /\ Cardinality(mine) <= 1
     /\ \A i \in mine :
          /\ (w[i].kind = "file") = (p \in files)
          /\ here = {} \/ i \in here
          /\ held = {} \/ i \in held
          /\ Known(w, b, p) = {} /\ held = {} => w[i].mark = NoMark
     /\ \A i \in here \ (mine \cup held) : w[i].mark = NoMark

\* Where p's parent is now or is to be; empty when neither Drive nor the manifest knows.
Seat(w, b, t, p) ==
  IF Len(p) = 1 THEN {Root}
  ELSE IF Claimed(w, b, t, Front(p)) # {} THEN Claimed(w, b, t, Front(p))
  ELSE IF Front(p) \in DOMAIN b THEN {b[Front(p)].id}
  ELSE {}

\* The manifest's word for the bytes of p; the archive's when it has no entry.
Asked(b, files, p) ==
  IF p \in DOMAIN b THEN b[p].bytes ELSE IF p \in files THEN Base(p) ELSE NoBytes

\* Same checksum as asked for, and same size: the size is always the archive's of p.
SameBytes(b, files, p, o) == o.bytes = Asked(b, files, p) /\ o.bytes \in {Base(p), Twin(p)}

Placed(w, b, t, p, i) ==
  /\ w[i].name = Last(p)
  /\ ~Trashed(w, i)
  /\ Seat(w, b, t, p) \subseteq {w[i].in}
  /\ w[i].mark = [tag |-> t, path |-> p]

\* The order of the calls: <<stage, place in the stage>>.  Folders, files, each from the
\* top down; then what is deleted, files before folders, from the bottom up.
Rank(files, p) == <<IF p \in files THEN 2 ELSE 1, Len(p)>>
RemovalRank(w, i) ==
  <<IF w[i].kind = "file" THEN 3 ELSE 4, Cardinality(DOMAIN w) - Cardinality(Line(w, i))>>

Creates(w, b, t, files) ==
  {[do |-> "create", path |-> p, id |-> 0, rank |-> Rank(files, p)] :
     p \in {q \in Paths(files) : Claimed(w, b, t, q) = {}}}

Repairs(w, b, t, files) ==
  UNION {{[do |-> IF SameBytes(b, files, p, w[i]) \/ p \notin files
                  THEN "patch" ELSE "replace",
           path |-> p, id |-> i, rank |-> Rank(files, p)] :
            i \in {k \in Claimed(w, b, t, p) :
                     ~(Placed(w, b, t, p, k) /\ (p \in files => SameBytes(b, files, p, w[k])))}} :
         p \in Paths(files)}

RemovalsFirst(w, b, t, files) ==
  {[do |-> "delete", path |-> <<>>, id |-> i, rank |-> <<0, 0>>] :
     i \in DOMAIN w \ UNION {Claimed(w, b, t, p) : p \in Paths(files)}}

Removals(w, b, t, files) ==
  {[do |-> "delete", path |-> <<>>, id |-> i, rank |-> RemovalRank(w, i)] :
     i \in DOMAIN w \ UNION {Claimed(w, b, t, p) : p \in Paths(files)}}

DrivePlan(w, b, t, files) ==
  [ok |-> \A p \in Paths(files) : Unambiguous(w, b, t, files, p),
   todo |-> Creates(w, b, t, files) \cup Repairs(w, b, t, files)
              \cup Removals(w, b, t, files)]

\* The manifest after the adoptions: an adopted file is entered with the bytes
\* it has in Drive.
DriveAdopted(w, b, t, files) ==
  [p \in DOMAIN b \cup {q \in Paths(files) : Claimed(w, b, t, q) # {}} |->
     IF Claimed(w, b, t, p) = {} \/ Known(w, b, p) # {} THEN b[p]
     ELSE [id |-> CHOOSE i \in Claimed(w, b, t, p) : TRUE,
           bytes |-> w[CHOOSE i \in Claimed(w, b, t, p) : TRUE].bytes]]

\* One object stands for two paths.
NamesTwice(b) == \E p, q \in DOMAIN b : p # q /\ b[p].id = b[q].id

(***************************************************************************)
(* The calls of a delta.  Each returns the drive and the book after it; n  *)
(* is an id that Drive generated for the call and has used for nothing     *)
(* else.                                                                   *)
(***************************************************************************)
FolderId(b, p) == IF p = <<>> THEN Root ELSE b[p].id

NewObject(b, t, files, p) ==
  [kind |-> IF p \in files THEN "file" ELSE "folder", name |-> Last(p),
   in |-> FolderId(b, Front(p)), binned |-> FALSE,
   bytes |-> IF p \in files THEN Base(p) ELSE NoBytes,
   mark |-> [tag |-> t, path |-> p]]

DriveCreated(w, b, t, files, p, n) ==
  [world |-> Put(w, n, NewObject(b, t, files, p)),
   book |-> Put(b, p, [id |-> n, bytes |-> NewObject(b, t, files, p).bytes])]

DrivePatchedInTrash(w, b, t, p, i) ==
  [world |-> [w EXCEPT ![i].name = Last(p), ![i].in = FolderId(b, Front(p)),
                       ![i].mark = [tag |-> t, path |-> p]],
   book |-> b]

DrivePatched(w, b, t, p, i) ==
  [world |-> [w EXCEPT ![i].name = Last(p), ![i].binned = FALSE,
                       ![i].in = FolderId(b, Front(p)),
                       ![i].mark = [tag |-> t, path |-> p]],
   book |-> b]

\* One action of the plan.  A deletion of what a folder took with it is no error.
DriveDone(a, w, b, t, files, n) ==
  CASE a.do = "create" -> DriveCreated(w, b, t, files, a.path, n)
    [] a.do = "patch" -> DrivePatched(w, b, t, a.path, a.id)
    [] a.do = "replace" -> DriveCreated(Without(w, a.id), b, t, files, a.path, n)
    [] a.do = "delete" -> [world |-> Without(w, a.id), book |-> b]

\* Patching or replacing an object that is not there is an error.
DriveAnswers(a, w) == a.do \in {"patch", "replace"} => a.id \in DOMAIN w

\* What may be left in Drive when the process dies in the middle of the call.
DriveTorn(a, w, b, t, files, n) ==
  {w, DriveDone(a, w, b, t, files, n).world}
    \cup (IF a.do = "replace" THEN {Without(w, a.id)} ELSE {})

(***************************************************************************)
(* Seed, verify and reset.                                                 *)
(***************************************************************************)
SeedHeldUnmarked(w, t, p) == {}

SeedHeld(w, t, p) == {i \in Holders(w, t, p) : ~Trashed(w, i)}

DriveSeedOpens(w, t, files) == \A p \in Paths(files) : Cardinality(SeedHeld(w, t, p)) <= 1

\* Files come in the archive's order, each after the folders above it.
DriveSeedTodo(b, files) ==
  {[do |-> "seed", path |-> p, id |-> 0, rank |-> <<0, 0>>] :
     p \in (files \cup UNION {Folders({p}) : p \in files \ DOMAIN b}) \ DOMAIN b}

DriveSeedNext(b, p) == Len(p) = 1 \/ Front(p) \in DOMAIN b

DriveSeedFitsAnywhere(w, b, t, files, p) == Cardinality(SeedHeld(w, t, p)) <= 1

\* An object of this seed is reconciled only if it is the baseline's.
DriveSeedFits(w, b, t, files, p) ==
  /\ FolderId(b, Front(p)) \in DOMAIN w \cup {Root}
  /\ \A i \in SeedHeld(w, t, p) :
       LET o == NewObject(b, t, files, p)
       IN w[i].kind = o.kind /\ w[i].in = o.in /\ w[i].bytes = o.bytes

DriveSeeded(w, b, t, files, p, n) ==
  LET held == SeedHeld(w, t, p)
  IN IF held = {} THEN DriveCreated(w, b, t, files, p, n)
     ELSE [world |-> w,
           book |-> Put(b, p, [id |-> CHOOSE i \in held : TRUE,
                              bytes |-> NewObject(b, t, files, p).bytes])]

DriveVerifiedById(w, b, t, files) ==
  /\ \A p \in Paths(files) : Known(w, b, p) # {}
  /\ DOMAIN w \subseteq {b[p].id : p \in DOMAIN b}

DriveVerified(w, b, t, files) ==
  /\ \A p \in Paths(files) :
       /\ Known(w, b, p) # {}
       /\ At(w, p) = {b[p].id}
       /\ Cardinality(Holders(w, t, p)) <= 1
       /\ (w[b[p].id].kind = "file") = (p \in files)
       /\ ~Trashed(w, b[p].id)
       /\ w[b[p].id].mark = [tag |-> t, path |-> p]
       /\ p \in files => SameBytes(b, files, p, w[b[p].id])
  /\ DOMAIN w \subseteq {b[p].id : p \in DOMAIN b}

\* What an interrupted reset leaves: files go before folders, deepest first.
DriveWipes(w) ==
  {[i \in keep |-> w[i]] :
     keep \in {k \in SUBSET DOMAIN w :
                 /\ \A i \in k : Line(w, i) \subseteq k
                 /\ (\E i \in k : w[i].kind = "file")
                      => \A i \in DOMAIN w \ k : w[i].kind = "file"}}

(***************************************************************************)
(* The account's user, between two commands.  n is an id for a new object. *)
(***************************************************************************)
DriveEdits(w, files, n) ==
  LET seats == {Root} \cup {i \in DOMAIN w : w[i].kind = "folder"}
      names == {Last(p) : p \in Paths(files)}
      New(kind, name, seat, bytes) ==
        Put(w, n, [kind |-> kind, name |-> name, in |-> seat, binned |-> FALSE,
                   bytes |-> bytes, mark |-> NoMark])
  IN {Without(w, i) : i \in DOMAIN w}
     \cup {[w EXCEPT ![i].binned = ~@] : i \in DOMAIN w}
     \cup {[w EXCEPT ![i].name = name] : i \in DOMAIN w, name \in names}
     \cup {[w EXCEPT ![e[1]].in = e[2]] :
              e \in {m \in (DOMAIN w) \X seats : m[2] = Root \/ m[1] \notin Line(w, m[2])}}
     \cup {[w EXCEPT ![i].bytes = IF twin /\ @ # Other THEN Twin(@.of) ELSE Other] :
              i \in {k \in DOMAIN w : w[k].kind = "file"}, twin \in BOOLEAN}
     \cup {New("folder", name, seat, NoBytes) : name \in names, seat \in seats}
     \cup {New("file", name, seat, Other) : name \in names, seat \in seats}
     \cup {New("file", Last(p), seat, Twin(p)) : p \in files, seat \in seats}
     \cup {Put(w, n, w[i]) : i \in DOMAIN w}

(***************************************************************************)
(* The baseline itself, said without manifest, tag or mark: the paths of   *)
(* the archive, each held by one object, and nothing else.  same(p, o)     *)
(* says which bytes will do.                                               *)
(***************************************************************************)
DriveIs(w, files, same(_, _)) ==
  /\ \A p \in Paths(files) :
       /\ Cardinality(At(w, p)) = 1
       /\ \A i \in At(w, p) :
            (w[i].kind = "file") = (p \in files) /\ ~Trashed(w, i) /\ same(p, w[i])
  /\ Cardinality(DOMAIN w) = Cardinality(Paths(files))
=============================================================================

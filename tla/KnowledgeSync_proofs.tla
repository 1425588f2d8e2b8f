---------------------------- MODULE KnowledgeSync_proofs ----------------------------
(* Theorems about the knowledge index, for every folder, every set of contents and *)
(* every number of runs.                                                            *)
EXTENDS KnowledgeSync, TLAPS, FiniteSetTheorems

\* A set of numbers that is not empty has a smallest one: of the sets of those that
\* are no greater than one of them, one contains no other.
LEMMA SmallestPath ==
    ASSUME NEW todo \in SUBSET Nat, todo # {}
    PROVE  \E p \in todo : \A q \in todo : p <= q
<1> DEFINE Below(x) == {y \in todo : y <= x}
           W == {Below(x) : x \in todo}
<1>1. W \in SUBSET FiniteSubsetsOf(todo)
  <2>1. ASSUME NEW x \in todo PROVE Below(x) \in FiniteSubsetsOf(todo)
    <3>0. todo \subseteq Nat
      OBVIOUS
    <3>1. Below(x) \in SUBSET (0 .. x) /\ Below(x) \in SUBSET todo
      <4>1. ASSUME NEW y \in todo, y <= x PROVE y \in 0 .. x
        BY <2>1, <3>0, <4>1
      <4> QED
        BY <4>1
    <3>2. IsFiniteSet(0 .. x)
      <4>1. 0 \in Int /\ x \in Int
        OBVIOUS
      <4> QED
        BY <4>1, FS_Interval
    <3>3. IsFiniteSet(Below(x))
      BY <3>1, <3>2, FS_Subset
    <3> QED
      BY <3>1, <3>3 DEF FiniteSubsetsOf
  <2> QED
    BY <2>1
<1>2. W # {}
  OBVIOUS
<1>3. IsWellFoundedOn(StrictSubsetOrdering(todo), FiniteSubsetsOf(todo))
  BY FS_StrictSubsetOrderingWellFounded
<1>4. PICK B \in W : \A C \in W : <<C, B>> \notin StrictSubsetOrdering(todo)
  <2> HIDE DEF W
  <2> QED
    BY <1>1, <1>2, <1>3, WFMin
<1>5. PICK p \in todo : B = Below(p)
  OBVIOUS
<1>6. ASSUME NEW q \in todo, q < p PROVE FALSE
  <2>1. Below(q) \in W /\ Below(q) \subseteq B /\ p \in B /\ p \notin Below(q)
    <3>1. p \in Nat /\ q \in Nat /\ todo \subseteq Nat
      OBVIOUS
    <3>2. p \in Below(p) /\ p \notin Below(q)
      BY <1>6, <3>1
    <3>3. \A y \in todo : y <= q => y <= p
      BY <1>6, <3>1
    <3>4. Below(q) \subseteq Below(p)
      BY <3>3
    <3> QED
      BY <1>5, <3>2, <3>4
  <2>2. Below(q) \in SUBSET todo /\ B \in SUBSET todo /\ Below(q) # B
    BY <1>5, <2>1
  <2>3. <<Below(q), B>> \in StrictSubsetOrdering(todo)
    BY <2>1, <2>2 DEF StrictSubsetOrdering
  <2> QED
    BY <1>4, <2>1, <2>3
<1> QED
  BY <1>6

--------------------------------------------------------------------------------
(***************************************************************************)
(* The types of the tables and of what a run carries, then of the vectors, *)
(* some of which are copied one after the other.                           *)
(***************************************************************************)

TablesTypeOK ==
    /\ disk \in [Paths -> Docs \cup {None}]
    /\ path \in [Paths -> PathRow]
    /\ source \in [Docs -> SourceRow]
    /\ segment \in [Slots -> SegmentRow]
    /\ run \in [Runs -> RunRow]

\* A run in the middle of a document has its file, checksum and content.
Busy == {"parse", "store", "touch", "embed", "split", "call", "finish"}
RunCarries ==
    \A r \in Runs :
        /\ run[r].step \in Busy => run[r].sum \in Docs /\ run[r].todo # {}
        /\ run[r].step \in Busy \ {"parse"} => run[r].record.body \in Docs
        /\ run[r].step = "store" => run[r].record.state = "INDEXED"
LiveHaveBodies == \A d \in Docs : source[d].state \in Live => source[d].body \in Docs

TypesInv == TablesTypeOK /\ RunCarries /\ LiveHaveBodies

LEMMA InitTypes == Init => TypesInv
<1> SUFFICES ASSUME Init PROVE TypesInv
  OBVIOUS
<1>1. NoRun \in RunRow /\ NoSource \in SourceRow /\ NoPath \in PathRow /\ NoSegment \in SegmentRow
  BY DEF NoRun, NoSource, NoPath, NoSegment, NoRows, RunRow, SourceRow, PathRow, SegmentRow,
     Steps, States
<1>2. TablesTypeOK
  BY <1>1 DEF Init, TablesTypeOK
<1>3. RunCarries /\ LiveHaveBodies
  BY DEF Init, NoRun, NoSource, Busy, Live, RunCarries, LiveHaveBodies
<1> QED
  BY <1>2, <1>3 DEF TypesInv

\* The file that a run is at is one of the files.
LEMMA AtPath ==
    ASSUME TypesInv, NEW r \in Runs, run[r].todo # {}
    PROVE  At(r) \in run[r].todo /\ At(r) \in Paths
<1>1. run[r].todo \in SUBSET Paths
  BY DEF TypesInv, TablesTypeOK, RunRow
<1>2. run[r].todo \in SUBSET Nat
  BY <1>1, PathsAssumption
<1>3. \E p \in run[r].todo : \A q \in run[r].todo : p <= q
  BY <1>2, SmallestPath
<1> QED
  BY <1>1, <1>3 DEF At, Next1

\* What a run carries, by its type.
LEMMA RunShape ==
    ASSUME TypesInv, NEW r \in Runs
    PROVE  /\ run[r] \in RunRow
           /\ run[r].sum \in Docs \cup {None} /\ run[r].record \in SourceRow
           /\ run[r].rows \in [Ordinals -> Texts \cup {None}]
  BY DEF TypesInv, TablesTypeOK, RunRow

\* The tables that deletions, tombstones and recorded paths leave have their types.
LEMMA TableTypes ==
    ASSUME TypesInv
    PROVE  /\ \A sums : WithoutSegments(sums) \in [Slots -> SegmentRow]
           /\ \A sums : Tombstoned(sums) \in [Docs -> SourceRow]
           /\ \A p, d, r : d \in Docs /\ r \in Runs => Recorded(p, d, r) \in [Paths -> PathRow]
<1>1. NoSegment \in SegmentRow
  BY DEF NoSegment, SegmentRow
<1>2. \A sums : WithoutSegments(sums) \in [Slots -> SegmentRow]
  BY <1>1 DEF TypesInv, TablesTypeOK, WithoutSegments
<1>3. \A d \in Docs : [source[d] EXCEPT !.state = "DELETED"] \in SourceRow
  BY DEF TypesInv, TablesTypeOK, SourceRow, States
<1>4. \A sums : Tombstoned(sums) \in [Docs -> SourceRow]
  BY <1>3 DEF TypesInv, TablesTypeOK, Tombstoned
<1>5. ASSUME NEW p, NEW d \in Docs, NEW r \in Runs PROVE Recorded(p, d, r) \in [Paths -> PathRow]
  <2>1. [sum |-> d, seen |-> r] \in PathRow
    BY DEF PathRow
  <2> QED
    BY <2>1 DEF TypesInv, TablesTypeOK, Recorded
<1> QED
  BY <1>2, <1>4, <1>5

\* Only one run moves, and to where what it carries allows.
LEMMA RunMoves ==
    ASSUME TypesInv, NEW r \in Runs, NEW row \in RunRow, run' = [run EXCEPT ![r] = row],
           row.step \in Busy => row.sum \in Docs /\ row.todo # {},
           row.step \in Busy \ {"parse"} => row.record.body \in Docs,
           row.step = "store" => row.record.state = "INDEXED"
    PROVE  run' \in [Runs -> RunRow] /\ RunCarries'
<1>1. run' \in [Runs -> RunRow]
  BY DEF TypesInv, TablesTypeOK
<1>2. run'[r] = row /\ \A q \in Runs \ {r} : run'[q] = run[q]
  BY DEF TypesInv, TablesTypeOK
<1>3. \A q \in Runs \ {r} : (run[q].step \in Busy => run[q].sum \in Docs /\ run[q].todo # {})
            /\ (run[q].step \in Busy \ {"parse"} => run[q].record.body \in Docs)
            /\ (run[q].step = "store" => run[q].record.state = "INDEXED")
  BY DEF TypesInv, RunCarries
<1> QED
  BY <1>1, <1>2, <1>3 DEF RunCarries

\* Going on with the next file, in the ways that a document can end.
LEMMA GoesOn ==
    ASSUME TypesInv, NEW r \in Runs,
           \/ GoOn(r)
           \/ run' = [run EXCEPT ![r].step = "scan", ![r].todo = @ \ {At(r)}, ![r].sum = None,
                                 ![r].record = NoSource, ![r].clean = FALSE]
           \/ run' = [run EXCEPT ![r].step = "scan", ![r].todo = @ \ {At(r)}, ![r].sum = None,
                                 ![r].record = NoSource, ![r].rows = NoRows,
                                 ![r].pending = {}, ![r].clean = FALSE]
    PROVE  /\ run' \in [Runs -> RunRow] /\ RunCarries' /\ run'[r].step = "scan"
           /\ \A q \in Runs \ {r} : run'[q] = run[q]
<1>1. NoSource \in SourceRow /\ NoRows \in [Ordinals -> Texts \cup {None}] /\ {} \in SUBSET Ordinals
  BY DEF NoSource, NoRows, SourceRow, States
<1>2. run[r] \in RunRow
  BY RunShape
<1> DEFINE row1 == [run[r] EXCEPT !.step = "scan", !.todo = @ \ {At(r)}, !.sum = None,
                        !.record = NoSource, !.rows = NoRows, !.pending = {}]
           row2 == [run[r] EXCEPT !.step = "scan", !.todo = @ \ {At(r)}, !.sum = None,
                        !.record = NoSource, !.clean = FALSE]
           row3 == [run[r] EXCEPT !.step = "scan", !.todo = @ \ {At(r)}, !.sum = None,
                        !.record = NoSource, !.rows = NoRows, !.pending = {}, !.clean = FALSE]
<1>3. row1 \in RunRow /\ row1.step = "scan"
  BY <1>1, <1>2 DEF RunRow, Steps
<1>4. row2 \in RunRow /\ row2.step = "scan"
  BY <1>1, <1>2 DEF RunRow, Steps
<1>5. row3 \in RunRow /\ row3.step = "scan"
  BY <1>1, <1>2 DEF RunRow, Steps
<1>6. PICK row \in {row1, row2, row3} : run' = [run EXCEPT ![r] = row]
  BY DEF TypesInv, TablesTypeOK, GoOn
<1>7. row \in RunRow /\ row.step = "scan"
  BY <1>3, <1>4, <1>5, <1>6
<1>8. run'[r].step = "scan" /\ \A q \in Runs \ {r} : run'[q] = run[q]
  BY <1>6, <1>7 DEF TypesInv, TablesTypeOK
<1>9. row.step \notin Busy
  BY <1>7 DEF Busy
<1> QED
  BY <1>6, <1>7, <1>8, <1>9, RunMoves DEF Busy

\* The next step of the same document, and of the same run.
LEMMA GoesTo ==
    ASSUME TypesInv, NEW r \in Runs, NEW step \in Steps, GoTo(r, step),
           \/ step \notin Busy
           \/ step = "embed" /\ run[r].step \in {"touch", "store"}
           \/ step = "finish" /\ run[r].step = "call"
    PROVE  /\ run' \in [Runs -> RunRow] /\ RunCarries' /\ run'[r].step = step
           /\ \A q \in Runs \ {r} : run'[q] = run[q]
<1> DEFINE row == [run[r] EXCEPT !.step = step]
<1>1. row \in RunRow /\ row.step = step
  BY RunShape DEF RunRow
<1>2. row.sum = run[r].sum /\ row.todo = run[r].todo /\ row.record = run[r].record
  BY RunShape DEF RunRow
<1>3. run' = [run EXCEPT ![r] = row]
  BY DEF GoTo, TypesInv, TablesTypeOK
<1>4. /\ run[r].step \in Busy => run[r].sum \in Docs /\ run[r].todo # {}
      /\ run[r].step \in Busy \ {"parse"} => run[r].record.body \in Docs
  BY DEF TypesInv, RunCarries
<1>5. run'[r] = row /\ \A q \in Runs \ {r} : run'[q] = run[q]
  BY <1>3 DEF TypesInv, TablesTypeOK
<1> HIDE DEF row
<1>6. /\ row.step \in Busy => row.sum \in Docs /\ row.todo # {}
      /\ row.step \in Busy \ {"parse"} => row.record.body \in Docs
      /\ row.step # "store"
  BY <1>1, <1>2, <1>4 DEF Busy
<1> QED
  BY <1>1, <1>3, <1>5, <1>6, RunMoves

\* A source that is marked or written keeps that live sources have a content.
LEMMA SourceWritten ==
    ASSUME TypesInv, NEW d, NEW row \in SourceRow, row.state \in Live => row.body \in Docs,
           NEW sums
    PROVE  /\ [Tombstoned(sums) EXCEPT ![d] = row] \in [Docs -> SourceRow]
           /\ \A e \in Docs : [Tombstoned(sums) EXCEPT ![d] = row][e].state \in Live
                  => [Tombstoned(sums) EXCEPT ![d] = row][e].body \in Docs
           /\ [source EXCEPT ![d] = row] \in [Docs -> SourceRow]
           /\ \A e \in Docs : [source EXCEPT ![d] = row][e].state \in Live
                  => [source EXCEPT ![d] = row][e].body \in Docs
           /\ \A e \in Docs : Tombstoned(sums)[e].state \in Live
                  => Tombstoned(sums)[e].body \in Docs
<1>1. Tombstoned(sums) \in [Docs -> SourceRow] /\ source \in [Docs -> SourceRow]
  BY TableTypes DEF TypesInv, TablesTypeOK
<1>2. \A e \in Docs : [source[e] EXCEPT !.state = "DELETED"].state \notin Live
  BY <1>1 DEF SourceRow, Live
<1>3. \A e \in Docs : source[e].state \in Live => source[e].body \in Docs
  BY DEF TypesInv, LiveHaveBodies
<1>4. \A e \in Docs : Tombstoned(sums)[e].state \in Live => Tombstoned(sums)[e].body \in Docs
  BY <1>2, <1>3 DEF Tombstoned
<1> QED
  BY <1>1, <1>3, <1>4

\* A step of a run keeps the types and what runs carry.
LEMMA RunKeepsTypes ==
    ASSUME TypesInv, NEW r \in Runs, Step(r)
    PROVE  TypesInv'
<1>0. /\ disk \in [Paths -> Docs \cup {None}] /\ path \in [Paths -> PathRow]
      /\ source \in [Docs -> SourceRow] /\ segment \in [Slots -> SegmentRow]
      /\ run \in [Runs -> RunRow]
      /\ run[r].step \in Busy => run[r].sum \in Docs /\ run[r].todo # {}
      /\ run[r].step \in Busy \ {"parse"} => run[r].record.body \in Docs
      /\ run[r].step = "store" => run[r].record.state = "INDEXED"
      /\ LiveHaveBodies
  BY DEF TypesInv, TablesTypeOK, RunCarries
<1>1. {"embed", "finish", "publish", "completed", "scan"} \subseteq Steps
  BY DEF Steps
<1>2. CASE CannotHash(r)
  BY <1>0, <1>2, GoesOn DEF CannotHash, tables, TypesInv, TablesTypeOK, LiveHaveBodies
<1>3. CASE Hash(r)
  <2> SUFFICES ASSUME NEW d, d = disk[At(r)] PROVE TypesInv'
    OBVIOUS
  <2>1. d \in Docs /\ run[r].todo # {}
    BY <1>0, <1>3, AtPath DEF Hash
  <2> DEFINE next == IF Unchanged(r, d) THEN "touch" ELSE "parse"
             row == [run[r] EXCEPT !.sum = d, !.record = source[d], !.step = next]
  <2>2. row \in RunRow /\ row.sum = d /\ row.record = source[d] /\ row.todo = run[r].todo
    <3>1. run[r] \in RunRow /\ source[d] \in SourceRow
      BY <1>0, <2>1
    <3>2. next \in Steps
      BY DEF Steps
    <3> HIDE DEF next
    <3> QED
      BY <2>1, <3>1, <3>2 DEF RunRow
  <2>3. row.step \in {"touch", "parse"} /\ (row.step = "touch" => source[d].state \in Live)
    BY <1>0 DEF Unchanged, RunRow
  <2>4. run' = [run EXCEPT ![r] = row]
    BY <1>0, <1>3 DEF Hash
  <2> HIDE DEF row
  <2>5. row.step = "touch" => row.record.body \in Docs
    BY <1>0, <2>1, <2>2, <2>3 DEF LiveHaveBodies
  <2>6. run' \in [Runs -> RunRow] /\ RunCarries'
    BY <2>1, <2>2, <2>3, <2>4, <2>5, RunMoves
  <2> QED
    BY <1>0, <1>3, <2>6 DEF Hash, tables, TypesInv, TablesTypeOK, LiveHaveBodies
<1>4. CASE Touch(r)
  <2>1. run' \in [Runs -> RunRow] /\ RunCarries'
    BY <1>1, <1>4, GoesTo DEF Touch
  <2>2. path' \in [Paths -> PathRow]
    BY <1>0, <1>4, TableTypes DEF Touch, Busy
  <2> QED
    BY <1>0, <1>4, <2>1, <2>2 DEF Touch, TypesInv, TablesTypeOK, LiveHaveBodies
<1>5. ASSUME NEW unreadable \in BOOLEAN, ParseFails(r, unreadable) PROVE TypesInv'
  <2>1. run' \in [Runs -> RunRow] /\ RunCarries'
    BY <1>5, GoesOn DEF ParseFails
  <2>2. path' \in [Paths -> PathRow] /\ segment' \in [Slots -> SegmentRow]
    BY <1>0, <1>5, TableTypes DEF ParseFails, Busy
  <2>3. [state |-> "FAILED", body |-> None] \in SourceRow
    BY DEF SourceRow, States
  <2>4. [state |-> "FAILED", body |-> None].state \notin Live
    BY DEF Live
  <2>5. source' = [source EXCEPT ![run[r].sum] = [state |-> "FAILED", body |-> None]]
    BY <1>5 DEF ParseFails
  <2>6. source' \in [Docs -> SourceRow] /\ LiveHaveBodies'
    BY <2>3, <2>4, <2>5, SourceWritten DEF LiveHaveBodies
  <2> QED
    BY <1>0, <1>5, <2>1, <2>2, <2>6 DEF ParseFails, TypesInv, TablesTypeOK
<1>6. CASE Parse(r)
  <2> SUFFICES ASSUME NEW d, d = disk[At(r)] PROVE TypesInv'
    OBVIOUS
  <2>1. d \in Docs /\ run[r].todo # {} /\ run[r].sum \in Docs
    BY <1>0, <1>6, AtPath DEF Parse, Busy
  <2> DEFINE row == [run[r] EXCEPT !.step = "store", !.record = [state |-> "INDEXED", body |-> d]]
  <2>2. /\ row \in RunRow /\ row.step = "store" /\ row.sum = run[r].sum /\ row.todo = run[r].todo
        /\ row.record = [state |-> "INDEXED", body |-> d]
    <3>1. run[r] \in RunRow /\ "store" \in Steps
      BY <1>0 DEF Steps
    <3>2. [state |-> "INDEXED", body |-> d] \in SourceRow
      BY <2>1 DEF SourceRow, States
    <3> QED
      BY <3>1, <3>2 DEF RunRow
  <2>3. run' = [run EXCEPT ![r] = row]
    BY <1>0, <1>6 DEF Parse
  <2> HIDE DEF row
  <2>4. row.record.state = "INDEXED" /\ row.record.body \in Docs
    BY <2>1, <2>2
  <2>5. run' \in [Runs -> RunRow] /\ RunCarries'
    BY <2>1, <2>2, <2>3, <2>4, RunMoves
  <2> QED
    BY <1>0, <1>6, <2>5 DEF Parse, tables, TypesInv, TablesTypeOK, LiveHaveBodies
<1>7. CASE Store(r)
  <2>1. run' \in [Runs -> RunRow] /\ RunCarries'
    BY <1>1, <1>7, GoesTo DEF Store
  <2>2. run[r].sum \in Docs /\ run[r].record.body \in Docs /\ run[r].record \in SourceRow
    BY <1>0, <1>7, RunShape DEF Store, Busy
  <2>3. path' \in [Paths -> PathRow]
    BY <1>7, <2>2, TableTypes DEF Store
  <2>4. source' = [Tombstoned(Orphans(At(r), run[r].sum, r)) EXCEPT ![run[r].sum] = run[r].record]
    BY <1>7 DEF Store
  <2>5. source' \in [Docs -> SourceRow] /\ LiveHaveBodies'
    BY <2>2, <2>4, SourceWritten DEF LiveHaveBodies
  <2> SUFFICES ASSUME NEW shed, shed = {run[r].sum} \cup HoldersOf(SourceOf[run[r].record.body])
                                          \cup Orphans(At(r), run[r].sum, r)
               PROVE  TypesInv'
    OBVIOUS
  <2>6. segment' = [k \in Slots |->
          IF k[1] = SourceOf[run[r].record.body] /\ TextOf[run[r].record.body][k[2]] # None
          THEN [sum |-> run[r].sum, text |-> TextOf[run[r].record.body][k[2]]]
          ELSE WithoutSegments(shed)[k]]
    BY <1>7 DEF Store
  <2>7. \A k \in Slots : [sum |-> run[r].sum, text |-> TextOf[run[r].record.body][k[2]]] \in SegmentRow
    BY <2>2, DocsAssumption DEF Slots, SegmentRow
  <2>8. segment' \in [Slots -> SegmentRow]
    BY <2>6, <2>7, TableTypes
  <2> QED
    BY <1>0, <1>7, <2>1, <2>3, <2>5, <2>8 DEF Store, TypesInv, TablesTypeOK
<1>8. ASSUME NEW available \in BOOLEAN, ReadSegments(r, available) PROVE TypesInv'
  <2>1. /\ run[r].step = "embed" /\ run[r].step \in Busy /\ run[r].sum \in Docs
        /\ run[r].record.body \in Docs /\ run[r].record \in SourceRow
    BY <1>0, <1>8, RunShape DEF ReadSegments, Busy
  <2> SUFFICES ASSUME NEW rows, rows = RowsOf(IdOf(r)) PROVE TypesInv'
    OBVIOUS
  <2>2. rows \in [Ordinals -> Texts \cup {None}]
    <3>1. IdOf(r) \in Ids
      BY <2>1, DocsAssumption DEF IdOf
    <3>2. \A i \in Ordinals : <<IdOf(r), i>> \in Slots
      BY <3>1 DEF Slots
    <3> QED
      BY <1>0, <3>2 DEF RowsOf, SegmentRow
  <2>3. run' \in [Runs -> RunRow] /\ RunCarries'
    <3>1. CASE run' = [run EXCEPT ![r].step = "split", ![r].rows = rows]
      <4> DEFINE row == [run[r] EXCEPT !.step = "split", !.rows = rows]
      <4>1. /\ row \in RunRow /\ row.step = "split" /\ row.sum = run[r].sum
            /\ row.todo = run[r].todo /\ row.record = run[r].record
        <5>1. run[r] \in RunRow /\ "split" \in Steps
          BY <1>0 DEF Steps
        <5> QED
          BY <2>2, <5>1 DEF RunRow
      <4>2. run' = [run EXCEPT ![r] = row]
        BY <1>0, <3>1
      <4> HIDE DEF row
      <4> QED
        BY <1>0, <2>1, <4>1, <4>2, RunMoves
    <3>2. CASE ~(run' = [run EXCEPT ![r].step = "split", ![r].rows = rows])
      BY <1>8, <3>2, GoesOn DEF ReadSegments
    <3> QED
      BY <3>1, <3>2
  <2> DEFINE written == [run[r].record EXCEPT !.state = "BLOCKED"]
  <2>4. written \in SourceRow /\ written.body \in Docs
    BY <2>1 DEF SourceRow, States
  <2>5. source' = [source EXCEPT ![run[r].sum] = written] \/ source' = source
    BY <1>8 DEF ReadSegments
  <2> HIDE DEF written
  <2>6. source' \in [Docs -> SourceRow] /\ LiveHaveBodies'
    <3>1. CASE source' = [source EXCEPT ![run[r].sum] = written]
      BY <2>4, <3>1, SourceWritten DEF LiveHaveBodies
    <3>2. CASE source' = source
      BY <1>0, <3>2 DEF LiveHaveBodies
    <3> QED
      BY <2>5, <3>1, <3>2
  <2> QED
    BY <1>0, <1>8, <2>3, <2>6 DEF ReadSegments, TypesInv, TablesTypeOK
<1>9. CASE Split(r)
  <2>1. PICK pending \in SUBSET Ordinals, step \in {"finish", "call"} :
            run' = [run EXCEPT ![r].pending = pending, ![r].step = step]
    BY <1>9 DEF Split
  <2> DEFINE row == [run[r] EXCEPT !.pending = pending, !.step = step]
  <2>2. /\ row \in RunRow /\ row.step \in {"finish", "call"} /\ row.sum = run[r].sum
        /\ row.todo = run[r].todo /\ row.record = run[r].record
    BY <1>0, <2>1 DEF RunRow, Steps
  <2>3. run' = [run EXCEPT ![r] = row]
    BY <1>0, <2>1
  <2> HIDE DEF row
  <2>4. run[r].sum \in Docs /\ run[r].todo # {} /\ run[r].record.body \in Docs
    BY <1>0, <1>9 DEF Split, Busy
  <2>5. run' \in [Runs -> RunRow] /\ RunCarries'
    BY <2>2, <2>3, <2>4, RunMoves
  <2> QED
    BY <1>0, <1>9, <2>5 DEF Split, TypesInv, TablesTypeOK, LiveHaveBodies
<1>10. CASE EmbedFails(r)
  BY <1>0, <1>10, GoesOn DEF EmbedFails, tables, TypesInv, TablesTypeOK, LiveHaveBodies
<1>11. CASE StoreVectors(r)
  BY <1>0, <1>1, <1>11, GoesTo DEF StoreVectors, TypesInv, TablesTypeOK, LiveHaveBodies
<1>12. CASE Finish(r)
  <2>1. run' \in [Runs -> RunRow] /\ RunCarries'
    BY <1>12, GoesOn DEF Finish
  <2>2. run[r].record.body \in Docs /\ run[r].record \in SourceRow
    BY <1>0, <1>12, RunShape DEF Finish, Busy
  <2>3. PICK state \in {"EMBEDDED", "INDEXED"} :
            source' = [source EXCEPT ![run[r].sum] = [run[r].record EXCEPT !.state = state]]
    BY <1>12 DEF Finish
  <2> DEFINE written == [run[r].record EXCEPT !.state = state]
  <2>4. /\ written \in SourceRow /\ written.body \in Docs
        /\ source' = [source EXCEPT ![run[r].sum] = written]
    BY <2>2, <2>3 DEF SourceRow, States
  <2> HIDE DEF written
  <2>5. source' \in [Docs -> SourceRow] /\ LiveHaveBodies'
    BY <2>4, SourceWritten DEF LiveHaveBodies
  <2> QED
    BY <1>0, <1>12, <2>1, <2>5 DEF Finish, TypesInv, TablesTypeOK
<1>13. CASE TombstoneMissing(r)
  <2>1. run' \in [Runs -> RunRow] /\ RunCarries'
    BY <1>1, <1>13, GoesTo DEF TombstoneMissing, Busy
  <2>2. NoPath \in PathRow /\ NoSource \in SourceRow /\ NoSource.state \notin Live
    BY DEF NoPath, PathRow, NoSource, SourceRow, States, Live
  <2>3. PICK missing, orphans : /\ path' = [p \in Paths |-> IF p \in missing THEN NoPath ELSE path[p]]
                                /\ segment' = WithoutSegments(orphans)
                                /\ source' = Tombstoned(orphans)
    BY <1>13 DEF TombstoneMissing
  <2>4. path' \in [Paths -> PathRow]
    BY <1>0, <2>2, <2>3
  <2>5. source' \in [Docs -> SourceRow] /\ LiveHaveBodies' /\ segment' \in [Slots -> SegmentRow]
    BY <2>2, <2>3, TableTypes, SourceWritten DEF LiveHaveBodies
  <2> QED
    BY <1>0, <1>13, <2>1, <2>4, <2>5 DEF TombstoneMissing, TypesInv, TablesTypeOK
<1>14. CASE PublishCorpus(r)
  BY <1>0, <1>1, <1>14, GoesTo DEF PublishCorpus, Busy, TypesInv, TablesTypeOK, LiveHaveBodies
<1> QED
  BY <1>2, <1>3, <1>4, <1>5, <1>6, <1>7, <1>8, <1>9, <1>10, <1>11, <1>12, <1>13, <1>14 DEF Step

\* Every step keeps the types and what runs carry.
LEMMA StepTypes == TypesInv /\ [Next]_vars => TypesInv'
<1> SUFFICES ASSUME TypesInv, [Next]_vars PROVE TypesInv'
  OBVIOUS
<1>0. /\ disk \in [Paths -> Docs \cup {None}] /\ path \in [Paths -> PathRow]
      /\ run \in [Runs -> RunRow] /\ TablesTypeOK /\ RunCarries /\ LiveHaveBodies
  BY DEF TypesInv, TablesTypeOK
<1>1. CASE UNCHANGED vars
  BY <1>0, <1>1 DEF vars, TypesInv, TablesTypeOK, RunCarries, LiveHaveBodies
<1>2. ASSUME NEW r \in Runs, NEW reindex \in MayReindex, Start(r, reindex) PROVE TypesInv'
  <2>1. path' \in [Paths -> PathRow]
    BY <1>0, <1>2 DEF Start, PathRow
  <2>2. /\ run' \in [Runs -> RunRow] /\ run'[r].step = "scan"
        /\ \A q \in Runs \ {r} : run'[q] = [run[q] EXCEPT !.clean = FALSE]
    <3>1. PICK todo \in SUBSET Paths, clean \in BOOLEAN :
              run' = [q \in Runs |->
                        IF q = r THEN [run[r] EXCEPT !.step = "scan", !.reindex = reindex,
                                                     !.todo = todo, !.clean = clean]
                                 ELSE [run[q] EXCEPT !.clean = FALSE]]
      BY <1>2 DEF Start
    <3>2. reindex \in BOOLEAN
      BY BoundAssumption
    <3>3. [run[r] EXCEPT !.step = "scan", !.reindex = reindex, !.todo = todo, !.clean = clean] \in RunRow
      <4>1. run[r] \in RunRow /\ "scan" \in Steps
        BY <1>0 DEF Steps
      <4> QED
        BY <3>1, <3>2, <4>1 DEF RunRow
    <3>4. \A q \in Runs : [run[q] EXCEPT !.clean = FALSE] \in RunRow
      BY <1>0 DEF RunRow
    <3>5. [run[r] EXCEPT !.step = "scan", !.reindex = reindex, !.todo = todo, !.clean = clean].step = "scan"
      BY <1>0 DEF RunRow
    <3> QED
      BY <3>1, <3>3, <3>4, <3>5
  <2>3. \A q \in Runs \ {r} : /\ run'[q].step = run[q].step /\ run'[q].sum = run[q].sum
                                /\ run'[q].todo = run[q].todo /\ run'[q].record = run[q].record
    BY <1>0, <2>2 DEF RunRow
  <2>4. RunCarries'
    BY <1>0, <2>2, <2>3 DEF RunCarries, Busy
  <2> QED
    BY <1>0, <1>2, <2>1, <2>2, <2>4 DEF Start, TypesInv, TablesTypeOK, LiveHaveBodies
<1>3. ASSUME NEW r \in Runs, Stops(r) PROVE TypesInv'
  <2>1. NoRun \in RunRow /\ NoRun.step = "idle"
    BY DEF NoRun, NoSource, NoRows, RunRow, SourceRow, Steps, States
  <2>2. run' \in [Runs -> RunRow] /\ RunCarries'
    BY <1>3, <2>1, RunMoves DEF Stops, Busy
  <2> QED
    BY <1>0, <1>3, <2>2 DEF Stops, tables, TypesInv, TablesTypeOK, LiveHaveBodies
<1>4. ASSUME NEW p \in Paths, NEW content \in Docs \cup {None}, Edit(p, content) PROVE TypesInv'
  <2>1. run' \in [Runs -> RunRow] /\ disk' \in [Paths -> Docs \cup {None}]
    BY <1>0, <1>4 DEF Edit, RunRow
  <2>2. \A q \in Runs : /\ run'[q].step = run[q].step /\ run'[q].sum = run[q].sum
                         /\ run'[q].todo = run[q].todo /\ run'[q].record = run[q].record
    BY <1>0, <1>4 DEF Edit, RunRow
  <2>3. RunCarries'
    BY <1>0, <2>2 DEF RunCarries
  <2> QED
    BY <1>0, <1>4, <2>1, <2>3 DEF Edit, tables, TypesInv, TablesTypeOK, LiveHaveBodies
<1> QED
  BY <1>1, <1>2, <1>3, <1>4, RunKeepsTypes DEF Next

\* f is what the steps G make of a, one after the other.
Iterates(f, N, a, G) == f[0] = a /\ \A n \in 1 .. N : f[n] = G[n][f[n - 1]]

\* What a number of steps makes of a value exists, for steps given as functions: a
\* smallest number of steps for which it did not would have a predecessor.
LEMMA StepsExist ==
    ASSUME NEW S, NEW N \in Nat, NEW a \in S, NEW G \in [1 .. N -> [S -> S]]
    PROVE  \E f \in [0 .. N -> S] : Iterates(f, N, a, G)
<1> DEFINE P(m) == \E f \in [0 .. m -> S] : f[0] = a /\ \A n \in 1 .. m : f[n] = G[n][f[n - 1]]
           Bad == {m \in 0 .. N : ~P(m)}
<1>1. P(0)
  <2> DEFINE f == [n \in 0 .. 0 |-> a]
  <2>1. f \in [0 .. 0 -> S] /\ f[0] = a /\ \A n \in 1 .. 0 : f[n] = G[n][f[n - 1]]
    OBVIOUS
  <2> QED
    BY <2>1
<1>2. ASSUME NEW m \in 1 .. N, P(m - 1) PROVE P(m)
  <2>1. PICK f \in [0 .. m - 1 -> S] : f[0] = a /\ \A n \in 1 .. m - 1 : f[n] = G[n][f[n - 1]]
    BY <1>2
  <2> DEFINE g == [n \in 0 .. m |-> IF n = m THEN G[m][f[m - 1]] ELSE f[n]]
  <2>2. m \in Nat /\ m # 0 /\ m - 1 \in 0 .. m - 1 /\ G[m] \in [S -> S]
    OBVIOUS
  <2>3. g \in [0 .. m -> S] /\ g[0] = a
    <3>1. \A n \in 0 .. m : n # m => n \in 0 .. m - 1
      BY <2>2
    <3> QED
      BY <2>1, <2>2, <3>1
  <2>4. ASSUME NEW n \in 1 .. m PROVE g[n] = G[n][g[n - 1]]
    <3>1. n - 1 \in 0 .. m - 1 /\ n - 1 \in 0 .. m /\ n \in 0 .. m /\ n - 1 # m
      BY <2>2
    <3>2. g[n - 1] = f[n - 1]
      BY <3>1
    <3>3. CASE n = m
      BY <3>1, <3>2, <3>3
    <3>4. CASE n # m
      <4>1. n \in 1 .. m - 1
        BY <3>4
      <4> QED
        BY <2>1, <3>1, <3>2, <3>4, <4>1
    <3> QED
      BY <3>3, <3>4
  <2> QED
    BY <2>3, <2>4
<1>3. Bad = {}
  <2> SUFFICES ASSUME Bad # {} PROVE FALSE
    OBVIOUS
  <2>1. PICK m \in Bad : \A q \in Bad : m <= q
    <3>1. Bad \in SUBSET Nat
      OBVIOUS
    <3> HIDE DEF Bad
    <3> QED
      BY <3>1, SmallestPath
  <2>2. m \in 0 .. N /\ ~P(m)
    BY DEF Bad
  <2>3. m # 0
    BY <1>1, <2>2
  <2>4. m \in 1 .. N /\ m - 1 \in 0 .. N /\ ~(m <= m - 1)
    BY <2>2, <2>3
  <2>5. m - 1 \notin Bad
    BY <2>1, <2>4
  <2>6. P(m - 1)
    BY <2>4, <2>5
  <2> QED
    BY <1>2, <2>2, <2>4, <2>6
<1>4. N \in 0 .. N /\ \A m \in 0 .. N : P(m)
  <2>1. N \in 0 .. N
    OBVIOUS
  <2>2. ASSUME NEW m \in 0 .. N, ~P(m) PROVE FALSE
    <3>1. m \in Bad
      BY <2>2
    <3> QED
      BY <1>3, <3>1
  <2> QED
    BY <2>1, <2>2
<1>5. P(N)
  <2> HIDE DEF P
  <2> QED
    BY <1>4
<1> QED
  BY <1>5 DEF Iterates

LEMMA CopiedSteps ==
    ASSUME NEW id, NEW rows, vector \in [Slots -> Texts \cup {None}],
           id \in Ids, rows \in [Ordinals -> Texts \cup {None}]
    PROVE  /\ Copied(id, rows)[0] = vector
           /\ \A n \in Ordinals :
                 \/ Copied(id, rows)[n] = Copied(id, rows)[n - 1]
                 \/ Copied(id, rows)[n] = [Copied(id, rows)[n - 1] EXCEPT ![<<id, n>>] = rows[n]]
<1> DEFINE S == [Slots -> Texts \cup {None}]
           One(n, before) == IF rows[n] # None /\ \E k \in Slots : before[k] = rows[n]
                             THEN [before EXCEPT ![<<id, n>>] = rows[n]] ELSE before
           G == [n \in Ordinals |-> [before \in S |-> One(n, before)]]
           Eq(f) == [n \in 0 .. MaxSegments |-> IF n = 0 THEN vector ELSE One(n, f[n - 1])]
<1>1. Copied(id, rows) = CHOOSE f : f = Eq(f)
  BY DEF Copied
<1>2. ASSUME NEW n \in Ordinals, NEW before \in S PROVE One(n, before) \in S
  BY <1>2
<1>3. G \in [1 .. MaxSegments -> [S -> S]] /\ Ordinals = 1 .. MaxSegments /\ MaxSegments \in Nat
  BY <1>2, BoundAssumption DEF Ordinals
<1>4. PICK f \in [0 .. MaxSegments -> S] : f[0] = vector /\ \A n \in Ordinals : f[n] = G[n][f[n - 1]]
  <2> HIDE DEF G, S
  <2>1. vector \in S
    BY DEF S
  <2>2. \E f \in [0 .. MaxSegments -> S] : Iterates(f, MaxSegments, vector, G)
    BY <1>3, <2>1, StepsExist
  <2> QED
    BY <1>3, <2>2 DEF Iterates
<1>5. f = Eq(f)
  <2>1. ASSUME NEW n \in 0 .. MaxSegments PROVE f[n] = Eq(f)[n]
    <3>1. CASE n = 0
      BY <1>4, <3>1
    <3>2. CASE n # 0
      <4>1. n \in Ordinals /\ n - 1 \in 0 .. MaxSegments /\ f[n - 1] \in S
        BY <1>3, <1>4, <3>2
      <4>2. f[n] = One(n, f[n - 1])
        BY <1>4, <4>1
      <4> QED
        BY <3>2, <4>2
    <3> QED
      BY <3>1, <3>2
  <2> QED
    BY <1>4, <2>1
<1> HIDE DEF One, S
<1>6. Copied(id, rows) = Eq(Copied(id, rows))
  BY <1>1, <1>5
<1> DEFINE after == Copied(id, rows)
<1> HIDE DEF after
<1>7. after = Eq(after)
  BY <1>6 DEF after
<1>8. after[0] = vector /\ \A n \in Ordinals : after[n] = One(n, after[n - 1])
  <2>1. 0 \in 0 .. MaxSegments /\ \A n \in Ordinals : n \in 0 .. MaxSegments /\ n # 0
    BY <1>3
  <2> QED
    BY <1>7, <2>1
<1> QED
  BY <1>8 DEF after, One

\* So a vector that is copied is that of a row of the document, under its own slot.
LEMMA CopiedAreRows ==
    ASSUME vector \in [Slots -> Texts \cup {None}],
           NEW id \in Ids, NEW rows \in [Ordinals -> Texts \cup {None}]
    PROVE  \A n \in 0 .. MaxSegments :
              /\ Copied(id, rows)[n] \in [Slots -> Texts \cup {None}]
              /\ \A k \in Slots : \/ Copied(id, rows)[n][k] = vector[k]
                                  \/ k[1] = id /\ Copied(id, rows)[n][k] = rows[k[2]]
<1> SUFFICES ASSUME NEW after, after = Copied(id, rows)
             PROVE  \A n \in 0 .. MaxSegments :
                       /\ after[n] \in [Slots -> Texts \cup {None}]
                       /\ \A k \in Slots : after[n][k] = vector[k] \/ (k[1] = id /\ after[n][k] = rows[k[2]])
  OBVIOUS
<1> DEFINE Fine(v) == /\ v \in [Slots -> Texts \cup {None}]
                      /\ \A k \in Slots : v[k] = vector[k] \/ (k[1] = id /\ v[k] = rows[k[2]])
           Bad == {n \in 0 .. MaxSegments : ~Fine(after[n])}
<1>1. Fine(after[0])
  BY CopiedSteps
<1>2. ASSUME NEW n \in Ordinals, Fine(after[n - 1]) PROVE Fine(after[n])
  <2>1. after[n] = after[n - 1] \/ after[n] = [after[n - 1] EXCEPT ![<<id, n>>] = rows[n]]
    BY CopiedSteps
  <2>2. CASE after[n] = after[n - 1]
    BY <1>2, <2>2
  <2>3. CASE after[n] = [after[n - 1] EXCEPT ![<<id, n>>] = rows[n]]
    <3>1. after[n] \in [Slots -> Texts \cup {None}]
      BY <1>2, <2>3
    <3>2. ASSUME NEW k \in Slots PROVE after[n][k] = vector[k] \/ (k[1] = id /\ after[n][k] = rows[k[2]])
      <4>1. CASE k = <<id, n>>
        BY <1>2, <2>3, <4>1 DEF Slots
      <4>2. CASE k # <<id, n>>
        BY <1>2, <2>3, <4>2
      <4> QED
        BY <4>1, <4>2
    <3> QED
      BY <3>1, <3>2
  <2> QED
    BY <2>1, <2>2, <2>3
<1> HIDE DEF Fine
<1>3. ASSUME Bad # {} PROVE FALSE
  <2>1. Bad \in SUBSET Nat
    BY BoundAssumption
  <2>2. PICK n \in Bad : \A m \in Bad : n <= m
    <3> HIDE DEF Bad
    <3> QED
      BY <1>3, <2>1, SmallestPath
  <2>3. n \in 0 .. MaxSegments /\ ~Fine(after[n])
    BY DEF Bad
  <2>4. n # 0
    BY <1>1, <2>3
  <2>5. n \in Ordinals /\ n - 1 \in 0 .. MaxSegments /\ ~(n <= n - 1)
    BY <2>3, <2>4, BoundAssumption DEF Ordinals
  <2>6. n - 1 \notin Bad
    BY <2>2, <2>5
  <2>7. Fine(after[n - 1])
    BY <2>5, <2>6
  <2> QED
    BY <1>2, <2>3, <2>5, <2>7
<1>4. \A n \in 0 .. MaxSegments : Fine(after[n])
  BY <1>3
<1> QED
  BY <1>4 DEF Fine

\* A row that has its vector at its turn keeps it.
LEMMA CopiedStay ==
    ASSUME vector \in [Slots -> Texts \cup {None}],
           NEW id \in Ids, NEW rows \in [Ordinals -> Texts \cup {None}],
           NEW i \in Ordinals, Copied(id, rows)[i][<<id, i>>] = rows[i]
    PROVE  Copied(id, rows)[MaxSegments][<<id, i>>] = rows[i]
<1> SUFFICES ASSUME NEW after, after = Copied(id, rows), NEW k, k = <<id, i>>
             PROVE  after[MaxSegments][k] = rows[i]
  OBVIOUS
<1>1. i \in 1 .. MaxSegments /\ MaxSegments \in Nat /\ after[i][k] = rows[i] /\ k \in Slots
  BY BoundAssumption DEF Ordinals, Slots
<1>2. ASSUME NEW n \in Ordinals, after[n - 1][k] = rows[i] PROVE after[n][k] = rows[i]
  <2>1. after[n] = after[n - 1] \/ after[n] = [after[n - 1] EXCEPT ![<<id, n>>] = rows[n]]
    BY CopiedSteps
  <2>2. n - 1 \in 0 .. MaxSegments
    BY <1>1 DEF Ordinals
  <2>3. after[n - 1] \in [Slots -> Texts \cup {None}]
    BY <2>2, CopiedAreRows
  <2>4. CASE k = <<id, n>>
    <3>1. n = i
      BY <2>4
    <3> QED
      BY <1>1, <3>1
  <2>5. CASE k # <<id, n>>
    BY <1>1, <1>2, <2>1, <2>3, <2>5
  <2> QED
    BY <2>4, <2>5
<1> DEFINE Bad == {n \in i .. MaxSegments : after[n][k] # rows[i]}
<1>3. ASSUME Bad # {} PROVE FALSE
  <2>1. Bad \in SUBSET Nat
    BY <1>1
  <2>2. PICK n \in Bad : \A m \in Bad : n <= m
    <3> HIDE DEF Bad
    <3> QED
      BY <1>3, <2>1, SmallestPath
  <2>3. n \in i .. MaxSegments /\ after[n][k] # rows[i] /\ n # i
    BY <1>1
  <2>4. n \in Ordinals /\ n - 1 \in i .. MaxSegments /\ ~(n <= n - 1)
    BY <1>1, <2>3 DEF Ordinals
  <2>5. n - 1 \notin Bad
    BY <2>2, <2>4
  <2> QED
    BY <1>2, <2>3, <2>4, <2>5
<1>4. MaxSegments \in i .. MaxSegments
  BY <1>1
<1> QED
  BY <1>3, <1>4

\* What a step may do to the vectors: nothing, or drop those of deleted segments, or
\* give the slots of the document that the run is at the text of its rows.
LEMMA StepVectors ==
    ASSUME TypesInv, vector \in [Slots -> Texts \cup {None}], NEW r \in Runs, Step(r)
    PROVE  \/ UNCHANGED <<segment, vector>>
           \/ \E sums : segment' = WithoutSegments(sums) /\ vector' = WithoutVectors(sums)
           \/ Store(r)
           \/ /\ run[r].step \in {"split", "call"} /\ segment' = segment
              /\ vector' \in [Slots -> Texts \cup {None}]
              /\ \A k \in Slots : \/ vector'[k] = vector[k]
                                  \/ k[1] = IdOf(r) /\ vector'[k] = run[r].rows[k[2]]
<1>1. CASE CannotHash(r) \/ Hash(r) \/ Parse(r) \/ EmbedFails(r)
  BY <1>1 DEF CannotHash, Hash, Parse, EmbedFails, tables
<1>2. CASE Touch(r) \/ Finish(r) \/ PublishCorpus(r) \/ \E available \in BOOLEAN : ReadSegments(r, available)
  BY <1>2 DEF Touch, Finish, PublishCorpus, ReadSegments
<1>3. CASE TombstoneMissing(r) \/ \E unreadable \in BOOLEAN : ParseFails(r, unreadable)
  BY <1>3 DEF TombstoneMissing, ParseFails
<1>4. CASE Split(r)
  <2>1. run[r].rows \in [Ordinals -> Texts \cup {None}] /\ IdOf(r) \in Ids /\ run[r].step = "split"
    BY <1>4, RunShape, DocsAssumption DEF Split, TypesInv, RunCarries, Busy, IdOf
  <2>2. vector' = Copied(IdOf(r), run[r].rows)[MaxSegments] /\ segment' = segment
    BY <1>4 DEF Split
  <2>3. MaxSegments \in 0 .. MaxSegments
    BY BoundAssumption
  <2> QED
    BY <2>1, <2>2, <2>3, CopiedAreRows
<1>5. CASE StoreVectors(r)
  <2>1. run[r].rows \in [Ordinals -> Texts \cup {None}] /\ run[r].step = "call" /\ segment' = segment
    BY <1>5, RunShape DEF StoreVectors
  <2>2. vector' = [k \in Slots |-> IF k[1] = IdOf(r) /\ k[2] \in run[r].pending
                                   THEN run[r].rows[k[2]] ELSE vector[k]]
    BY <1>5 DEF StoreVectors
  <2>3. \A k \in Slots : k[2] \in Ordinals
    BY DEF Slots
  <2> QED
    BY <2>1, <2>2, <2>3
<1> QED
  BY <1>1, <1>2, <1>3, <1>4, <1>5 DEF Step

\* The vectors and what the runs of the model count keep their types.
RestTypeOK ==
    /\ vector \in [Slots -> Texts \cup {None}]
    /\ corpus \subseteq Docs \X (Docs \cup {None})
    /\ gaps \subseteq Gaps
    /\ trouble \in 0 .. MaxTrouble

LEMMA StepRest == TypesInv /\ RestTypeOK /\ [Next]_vars => RestTypeOK'
<1> SUFFICES ASSUME TypesInv, RestTypeOK, [Next]_vars PROVE RestTypeOK'
  OBVIOUS
<1>1. ASSUME NEW n \in Nat, Costs(n) PROVE trouble' \in 0 .. MaxTrouble
  BY <1>1, BoundAssumption DEF RestTypeOK, Costs
<1>2. ASSUME NEW r \in Runs, Step(r) PROVE vector' \in [Slots -> Texts \cup {None}]
  <2>1. \A sums : WithoutVectors(sums) \in [Slots -> Texts \cup {None}]
    BY DEF RestTypeOK, WithoutVectors
  <2>2. CASE Store(r)
    BY <2>1, <2>2 DEF Store
  <2> QED
    BY <1>2, <2>1, <2>2, StepVectors DEF RestTypeOK
<1>3. ASSUME NEW r \in Runs, Step(r) PROVE trouble' \in 0 .. MaxTrouble
  <2>1. UNCHANGED trouble \/ Costs(1)
    BY <1>3 DEF Step, CannotHash, Hash, Touch, ParseFails, Parse, Store, ReadSegments, Split,
       EmbedFails, StoreVectors, Finish, TombstoneMissing, PublishCorpus
  <2> QED
    BY <1>1, <2>1 DEF RestTypeOK
<1>4. ASSUME NEW r \in Runs, Step(r) PROVE gaps' \subseteq Gaps
  <2>1. CASE Touch(r)
    BY <2>1 DEF Touch, RestTypeOK, Gaps
  <2>2. CASE ~Touch(r)
    <3>1. gaps' = gaps \/ gaps' = gaps \cup {"failed"} \/ gaps' = gaps \cup {"torn"}
      BY <1>4, <2>2 DEF Step, CannotHash, Hash, ParseFails, Parse, Store, ReadSegments, Split,
         EmbedFails, StoreVectors, Finish, TombstoneMissing, PublishCorpus
    <3> QED
      BY <3>1 DEF RestTypeOK, Gaps
  <2> QED
    BY <2>1, <2>2
<1>5. ASSUME NEW r \in Runs, Step(r) PROVE corpus' \subseteq Docs \X (Docs \cup {None})
  <2>1. CASE PublishCorpus(r)
    <3>1. \A d \in Docs : source[d].body \in Docs \cup {None}
      BY DEF TypesInv, TablesTypeOK, SourceRow
    <3> QED
      BY <2>1, <3>1 DEF PublishCorpus
  <2>2. CASE UNCHANGED corpus
    BY <2>2 DEF RestTypeOK
  <2>3. UNCHANGED corpus \/ PublishCorpus(r)
    BY <1>5 DEF Step, CannotHash, Hash, Touch, ParseFails, Parse, Store, ReadSegments, Split,
       EmbedFails, StoreVectors, Finish, TombstoneMissing, tables
  <2> QED
    BY <2>1, <2>2, <2>3
<1>6. ASSUME NEW r \in Runs, Step(r) PROVE RestTypeOK'
  BY <1>2, <1>3, <1>4, <1>5, <1>6 DEF RestTypeOK
<1>7. ASSUME NEW r \in Runs, NEW reindex \in MayReindex, Start(r, reindex) PROVE RestTypeOK'
  BY <1>1, <1>7 DEF Start, RestTypeOK, Gaps
<1>8. ASSUME NEW r \in Runs, Stops(r) PROVE RestTypeOK'
  BY <1>1, <1>8 DEF Stops, tables, RestTypeOK
<1>9. ASSUME NEW p \in Paths, NEW content \in Docs \cup {None}, Edit(p, content) PROVE RestTypeOK'
  BY <1>1, <1>9 DEF Edit, tables, RestTypeOK, Gaps
<1>10. CASE UNCHANGED vars
  BY <1>10 DEF vars, RestTypeOK
<1> QED
  BY <1>6, <1>7, <1>8, <1>9, <1>10 DEF Next

LEMMA InitRest == Init => RestTypeOK
  BY BoundAssumption DEF Init, RestTypeOK, Gaps

\* The folder, the tables of the index, what runs carry and the history keep their types.
THEOREM TypeCorrect == Spec => []TypeOK
<1>1. TypesInv /\ RestTypeOK => TypeOK
  BY DEF TypesInv, TablesTypeOK, RestTypeOK, TypeOK
<1> QED
  BY <1>1, InitTypes, StepTypes, InitRest, StepRest, PTL DEF Spec

--------------------------------------------------------------------------------
(***************************************************************************)
(* What a search finds has a source.                                       *)
(***************************************************************************)

Present(d) == source[d].state \notin {"ABSENT", "DELETED"}

\* What a step may do to the rows of sources and segments: it writes one source, or
\* marks some while it deletes their segments.
LEMMA StepRows ==
    ASSUME TypesInv, NEW r \in Runs, Step(r)
    PROVE  \/ UNCHANGED <<source, segment>>
           \/ \E row \in SourceRow : \E sums :
                 /\ run[r].step = "parse"
                 /\ segment' = WithoutSegments(sums)
                 /\ source' = [source EXCEPT ![run[r].sum] = row]
                 /\ row.state \notin {"ABSENT", "DELETED"}
           \/ Store(r)
           \/ \E row \in SourceRow :
                 /\ run[r].step \in {"embed", "finish"}
                 /\ segment' = segment
                 /\ source' = [source EXCEPT ![run[r].sum] = row]
                 /\ row.state \notin {"ABSENT", "DELETED"}
           \/ TombstoneMissing(r)
<1>1. CASE CannotHash(r) \/ Hash(r) \/ Parse(r) \/ EmbedFails(r)
  BY <1>1 DEF CannotHash, Hash, Parse, EmbedFails, tables
<1>2. CASE Touch(r) \/ Split(r) \/ StoreVectors(r) \/ PublishCorpus(r)
  BY <1>2 DEF Touch, Split, StoreVectors, PublishCorpus
<1>3. ASSUME NEW unreadable \in BOOLEAN, ParseFails(r, unreadable)
      PROVE  \E row \in SourceRow : \E sums :
                 /\ run[r].step = "parse"
                 /\ segment' = WithoutSegments(sums)
                 /\ source' = [source EXCEPT ![run[r].sum] = row]
                 /\ row.state \notin {"ABSENT", "DELETED"}
  <2>1. /\ [state |-> "FAILED", body |-> None].state \notin {"ABSENT", "DELETED"}
        /\ [state |-> "FAILED", body |-> None] \in SourceRow
    BY DEF SourceRow, States
  <2> QED
    BY <1>3, <2>1 DEF ParseFails
<1>4. ASSUME NEW available \in BOOLEAN, ReadSegments(r, available)
      PROVE  \/ UNCHANGED <<source, segment>>
             \/ \E row \in SourceRow :
                   /\ run[r].step \in {"embed", "finish"}
                   /\ segment' = segment
                   /\ source' = [source EXCEPT ![run[r].sum] = row]
                   /\ row.state \notin {"ABSENT", "DELETED"}
  <2> DEFINE row == [run[r].record EXCEPT !.state = "BLOCKED"]
  <2>1. row.state = "BLOCKED" /\ row \in SourceRow
    BY RunShape DEF SourceRow, States
  <2>2. run[r].step = "embed" /\ segment' = segment
    BY <1>4 DEF ReadSegments
  <2>3. source' = source \/ source' = [source EXCEPT ![run[r].sum] = row]
    BY <1>4 DEF ReadSegments
  <2> HIDE DEF row
  <2> QED
    BY <2>1, <2>2, <2>3
<1>5. ASSUME Finish(r)
      PROVE  \E row \in SourceRow :
                 /\ run[r].step \in {"embed", "finish"}
                 /\ segment' = segment
                 /\ source' = [source EXCEPT ![run[r].sum] = row]
                 /\ row.state \notin {"ABSENT", "DELETED"}
  <2>1. \A state \in {"EMBEDDED", "INDEXED"} :
            /\ [run[r].record EXCEPT !.state = state].state \notin {"ABSENT", "DELETED"}
            /\ [run[r].record EXCEPT !.state = state] \in SourceRow
    BY RunShape DEF SourceRow, States
  <2>2. \E state \in {"EMBEDDED", "INDEXED"} :
            source' = [source EXCEPT ![run[r].sum] = [run[r].record EXCEPT !.state = state]]
    BY <1>5 DEF Finish
  <2>3. PICK written \in SourceRow :
            /\ written.state \notin {"ABSENT", "DELETED"}
            /\ source' = [source EXCEPT ![run[r].sum] = written]
    BY <2>1, <2>2
  <2>4. run[r].step = "finish" /\ segment' = segment
    BY <1>5 DEF Finish
  <2> QED
    BY <2>3, <2>4
<1> QED
  BY <1>1, <1>2, <1>3, <1>4, <1>5 DEF Step

\* A run's step keeps a source under every segment.
LEMMA RunKeepsSources ==
    ASSUME TypesInv, SegmentsHaveSources, NEW r \in Runs, Step(r)
    PROVE  SegmentsHaveSources'
<1>0. /\ source \in [Docs -> SourceRow] /\ segment \in [Slots -> SegmentRow]
      /\ \A k \in Slots : segment[k].sum \in Docs \cup {None}
  BY DEF TypesInv, TablesTypeOK, SegmentRow
<1>1. \A k \in Slots : segment[k].sum # None => segment[k].sum \in Docs /\ Present(segment[k].sum)
  BY <1>0 DEF SegmentsHaveSources, Present
<1>2. NoSegment.sum = None
  BY DEF NoSegment
<1>3. ASSUME NEW sums
      PROVE  \A k \in Slots : WithoutSegments(sums)[k].sum # None =>
                  WithoutSegments(sums)[k].sum = segment[k].sum /\ segment[k].sum \notin sums
  BY <1>2 DEF WithoutSegments, Kept
<1>4. ASSUME NEW sums
      PROVE  \A d \in Docs : d \notin sums => Tombstoned(sums)[d] = source[d]
  BY DEF Tombstoned
<1>5. CASE UNCHANGED <<source, segment>>
  BY <1>5 DEF SegmentsHaveSources
<1>6. ASSUME NEW sums, NEW row, row.state \notin {"ABSENT", "DELETED"},
             segment' = WithoutSegments(sums), source' = [source EXCEPT ![run[r].sum] = row]
      PROVE  SegmentsHaveSources'
  BY <1>0, <1>1, <1>3, <1>6 DEF SegmentsHaveSources, Present
<1>7. ASSUME NEW row, row.state \notin {"ABSENT", "DELETED"},
             segment' = segment, source' = [source EXCEPT ![run[r].sum] = row]
      PROVE  SegmentsHaveSources'
  BY <1>0, <1>1, <1>7 DEF SegmentsHaveSources, Present
<1>8. CASE TombstoneMissing(r)
  <2>1. PICK orphans : segment' = WithoutSegments(orphans) /\ source' = Tombstoned(orphans)
    BY <1>8 DEF TombstoneMissing
  <2> QED
    BY <1>1, <1>3, <1>4, <2>1 DEF SegmentsHaveSources, Present
<1>9. CASE Store(r)
  <2> SUFFICES ASSUME NEW d, d = run[r].sum, NEW body, body = run[r].record.body,
                      NEW orphans, orphans = Orphans(At(r), d, r),
                      NEW shed, shed = {d} \cup HoldersOf(SourceOf[body]) \cup orphans
               PROVE  SegmentsHaveSources'
    OBVIOUS
  <2>1. /\ segment' = [k \in Slots |-> IF k[1] = SourceOf[body] /\ TextOf[body][k[2]] # None
                                       THEN [sum |-> d, text |-> TextOf[body][k[2]]]
                                       ELSE WithoutSegments(shed)[k]]
        /\ source' = [Tombstoned(orphans) EXCEPT ![d] = run[r].record]
    BY <1>9 DEF Store
  <2>2. d \in Docs /\ run[r].record.state = "INDEXED"
    BY <1>9 DEF Store, TypesInv, RunCarries, Busy
  <2>3. \A k \in Slots : \/ segment'[k].sum = d
                         \/ segment'[k].sum = None
                         \/ segment'[k].sum = segment[k].sum /\ segment[k].sum \notin shed
    BY <1>3, <2>1
  <2>4. source'[d].state = "INDEXED" /\ \A e \in Docs \ {d} : e \notin orphans => source'[e] = source[e]
    BY <1>4, <2>1, <2>2 DEF Tombstoned
  <2> QED
    BY <1>1, <2>2, <2>3, <2>4 DEF SegmentsHaveSources, Present
<1> QED
  BY <1>5, <1>6, <1>7, <1>8, <1>9, StepRows

\* However runs overlap, fail or are killed, and however files change, a segment that
\* a search finds has a source that is neither missing nor deleted.
THEOREM FoundHasSource == Spec => []SegmentsHaveSources
<1>1. Init => SegmentsHaveSources
  BY DEF Init, NoSegment, SegmentsHaveSources
<1>2. TypesInv /\ SegmentsHaveSources /\ [Next]_vars => SegmentsHaveSources'
  <2> SUFFICES ASSUME TypesInv, SegmentsHaveSources, [Next]_vars PROVE SegmentsHaveSources'
    OBVIOUS
  <2>1. ASSUME NEW r \in Runs, NEW reindex \in MayReindex, Start(r, reindex)
        PROVE  SegmentsHaveSources'
    BY <2>1 DEF Start, SegmentsHaveSources
  <2>2. ASSUME NEW r \in Runs, Stops(r) PROVE SegmentsHaveSources'
    BY <2>2 DEF Stops, tables, SegmentsHaveSources
  <2>3. ASSUME NEW p \in Paths, NEW content \in Docs \cup {None}, Edit(p, content)
        PROVE  SegmentsHaveSources'
    BY <2>3 DEF Edit, tables, SegmentsHaveSources
  <2>4. CASE UNCHANGED vars
    BY <2>4 DEF vars, SegmentsHaveSources
  <2> QED
    BY <2>1, <2>2, <2>3, <2>4, RunKeepsSources DEF Next
<1> QED
  BY <1>1, <1>2, InitTypes, StepTypes, PTL DEF Spec

--------------------------------------------------------------------------------
(***************************************************************************)
(* What a path holds has a source, as long as no two runs overlap: between *)
(* the look-up that finds a content known and the transaction that records *)
(* its path nothing else deletes it.                                       *)
(***************************************************************************)

OneRun == \A q, r \in Runs : Active(q) /\ Active(r) => q = r
TouchedIsPresent == \A r \in Runs : run[r].step = "touch" => Present(run[r].sum)
PathsPresent == \A p \in Paths : path[p].sum # None => Present(path[p].sum)
AloneInv == "overlap" \notin gaps => OneRun /\ TouchedIsPresent /\ PathsPresent

\* A step moves one run, which is active, and only the look-up moves it to "touch".
LEMMA StepMovesOne ==
    ASSUME TypesInv, NEW r \in Runs, Step(r)
    PROVE  /\ Active(r) /\ gaps \subseteq gaps'
           /\ \A q \in Runs \ {r} : run'[q] = run[q]
           /\ run'[r].step = "touch" => Hash(r)
<1>0. run \in [Runs -> RunRow] /\ run[r] \in RunRow
  BY DEF TypesInv, TablesTypeOK
<1>1. {"embed", "finish", "publish", "completed"} \subseteq Steps
  BY DEF Steps
<1>2. CASE CannotHash(r)
  BY <1>2, GoesOn DEF CannotHash, Active
<1>3. CASE Hash(r)
  BY <1>0, <1>3 DEF Hash, Active
<1>4. CASE Touch(r)
  BY <1>1, <1>4, GoesTo DEF Touch, Active
<1>5. ASSUME NEW unreadable \in BOOLEAN, ParseFails(r, unreadable)
      PROVE  /\ Active(r) /\ gaps \subseteq gaps'
             /\ \A q \in Runs \ {r} : run'[q] = run[q]
             /\ run'[r].step # "touch"
  BY <1>5, GoesOn DEF ParseFails, Active
<1>6. CASE Parse(r)
  BY <1>0, <1>6 DEF Parse, Active, RunRow
<1>7. CASE Store(r)
  BY <1>1, <1>7, GoesTo DEF Store, Active
<1>8. ASSUME NEW available \in BOOLEAN, ReadSegments(r, available)
      PROVE  /\ Active(r) /\ gaps \subseteq gaps'
             /\ \A q \in Runs \ {r} : run'[q] = run[q]
             /\ run'[r].step # "touch"
  <2>1. CASE run' = [run EXCEPT ![r].step = "split", ![r].rows = RowsOf(IdOf(r))]
    BY <1>0, <1>8, <2>1 DEF ReadSegments, Active, RunRow
  <2>2. CASE run' # [run EXCEPT ![r].step = "split", ![r].rows = RowsOf(IdOf(r))]
    <3>1. \/ GoOn(r)
          \/ run' = [run EXCEPT ![r].step = "scan", ![r].todo = @ \ {At(r)}, ![r].sum = None,
                                ![r].record = NoSource, ![r].clean = FALSE]
      BY <1>8, <2>2 DEF ReadSegments
    <3>2. run'[r].step = "scan" /\ \A q \in Runs \ {r} : run'[q] = run[q]
      BY <3>1, GoesOn
    <3> QED
      BY <1>8, <3>2 DEF ReadSegments, Active
  <2> QED
    BY <2>1, <2>2
<1>9. CASE Split(r)
  BY <1>0, <1>9 DEF Split, Active, RunRow
<1>10. CASE EmbedFails(r)
  BY <1>10, GoesOn DEF EmbedFails, Active
<1>11. CASE StoreVectors(r)
  BY <1>1, <1>11, GoesTo DEF StoreVectors, Active
<1>12. CASE Finish(r)
  BY <1>12, GoesOn DEF Finish, Active
<1>13. CASE TombstoneMissing(r)
  BY <1>1, <1>13, GoesTo DEF TombstoneMissing, Active, Busy
<1>14. CASE PublishCorpus(r)
  BY <1>1, <1>14, GoesTo DEF PublishCorpus, Active, Busy
<1> QED
  BY <1>2, <1>3, <1>4, <1>5, <1>6, <1>7, <1>8, <1>9, <1>10, <1>11, <1>12, <1>13, <1>14 DEF Step

\* The paths of a run's step: none, one recorded, or the missing ones forgotten.
LEMMA StepPaths ==
    ASSUME TypesInv, NEW r \in Runs, Step(r)
    PROVE  \/ UNCHANGED path
           \/ Touch(r) \/ Store(r) \/ TombstoneMissing(r)
           \/ \E unreadable \in BOOLEAN : ParseFails(r, unreadable)
  BY DEF Step, CannotHash, Hash, Parse, ReadSegments, Split, EmbedFails, StoreVectors, Finish,
     PublishCorpus, tables

\* A run's step, when no two are active, keeps a source under every path.
LEMMA RunKeepsPaths ==
    ASSUME TypesInv, OneRun, TouchedIsPresent, PathsPresent, NEW r \in Runs, Step(r)
    PROVE  PathsPresent'
<1>0. /\ source \in [Docs -> SourceRow] /\ path \in [Paths -> PathRow]
      /\ \A p \in Paths : path[p].sum \in Docs \cup {None}
      /\ run[r].step \in Busy => run[r].sum \in Docs
  BY DEF TypesInv, TablesTypeOK, PathRow, RunCarries
<1>1. \A p \in Paths : path[p].sum # None => path[p].sum \in Docs /\ Present(path[p].sum)
  BY <1>0 DEF PathsPresent
<1>2. ASSUME NEW p, NEW d
      PROVE  \A q \in Paths : Recorded(p, d, r)[q].sum = d \/ (q # p /\ Recorded(p, d, r)[q] = path[q])
  BY <1>0 DEF Recorded
<1>3. ASSUME NEW sums
      PROVE  \A d \in Docs : d \notin sums => Tombstoned(sums)[d] = source[d]
  BY DEF Tombstoned
<1>4. ASSUME UNCHANGED path, UNCHANGED source PROVE PathsPresent'
  BY <1>4 DEF PathsPresent, Present
<1>5. ASSUME UNCHANGED path, NEW row, row.state \notin {"ABSENT", "DELETED"},
             source' = [source EXCEPT ![run[r].sum] = row]
      PROVE  PathsPresent'
  BY <1>0, <1>1, <1>5 DEF PathsPresent, Present
<1>6. CASE Touch(r)
  BY <1>1, <1>2, <1>6 DEF Touch, TouchedIsPresent, PathsPresent, Present
<1>7. CASE Store(r)
  <2> SUFFICES ASSUME NEW d, d = run[r].sum, NEW p, p = At(r),
                      NEW orphans, orphans = Orphans(p, d, r)
               PROVE  PathsPresent'
    OBVIOUS
  <2>1. /\ path' = Recorded(p, d, r)
        /\ source' = [Tombstoned(orphans) EXCEPT ![d] = run[r].record]
    BY <1>7 DEF Store
  <2>2. d \in Docs /\ run[r].record.state = "INDEXED"
    BY <1>7 DEF Store, TypesInv, RunCarries, Busy
  <2>3. source'[d].state = "INDEXED" /\ \A e \in Docs \ {d} : e \notin orphans => source'[e] = source[e]
    BY <1>3, <2>1, <2>2 DEF Tombstoned
  <2>4. \A q \in Paths \ {p} : path[q].sum \notin orphans
    BY DEF Orphans
  <2> QED
    BY <1>1, <1>2, <2>1, <2>2, <2>3, <2>4 DEF PathsPresent, Present
<1>8. CASE TombstoneMissing(r)
  <2>1. PICK missing : /\ path' = [p \in Paths |-> IF p \in missing THEN NoPath ELSE path[p]]
                       /\ source' = Tombstoned({path[p].sum : p \in missing}
                                                   \ {path[q].sum : q \in Paths \ missing})
    BY <1>8 DEF TombstoneMissing
  <2>2. NoPath.sum = None
    BY DEF NoPath
  <2> QED
    BY <1>1, <1>3, <2>1, <2>2 DEF PathsPresent, Present
<1>9. ASSUME NEW unreadable \in BOOLEAN, ParseFails(r, unreadable) PROVE PathsPresent'
  <2>1. /\ path' = Recorded(At(r), run[r].sum, r) /\ run[r].sum \in Docs
        /\ source' = [source EXCEPT ![run[r].sum] = [state |-> "FAILED", body |-> None]]
    BY <1>0, <1>9 DEF ParseFails, Busy
  <2>2. source'[run[r].sum].state = "FAILED" /\ \A e \in Docs \ {run[r].sum} : source'[e] = source[e]
    BY <1>0, <2>1
  <2> QED
    BY <1>1, <1>2, <2>1, <2>2 DEF PathsPresent, Present
<1> QED
  BY <1>4, <1>5, <1>6, <1>7, <1>8, <1>9, StepPaths, StepRows

\* A run's step keeps what holds while no two runs overlap.
LEMMA RunKeepsAlone ==
    ASSUME TypesInv, AloneInv, NEW r \in Runs, Step(r)
    PROVE  AloneInv'
<1> SUFFICES ASSUME "overlap" \notin gaps' PROVE OneRun' /\ TouchedIsPresent' /\ PathsPresent'
  BY DEF AloneInv
<1>1. OneRun /\ TouchedIsPresent /\ PathsPresent
  BY StepMovesOne DEF AloneInv
<1>2. \A q \in Runs \ {r} : run'[q] = run[q] /\ ~Active(q) /\ run[q].step # "touch"
  BY <1>1, StepMovesOne DEF OneRun, Active
<1>3. OneRun'
  BY <1>1, <1>2, StepMovesOne DEF OneRun, Active
<1>4. TouchedIsPresent'
  <2>1. ASSUME run'[r].step = "touch" PROVE Present(run[r].sum)'
    <3> SUFFICES ASSUME NEW d, d = disk[At(r)] PROVE Present(run[r].sum)'
      OBVIOUS
    <3>1. Hash(r) /\ run \in [Runs -> RunRow]
      BY <2>1, StepMovesOne DEF TypesInv, TablesTypeOK
    <3>2. /\ run' = [run EXCEPT ![r].sum = d, ![r].record = source[d],
                          ![r].step = IF Unchanged(r, d) THEN "touch" ELSE "parse"]
          /\ source' = source
      BY <3>1 DEF Hash, tables
    <3>3. run'[r].sum = d /\ Unchanged(r, d)
      BY <2>1, <3>1, <3>2 DEF RunRow
    <3> QED
      BY <3>2, <3>3 DEF Unchanged, Live, Present
  <2> QED
    BY <1>2, <2>1 DEF TouchedIsPresent
<1> QED
  BY <1>1, <1>3, <1>4, RunKeepsPaths

LEMMA InitAlone == Init => AloneInv
  BY DEF Init, NoRun, NoPath, AloneInv, OneRun, TouchedIsPresent, PathsPresent, Active

\* Every step does, and a run that starts beside another is an overlap.
LEMMA StepAlone == TypesInv /\ AloneInv /\ [Next]_vars => AloneInv'
<1> SUFFICES ASSUME TypesInv, AloneInv, [Next]_vars PROVE AloneInv'
  OBVIOUS
<1>0. /\ run \in [Runs -> RunRow] /\ path \in [Paths -> PathRow]
      /\ NoPath.sum = None /\ NoRun.step = "idle"
  BY DEF TypesInv, TablesTypeOK, NoPath, NoRun
<1>1. ASSUME NEW r \in Runs, NEW reindex \in MayReindex, Start(r, reindex) PROVE AloneInv'
  <2> SUFFICES ASSUME "overlap" \notin gaps' PROVE OneRun' /\ TouchedIsPresent' /\ PathsPresent'
    BY DEF AloneInv
  <2>1. "overlap" \notin gaps /\ \A q \in Runs : ~Active(q)
    BY <1>1 DEF Start
  <2>2. /\ run'[r].step = "scan"
        /\ \A q \in Runs \ {r} : run'[q].step = run[q].step /\ run'[q].sum = run[q].sum
    <3>1. run'[r].step = "scan"
      BY <1>0, <1>1 DEF Start, RunRow
    <3>2. \A q \in Runs \ {r} : run'[q] = [run[q] EXCEPT !.clean = FALSE]
      BY <1>1 DEF Start
    <3>3. ASSUME NEW q \in Runs \ {r} PROVE run'[q].step = run[q].step /\ run'[q].sum = run[q].sum
      <4>1. run[q] \in RunRow /\ run'[q] = [run[q] EXCEPT !.clean = FALSE]
        BY <1>0, <3>2, <3>3
      <4> QED
        BY <4>1 DEF RunRow
    <3> QED
      BY <3>1, <3>3
  <2>3. \A p \in Paths : path'[p].sum = path[p].sum
    BY <1>0, <1>1 DEF Start, PathRow
  <2>4. source' = source
    BY <1>1 DEF Start
  <2> QED
    BY <2>1, <2>2, <2>3, <2>4
       DEF AloneInv, OneRun, TouchedIsPresent, PathsPresent, Active, Present
<1>2. ASSUME NEW r \in Runs, Stops(r) PROVE AloneInv'
  <2>1. run'[r].step = "idle" /\ \A q \in Runs \ {r} : run'[q] = run[q]
    BY <1>0, <1>2 DEF Stops
  <2> QED
    BY <1>2, <2>1 DEF Stops, tables, AloneInv, OneRun, TouchedIsPresent, PathsPresent, Active, Present
<1>3. ASSUME NEW p \in Paths, NEW content \in Docs \cup {None}, Edit(p, content) PROVE AloneInv'
  <2>1. \A q \in Runs : run'[q].step = run[q].step /\ run'[q].sum = run[q].sum
    BY <1>0, <1>3 DEF Edit, RunRow
  <2>2. path' = path /\ source' = source /\ gaps \subseteq gaps'
    BY <1>3 DEF Edit, tables
  <2> QED
    BY <2>1, <2>2 DEF AloneInv, OneRun, TouchedIsPresent, PathsPresent, Active, Present
<1>4. CASE UNCHANGED vars
  BY <1>4 DEF vars, AloneInv, OneRun, TouchedIsPresent, PathsPresent, Active, Present
<1> QED
  BY <1>1, <1>2, <1>3, <1>4, RunKeepsAlone DEF Next

\* As long as no two runs overlap, no path points to a deleted or missing source: a
\* tombstone takes only contents that no other path holds.
THEOREM RecordedHasSource == Spec => []PathsHaveSources
<1>1. AloneInv => PathsHaveSources
  BY DEF AloneInv, PathsPresent, Present, PathsHaveSources
<1> QED
  BY <1>1, InitTypes, StepTypes, InitAlone, StepAlone, PTL DEF Spec

--------------------------------------------------------------------------------
(***************************************************************************)
(* What a search finds is a whole document: the index implements           *)
(* DocumentIndex.  The segments under one source id are all of one         *)
(* checksum, so deletions by checksum take all of them or none.            *)
(***************************************************************************)

Holds(id, body, sum) ==
    \A i \in Ordinals : segment[<<id, i>>] = IF TextOf[body][i] # None
                                             THEN [sum |-> sum, text |-> TextOf[body][i]]
                                             ELSE NoSegment
Vacant(id) == \A i \in Ordinals : segment[<<id, i>>] = NoSegment
Whole(id) == Vacant(id) \/ \E body, sum \in Docs : SourceOf[body] = id /\ Holds(id, body, sum)
WholeInv == \A id \in Ids : Whole(id)
Stays(id) == \A i \in Ordinals : segment'[<<id, i>>] = segment[<<id, i>>]
Spelled(id) == {d \in Docs : /\ SourceOf[d] = id
                             /\ \A i \in Ordinals : segment[<<id, i>>].text = TextOf[d][i]}

LEMMA HeldSums ==
    ASSUME NEW id, NEW body, NEW sum, Holds(id, body, sum), NEW i \in Ordinals
    PROVE  segment[<<id, i>>] = NoSegment \/ segment[<<id, i>>].sum = sum
<1>1. [sum |-> sum, text |-> TextOf[body][i]].sum = sum
  OBVIOUS
<1>2. segment[<<id, i>>] = NoSegment \/ segment[<<id, i>>] = [sum |-> sum, text |-> TextOf[body][i]]
  BY DEF Holds
<1> QED
  BY <1>1, <1>2

\* A deletion by checksum takes all the segments of an id or none.
LEMMA DeletedTogether ==
    ASSUME NEW id \in Ids, Whole(id), NEW sums,
           \A i \in Ordinals : segment'[<<id, i>>] = WithoutSegments(sums)[<<id, i>>]
    PROVE  Stays(id) \/ Vacant(id)'
<1>1. \A i \in Ordinals : segment'[<<id, i>>] =
                             IF segment[<<id, i>>].sum \in sums THEN NoSegment ELSE segment[<<id, i>>]
  BY DEF WithoutSegments, Kept, Slots
<1>2. CASE Vacant(id)
  BY <1>1, <1>2 DEF Vacant
<1>3. ASSUME NEW body \in Docs, NEW sum \in Docs, Holds(id, body, sum) PROVE Stays(id) \/ Vacant(id)'
  <2>1. \A i \in Ordinals : segment[<<id, i>>] = NoSegment \/ segment[<<id, i>>].sum = sum
    BY <1>3, HeldSums
  <2>2. CASE sum \in sums
    BY <1>1, <2>1, <2>2 DEF Vacant
  <2>3. CASE sum \notin sums
    BY <1>1, <2>1, <2>3 DEF Stays
  <2> QED
    BY <2>2, <2>3
<1> QED
  BY <1>2, <1>3 DEF Whole

\* A document that is stored takes the place of all segments under its id.
LEMMA StoreSegments ==
    ASSUME TypesInv, WholeInv, NEW r \in Runs, Store(r), NEW d, d = run[r].sum,
           NEW body, body = run[r].record.body, NEW x, x = SourceOf[body]
    PROVE  Holds(x, body, d)' /\ \A id \in Ids \ {x} : Stays(id) \/ Vacant(id)'
<1> SUFFICES ASSUME NEW shed, shed = {d} \cup HoldersOf(SourceOf[body]) \cup Orphans(At(r), d, r)
             PROVE  Holds(x, body, d)' /\ \A id \in Ids \ {x} : Stays(id) \/ Vacant(id)'
  OBVIOUS
<1>1. segment' = [k \in Slots |-> IF k[1] = SourceOf[body] /\ TextOf[body][k[2]] # None
                                 THEN [sum |-> d, text |-> TextOf[body][k[2]]]
                                 ELSE WithoutSegments(shed)[k]]
  BY DEF Store
<1>2. d \in Docs /\ body \in Docs
  BY DEF Store, TypesInv, RunCarries, Busy
<1>3. x \in Ids
  BY <1>2, DocsAssumption
<1>4. ASSUME NEW i \in Ordinals PROVE WithoutSegments(shed)[<<x, i>>] = NoSegment
  <2>1. <<x, i>> \in Slots
    BY <1>3 DEF Slots
  <2>2. segment[<<x, i>>] = NoSegment \/ segment[<<x, i>>].sum \in Docs
    BY <1>3, HeldSums DEF WholeInv, Whole, Vacant
  <2>3. segment[<<x, i>>] = NoSegment \/ segment[<<x, i>>].sum \in shed
    BY <2>2, NoneAssumption DEF HoldersOf
  <2> QED
    BY <2>1, <2>3 DEF WithoutSegments, Kept
<1>5. Holds(x, body, d)'
  <2>1. \A i \in Ordinals : <<x, i>> \in Slots /\ <<x, i>>[1] = x /\ <<x, i>>[2] = i
    BY <1>3 DEF Slots
  <2>2. \A i \in Ordinals : segment'[<<x, i>>] = IF TextOf[body][i] # None
                                                  THEN [sum |-> d, text |-> TextOf[body][i]]
                                                  ELSE NoSegment
    BY <1>1, <1>4, <2>1
  <2> QED
    BY <2>2 DEF Holds
<1>6. ASSUME NEW id \in Ids \ {x} PROVE Stays(id) \/ Vacant(id)'
  <2>1. \A i \in Ordinals : <<id, i>> \in Slots /\ <<id, i>>[1] = id
    BY DEF Slots
  <2>2. \A i \in Ordinals : segment'[<<id, i>>] = WithoutSegments(shed)[<<id, i>>]
    BY <1>1, <2>1
  <2> QED
    BY <2>2, DeletedTogether DEF WholeInv
<1> QED
  BY <1>5, <1>6

\* Every step leaves the segments of an id, or takes them all, but for one id under
\* which it may put a document.
LEMMA StepSegments ==
    ASSUME TypesInv, WholeInv, [Next]_vars
    PROVE  \/ \A id \in Ids : Stays(id) \/ Vacant(id)'
           \/ \E body, sum \in Docs :
                 /\ Holds(SourceOf[body], body, sum)'
                 /\ \A id \in Ids \ {SourceOf[body]} : Stays(id) \/ Vacant(id)'
<1>1. ASSUME UNCHANGED segment PROVE \A id \in Ids : Stays(id)
  BY <1>1 DEF Stays
<1>2. ASSUME NEW sums, segment' = WithoutSegments(sums)
      PROVE  \A id \in Ids : Stays(id) \/ Vacant(id)'
  BY <1>2, DeletedTogether DEF WholeInv
<1>3. ASSUME NEW r \in Runs, Store(r)
      PROVE  \E body, sum \in Docs :
                 /\ Holds(SourceOf[body], body, sum)'
                 /\ \A id \in Ids \ {SourceOf[body]} : Stays(id) \/ Vacant(id)'
  <2>1. run[r].sum \in Docs /\ run[r].record.body \in Docs
    BY <1>3 DEF Store, TypesInv, RunCarries, Busy
  <2> QED
    BY <1>3, <2>1, StoreSegments
<1>4. ASSUME NEW r \in Runs, TombstoneMissing(r) PROVE \A id \in Ids : Stays(id) \/ Vacant(id)'
  BY <1>2, <1>4 DEF TombstoneMissing
<1>5. ASSUME NEW r \in Runs, Step(r)
      PROVE  \/ \A id \in Ids : Stays(id) \/ Vacant(id)'
             \/ \E body, sum \in Docs :
                   /\ Holds(SourceOf[body], body, sum)'
                   /\ \A id \in Ids \ {SourceOf[body]} : Stays(id) \/ Vacant(id)'
  BY <1>1, <1>2, <1>3, <1>4, <1>5, StepRows
<1>6. ASSUME NEW r \in Runs, NEW reindex \in MayReindex, Start(r, reindex) PROVE UNCHANGED segment
  BY <1>6 DEF Start
<1>7. ASSUME NEW r \in Runs, Stops(r) PROVE UNCHANGED segment
  BY <1>7 DEF Stops, tables
<1>8. ASSUME NEW p \in Paths, NEW content \in Docs \cup {None}, Edit(p, content)
      PROVE  UNCHANGED segment
  BY <1>8 DEF Edit, tables
<1>9. CASE UNCHANGED vars
  BY <1>1, <1>9 DEF vars
<1> QED
  BY <1>1, <1>5, <1>6, <1>7, <1>8, <1>9 DEF Next

\* So what is under an id stays whole.
LEMMA StepWhole == TypesInv /\ WholeInv /\ [Next]_vars => WholeInv'
<1> SUFFICES ASSUME TypesInv, WholeInv, [Next]_vars, NEW id \in Ids PROVE Whole(id)'
  BY DEF WholeInv
<1>1. CASE Stays(id)
  BY <1>1 DEF WholeInv, Whole, Vacant, Holds, Stays
<1>2. CASE Vacant(id)'
  BY <1>2 DEF Whole
<1>3. ASSUME NEW body \in Docs, NEW sum \in Docs, Holds(SourceOf[body], body, sum)', id = SourceOf[body]
      PROVE  Whole(id)'
  BY <1>3 DEF Whole, Holds
<1> QED
  BY <1>1, <1>2, <1>3, StepSegments

\* What is found under an id is nothing, or a document of that id ...
LEMMA FoundIsDocument ==
    ASSUME NEW id \in Ids, Whole(id)
    PROVE  Found(id) \in Docs \cup {None} /\ (Found(id) # None => SourceOf[Found(id)] = id)
<1>1. NoSegment.text = None
  BY DEF NoSegment
<1>2. CASE RowsOf(id) = NoRows
  BY <1>2 DEF Found
<1>3. CASE RowsOf(id) # NoRows
  <2>1. ~Vacant(id)
    BY <1>1, <1>3 DEF Vacant, RowsOf, NoRows
  <2>2. PICK body \in Docs, sum \in Docs : SourceOf[body] = id /\ Holds(id, body, sum)
    BY <2>1 DEF Whole
  <2>3. ASSUME NEW i \in Ordinals PROVE segment[<<id, i>>].text = TextOf[body][i]
    <3>1. [sum |-> sum, text |-> TextOf[body][i]].text = TextOf[body][i]
      OBVIOUS
    <3>2. CASE TextOf[body][i] # None
      BY <2>2, <3>1, <3>2 DEF Holds
    <3>3. CASE TextOf[body][i] = None
      BY <1>1, <2>2, <3>3 DEF Holds
    <3> QED
      BY <3>2, <3>3
  <2>4. body \in Spelled(id)
    BY <2>2, <2>3 DEF Spelled
  <2>5. Found(id) = CHOOSE d \in Spelled(id) : TRUE
    BY <1>3, <2>4 DEF Found, Spelled
  <2>6. Found(id) \in Spelled(id)
    BY <2>4, <2>5
  <2> QED
    BY <2>6 DEF Spelled
<1> QED
  BY <1>2, <1>3

\* ... the same one as long as the segments are the same, and nothing without any.
LEMMA FoundFollows ==
    ASSUME NEW id
    PROVE  /\ Stays(id) => Found(id)' = Found(id)
           /\ Vacant(id) => Found(id) = None
           /\ Vacant(id)' => Found(id)' = None
<1>1. NoSegment.text = None
  BY DEF NoSegment
<1>2. ASSUME Stays(id) PROVE Found(id)' = Found(id)
  <2>1. RowsOf(id)' = RowsOf(id)
    BY <1>2 DEF Stays, RowsOf
  <2>2. Spelled(id)' = Spelled(id)
    BY <1>2 DEF Stays, Spelled
  <2>3. Found(id) = IF RowsOf(id) = NoRows THEN None
                    ELSE IF Spelled(id) = {} THEN Mixture ELSE CHOOSE d \in Spelled(id) : TRUE
    BY DEF Found, Spelled
  <2>4. Found(id)' = IF RowsOf(id)' = NoRows THEN None
                     ELSE IF Spelled(id)' = {} THEN Mixture ELSE CHOOSE d \in Spelled(id)' : TRUE
    BY DEF Found, Spelled
  <2> QED
    BY <2>1, <2>2, <2>3, <2>4
<1>3. ASSUME Vacant(id) PROVE Found(id) = None
  BY <1>1, <1>3 DEF Vacant, Found, RowsOf, NoRows
<1>4. ASSUME Vacant(id)' PROVE Found(id)' = None
  BY <1>1, <1>4 DEF Vacant, Found, RowsOf, NoRows
<1> QED
  BY <1>2, <1>3, <1>4

LEMMA InitWhole == Init => WholeInv /\ Promise!Init
<1> SUFFICES ASSUME Init PROVE WholeInv /\ Promise!Init
  OBVIOUS
<1>1. \A id \in Ids : Vacant(id)
  BY DEF Init, Vacant, Slots
<1> QED
  BY <1>1, FoundFollows DEF WholeInv, Whole, Promise!Init

\* Every step of the index is one of DocumentIndex, or changes nothing that is found.
LEMMA StepPromise == TypesInv /\ WholeInv /\ [Next]_vars =>
    [Promise!Next]_([id \in Ids |-> Found(id)])
<1> SUFFICES ASSUME TypesInv, WholeInv, [Next]_vars
             PROVE  [Promise!Next]_([id \in Ids |-> Found(id)])
  OBVIOUS
<1>1. \A id \in Ids : Stays(id) \/ Vacant(id)' => Found(id)' \in {Found(id), None}
  BY FoundFollows
<1>2. WholeInv'
  BY StepWhole
<1>3. \A id \in Ids : /\ Found(id)' \in Docs \cup {None}
                      /\ Found(id)' # None => SourceOf[Found(id)'] = id
  <2> SUFFICES ASSUME NEW id \in Ids
               PROVE  Found(id)' \in Docs \cup {None} /\ (Found(id)' # None => SourceOf[Found(id)'] = id)
    OBVIOUS
  <2>1. Whole(id)'
    BY <1>2 DEF WholeInv
  <2>2. (Whole(id) => Found(id) \in Docs \cup {None} /\ (Found(id) # None => SourceOf[Found(id)] = id))'
    BY FoundIsDocument, PTL
  <2> QED
    BY <2>1, <2>2
<1>4. ASSUME NEW id \in Ids, \A other \in Ids \ {id} : Stays(other) \/ Vacant(other)'
      PROVE  Promise!Change(id, Found(id)')
  BY <1>1, <1>3, <1>4 DEF Promise!Change
<1>5. ASSUME NEW id \in Ids, \A other \in Ids \ {id} : Stays(other) \/ Vacant(other)'
      PROVE  Promise!Next
  BY <1>3, <1>4, <1>5 DEF Promise!Next
<1>6. CASE Ids = {}
  BY <1>6
<1>7. CASE Ids # {}
  <2>1. PICK id \in Ids : \A other \in Ids \ {id} : Stays(other) \/ Vacant(other)'
    BY <1>7, StepSegments, DocsAssumption
  <2> QED
    BY <1>5, <2>1
<1> QED
  BY <1>6, <1>7

\* Seen by source ids, every behaviour of the index, with overlapping runs, failures
\* and changes of files, is one of DocumentIndex.
THEOREM IndexKeepsPromise == Spec => FindsWholeDocuments
<1> QED
  BY InitTypes, StepTypes, InitWhole, StepWhole, StepPromise, PTL
     DEF Spec, FindsWholeDocuments, Promise!Spec

--------------------------------------------------------------------------------
(***************************************************************************)
(* A vector is that of the text its segment has now, as long as no two     *)
(* runs overlap: the rows that a run read before it calls the provider are *)
(* still the segments of its document when the answer is stored.           *)
(***************************************************************************)

VectorsMatch == \A k \in Slots : vector[k] \in {None, segment[k].text}
RowsAreCurrent ==
    \A r \in Runs : run[r].step \in {"split", "call"} => run[r].rows = RowsOf(IdOf(r))
VectorInv == "overlap" \notin gaps => VectorsMatch /\ RowsAreCurrent

\* A run's step, when no other is active, leaves every vector of its segment's text.
LEMMA RunKeepsVectors ==
    ASSUME TypesInv, RestTypeOK, WholeInv, VectorsMatch, RowsAreCurrent, NEW r \in Runs, Step(r)
    PROVE  VectorsMatch'
<1>0. vector \in [Slots -> Texts \cup {None}] /\ segment \in [Slots -> SegmentRow]
  BY DEF RestTypeOK, TypesInv, TablesTypeOK
<1>1. ASSUME NEW sums, NEW k \in Slots
      PROVE  \/ WithoutVectors(sums)[k] = None
             \/ WithoutVectors(sums)[k] = vector[k] /\ WithoutSegments(sums)[k] = segment[k]
  BY DEF WithoutVectors, WithoutSegments
<1>2. CASE UNCHANGED <<segment, vector>>
  BY <1>2 DEF VectorsMatch
<1>3. ASSUME NEW sums, segment' = WithoutSegments(sums), vector' = WithoutVectors(sums)
      PROVE  VectorsMatch'
  BY <1>1, <1>3 DEF VectorsMatch
<1>4. CASE Store(r)
  <2> SUFFICES ASSUME NEW d, d = run[r].sum, NEW body, body = run[r].record.body,
                      NEW id, id = SourceOf[body],
                      NEW shed, shed = {d} \cup HoldersOf(id) \cup Orphans(At(r), d, r),
                      NEW k \in Slots
               PROVE  vector'[k] \in {None, segment'[k].text}
    BY DEF VectorsMatch
  <2>1. /\ segment' = [j \in Slots |-> IF j[1] = id /\ TextOf[body][j[2]] # None
                                       THEN [sum |-> d, text |-> TextOf[body][j[2]]]
                                       ELSE WithoutSegments(shed)[j]]
        /\ vector' = WithoutVectors(shed)
    BY <1>4 DEF Store
  <2>2. CASE k[1] = id
    <3>1. PICK i \in Ordinals : k = <<id, i>> /\ id \in Ids
      BY <2>2 DEF Slots
    <3>2. segment[k] = NoSegment \/ segment[k].sum \in Docs
      BY <3>1, HeldSums DEF WholeInv, Whole, Vacant
    <3>3. segment[k].sum \in Docs => segment[k].sum \in shed
      BY <3>1, NoneAssumption DEF HoldersOf
    <3>4. segment[k] = NoSegment => vector[k] = None
      BY DEF VectorsMatch, NoSegment
    <3>5. vector'[k] = None
      BY <2>1, <3>2, <3>3, <3>4 DEF WithoutVectors, Kept
    <3> QED
      BY <3>5
  <2>3. CASE k[1] # id
    BY <1>1, <2>1, <2>3 DEF VectorsMatch
  <2> QED
    BY <2>2, <2>3
<1>5. ASSUME run[r].step \in {"split", "call"}, segment' = segment,
             \A k \in Slots : \/ vector'[k] = vector[k]
                              \/ k[1] = IdOf(r) /\ vector'[k] = run[r].rows[k[2]]
      PROVE  VectorsMatch'
  <2>1. run[r].rows = RowsOf(IdOf(r))
    BY <1>5 DEF RowsAreCurrent
  <2>2. ASSUME NEW k \in Slots, k[1] = IdOf(r) PROVE RowsOf(IdOf(r))[k[2]] = segment[k].text
    BY <2>2 DEF RowsOf, Slots
  <2> QED
    BY <1>5, <2>1, <2>2 DEF VectorsMatch
<1> QED
  BY <1>0, <1>2, <1>3, <1>4, <1>5, StepVectors

\* The rows that a run carries stay those of its document, when no other run is active.
LEMMA RunKeepsRows ==
    ASSUME TypesInv, OneRun, RowsAreCurrent, NEW r \in Runs, Step(r)
    PROVE  RowsAreCurrent'
<1>0. run \in [Runs -> RunRow] /\ run[r] \in RunRow
  BY DEF TypesInv, TablesTypeOK
<1>1. \A q \in Runs \ {r} : run'[q] = run[q] /\ ~Active(q)
  BY StepMovesOne DEF OneRun
<1>2. \A q \in Runs \ {r} : run'[q].step \notin {"split", "call"}
  BY <1>1 DEF Active
<1> SUFFICES ASSUME run'[r].step \in {"split", "call"}
             PROVE  run'[r].rows = RowsOf(IdOf(r))'
  BY <1>2 DEF RowsAreCurrent, IdOf
<1>3. \/ Split(r) \/ \E available \in BOOLEAN : ReadSegments(r, available)
      \/ run'[r].step \notin {"split", "call"}
  <2>1. CASE CannotHash(r) \/ EmbedFails(r) \/ Finish(r) \/ \E unreadable \in BOOLEAN : ParseFails(r, unreadable)
    BY <2>1, GoesOn DEF CannotHash, EmbedFails, Finish, ParseFails
  <2>2. CASE Hash(r)
    BY <1>0, <2>2 DEF Hash
  <2>3. CASE Parse(r)
    BY <1>0, <2>3 DEF Parse
  <2>4. CASE Touch(r) \/ Store(r) \/ StoreVectors(r) \/ TombstoneMissing(r) \/ PublishCorpus(r)
    <3>1. \E step \in {"embed", "finish", "publish", "completed"} : GoTo(r, step)
      BY <2>4 DEF Touch, Store, StoreVectors, TombstoneMissing, PublishCorpus
    <3> QED
      BY <1>0, <3>1 DEF GoTo
  <2> QED
    BY <2>1, <2>2, <2>3, <2>4 DEF Step
<1>4. CASE Split(r)
  <2>1. run'[r].rows = run[r].rows /\ run'[r].record = run[r].record /\ segment' = segment
    BY <1>0, <1>4 DEF Split
  <2>2. run[r].rows = RowsOf(IdOf(r))
    BY <1>4 DEF Split, RowsAreCurrent
  <2> QED
    BY <2>1, <2>2 DEF RowsOf, IdOf
<1>5. ASSUME NEW available \in BOOLEAN, ReadSegments(r, available)
      PROVE  run'[r].rows = RowsOf(IdOf(r))'
  <2>1. CASE run' = [run EXCEPT ![r].step = "split", ![r].rows = RowsOf(IdOf(r))]
    <3>1. run'[r].rows = RowsOf(IdOf(r)) /\ run'[r].record = run[r].record /\ segment' = segment
      BY <1>0, <1>5, <2>1 DEF ReadSegments
    <3> QED
      BY <3>1 DEF RowsOf, IdOf
  <2>2. CASE run' # [run EXCEPT ![r].step = "split", ![r].rows = RowsOf(IdOf(r))]
    <3>1. \/ GoOn(r)
          \/ run' = [run EXCEPT ![r].step = "scan", ![r].todo = @ \ {At(r)}, ![r].sum = None,
                                ![r].record = NoSource, ![r].clean = FALSE]
      BY <1>5, <2>2 DEF ReadSegments
    <3> QED
      BY <3>1, GoesOn
  <2> QED
    BY <2>1, <2>2
<1> QED
  BY <1>3, <1>4, <1>5

LEMMA InitVectors == Init => VectorInv
  BY DEF Init, NoRun, VectorInv, VectorsMatch, RowsAreCurrent

\* A gap that the history went through stays one.
LEMMA GapsStay == TypesInv /\ [Next]_vars => gaps \subseteq gaps'
<1>1. ASSUME TypesInv, NEW r \in Runs, Step(r) PROVE gaps \subseteq gaps'
  BY <1>1, StepMovesOne
<1> QED
  BY <1>1 DEF Next, Start, Stops, Edit, vars

LEMMA StepVectorInv ==
    TypesInv /\ RestTypeOK /\ WholeInv /\ AloneInv /\ VectorInv /\ [Next]_vars => VectorInv'
<1> SUFFICES ASSUME TypesInv, RestTypeOK, WholeInv, AloneInv, VectorInv, [Next]_vars,
                    "overlap" \notin gaps'
             PROVE  VectorsMatch' /\ RowsAreCurrent'
  BY DEF VectorInv
<1>0. run \in [Runs -> RunRow] /\ NoRun.step = "idle"
  BY DEF TypesInv, TablesTypeOK, NoRun
<1>1. "overlap" \notin gaps
  BY GapsStay
<1>2. OneRun /\ VectorsMatch /\ RowsAreCurrent
  BY <1>1 DEF AloneInv, VectorInv
<1>3. ASSUME NEW r \in Runs, Step(r) PROVE VectorsMatch' /\ RowsAreCurrent'
  BY <1>2, <1>3, RunKeepsVectors, RunKeepsRows
<1>4. ASSUME segment' = segment, vector' = vector,
             \A q \in Runs : run'[q].step \in {"split", "call"} =>
                  /\ run[q].step \in {"split", "call"}
                  /\ run'[q].rows = run[q].rows /\ run'[q].record = run[q].record
      PROVE  VectorsMatch' /\ RowsAreCurrent'
  BY <1>2, <1>4 DEF VectorsMatch, RowsAreCurrent, RowsOf, IdOf
<1>5. ASSUME NEW r \in Runs, NEW reindex \in MayReindex, Start(r, reindex)
      PROVE  VectorsMatch' /\ RowsAreCurrent'
  <2>1. run'[r].step = "scan"
        /\ \A q \in Runs \ {r} : run'[q].step = run[q].step /\ run'[q].rows = run[q].rows
                                 /\ run'[q].record = run[q].record
    BY <1>0, <1>5 DEF Start, RunRow
  <2>2. segment' = segment /\ vector' = vector
    BY <1>5 DEF Start
  <2> QED
    BY <1>4, <2>1, <2>2
<1>6. ASSUME NEW r \in Runs, Stops(r) PROVE VectorsMatch' /\ RowsAreCurrent'
  BY <1>0, <1>4, <1>6 DEF Stops, tables
<1>7. ASSUME NEW p \in Paths, NEW content \in Docs \cup {None}, Edit(p, content)
      PROVE  VectorsMatch' /\ RowsAreCurrent'
  BY <1>0, <1>4, <1>7 DEF Edit, tables, RunRow
<1>8. CASE UNCHANGED vars
  BY <1>4, <1>8 DEF vars
<1> QED
  BY <1>3, <1>5, <1>6, <1>7, <1>8 DEF Next

\* As long as no two runs overlap, every vector is that of its segment's text.
THEOREM VectorsFollowText == Spec => []VectorsMatchText
<1>1. VectorInv => VectorsMatchText
  BY DEF VectorInv, VectorsMatch, VectorsMatchText
<1> QED
  BY <1>1, InitVectors, StepVectorInv, InitTypes, StepTypes, InitRest, StepRest, InitWhole, StepWhole, InitAlone,
     StepAlone, PTL DEF Spec

--------------------------------------------------------------------------------
(***************************************************************************)
(* A clean run of the knowledge sync leaves the index equal to the folder, *)
(* for every folder, every set of contents and every history of            *)
(* interrupted runs that went through none of the gaps.  The invariant     *)
(* says what the tables owe to each other after any transaction, and how   *)
(* far the run that is active has come.                                    *)
(***************************************************************************)

Embedding == {"embed", "split", "call", "finish"}
Held(d) == Holds(SourceOf[d], d, d)

\* The tables among themselves: what is under a source id is one content, under its
\* own checksum; a live source is of its own content; a source has a path.
Owned(id) == Vacant(id) \/ \E d \in Docs : SourceOf[d] = id /\ Held(d)
SourceFits(d) ==
    /\ source[d].state \in Live => source[d].body = d
    /\ source[d].state \in Live /\ TextOf[d] = NoRows => source[d].state = "INDEXED"
    /\ Present(d) => \E p \in Paths : path[p].sum = d
TablesFit == (\A id \in Ids : Owned(id)) /\ (\A d \in Docs : SourceFits(d))

\* A run and the document it is at, clean or not.
Embeds(r, d) ==
    /\ path[At(r)].sum = d /\ Held(d)
    /\ source[d] = run[r].record /\ source[d].state \in Live
    /\ run[r].step # "embed" => d \notin Blocked /\ TextOf[d] # NoRows /\ run[r].rows = TextOf[d]
    /\ run[r].step = "call" =>
           \A i \in Ordinals \ run[r].pending : vector[<<SourceOf[d], i>>] = TextOf[d][i]
    /\ run[r].step = "finish" => \A i \in Ordinals : vector[<<SourceOf[d], i>>] = TextOf[d][i]
Carries(r) ==
    LET d == run[r].sum IN
    /\ run[r].step = "store" => run[r].record.body = d
    /\ run[r].step = "touch" => run[r].record = source[d] /\ source[d].state \in Live
    /\ run[r].step \in Embedding => Embeds(r, d)

\* How far a clean run has come: the files it has seen are complete.
Seen(r) ==
    \A p \in Paths : path[p].seen = r =>
        /\ disk[p] # None /\ path[p].sum = disk[p]
        /\ p \in run[r].todo => p = At(r) /\ run[r].step \in Embedding
Done(r) ==
    \A p \in Paths : disk[p] # None /\ p \notin run[r].todo => path[p].seen = r /\ Complete(disk[p])
Scans(r) ==
    /\ \A p \in run[r].todo : disk[p] # None
    /\ Seen(r) /\ Done(r)
    /\ run[r].step \in Busy => run[r].sum = disk[At(r)]
    /\ run[r].step \in Embedding => path[At(r)].seen = r
    /\ run[r].step = "publish" => run[r].todo = {} /\ \A p \in Paths : path[p].sum = disk[p]

Mirrors ==
    /\ \A p \in Paths : path[p].sum = disk[p]
    /\ \A p \in Paths : disk[p] # None => Complete(disk[p])
    /\ \A d \in Docs : source[d].state \in Live => \E p \in Paths : path[p].sum = d
    /\ corpus = {<<d, source[d].body>> : d \in {e \in Docs : source[e].state \in Live}}

Clean(r) ==
    /\ \A q \in Runs \ {r} : ~Active(q)
    /\ Active(r) => Scans(r)
    /\ run[r].step = "completed" => Mirrors

MirrorInv == gaps = {} =>
    /\ ~Shared(disk)
    /\ TablesFit
    /\ \A r \in Runs : Carries(r)
    /\ \A r \in Runs : run[r].clean => Clean(r)

\* What holds before a step that leaves no gap.
Known ==
    /\ TypesInv /\ RestTypeOK /\ WholeInv
    /\ OneRun /\ VectorsMatch /\ RowsAreCurrent
    /\ ~Shared(disk) /\ TablesFit
    /\ \A r \in Runs : Carries(r)
    /\ \A r \in Runs : run[r].clean => Clean(r)

--------------------------------------------------------------------------------
(***************************************************************************)
(* Lemmas about the tables.                                                *)
(***************************************************************************)

LEMMA Basics ==
    ASSUME Known
    PROVE  /\ disk \in [Paths -> Docs \cup {None}] /\ path \in [Paths -> PathRow]
           /\ source \in [Docs -> SourceRow] /\ segment \in [Slots -> SegmentRow]
           /\ vector \in [Slots -> Texts \cup {None}] /\ run \in [Runs -> RunRow]
           /\ \A p \in Paths : path[p].sum \in Docs \cup {None}
           /\ None \notin Docs /\ None \notin Runs /\ None \notin Texts
           /\ NoSegment.sum = None /\ NoSegment.text = None /\ NoPath.sum = None /\ NoPath.seen = None
           /\ \A d \in Docs : SourceOf[d] \in Ids
           /\ \A d \in Docs : TextOf[d] \in [Ordinals -> Texts \cup {None}]
           /\ \A id \in Ids, i \in Ordinals : <<id, i>> \in Slots
  BY NoneAssumption, DocsAssumption
     DEF Known, TypesInv, TablesTypeOK, RestTypeOK, PathRow, NoSegment, NoPath, Slots

\* Only the run that moves is active, so no other is clean.
LEMMA OthersRest ==
    ASSUME Known, NEW r \in Runs, Step(r)
    PROVE  /\ Active(r)
           /\ \A q \in Runs \ {r} : run'[q] = run[q] /\ ~Active(q) /\ ~run[q].clean
<1>1. Active(r) /\ \A q \in Runs \ {r} : run'[q] = run[q] /\ ~Active(q)
  BY StepMovesOne DEF Known, OneRun
<1>2. ASSUME NEW q \in Runs \ {r}, run[q].clean PROVE FALSE
  BY <1>1, <1>2 DEF Known, Clean
<1> QED
  BY <1>1, <1>2

\* Two files have different source ids, and so different contents.
LEMMA FilesDiffer ==
    ASSUME Known, NEW p \in Paths, NEW q \in Paths, p # q, disk[p] # None, disk[q] # None
    PROVE  SourceOf[disk[p]] # SourceOf[disk[q]] /\ disk[p] # disk[q]
  BY DEF Known, Shared

LEMMA TextShape ==
    ASSUME Known, NEW d \in Docs
    PROVE  TextOf[d] = NoRows <=> \A i \in Ordinals : TextOf[d][i] = None
  BY Basics DEF NoRows

\* A content whose segments are under its id: row by row.
LEMMA HeldRows ==
    ASSUME Known, NEW d \in Docs, NEW i \in Ordinals
    PROVE  /\ Held(d) => /\ segment[<<SourceOf[d], i>>].text = TextOf[d][i]
                         /\ segment[<<SourceOf[d], i>>].sum = IF TextOf[d][i] # None THEN d ELSE None
           /\ Vacant(SourceOf[d]) => segment[<<SourceOf[d], i>>] = NoSegment
<1>1. [sum |-> d, text |-> TextOf[d][i]].sum = d /\ [sum |-> d, text |-> TextOf[d][i]].text = TextOf[d][i]
  OBVIOUS
<1>2. Held(d) => segment[<<SourceOf[d], i>>] = IF TextOf[d][i] # None
                          THEN [sum |-> d, text |-> TextOf[d][i]] ELSE NoSegment
  BY DEF Held, Holds
<1>3. CASE TextOf[d][i] # None
  BY <1>1, <1>2, <1>3 DEF Vacant
<1>4. CASE TextOf[d][i] = None
  BY <1>2, <1>4, Basics DEF Vacant
<1> QED
  BY <1>3, <1>4

\* What is complete stays complete when nothing of it is written.
LEMMA CompleteStays ==
    ASSUME NEW d, Complete(d), source'[d] = source[d],
           \A i \in Ordinals : /\ segment'[<<SourceOf[d], i>>] = segment[<<SourceOf[d], i>>]
                               /\ vector'[<<SourceOf[d], i>>] = vector[<<SourceOf[d], i>>]
    PROVE  Complete(d)'
  BY DEF Complete

\* A deletion by checksum leaves what is complete, unless it is of that checksum.
LEMMA CompleteKept ==
    ASSUME Known, NEW d \in Docs, Complete(d), NEW sums \in SUBSET Docs, d \notin sums, NEW i \in Ordinals
    PROVE  /\ WithoutSegments(sums)[<<SourceOf[d], i>>] = segment[<<SourceOf[d], i>>]
           /\ WithoutVectors(sums)[<<SourceOf[d], i>>] = vector[<<SourceOf[d], i>>]
<1> SUFFICES ASSUME NEW k, k = <<SourceOf[d], i>> PROVE segment[k].sum \notin sums /\ k \in Slots
  BY DEF WithoutSegments, WithoutVectors, Kept
<1>1. k \in Slots
  BY Basics
<1>2. CASE TextOf[d][i] # None
  BY <1>1, <1>2 DEF Complete
<1>3. CASE TextOf[d][i] = None
  <2>1. segment[k].text = None
    BY <1>3 DEF Complete
  <2>2. CASE Vacant(SourceOf[d])
    BY <1>1, <2>2, HeldRows, Basics
  <2>3. ASSUME NEW e \in Docs, SourceOf[e] = SourceOf[d], Held(e) PROVE segment[k].sum = None
    BY <2>1, <2>3, HeldRows, Basics
  <2>4. Vacant(SourceOf[d]) \/ \E e \in Docs : SourceOf[e] = SourceOf[d] /\ Held(e)
    BY Basics DEF Known, TablesFit, Owned
  <2> QED
    BY <1>1, <2>2, <2>3, <2>4, Basics
<1> QED
  BY <1>2, <1>3, <1>1

\* What is under an id stays one content, or goes, or is a content that is stored.
LEMMA OwnedStays ==
    ASSUME NEW id
    PROVE  /\ Stays(id) /\ Owned(id) => Owned(id)'
           /\ Vacant(id)' => Owned(id)'
           /\ \A d \in Docs : SourceOf[d] = id /\ Stays(id) /\ Held(d) => Held(d)'
<1>1. ASSUME NEW d \in Docs, SourceOf[d] = id, Stays(id), Held(d) PROVE Held(d)'
  BY <1>1 DEF Stays, Held, Holds
<1>2. ASSUME Stays(id), Vacant(id) PROVE Vacant(id)'
  BY <1>2 DEF Stays, Vacant
<1> QED
  BY <1>1, <1>2 DEF Owned

\* A path that is recorded leaves every content but the orphans a path.
LEMMA RecordedKeepsPaths ==
    ASSUME Known, NEW p \in Paths, NEW d \in Docs, NEW r \in Runs, path' = Recorded(p, d, r)
    PROVE  /\ path'[p].sum = d /\ path'[p].seen = r
           /\ \A q \in Paths \ {p} : path'[q] = path[q]
           /\ \A e \in Docs : e \notin Orphans(p, d, r) /\ (\E q \in Paths : path[q].sum = e)
                                  => \E q \in Paths : path'[q].sum = e
<1>1. path'[p].sum = d /\ path'[p].seen = r /\ \A q \in Paths \ {p} : path'[q] = path[q]
  BY Basics DEF Recorded
<1>2. ASSUME NEW e \in Docs, e \notin Orphans(p, d, r), NEW q \in Paths, path[q].sum = e
      PROVE  \E t \in Paths : path'[t].sum = e
  BY <1>1, <1>2, Basics DEF Orphans
<1> QED
  BY <1>1, <1>2

--------------------------------------------------------------------------------
(***************************************************************************)
(* The steps of a run, when no other is active and no gap is left.         *)
(***************************************************************************)

\* What a step of the run r has to show.
Kept1(r) ==
    /\ TablesFit'
    /\ Carries(r)'
    /\ run'[r].clean => (Active(r)' => Scans(r)') /\ (run'[r].step = "completed" => Mirrors')

\* The tables fit as long as they are not written.
LEMMA TablesUntouched ==
    ASSUME TablesFit, UNCHANGED <<path, source, segment>> PROVE TablesFit'
<1>1. \A id \in Ids : Owned(id)'
  <2>1. \A id \in Ids : Stays(id)
    BY DEF Stays
  <2> QED
    BY <2>1, OwnedStays DEF TablesFit
<1> QED
  BY <1>1 DEF TablesFit, SourceFits, Present

\* A clean run is active when it steps, and has come as far as it has come.
LEMMA CleanScans ==
    ASSUME Known, NEW r \in Runs, Active(r), run[r].clean PROVE Scans(r)
  BY DEF Known, Clean

\* The file that is done with is complete, or the run is no longer clean.
LEMMA DocumentEnds ==
    ASSUME Known, NEW r \in Runs, Scans(r), run[r].step \in Embedding, run[r].todo # {},
           run'[r].todo = run[r].todo \ {At(r)}, run'[r].step = "scan",
           UNCHANGED <<disk, path>>, NEW d, d = run[r].sum, Complete(d)',
           \A p \in Paths : disk[p] # None /\ p \notin run[r].todo => Complete(disk[p])'
    PROVE  Scans(r)'
<1> DEFINE p == At(r)
<1>1. p \in run[r].todo /\ p \in Paths
  BY AtPath DEF Known
<1>2. d = disk[p] /\ path[p].seen = r
  BY DEF Scans, Busy, Embedding
<1> HIDE DEF p
<1>3. run'[r].todo = run[r].todo \ {p} /\ (\A q \in run[r].todo : q # p => q \in run'[r].todo)
  BY DEF p
<1>4. \A q \in run'[r].todo : disk'[q] # None
  BY <1>3 DEF Scans
<1>5. Seen(r)'
  BY <1>3 DEF Scans, Seen, p
<1>6. Done(r)'
  <2> SUFFICES ASSUME NEW q \in Paths, disk[q] # None, q \notin run'[r].todo
               PROVE  path[q].seen = r /\ Complete(disk[q])'
    BY DEF Done
  <2>1. CASE q = p
    BY <1>2, <2>1
  <2>2. CASE q # p
    BY <1>3, <2>2 DEF Scans, Done
  <2> QED
    BY <2>1, <2>2
<1> QED
  BY <1>4, <1>5, <1>6 DEF Scans, Busy, Embedding

\* What has been done stays complete while the run only reads.
LEMMA DoneUntouched ==
    ASSUME UNCHANGED <<source, segment, vector>>, NEW d, Complete(d) PROVE Complete(d)'
  BY CompleteStays

LEMMA HashKeeps ==
    ASSUME Known, NEW r \in Runs, Hash(r) PROVE Kept1(r)
<1> SUFFICES ASSUME NEW d, d = disk[At(r)] PROVE Kept1(r)
  OBVIOUS
<1>1. d \in Docs /\ run[r].todo # {} /\ At(r) \in Paths /\ run[r] \in RunRow /\ run[r].step = "scan"
  BY AtPath, Basics DEF Hash, Known
<1>2. /\ UNCHANGED <<disk, path, source, segment, vector, corpus>>
      /\ run' = [run EXCEPT ![r].sum = d, ![r].record = source[d],
                            ![r].step = IF Unchanged(r, d) THEN "touch" ELSE "parse"]
  BY DEF Hash, tables
<1>3. /\ run'[r].sum = d /\ run'[r].record = source[d] /\ run'[r].todo = run[r].todo
      /\ run'[r].clean = run[r].clean
      /\ run'[r].step = IF Unchanged(r, d) THEN "touch" ELSE "parse"
      /\ run'[r].step \in {"touch", "parse"}
  BY <1>1, <1>2, Basics DEF RunRow
<1>4. TablesFit'
  BY <1>2, TablesUntouched DEF Known
<1>5. Carries(r)'
  BY <1>2, <1>3 DEF Carries, Embedding, Unchanged
<1>6. ASSUME run[r].clean PROVE Scans(r)'
  <2>1. Scans(r)
    BY <1>1, <1>6, CleanScans DEF Active
  <2>2. At(r)' = At(r)
    BY <1>3 DEF At
  <2>3. Seen(r)'
    BY <1>1, <1>2, <1>3, <2>1 DEF Scans, Seen, Embedding
  <2>4. Done(r)'
    BY <1>2, <1>3, <2>1, DoneUntouched DEF Scans, Done
  <2>5. run'[r].sum = disk'[At(r)'] /\ run'[r].step \notin Embedding \cup {"publish"}
    BY <1>2, <1>3, <2>2 DEF Embedding
  <2> QED
    BY <1>2, <1>3, <2>1, <2>3, <2>4, <2>5 DEF Scans
<1> QED
  BY <1>3, <1>4, <1>5, <1>6 DEF Kept1

LEMMA ParseKeeps ==
    ASSUME Known, NEW r \in Runs, Parse(r), gaps' = {} PROVE Kept1(r)
<1> SUFFICES ASSUME NEW d, d = run[r].sum PROVE Kept1(r)
  OBVIOUS
<1>1. run[r] \in RunRow /\ run[r].step = "parse"
  BY Basics DEF Parse
<1>2. disk[At(r)] = d
  BY DEF Parse
<1>3. /\ UNCHANGED <<disk, path, source, segment, vector, corpus>>
      /\ run'[r].sum = d /\ run'[r].record = [state |-> "INDEXED", body |-> d]
      /\ run'[r].todo = run[r].todo /\ run'[r].clean = run[r].clean /\ run'[r].step = "store"
  BY <1>1, <1>2, Basics DEF Parse, tables, RunRow
<1>4. TablesFit'
  BY <1>3, TablesUntouched DEF Known
<1>5. Carries(r)'
  BY <1>3 DEF Carries, Embedding
<1>6. ASSUME run[r].clean PROVE Scans(r)'
  <2>1. Scans(r)
    BY <1>1, <1>6, CleanScans DEF Active
  <2>2. At(r)' = At(r)
    BY <1>3 DEF At
  <2>3. Seen(r)'
    BY <1>1, <1>3, <2>1 DEF Scans, Seen, Embedding
  <2>4. Done(r)'
    BY <1>3, <2>1, DoneUntouched DEF Scans, Done
  <2>5. run'[r].sum = disk'[At(r)']
    BY <1>2, <1>3, <2>2
  <2> QED
    BY <1>3, <2>1, <2>3, <2>4, <2>5 DEF Scans, Embedding
<1> QED
  BY <1>3, <1>4, <1>5, <1>6 DEF Kept1

\* A run that goes on with the next file carries no document.
LEMMA ScanCarries ==
    ASSUME NEW r, run'[r].step \in {"scan", "publish", "completed", "idle"} PROVE Carries(r)'
  BY DEF Carries, Embedding

\* A file that is gone or an answer that fails ends a document without a trace; the
\* first does not happen to a clean run, the second ends that it is clean.
LEMMA GivesUpKeeps ==
    ASSUME Known, NEW r \in Runs, CannotHash(r) \/ EmbedFails(r) PROVE Kept1(r)
<1>1. UNCHANGED <<disk, path, source, segment, vector, corpus>> /\ run[r] \in RunRow /\ Active(r)
  BY Basics DEF CannotHash, EmbedFails, tables, Active
<1>2. run'[r].step = "scan"
  BY GoesOn DEF Known, CannotHash, EmbedFails
<1>3. TablesFit' /\ Carries(r)'
  BY <1>1, <1>2, TablesUntouched, ScanCarries DEF Known
<1>4. CASE EmbedFails(r)
  <2>1. run'[r].clean = FALSE
    BY <1>1, <1>4, Basics DEF EmbedFails, RunRow
  <2> QED
    BY <1>3, <2>1 DEF Kept1
<1>5. CASE CannotHash(r)
  <2>1. run'[r].clean = run[r].clean
    BY <1>1, <1>5, Basics DEF CannotHash, GoOn, RunRow
  <2>2. At(r) \in run[r].todo /\ disk[At(r)] = None
    BY <1>5, AtPath DEF CannotHash, Known
  <2>3. ~run[r].clean
    BY <1>1, <2>2, CleanScans DEF Scans
  <2> QED
    BY <1>3, <2>1, <2>3 DEF Kept1
<1> QED
  BY <1>4, <1>5

\* The transaction that records the path and leaves the document to its embedding.
LEMMA RecordsThenEmbeds ==
    ASSUME Known, NEW r \in Runs, run[r].step \in {"touch", "store"},
           NEW d, d = run[r].sum, NEW p, p = At(r),
           path' = Recorded(p, d, r), GoTo(r, "embed"), UNCHANGED disk,
           Held(d)', source'[d] = run[r].record, run[r].record.state \in Live,
           run[r].clean => \A q \in Paths \ {p} : disk[q] # None /\ q \notin run[r].todo
                               => Complete(disk[q])'
    PROVE  Carries(r)' /\ (run'[r].clean => Scans(r)')
<1>1. run[r] \in RunRow /\ d \in Docs /\ run[r].todo # {} /\ p \in Paths /\ p \in run[r].todo
  BY AtPath, Basics DEF Known, TypesInv, RunCarries, Busy
<1>2. /\ run'[r].step = "embed" /\ run'[r].todo = run[r].todo /\ run'[r].sum = run[r].sum
      /\ run'[r].record = run[r].record /\ run'[r].clean = run[r].clean
  BY <1>1, Basics DEF GoTo, RunRow
<1>3. At(r)' = p
  BY <1>2 DEF At
<1>4. path'[p].sum = d /\ path'[p].seen = r /\ \A q \in Paths \ {p} : path'[q] = path[q]
  BY <1>1, RecordedKeepsPaths
<1>5. Embeds(r, d)'
  BY <1>2, <1>3, <1>4 DEF Embeds
<1>6. Carries(r)'
  BY <1>2, <1>5 DEF Carries
<1>7. ASSUME run[r].clean PROVE Scans(r)'
  <2>1. Scans(r)
    BY <1>7, CleanScans DEF Active
  <2>2. d = disk[p]
    BY <2>1 DEF Scans, Busy
  <2>3. Seen(r)'
    <3> SUFFICES ASSUME NEW q \in Paths, path'[q].seen = r
                 PROVE  disk[q] # None /\ path'[q].sum = disk[q] /\ (q \in run[r].todo => q = p)
      BY <1>2, <1>3 DEF Seen, Embedding
    <3>1. CASE q = p
      BY <1>1, <1>4, <2>2, <3>1, Basics
    <3>2. CASE q # p
      BY <1>4, <2>1, <3>2 DEF Scans, Seen
    <3> QED
      BY <3>1, <3>2
  <2>4. Done(r)'
    <3> SUFFICES ASSUME NEW q \in Paths, disk[q] # None, q \notin run[r].todo
                 PROVE  path'[q].seen = r /\ Complete(disk[q])'
      BY <1>2 DEF Done
    <3>1. q # p
      BY <1>1
    <3> QED
      BY <1>4, <1>7, <2>1, <3>1 DEF Scans, Done
  <2>5. run'[r].sum = disk'[At(r)'] /\ path'[At(r)'].seen = r
    BY <1>2, <1>3, <1>4, <2>2
  <2> QED
    BY <1>2, <2>1, <2>3, <2>4, <2>5 DEF Scans
<1> QED
  BY <1>2, <1>6, <1>7

\* What is known as live and not stripped has its segments.
LEMMA LiveIsHeld ==
    ASSUME Known, NEW d \in Docs, source[d].state \in Live, ~Stripped(d)
    PROVE  Held(d)
<1>1. RowsOf(SourceOf[d]) = TextOf[d] /\ HoldersOf(SourceOf[d]) \subseteq {d}
  BY DEF Stripped
<1>2. \A i \in Ordinals : segment[<<SourceOf[d], i>>].text = TextOf[d][i]
  BY <1>1 DEF RowsOf
<1>3. \A i \in Ordinals : segment[<<SourceOf[d], i>>].sum \in {None, d}
  BY <1>1 DEF HoldersOf
<1>4. CASE Vacant(SourceOf[d])
  BY <1>2, <1>4, HeldRows, Basics DEF Held, Holds, Vacant
<1>5. ASSUME NEW e \in Docs, SourceOf[e] = SourceOf[d], Held(e) PROVE Held(d)
  <2>1. ASSUME NEW i \in Ordinals PROVE TextOf[e][i] = TextOf[d][i] /\ (TextOf[e][i] # None => e = d)
    <3>1. /\ segment[<<SourceOf[d], i>>].text = TextOf[e][i]
          /\ segment[<<SourceOf[d], i>>].sum = IF TextOf[e][i] # None THEN e ELSE None
      BY <1>5, HeldRows
    <3> QED
      BY <1>2, <1>3, <3>1, Basics
  <2>2. CASE e = d
    BY <1>5, <2>2
  <2>3. CASE e # d
    <3>1. \A i \in Ordinals : TextOf[d][i] = None /\ TextOf[e][i] = None
      BY <2>1, <2>3
    <3> QED
      BY <1>5, <3>1 DEF Held, Holds
  <2> QED
    BY <2>2, <2>3
<1>6. Vacant(SourceOf[d]) \/ \E e \in Docs : SourceOf[e] = SourceOf[d] /\ Held(e)
  BY Basics DEF Known, TablesFit, Owned
<1> QED
  BY <1>4, <1>5, <1>6

LEMMA TouchKeeps ==
    ASSUME Known, NEW r \in Runs, Touch(r), gaps' = {} PROVE Kept1(r)
<1> SUFFICES ASSUME NEW d, d = run[r].sum, NEW p, p = At(r) PROVE Kept1(r)
  OBVIOUS
<1>1. /\ run[r].step = "touch" /\ path' = Recorded(p, d, r) /\ GoTo(r, "embed")
      /\ UNCHANGED <<disk, source, segment, vector>>
      /\ gaps' = gaps \cup (IF Orphans(p, d, r) # {} THEN {"orphan"} ELSE {})
                      \cup (IF Stripped(d) THEN {"stripped"} ELSE {})
  BY DEF Touch
<1>2. d \in Docs /\ p \in Paths
  BY <1>1, AtPath DEF Known, TypesInv, RunCarries, Busy
<1>3. Orphans(p, d, r) = {} /\ ~Stripped(d)
  <2>1. "orphan" \notin gaps' /\ "stripped" \notin gaps'
    OBVIOUS
  <2> QED
    BY <1>1, <2>1
<1>4. run[r].record = source[d] /\ source[d].state \in Live
  BY <1>1 DEF Known, Carries
<1>5. Held(d)
  BY <1>2, <1>3, <1>4, LiveIsHeld
<1>6. Held(d)'
  BY <1>1, <1>5 DEF Held, Holds
<1>7. TablesFit'
  <2>1. \A id \in Ids : Owned(id)'
    <3>1. \A id \in Ids : Stays(id)
      BY <1>1 DEF Stays
    <3> QED
      BY <3>1, OwnedStays DEF Known, TablesFit
  <2>2. ASSUME NEW e \in Docs PROVE SourceFits(e)'
    <3>1. SourceFits(e)
      BY DEF Known, TablesFit
    <3>2. (\E q \in Paths : path[q].sum = e) => \E q \in Paths : path'[q].sum = e
      BY <1>1, <1>2, <1>3, RecordedKeepsPaths
    <3> QED
      BY <1>1, <3>1, <3>2 DEF SourceFits, Present
  <2> QED
    BY <2>1, <2>2 DEF TablesFit
<1>8. run[r].clean => \A q \in Paths \ {p} : disk[q] # None /\ q \notin run[r].todo => Complete(disk[q])'
  BY <1>1, CleanScans, DoneUntouched DEF Scans, Done, Active
<1>9. Carries(r)' /\ (run'[r].clean => Scans(r)') /\ run'[r].step = "embed"
  <2>1. run'[r].step = "embed"
    BY <1>1, Basics DEF GoTo
  <2> QED
    BY <1>1, <1>4, <1>6, <1>8, <2>1, RecordsThenEmbeds
<1> QED
  BY <1>7, <1>9 DEF Kept1

LEMMA ParseFailsKeeps ==
    ASSUME Known, NEW r \in Runs, NEW unreadable \in BOOLEAN, ParseFails(r, unreadable), gaps' = {}
    PROVE  Kept1(r)
<1> SUFFICES ASSUME NEW d, d = run[r].sum, NEW p, p = At(r),
                    NEW sums, sums = IF unreadable THEN {d} ELSE {}
             PROVE  Kept1(r)
  OBVIOUS
<1>1. /\ run[r].step = "parse" /\ path' = Recorded(p, d, r)
      /\ segment' = WithoutSegments(sums)
      /\ source' = [source EXCEPT ![d] = [state |-> "FAILED", body |-> None]]
      /\ gaps' = IF Orphans(p, d, r) # {} THEN gaps \cup {"failed"} ELSE gaps
      /\ run' = [run EXCEPT ![r].step = "scan", ![r].todo = @ \ {p}, ![r].sum = None,
                            ![r].record = NoSource, ![r].clean = FALSE]
  BY DEF ParseFails
<1>2. d \in Docs /\ p \in Paths /\ run[r] \in RunRow
  BY <1>1, AtPath, Basics DEF Known, TypesInv, RunCarries, Busy
<1>3. Orphans(p, d, r) = {}
  <2>1. "failed" \notin gaps'
    OBVIOUS
  <2> QED
    BY <1>1, <2>1
<1>4. run'[r].step = "scan" /\ run'[r].clean = FALSE
  BY <1>1, <1>2, Basics DEF RunRow
<1>5. TablesFit'
  <2>1. ASSUME NEW id \in Ids PROVE Owned(id)'
    <3>1. Stays(id) \/ Vacant(id)'
      <4>1. \A i \in Ordinals : segment'[<<id, i>>] = WithoutSegments(sums)[<<id, i>>]
        BY <1>1
      <4> QED
        BY <4>1, DeletedTogether DEF Known, WholeInv
    <3> QED
      BY <3>1, OwnedStays DEF Known, TablesFit
  <2>2. ASSUME NEW e \in Docs PROVE SourceFits(e)'
    <3>1. SourceFits(e)
      BY DEF Known, TablesFit
    <3>2. (\E q \in Paths : path[q].sum = e) => \E q \in Paths : path'[q].sum = e
      BY <1>1, <1>2, <1>3, RecordedKeepsPaths
    <3>3. CASE e = d
      <4>1. source'[e] = [state |-> "FAILED", body |-> None]
        BY <1>1, <1>2, <3>3, Basics
      <4>2. path'[p].sum = e
        BY <1>1, <1>2, <3>3, RecordedKeepsPaths
      <4> QED
        BY <1>2, <4>1, <4>2 DEF SourceFits, Live
    <3>4. CASE e # d
      <4>1. source'[e] = source[e]
        BY <1>1, <1>2, <3>4, Basics
      <4> QED
        BY <3>1, <3>2, <4>1 DEF SourceFits, Present
    <3> QED
      BY <3>3, <3>4
  <2> QED
    BY <2>1, <2>2 DEF TablesFit
<1> QED
  BY <1>4, <1>5, ScanCarries DEF Kept1

\* A source that is tombstoned is neither live nor present, the others are as before.
LEMMA TombstonedRows ==
    ASSUME Known, NEW sums, NEW d \in Docs
    PROVE  /\ d \notin sums => Tombstoned(sums)[d] = source[d]
           /\ d \in sums => Tombstoned(sums)[d].state \in {"ABSENT", "DELETED"}
<1>1. [source[d] EXCEPT !.state = "DELETED"].state = "DELETED"
  BY Basics DEF SourceRow
<1> QED
  BY <1>1 DEF Tombstoned

LEMMA StoreKeeps ==
    ASSUME Known, NEW r \in Runs, Store(r) PROVE Kept1(r)
<1> SUFFICES ASSUME NEW d, d = run[r].sum, NEW p, p = At(r), NEW record, record = run[r].record,
                    NEW orphans, orphans = Orphans(p, d, r),
                    NEW shed, shed = {d} \cup HoldersOf(SourceOf[d]) \cup orphans
             PROVE  Kept1(r)
  OBVIOUS
<1>1. run[r].step = "store" /\ d \in Docs /\ run[r].todo # {} /\ p \in Paths /\ p \in run[r].todo
  BY AtPath DEF Store, Known, TypesInv, RunCarries, Busy
<1>2. record.body = d /\ record.state = "INDEXED"
  BY <1>1 DEF Known, Carries, TypesInv, RunCarries
<1>3. /\ path' = Recorded(p, d, r) /\ GoTo(r, "embed") /\ UNCHANGED disk
      /\ source' = [Tombstoned(orphans) EXCEPT ![d] = record]
      /\ vector' = WithoutVectors(shed)
      /\ segment' = [k \in Slots |-> IF k[1] = SourceOf[d] /\ TextOf[d][k[2]] # None
                                     THEN [sum |-> d, text |-> TextOf[d][k[2]]]
                                     ELSE WithoutSegments(shed)[k]]
  BY <1>2 DEF Store
<1>4. Held(d)' /\ \A id \in Ids \ {SourceOf[d]} : Stays(id) \/ Vacant(id)'
  BY <1>2, StoreSegments DEF Known, Held
<1>5. source'[d] = record /\ \A e \in Docs \ {d} : source'[e] = Tombstoned(orphans)[e]
  BY <1>1, <1>3 DEF Tombstoned
<1>6. TablesFit'
  <2>1. ASSUME NEW id \in Ids PROVE Owned(id)'
    <3>1. CASE id = SourceOf[d]
      BY <1>1, <1>4, <3>1 DEF Owned
    <3>2. CASE id # SourceOf[d]
      BY <1>4, <3>2, OwnedStays DEF Known, TablesFit
    <3> QED
      BY <3>1, <3>2
  <2>2. ASSUME NEW e \in Docs PROVE SourceFits(e)'
    <3>1. SourceFits(e)
      BY DEF Known, TablesFit
    <3>2. path'[p].sum = d /\ (e \notin orphans /\ (\E q \in Paths : path[q].sum = e)
                                  => \E q \in Paths : path'[q].sum = e)
      BY <1>1, <1>3, RecordedKeepsPaths
    <3>3. CASE e = d
      BY <1>1, <1>2, <1>5, <3>2, <3>3 DEF SourceFits
    <3>4. CASE e # d /\ e \in orphans
      <4>1. source'[e].state \in {"ABSENT", "DELETED"}
        BY <1>5, <3>4, TombstonedRows
      <4> QED
        BY <4>1 DEF SourceFits, Present, Live
    <3>5. CASE e # d /\ e \notin orphans
      <4>1. source'[e] = source[e]
        BY <1>5, <3>5, TombstonedRows
      <4> QED
        BY <3>1, <3>2, <3>5, <4>1 DEF SourceFits, Present
    <3> QED
      BY <3>3, <3>4, <3>5
  <2> QED
    BY <2>1, <2>2 DEF TablesFit
<1>7. ASSUME run[r].clean, NEW q \in Paths \ {p}, disk[q] # None, q \notin run[r].todo
      PROVE  Complete(disk[q])'
  <2> SUFFICES ASSUME NEW c, c = disk[q] PROVE Complete(c)'
    BY <1>3
  <2>1. Scans(r)
    BY <1>1, <1>7, CleanScans DEF Active
  <2>2. Complete(c) /\ path[q].sum = c /\ c \in Docs
    BY <1>7, <2>1, Basics DEF Scans, Done, Seen
  <2>3. d = disk[p] /\ disk[p] # None
    BY <1>1, <2>1, Basics DEF Scans, Busy
  <2>4. SourceOf[c] # SourceOf[d] /\ c # d
    BY <1>1, <1>7, <2>3, FilesDiffer
  <2>5. c \notin orphans
    BY <1>7, <2>2 DEF Orphans
  <2>6. c \notin HoldersOf(SourceOf[d])
    <3>1. ASSUME NEW i \in Ordinals PROVE segment[<<SourceOf[d], i>>].sum # c
      <4>1. CASE Vacant(SourceOf[d])
        BY <1>1, <2>2, <4>1, HeldRows, Basics
      <4>2. ASSUME NEW f \in Docs, SourceOf[f] = SourceOf[d], Held(f)
            PROVE  segment[<<SourceOf[d], i>>].sum # c
        BY <2>2, <2>4, <4>2, HeldRows, Basics
      <4>3. Vacant(SourceOf[d]) \/ \E f \in Docs : SourceOf[f] = SourceOf[d] /\ Held(f)
        BY <1>1, Basics DEF Known, TablesFit, Owned
      <4> QED
        BY <4>1, <4>2, <4>3
    <3> QED
      BY <3>1 DEF HoldersOf
  <2>7. shed \in SUBSET Docs /\ c \notin shed
    <3>1. \A i \in Ordinals : segment[<<SourceOf[d], i>>].sum \in Docs \cup {None}
      BY <1>1, Basics DEF SegmentRow
    <3>2. HoldersOf(SourceOf[d]) \subseteq Docs
      BY <3>1 DEF HoldersOf
    <3>3. orphans \subseteq Docs
      BY <1>1, Basics DEF Orphans
    <3> QED
      BY <1>1, <2>4, <2>5, <2>6, <3>2, <3>3
  <2>8. source'[c] = source[c]
    BY <1>5, <2>2, <2>4, <2>5, TombstonedRows
  <2>9. ASSUME NEW i \in Ordinals
        PROVE  /\ segment'[<<SourceOf[c], i>>] = segment[<<SourceOf[c], i>>]
               /\ vector'[<<SourceOf[c], i>>] = vector[<<SourceOf[c], i>>]
    <3>1. /\ WithoutSegments(shed)[<<SourceOf[c], i>>] = segment[<<SourceOf[c], i>>]
          /\ WithoutVectors(shed)[<<SourceOf[c], i>>] = vector[<<SourceOf[c], i>>]
      BY <2>2, <2>7, CompleteKept
    <3>2. <<SourceOf[c], i>> \in Slots /\ <<SourceOf[c], i>>[1] # SourceOf[d]
      BY <2>2, <2>4, Basics
    <3> QED
      BY <1>3, <3>1, <3>2
  <2> QED
    BY <2>2, <2>8, <2>9, CompleteStays
<1>8. Carries(r)' /\ (run'[r].clean => Scans(r)') /\ run'[r].step = "embed"
  <2>1. run'[r].step = "embed"
    BY <1>3, Basics DEF GoTo
  <2>2. record.state \in Live
    BY <1>2 DEF Live
  <2> QED
    BY <1>1, <1>3, <1>4, <1>5, <1>7, <2>1, <2>2, RecordsThenEmbeds
<1> QED
  BY <1>6, <1>8 DEF Kept1

LEMMA ReadSegmentsKeeps ==
    ASSUME Known, NEW r \in Runs, NEW available \in BOOLEAN, ReadSegments(r, available)
    PROVE  Kept1(r)
<1> SUFFICES ASSUME NEW d, d = run[r].sum, NEW p, p = At(r), NEW record, record = run[r].record,
                    NEW rows, rows = RowsOf(SourceOf[d])
             PROVE  Kept1(r)
  OBVIOUS
<1>1. /\ run[r].step = "embed" /\ d \in Docs /\ run[r].todo # {} /\ p \in Paths /\ p \in run[r].todo
      /\ run[r] \in RunRow
  BY AtPath, Basics DEF ReadSegments, Known, TypesInv, RunCarries, Busy
<1>2. Embeds(r, d)
  BY <1>1 DEF Known, Carries, Embedding
<1>3. source[d] = record /\ record.state \in Live /\ Held(d) /\ path[p].sum = d
  BY <1>2 DEF Embeds
<1>4. record.body = d /\ (TextOf[d] = NoRows => record.state = "INDEXED")
  BY <1>1, <1>3 DEF Known, TablesFit, SourceFits
<1>5. rows = TextOf[d]
  BY <1>1, <1>3, HeldRows, Basics DEF RowsOf
<1>6. /\ source' = IF rows # NoRows /\ d \in Blocked /\ record.state # "BLOCKED"
                   THEN [source EXCEPT ![d] = [record EXCEPT !.state = "BLOCKED"]] ELSE source
      /\ IF rows = NoRows \/ d \in Blocked THEN GoOn(r)
         ELSE IF available THEN run' = [run EXCEPT ![r].step = "split", ![r].rows = rows]
         ELSE run' = [run EXCEPT ![r].step = "scan", ![r].todo = @ \ {p}, ![r].sum = None,
                                 ![r].record = NoSource, ![r].clean = FALSE]
      /\ UNCHANGED <<disk, path, segment, vector, corpus>>
  BY <1>4 DEF ReadSegments, IdOf
<1>7. /\ source'[d].body = d /\ source'[d].state \in Live
      /\ source'[d].state = IF TextOf[d] # NoRows /\ d \in Blocked THEN "BLOCKED" ELSE record.state
      /\ \A e \in Docs \ {d} : source'[e] = source[e]
  <2>1. record \in SourceRow /\ source \in [Docs -> SourceRow]
    BY <1>1, <1>3, Basics
  <2>2. [record EXCEPT !.state = "BLOCKED"].state = "BLOCKED" /\ [record EXCEPT !.state = "BLOCKED"].body = d
    BY <1>4, <2>1 DEF SourceRow
  <2>3. CASE rows # NoRows /\ d \in Blocked /\ record.state # "BLOCKED"
    BY <1>1, <1>5, <1>6, <2>1, <2>2, <2>3 DEF Live
  <2>4. CASE ~(rows # NoRows /\ d \in Blocked /\ record.state # "BLOCKED")
    BY <1>3, <1>4, <1>5, <1>6, <2>4
  <2> QED
    BY <2>3, <2>4
<1>8. TablesFit'
  <2>1. \A id \in Ids : Owned(id)'
    <3>1. \A id \in Ids : Stays(id)
      BY <1>6 DEF Stays
    <3> QED
      BY <3>1, OwnedStays DEF Known, TablesFit
  <2>2. ASSUME NEW e \in Docs PROVE SourceFits(e)'
    <3>1. SourceFits(e)
      BY DEF Known, TablesFit
    <3>2. CASE e = d
      BY <1>1, <1>3, <1>4, <1>6, <1>7, <3>2 DEF SourceFits
    <3>3. CASE e # d
      BY <1>6, <1>7, <3>1, <3>3 DEF SourceFits, Present
    <3> QED
      BY <3>2, <3>3
  <2> QED
    BY <2>1, <2>2 DEF TablesFit
<1>9. ASSUME run[r].clean, NEW q \in Paths, disk[q] # None, q \notin run[r].todo
      PROVE  Complete(disk[q])'
  <2>1. Scans(r)
    BY <1>1, <1>9, CleanScans DEF Active
  <2>2. Complete(disk[q]) /\ disk[q] \in Docs
    BY <1>9, <2>1, Basics DEF Scans, Done
  <2>3. d = disk[p] /\ disk[p] # None /\ p # q
    BY <1>1, <1>9, <2>1, Basics DEF Scans, Busy
  <2>4. disk[q] # d
    BY <1>1, <1>9, <2>3, FilesDiffer
  <2> QED
    BY <1>6, <1>7, <2>2, <2>4, CompleteStays
<1>10. CASE rows = NoRows \/ d \in Blocked
  <2>1. /\ run'[r].step = "scan" /\ run'[r].todo = run[r].todo \ {p} /\ run'[r].clean = run[r].clean
    BY <1>1, <1>6, <1>10, Basics DEF GoOn, RunRow
  <2>2. Complete(d)'
    <3>1. source'[d].state = IF TextOf[d] = NoRows THEN "INDEXED"
                             ELSE IF d \in Blocked THEN "BLOCKED" ELSE "EMBEDDED"
      BY <1>4, <1>5, <1>7, <1>10
    <3>2. ASSUME NEW i \in Ordinals
          PROVE  /\ segment[<<SourceOf[d], i>>].text = TextOf[d][i]
                 /\ TextOf[d][i] # None => segment[<<SourceOf[d], i>>].sum = d
                 /\ d \notin Blocked => vector[<<SourceOf[d], i>>] = TextOf[d][i]
      <4>1. /\ segment[<<SourceOf[d], i>>].text = TextOf[d][i]
            /\ TextOf[d][i] # None => segment[<<SourceOf[d], i>>].sum = d
        BY <1>1, <1>3, HeldRows
      <4>2. ASSUME d \notin Blocked PROVE vector[<<SourceOf[d], i>>] = TextOf[d][i]
        <5>1. TextOf[d][i] = None
          BY <1>1, <1>5, <1>10, <4>2, TextShape
        <5>2. vector[<<SourceOf[d], i>>] \in {None, segment[<<SourceOf[d], i>>].text}
          BY <1>1, Basics DEF Known, VectorsMatch
        <5> QED
          BY <4>1, <5>1, <5>2
      <4> QED
        BY <4>1, <4>2
    <3> QED
      BY <1>6, <3>1, <3>2 DEF Complete
  <2>3. ASSUME run[r].clean PROVE Scans(r)'
    <3>1. Scans(r)
      BY <1>1, <2>3, CleanScans DEF Active
    <3> QED
      BY <1>1, <1>6, <1>9, <2>1, <2>2, <2>3, <3>1, DocumentEnds DEF Embedding
  <2> QED
    BY <1>8, <2>1, <2>3, ScanCarries DEF Kept1
<1>11. CASE rows # NoRows /\ d \notin Blocked /\ available
  <2>1. /\ run'[r].step = "split" /\ run'[r].todo = run[r].todo /\ run'[r].clean = run[r].clean
        /\ run'[r].sum = d /\ run'[r].record = record /\ run'[r].rows = rows
    BY <1>1, <1>6, <1>11, Basics DEF RunRow
  <2>2. At(r)' = p
    BY <2>1 DEF At
  <2>3. Carries(r)'
    <3>1. Held(d)'
      BY <1>3, <1>6 DEF Held, Holds
    <3>2. Embeds(r, d)'
      BY <1>3, <1>5, <1>6, <1>11, <2>1, <2>2, <3>1 DEF Embeds
    <3> QED
      BY <2>1, <3>2 DEF Carries
  <2>4. ASSUME run[r].clean PROVE Scans(r)'
    <3>1. Scans(r)
      BY <1>1, <2>4, CleanScans DEF Active
    <3>2. run[r].sum = disk[p] /\ path[p].seen = r
      BY <1>1, <3>1 DEF Scans, Busy, Embedding
    <3>3. Seen(r)'
      BY <1>6, <2>1, <2>2, <3>1 DEF Scans, Seen, Embedding
    <3>4. Done(r)'
      BY <1>6, <1>9, <2>1, <2>4, <3>1 DEF Scans, Done
    <3>5. run'[r].sum = disk'[At(r)'] /\ path'[At(r)'].seen = r
      BY <1>6, <2>1, <2>2, <3>2
    <3> QED
      BY <1>6, <2>1, <3>1, <3>3, <3>4, <3>5 DEF Scans
  <2> QED
    BY <1>8, <2>1, <2>3, <2>4 DEF Kept1
<1>12. CASE rows # NoRows /\ d \notin Blocked /\ ~available
  <2>1. run'[r].step = "scan" /\ run'[r].clean = FALSE
    BY <1>1, <1>6, <1>12, Basics DEF RunRow
  <2> QED
    BY <1>8, <2>1, ScanCarries DEF Kept1
<1> QED
  BY <1>10, <1>11, <1>12

\* Vectors of the document at hand are not those of the files that are done.
LEMMA DoneKeepsVectors ==
    ASSUME Known, NEW r \in Runs, Scans(r), run[r].step \in Embedding, run[r].todo # {},
           UNCHANGED <<disk, source, segment>>,
           \A k \in Slots : vector'[k] = vector[k] \/ k[1] = SourceOf[run[r].sum],
           NEW q \in Paths, disk[q] # None, q \notin run[r].todo
    PROVE  Complete(disk[q])'
<1> SUFFICES ASSUME NEW c, c = disk[q] PROVE Complete(c)'
  OBVIOUS
<1>1. Complete(c) /\ c \in Docs
  BY Basics DEF Scans, Done
<1>2. At(r) \in run[r].todo /\ At(r) \in Paths
  BY AtPath DEF Known
<1>3. run[r].sum = disk[At(r)] /\ disk[At(r)] # None /\ At(r) # q
  BY <1>2 DEF Scans, Busy, Embedding
<1>4. SourceOf[c] # SourceOf[run[r].sum]
  BY <1>2, <1>3, FilesDiffer
<1>5. \A i \in Ordinals : vector'[<<SourceOf[c], i>>] = vector[<<SourceOf[c], i>>]
  BY <1>1, <1>4, Basics
<1> QED
  BY <1>1, <1>5, CompleteStays

\* The document of a run that embeds, and the rows it has read.
LEMMA AtHand ==
    ASSUME Known, NEW r \in Runs, run[r].step \in Embedding
    PROVE  /\ run[r] \in RunRow /\ run[r].sum \in Docs /\ run[r].todo # {} /\ Active(r)
           /\ At(r) \in Paths /\ At(r) \in run[r].todo
           /\ Embeds(r, run[r].sum) /\ run[r].record.body = run[r].sum /\ IdOf(r) = SourceOf[run[r].sum]
           /\ run[r].step # "embed" => run[r].rows = TextOf[run[r].sum]
<1>1. run[r] \in RunRow /\ run[r].sum \in Docs /\ run[r].todo # {} /\ Active(r)
  BY Basics DEF Known, TypesInv, RunCarries, Busy, Embedding, Active
<1>2. At(r) \in Paths /\ At(r) \in run[r].todo
  BY <1>1, AtPath DEF Known
<1>3. Embeds(r, run[r].sum)
  BY DEF Known, Carries
<1>4. run[r].record.body = run[r].sum
  BY <1>1, <1>3 DEF Embeds, Known, TablesFit, SourceFits
<1>5. IdOf(r) = SourceOf[run[r].sum]
  BY <1>4 DEF IdOf
<1>6. run[r].step # "embed" => run[r].rows = TextOf[run[r].sum]
  BY <1>3 DEF Embeds
<1> QED
  BY <1>1, <1>2, <1>3, <1>4, <1>5, <1>6

\* A step that only writes vectors of the document at hand.
LEMMA EmbedsOn ==
    ASSUME Known, NEW r \in Runs, run[r].step \in {"split", "call"}, VectorsMatch',
           UNCHANGED <<disk, path, source, segment>>,
           \A k \in Slots : vector'[k] = vector[k] \/ k[1] = SourceOf[run[r].sum],
           run'[r].step \in {"call", "finish"},
           run'[r].todo = run[r].todo, run'[r].sum = run[r].sum, run'[r].record = run[r].record,
           run'[r].rows = run[r].rows, run'[r].clean = run[r].clean,
           \A i \in Ordinals :
               (run'[r].step = "finish" \/ i \notin run'[r].pending) /\ TextOf[run[r].sum][i] # None
               => vector'[<<SourceOf[run[r].sum], i>>] = TextOf[run[r].sum][i]
    PROVE  Kept1(r)
<1> SUFFICES ASSUME NEW d, d = run[r].sum, NEW pending, pending = run'[r].pending PROVE Kept1(r)
  OBVIOUS
<1>1. /\ run[r].step \in Embedding /\ d \in Docs /\ run[r].todo # {} /\ Active(r) /\ At(r) \in Paths
      /\ Embeds(r, d)
  BY AtHand DEF Embedding
<1>2. TablesFit'
  BY TablesUntouched DEF Known
<1>3. At(r)' = At(r)
  BY DEF At
<1>4. Held(d)'
  BY <1>1 DEF Embeds, Held, Holds
<1>5. ASSUME NEW i \in Ordinals, run'[r].step = "finish" \/ i \notin pending
      PROVE  vector'[<<SourceOf[d], i>>] = TextOf[d][i]
  <2>1. CASE TextOf[d][i] # None
    BY <1>5, <2>1
  <2>2. CASE TextOf[d][i] = None
    <3>1. segment[<<SourceOf[d], i>>].text = None
      BY <1>1, <2>2, HeldRows DEF Embeds
    <3>2. vector'[<<SourceOf[d], i>>] \in {None, segment'[<<SourceOf[d], i>>].text}
      BY <1>1, Basics DEF VectorsMatch
    <3> QED
      BY <2>2, <3>1, <3>2
  <2> QED
    BY <2>1, <2>2
<1>6. Embeds(r, d)'
  BY <1>1, <1>3, <1>4, <1>5 DEF Embeds
<1>7. Carries(r)'
  BY <1>6 DEF Carries
<1>8. ASSUME run[r].clean PROVE Scans(r)'
  <2>1. Scans(r)
    BY <1>1, <1>8, CleanScans
  <2>2. run[r].sum = disk[At(r)] /\ path[At(r)].seen = r
    BY <1>1, <2>1 DEF Scans, Busy, Embedding
  <2>3. Seen(r)'
    BY <1>1, <1>3, <2>1 DEF Scans, Seen, Embedding
  <2>4. Done(r)'
    BY <1>1, <2>1, DoneKeepsVectors DEF Scans, Done
  <2>5. run'[r].sum = disk'[At(r)'] /\ path'[At(r)'].seen = r
    BY <1>3, <2>2
  <2> QED
    BY <2>1, <2>3, <2>4, <2>5 DEF Scans
<1> QED
  BY <1>2, <1>7, <1>8 DEF Kept1

LEMMA SplitKeeps ==
    ASSUME Known, NEW r \in Runs, Split(r) PROVE Kept1(r)
<1> SUFFICES ASSUME NEW d, d = run[r].sum, NEW id, id = SourceOf[d], NEW rows, rows = run[r].rows,
                    NEW after, after = Copied(id, rows), NEW pending,
                    pending = {i \in Ordinals : rows[i] # None /\ after[i][<<id, i>>] # rows[i]}
             PROVE  Kept1(r)
  OBVIOUS
<1>1. run[r].step = "split" /\ run[r] \in RunRow /\ d \in Docs /\ IdOf(r) = id /\ rows = TextOf[d]
  BY AtHand DEF Split, Embedding
<1>2. id \in Ids /\ rows \in [Ordinals -> Texts \cup {None}] /\ vector \in [Slots -> Texts \cup {None}]
  BY <1>1, Basics
<1>3. run' = [run EXCEPT ![r].pending = pending,
                         ![r].step = IF pending = {} THEN "finish" ELSE "call"]
  <2>1. IdOf(r) = id
    BY <1>1
  <2>2. Copied(IdOf(r), run[r].rows) = after
    BY <2>1
  <2>3. {i \in Ordinals : run[r].rows[i] # None
              /\ Copied(IdOf(r), run[r].rows)[i][<<IdOf(r), i>>] # run[r].rows[i]} = pending
    BY <2>1
  <2> QED
    BY <2>2, <2>3 DEF Split
<1>4. vector' = after[MaxSegments] /\ UNCHANGED <<disk, path, source, segment>>
  BY <1>1 DEF Split
<1>5. /\ run'[r].step = IF pending = {} THEN "finish" ELSE "call"
      /\ run'[r].todo = run[r].todo /\ run'[r].sum = d /\ run'[r].record = run[r].record
      /\ run'[r].clean = run[r].clean /\ run'[r].pending = pending /\ run'[r].rows = rows
  BY <1>1, <1>3, Basics DEF RunRow
<1>6. VectorsMatch'
  BY RunKeepsVectors DEF Known, Step
<1>7. \A k \in Slots : vector'[k] = vector[k] \/ k[1] = id
  <2>1. MaxSegments \in 0 .. MaxSegments
    BY BoundAssumption
  <2> QED
    BY <1>2, <1>4, <2>1, CopiedAreRows
<1>8. ASSUME NEW i \in Ordinals, i \notin pending, TextOf[d][i] # None
      PROVE  vector'[<<id, i>>] = TextOf[d][i]
  <2>1. after[i][<<id, i>>] = rows[i]
    BY <1>1, <1>3, <1>8
  <2> QED
    BY <1>1, <1>2, <1>4, <2>1, CopiedStay
<1>9. /\ run'[r].step \in {"call", "finish"} /\ (run'[r].step = "finish" => pending = {})
      /\ run'[r].rows = run[r].rows /\ pending = run'[r].pending
  BY <1>5
<1>10. \A i \in Ordinals : (run'[r].step = "finish" \/ i \notin pending) /\ TextOf[d][i] # None
           => vector'[<<SourceOf[d], i>>] = TextOf[d][i]
  BY <1>8, <1>9
<1>11. \A k \in Slots : vector'[k] = vector[k] \/ k[1] = SourceOf[d]
  BY <1>7
<1>12. \A i \in Ordinals :
           (run'[r].step = "finish" \/ i \notin run'[r].pending) /\ TextOf[run[r].sum][i] # None
           => vector'[<<SourceOf[run[r].sum], i>>] = TextOf[run[r].sum][i]
  BY <1>9, <1>10
<1>13. \A k \in Slots : vector'[k] = vector[k] \/ k[1] = SourceOf[run[r].sum]
  BY <1>11
<1>14. /\ run[r].step \in {"split", "call"} /\ run'[r].step \in {"call", "finish"}
       /\ run'[r].todo = run[r].todo /\ run'[r].sum = run[r].sum /\ run'[r].record = run[r].record
       /\ run'[r].rows = run[r].rows /\ run'[r].clean = run[r].clean
  BY <1>1, <1>5, <1>9
<1>15. UNCHANGED <<disk, path, source, segment>>
  BY <1>4
<1> QED
  BY <1>6, <1>12, <1>13, <1>14, <1>15, EmbedsOn

LEMMA StoreVectorsKeeps ==
    ASSUME Known, NEW r \in Runs, StoreVectors(r) PROVE Kept1(r)
<1>1. /\ run[r].step = "call" /\ run[r] \in RunRow /\ run[r].sum \in Docs
      /\ IdOf(r) = SourceOf[run[r].sum]
      /\ run[r].rows = TextOf[run[r].sum] /\ Embeds(r, run[r].sum)
  BY AtHand DEF StoreVectors, Embedding
<1>2. /\ vector' = [k \in Slots |-> IF k[1] = SourceOf[run[r].sum] /\ k[2] \in run[r].pending
                                    THEN TextOf[run[r].sum][k[2]] ELSE vector[k]]
      /\ UNCHANGED <<disk, path, source, segment>>
  BY <1>1 DEF StoreVectors
<1>3. /\ run'[r].step = "finish" /\ run'[r].todo = run[r].todo /\ run'[r].sum = run[r].sum
      /\ run'[r].record = run[r].record /\ run'[r].clean = run[r].clean
      /\ run'[r].pending = run[r].pending /\ run'[r].rows = run[r].rows
  BY <1>1, Basics DEF StoreVectors, GoTo, RunRow
<1>4. VectorsMatch'
  BY RunKeepsVectors DEF Known, Step
<1>5. \A i \in Ordinals : vector'[<<SourceOf[run[r].sum], i>>] = TextOf[run[r].sum][i]
  BY <1>1, <1>2, Basics DEF Embeds
<1>6. \A k \in Slots : vector'[k] = vector[k] \/ k[1] = SourceOf[run[r].sum]
  BY <1>2
<1>7. \A i \in Ordinals :
         (run'[r].step = "finish" \/ i \notin run'[r].pending) /\ TextOf[run[r].sum][i] # None
         => vector'[<<SourceOf[run[r].sum], i>>] = TextOf[run[r].sum][i]
  BY <1>5
<1>8. run[r].step \in {"split", "call"} /\ run'[r].step \in {"call", "finish"}
  BY <1>1, <1>3
<1>9. UNCHANGED <<disk, path, source, segment>>
  BY <1>2
<1> QED
  BY <1>3, <1>4, <1>6, <1>7, <1>8, <1>9, EmbedsOn

LEMMA FinishKeeps ==
    ASSUME Known, NEW r \in Runs, Finish(r) PROVE Kept1(r)
<1> SUFFICES ASSUME NEW d, d = run[r].sum, NEW p, p = At(r), NEW record, record = run[r].record
             PROVE  Kept1(r)
  OBVIOUS
<1>1. /\ run[r].step = "finish" /\ run[r] \in RunRow /\ d \in Docs /\ run[r].todo # {} /\ Active(r)
      /\ p \in Paths /\ p \in run[r].todo /\ Embeds(r, d) /\ record.body = d /\ IdOf(r) = SourceOf[d]
  BY AtHand DEF Finish, Embedding
<1>2. /\ source[d] = record /\ Held(d) /\ path[p].sum = d /\ d \notin Blocked /\ TextOf[d] # NoRows
      /\ \A i \in Ordinals : vector[<<SourceOf[d], i>>] = TextOf[d][i]
  BY <1>1 DEF Embeds
<1> DEFINE total == {i \in Ordinals : run[r].rows[i] # None}
           embedded == {i \in Ordinals : /\ segment[<<SourceOf[d], i>>] # NoSegment
                                         /\ vector[<<SourceOf[d], i>>] # None}
<1>3. total = embedded /\ IsFiniteSet(total)
  <2>1. \A i \in Ordinals : run[r].rows[i] = TextOf[d][i]
    BY <1>1, AtHand DEF Embedding
  <2>2. ASSUME NEW i \in Ordinals
        PROVE  (TextOf[d][i] # None) <=> /\ segment[<<SourceOf[d], i>>] # NoSegment
                                         /\ vector[<<SourceOf[d], i>>] # None
    BY <1>1, <1>2, HeldRows, Basics
  <2>3. IsFiniteSet(total)
    <3>1. IsFiniteSet(Ordinals)
      BY FS_Interval, BoundAssumption DEF Ordinals
    <3>2. total \subseteq Ordinals
      OBVIOUS
    <3> QED
      BY <3>1, <3>2, FS_Subset
  <2> QED
    BY <2>1, <2>2, <2>3
<1>4. Cardinality(embedded) >= Cardinality(total)
  <2> HIDE DEF total, embedded
  <2>1. Cardinality(total) \in Nat
    BY <1>3, FS_CardinalityType
  <2> QED
    BY <1>3, <2>1
<1>5. /\ source' = [source EXCEPT ![d] = [record EXCEPT !.state = "EMBEDDED"]] /\ GoOn(r)
      /\ UNCHANGED <<disk, path, segment, vector, corpus>>
  BY <1>1, <1>4 DEF Finish
<1>6. /\ source'[d].body = d /\ source'[d].state = "EMBEDDED"
      /\ \A e \in Docs \ {d} : source'[e] = source[e]
  BY <1>1, <1>2, <1>5, Basics DEF SourceRow
<1>7. /\ run'[r].step = "scan" /\ run'[r].todo = run[r].todo \ {p} /\ run'[r].clean = run[r].clean
  BY <1>1, <1>5, Basics DEF GoOn, RunRow
<1>8. TablesFit'
  <2>1. \A id \in Ids : Owned(id)'
    <3>1. \A id \in Ids : Stays(id)
      BY <1>5 DEF Stays
    <3> QED
      BY <3>1, OwnedStays DEF Known, TablesFit
  <2>2. ASSUME NEW e \in Docs PROVE SourceFits(e)'
    <3>1. SourceFits(e)
      BY DEF Known, TablesFit
    <3>2. CASE e = d
      BY <1>1, <1>2, <1>5, <1>6, <3>2 DEF SourceFits
    <3>3. CASE e # d
      BY <1>5, <1>6, <3>1, <3>3 DEF SourceFits, Present
    <3> QED
      BY <3>2, <3>3
  <2> QED
    BY <2>1, <2>2 DEF TablesFit
<1>9. Complete(d)'
  <2>1. \A i \in Ordinals : /\ segment[<<SourceOf[d], i>>].text = TextOf[d][i]
                            /\ TextOf[d][i] # None => segment[<<SourceOf[d], i>>].sum = d
    BY <1>1, <1>2, HeldRows
  <2> QED
    BY <1>2, <1>5, <1>6, <2>1 DEF Complete
<1>10. ASSUME run[r].clean PROVE Scans(r)'
  <2>1. Scans(r)
    BY <1>1, <1>10, CleanScans
  <2>2. ASSUME NEW q \in Paths, disk[q] # None, q \notin run[r].todo PROVE Complete(disk[q])'
    <3>1. Complete(disk[q]) /\ disk[q] \in Docs
      BY <2>1, <2>2, Basics DEF Scans, Done
    <3>2. d = disk[p] /\ disk[p] # None /\ p # q
      BY <1>1, <2>1, <2>2, Basics DEF Scans, Busy
    <3>3. disk[q] # d
      BY <1>1, <2>2, <3>2, FilesDiffer
    <3> QED
      BY <1>5, <1>6, <3>1, <3>3, CompleteStays
  <2> QED
    BY <1>1, <1>5, <1>7, <1>9, <2>1, <2>2, DocumentEnds DEF Embedding
<1> QED
  BY <1>7, <1>8, <1>10, ScanCarries DEF Kept1

--------------------------------------------------------------------------------
(***************************************************************************)
(* The end of a run, and the steps that are not a run's.                   *)
(***************************************************************************)

LEMMA TombstoneMissingKeeps ==
    ASSUME Known, NEW r \in Runs, TombstoneMissing(r) PROVE Kept1(r)
<1> SUFFICES ASSUME NEW missing, missing = {p \in Paths : path[p].sum # None /\ path[p].seen # r},
                    NEW orphans, orphans = {path[p].sum : p \in missing}
                                               \ {path[q].sum : q \in Paths \ missing}
             PROVE  Kept1(r)
  OBVIOUS
<1>1. /\ run[r].step = "scan" /\ run[r].todo = {} /\ run[r] \in RunRow /\ Active(r)
      /\ path' = [p \in Paths |-> IF p \in missing THEN NoPath ELSE path[p]]
      /\ segment' = WithoutSegments(orphans) /\ vector' = WithoutVectors(orphans)
      /\ source' = Tombstoned(orphans) /\ GoTo(r, "publish") /\ UNCHANGED <<disk, corpus>>
  BY Basics DEF TombstoneMissing, Active
<1>2. orphans \in SUBSET Docs
  BY Basics
<1>3. run'[r].step = "publish" /\ run'[r].todo = {} /\ run'[r].clean = run[r].clean
  BY <1>1, Basics DEF GoTo, RunRow
<1>4. \A p \in Paths : path'[p] = IF p \in missing THEN NoPath ELSE path[p]
  BY <1>1
<1>5. TablesFit'
  <2>1. ASSUME NEW id \in Ids PROVE Owned(id)'
    <3>1. \A i \in Ordinals : segment'[<<id, i>>] = WithoutSegments(orphans)[<<id, i>>]
      BY <1>1
    <3>2. Stays(id) \/ Vacant(id)'
      BY <3>1, DeletedTogether DEF Known, WholeInv
    <3> QED
      BY <3>2, OwnedStays DEF Known, TablesFit
  <2>2. ASSUME NEW e \in Docs PROVE SourceFits(e)'
    <3>1. SourceFits(e)
      BY DEF Known, TablesFit
    <3>2. CASE e \in orphans
      <4>1. source'[e].state \in {"ABSENT", "DELETED"}
        BY <1>1, <3>2, TombstonedRows
      <4> QED
        BY <4>1 DEF SourceFits, Present, Live
    <3>3. CASE e \notin orphans
      <4>1. source'[e] = source[e]
        BY <1>1, <3>3, TombstonedRows
      <4>2. ASSUME NEW p \in Paths, path[p].sum = e PROVE \E q \in Paths : path'[q].sum = e
        <5>1. PICK q \in Paths \ missing : path[q].sum = e
          BY <3>3, <4>2
        <5> QED
          BY <1>4, <5>1
      <4> QED
        BY <3>1, <4>1, <4>2 DEF SourceFits, Present
    <3> QED
      BY <3>2, <3>3
  <2> QED
    BY <2>1, <2>2 DEF TablesFit
<1>6. ASSUME run[r].clean PROVE Scans(r)'
  <2>1. Scans(r)
    BY <1>1, <1>6, CleanScans
  <2>2. ASSUME NEW p \in Paths, disk[p] # None
        PROVE  p \notin missing /\ path[p].seen = r /\ path[p].sum = disk[p] /\ Complete(disk[p])
    <3>1. path[p].seen = r /\ Complete(disk[p])
      BY <1>1, <2>1, <2>2 DEF Scans, Done
    <3> QED
      BY <2>1, <3>1 DEF Scans, Seen
  <2>3. ASSUME NEW p \in Paths, disk[p] = None
        PROVE  path'[p].sum = None /\ path'[p].seen # r
    <3>1. path[p].seen # r
      BY <2>1, <2>3 DEF Scans, Seen
    <3> QED
      BY <1>4, <3>1, Basics
  <2>4. \A p \in Paths : path'[p].sum = disk'[p]
    BY <1>1, <1>4, <2>2, <2>3
  <2>5. Seen(r)'
    BY <1>1, <1>3, <1>4, <2>2, <2>3 DEF Seen
  <2>6. ASSUME NEW p \in Paths, disk[p] # None PROVE path'[p].seen = r /\ Complete(disk[p])'
    <3> SUFFICES ASSUME NEW d, d = disk[p] PROVE path'[p].seen = r /\ Complete(d)'
      BY <1>1
    <3>1. d \in Docs /\ Complete(d) /\ path'[p].seen = r /\ d \notin orphans
      BY <1>4, <2>2, <2>6, Basics
    <3>2. source'[d] = source[d]
      BY <1>1, <3>1, TombstonedRows
    <3>3. \A i \in Ordinals : /\ segment'[<<SourceOf[d], i>>] = segment[<<SourceOf[d], i>>]
                              /\ vector'[<<SourceOf[d], i>>] = vector[<<SourceOf[d], i>>]
      BY <1>1, <1>2, <3>1, CompleteKept
    <3> QED
      BY <3>1, <3>2, <3>3, CompleteStays
  <2>7. Done(r)'
    BY <1>1, <2>6 DEF Done
  <2> QED
    BY <1>3, <2>4, <2>5, <2>7 DEF Scans, Busy, Embedding
<1> QED
  BY <1>3, <1>5, <1>6, ScanCarries DEF Kept1

LEMMA PublishKeeps ==
    ASSUME Known, NEW r \in Runs, PublishCorpus(r) PROVE Kept1(r)
<1>1. /\ run[r].step = "publish" /\ run[r] \in RunRow /\ Active(r) /\ GoTo(r, "completed")
      /\ UNCHANGED <<disk, path, source, segment, vector>>
      /\ corpus' = {<<d, source[d].body>> : d \in {e \in Docs : source[e].state \notin {"ABSENT", "DELETED"}}}
  BY Basics DEF PublishCorpus, Active
<1>2. run'[r].step = "completed" /\ run'[r].clean = run[r].clean /\ ~Active(r)'
  BY <1>1, Basics DEF GoTo, RunRow, Active
<1>3. TablesFit'
  BY <1>1, TablesUntouched DEF Known
<1>4. ASSUME run[r].clean PROVE Mirrors'
  <2>1. Scans(r)
    BY <1>1, <1>4, CleanScans
  <2>2. \A p \in Paths : path[p].sum = disk[p]
    BY <1>1, <2>1 DEF Scans
  <2>3. \A p \in Paths : disk[p] # None => Complete(disk[p])
    BY <1>1, <2>1 DEF Scans, Done
  <2>4. ASSUME NEW d \in Docs, Complete(d) PROVE source[d].state \in Live
    BY <2>4 DEF Complete, Live
  <2>5. ASSUME NEW d \in Docs, Present(d)
        PROVE  source[d].state \in Live /\ \E p \in Paths : path[p].sum = d
    <3>1. PICK p \in Paths : path[p].sum = d
      BY <2>5 DEF Known, TablesFit, SourceFits
    <3> QED
      BY <2>2, <2>3, <2>4, <3>1, Basics
  <2>6. \A d \in Docs : source[d].state \in Live <=> source[d].state \notin {"ABSENT", "DELETED"}
    BY <2>5 DEF Present, Live
  <2>7. \A p \in Paths : disk[p] # None => Complete(disk[p])'
    BY <1>1, <2>3, DoneUntouched
  <2> QED
    BY <1>1, <2>2, <2>5, <2>6, <2>7 DEF Mirrors, Present
<1> QED
  BY <1>2, <1>3, <1>4, ScanCarries DEF Kept1

\* Every step of a run keeps what it has to.
LEMMA RunKeeps1 ==
    ASSUME Known, NEW r \in Runs, Step(r), gaps' = {} PROVE Kept1(r)
<1>1. CASE CannotHash(r) \/ EmbedFails(r)
  BY <1>1, GivesUpKeeps
<1>2. CASE Hash(r)
  BY <1>2, HashKeeps
<1>3. CASE Touch(r)
  BY <1>3, TouchKeeps
<1>4. CASE \E unreadable \in BOOLEAN : ParseFails(r, unreadable)
  BY <1>4, ParseFailsKeeps
<1>5. CASE Parse(r)
  BY <1>5, ParseKeeps
<1>6. CASE Store(r)
  BY <1>6, StoreKeeps
<1>7. CASE \E available \in BOOLEAN : ReadSegments(r, available)
  BY <1>7, ReadSegmentsKeeps
<1>8. CASE Split(r)
  BY <1>8, SplitKeeps
<1>9. CASE StoreVectors(r)
  BY <1>9, StoreVectorsKeeps
<1>10. CASE Finish(r)
  BY <1>10, FinishKeeps
<1>11. CASE TombstoneMissing(r)
  BY <1>11, TombstoneMissingKeeps
<1>12. CASE PublishCorpus(r)
  BY <1>12, PublishKeeps
<1> QED
  BY <1>1, <1>2, <1>3, <1>4, <1>5, <1>6, <1>7, <1>8, <1>9, <1>10, <1>11, <1>12 DEF Step

\* The other runs are neither clean nor active, and what they carry is nothing.
LEMMA RunKeepsMirror ==
    ASSUME Known, NEW r \in Runs, Step(r), gaps' = {} PROVE MirrorInv'
<1>1. Kept1(r)
  BY RunKeeps1
<1>2. \A q \in Runs \ {r} : run'[q] = run[q] /\ ~Active(q) /\ ~run[q].clean
  BY OthersRest
<1>3. disk' = disk
  BY DEF Step, CannotHash, Hash, Touch, ParseFails, Parse, Store, ReadSegments, Split, EmbedFails,
         StoreVectors, Finish, TombstoneMissing, PublishCorpus
<1>4. ~Shared(disk)'
  BY <1>3 DEF Known, Shared
<1>5. \A q \in Runs : Carries(q)'
  <2>1. ASSUME NEW q \in Runs \ {r} PROVE Carries(q)'
    <3>1. run'[q].step \in {"idle", "completed"}
      BY <1>2 DEF Active
    <3> QED
      BY <3>1, ScanCarries
  <2> QED
    BY <1>1, <2>1 DEF Kept1
<1>6. \A q \in Runs : run'[q].clean => Clean(q)'
  <2>1. \A q \in Runs \ {r} : ~run'[q].clean
    BY <1>2
  <2>2. \A q \in Runs \ {r} : ~Active(q)'
    BY <1>2 DEF Active
  <2>3. run'[r].clean => Clean(r)'
    BY <1>1, <2>2 DEF Kept1, Clean
  <2> QED
    BY <2>1, <2>3
<1> QED
  BY <1>1, <1>4, <1>5, <1>6 DEF MirrorInv, Kept1

\* A run that starts beside no other has everything still to do, and has seen nothing.
LEMMA StartKeepsMirror ==
    ASSUME Known, NEW r \in Runs, NEW reindex \in MayReindex, Start(r, reindex), gaps' = {}
    PROVE  MirrorInv'
<1>1. \A q \in Runs : ~Active(q)
  <2>1. "overlap" \notin gaps'
    OBVIOUS
  <2> QED
    BY <2>1 DEF Start
<1>2. /\ run'[r].step = "scan" /\ run'[r].todo = {p \in Paths : disk[p] # None}
      /\ \A q \in Runs \ {r} : run'[q].step = run[q].step /\ run'[q].clean = FALSE
  <2>1. run \in [Runs -> RunRow]
    BY Basics
  <2>2. run'[r].step = "scan" /\ run'[r].todo = {p \in Paths : disk[p] # None}
    BY <2>1 DEF Start, RunRow
  <2>3. \A q \in Runs \ {r} : run'[q] = [run[q] EXCEPT !.clean = FALSE]
    BY DEF Start
  <2>4. ASSUME NEW q \in Runs \ {r} PROVE run'[q].step = run[q].step /\ run'[q].clean = FALSE
    <3>1. run[q] \in RunRow /\ run'[q] = [run[q] EXCEPT !.clean = FALSE]
      BY <2>1, <2>3, <2>4
    <3> QED
      BY <3>1 DEF RunRow
  <2> QED
    BY <2>2, <2>4
<1>3. UNCHANGED <<disk, source, segment, vector, corpus>>
  BY DEF Start
<1>4. ASSUME NEW p \in Paths PROVE path'[p].sum = path[p].sum /\ path'[p].seen # r
  <2>1. path[p] \in PathRow /\ None # r
    BY Basics
  <2>2. path'[p] = IF path[p].seen = r THEN [path[p] EXCEPT !.seen = None] ELSE path[p]
    BY DEF Start
  <2> QED
    BY <2>1, <2>2 DEF PathRow
<1>5. \A q \in Runs : Carries(q)'
  BY <1>1, <1>2, ScanCarries DEF Active
<1>6. TablesFit'
  <2>1. \A id \in Ids : Owned(id)'
    <3>1. \A id \in Ids : Stays(id)
      BY <1>3 DEF Stays
    <3> QED
      BY <3>1, OwnedStays DEF Known, TablesFit
  <2> QED
    BY <1>3, <1>4, <2>1 DEF Known, TablesFit, SourceFits, Present
<1>7. Scans(r)'
  BY <1>2, <1>3, <1>4 DEF Scans, Seen, Done, Busy, Embedding
<1>8. \A q \in Runs : run'[q].clean => Clean(q)'
  <2>1. \A q \in Runs \ {r} : ~Active(q)'
    BY <1>1, <1>2 DEF Active
  <2>2. Clean(r)'
    BY <1>2, <1>7, <2>1 DEF Clean
  <2> QED
    BY <1>2, <2>2
<1>9. ~Shared(disk)'
  BY <1>3 DEF Known, Shared
<1> QED
  BY <1>5, <1>6, <1>8, <1>9 DEF MirrorInv

LEMMA StopsKeepsMirror ==
    ASSUME Known, NEW r \in Runs, Stops(r) PROVE MirrorInv'
<1>1. /\ run'[r].step = "idle" /\ ~run'[r].clean /\ Active(r)
      /\ \A q \in Runs \ {r} : run'[q] = run[q]
  BY Basics DEF Stops, NoRun
<1>2. UNCHANGED <<disk, path, source, segment, vector, corpus>>
  BY DEF Stops, tables
<1>3. TablesFit'
  BY <1>2, TablesUntouched DEF Known
<1>4. \A q \in Runs \ {r} : ~Active(q) /\ ~run[q].clean
  BY <1>1 DEF Known, OneRun, Clean
<1>5. \A q \in Runs : Carries(q)'
  <2>1. \A q \in Runs : run'[q].step \in {"idle", "completed"}
    BY <1>1, <1>4 DEF Active
  <2> QED
    BY <2>1, ScanCarries
<1>6. \A q \in Runs : ~run'[q].clean
  BY <1>1, <1>4
<1>7. ~Shared(disk)'
  BY <1>2 DEF Known, Shared
<1> QED
  BY <1>3, <1>5, <1>6, <1>7 DEF MirrorInv

\* A file that changes ends that a run is clean.
LEMMA EditKeepsMirror ==
    ASSUME Known, NEW p \in Paths, NEW content \in Docs \cup {None}, Edit(p, content), gaps' = {}
    PROVE  MirrorInv'
<1>1. UNCHANGED <<path, source, segment, vector, corpus>>
  BY DEF Edit, tables
<1>2. ~Shared(disk)'
  <2>1. "shared" \notin gaps'
    OBVIOUS
  <2>2. ~Shared([disk EXCEPT ![p] = content])
    BY <2>1 DEF Edit
  <2> QED
    BY <2>2 DEF Edit, Shared
<1>3. \A q \in Runs : /\ ~run'[q].clean /\ run'[q].step = run[q].step /\ run'[q].sum = run[q].sum
                      /\ run'[q].todo = run[q].todo /\ run'[q].record = run[q].record
                      /\ run'[q].rows = run[q].rows /\ run'[q].pending = run[q].pending
  BY Basics DEF Edit, RunRow
<1>4. TablesFit'
  BY <1>1, TablesUntouched DEF Known
<1>5. ASSUME NEW q \in Runs PROVE Carries(q)'
  <2>1. At(q)' = At(q)
    BY <1>3 DEF At
  <2>2. Carries(q)
    BY DEF Known
  <2>3. ASSUME NEW d, Held(d) PROVE Held(d)'
    BY <1>1, <2>3 DEF Held, Holds
  <2> SUFFICES ASSUME NEW d, d = run[q].sum PROVE Carries(q)'
    OBVIOUS
  <2>4. Embeds(q, d) => Embeds(q, d)'
    BY <1>1, <1>3, <2>1, <2>3 DEF Embeds
  <2> QED
    BY <1>1, <1>3, <2>2, <2>4 DEF Carries
<1> QED
  BY <1>2, <1>3, <1>4, <1>5 DEF MirrorInv

LEMMA InitMirror == Init => MirrorInv
<1> SUFFICES ASSUME Init, gaps = {}
             PROVE  /\ ~Shared(disk) /\ TablesFit
                    /\ \A r \in Runs : Carries(r) /\ ~run[r].clean
  BY DEF MirrorInv
<1>1. ~Shared(disk)
  BY DEF Init
<1>2. TablesFit
  BY DEF Init, TablesFit, Owned, Vacant, Slots, SourceFits, Present, NoSource, Live
<1>3. \A r \in Runs : run[r].step = "idle" /\ run[r].clean = FALSE
  BY DEF Init, NoRun
<1> QED
  BY <1>1, <1>2, <1>3 DEF Carries, Embedding

LEMMA StepMirror ==
    TypesInv /\ RestTypeOK /\ WholeInv /\ AloneInv /\ VectorInv /\ MirrorInv /\ [Next]_vars
        => MirrorInv'
<1> SUFFICES ASSUME TypesInv, RestTypeOK, WholeInv, AloneInv, VectorInv, MirrorInv, [Next]_vars,
                    gaps' = {}
             PROVE  MirrorInv'
  BY DEF MirrorInv
<1>1. gaps = {}
  BY GapsStay
<1>2. Known
  BY <1>1 DEF AloneInv, VectorInv, MirrorInv, Known
<1>3. CASE UNCHANGED vars
  <2>1. /\ disk' = disk /\ path' = path /\ source' = source /\ segment' = segment
        /\ vector' = vector /\ run' = run /\ corpus' = corpus
    BY <1>3 DEF vars
  <2>2. ~Shared(disk)' /\ TablesFit'
    BY <1>2, <2>1 DEF Known, Shared, TablesFit, Owned, Vacant, Held, Holds, SourceFits, Present
  <2>3. \A r \in Runs : Carries(r)'
    BY <1>2, <2>1 DEF Known, Carries, Embeds, Held, Holds, At
  <2>4. \A r \in Runs : run'[r].clean => Clean(r)'
    BY <1>2, <2>1 DEF Known, Clean, Active, Scans, Seen, Done, At, Mirrors, Complete, Holds
  <2> QED
    BY <2>2, <2>3, <2>4 DEF MirrorInv
<1> QED
  BY <1>2, <1>3, RunKeepsMirror, StartKeepsMirror, StopsKeepsMirror, EditKeepsMirror DEF Next

\* A clean run leaves the index equal to the folder, after every history that went
\* through none of the five gaps: every recorded path is a file, every file's document
\* is complete, every live source has a path, the corpus version is that of the sources.
THEOREM MirrorsTheFolder == Spec => []CleanRunMirrorsTheFolder
<1>1. MirrorInv => CleanRunMirrorsTheFolder
  BY DEF MirrorInv, Clean, Mirrors, CleanRunMirrorsTheFolder, NothingLingers
<1> QED
  BY <1>1, InitTypes, StepTypes, InitRest, StepRest, InitWhole, StepWhole, InitAlone, StepAlone,
     InitVectors, StepVectorInv, InitMirror, StepMirror, PTL DEF Spec

================================================================================

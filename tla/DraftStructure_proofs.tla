----------------------------- MODULE DraftStructure_proofs -----------------------------
(***************************************************************************)
(* Theorems about the rows of one draft, for every configuration of        *)
(* sequences and any number of concurrent requests.                        *)
(***************************************************************************)
EXTENDS DraftStructure, Listing_proofs

\* What the configuration says of its constants.
LEMMA Configured ==
    /\ NoPath \notin Paths /\ MaxSequences \in Nat /\ MaxFields \in Nat
    /\ \A p \in Paths : /\ Layout[p].parent \in Paths \cup {NoPath}
                        /\ Layout[p].order \in Nat /\ Layout[p].min \in Nat
                        /\ Layout[p].max \in Nat /\ Layout[p].max > 0
BY LayoutAssumption

\* The rows that a draft is created with are numbered one to one, parents first.
LEMMA RowsOfPaths ==
    /\ Cardinality(Mandatory) \in Nat /\ NoPath \notin Mandatory /\ Mandatory \subseteq Paths
    /\ \A p \in Mandatory : RowOf(p) \in 1 .. Cardinality(Mandatory)
    /\ \A p, r \in Mandatory : Layout[p].order < Layout[r].order => RowOf(p) < RowOf(r)
    /\ \A p, r \in Mandatory : RowOf(p) = RowOf(r) => p = r
    /\ \A i \in 1 .. Cardinality(Mandatory) : \E p \in Mandatory : RowOf(p) = i
<1> DEFINE Below(p) == {r \in Mandatory : Layout[r].order <= Layout[p].order}
           N == Cardinality(Mandatory)
<1>1. /\ IsFiniteSet(Mandatory) /\ NoPath \notin Mandatory /\ N \in Nat /\ Mandatory \subseteq Paths
      /\ \A p \in Mandatory : Layout[p].order \in Nat
  <2>1. Mandatory \subseteq Paths /\ IsFiniteSet(Paths) /\ NoPath \notin Paths
    BY LayoutAssumption DEF Mandatory
  <2> QED
    BY <2>1, Configured, FS_Subset, FS_CardinalityType
<1>2. ASSUME NEW p \in Mandatory
      PROVE  IsFiniteSet(Below(p)) /\ RowOf(p) = Cardinality(Below(p)) /\ RowOf(p) \in 1 .. N
  <2>1. Below(p) \subseteq Mandatory /\ p \in Below(p)
    BY <1>1
  <2>2. IsFiniteSet(Below(p)) /\ Cardinality(Below(p)) <= N /\ Cardinality(Below(p)) \in Nat
    BY <1>1, <2>1, FS_Subset, FS_CardinalityType
  <2>3. Cardinality(Below(p)) # 0
    BY <2>1, <2>2, FS_EmptySet
  <2>4. RowOf(p) = Cardinality(Below(p))
    BY DEF RowOf
  <2> HIDE DEF Below, N
  <2> QED
    BY <1>1, <2>2, <2>3, <2>4
<1>3. ASSUME NEW p \in Mandatory, NEW r \in Mandatory, Layout[p].order < Layout[r].order
      PROVE  RowOf(p) < RowOf(r)
  <2>1. Below(p) \subseteq Below(r) /\ r \in Below(r) /\ r \notin Below(p)
    BY <1>1, <1>3
  <2>2. Cardinality(Below(p)) < Cardinality(Below(r))
    <3>1. Below(p) # Below(r)
      BY <2>1
    <3> HIDE DEF Below
    <3> QED
      BY <1>2, <2>1, <3>1, FS_Subset
  <2> QED
    BY <1>2, <2>2
<1> HIDE DEF Below
<1>4. ASSUME NEW p \in Mandatory, NEW r \in Mandatory, RowOf(p) = RowOf(r) PROVE p = r
  <2>1. RowOf(p) \in Nat
    BY <1>1, <1>2
  <2>2. Layout[p].order = Layout[r].order
    BY <1>1, <1>3, <1>4, <2>1
  <2> QED
    BY <1>1, <2>2, LayoutAssumption
<1>5. ASSUME NEW i \in 1 .. N PROVE \E p \in Mandatory : RowOf(p) = i
  <2> DEFINE f == [p \in Mandatory |-> RowOf(p)]
  <2>1. f \in [Mandatory -> 1 .. N] /\ \A p, r \in Mandatory : f[p] = f[r] => p = r
    BY <1>2, <1>4
  <2>2. f \in Injection(Mandatory, 1 .. N)
    <3> HIDE DEF f
    <3> QED
      BY <2>1 DEF Injection, IsInjective
  <2>3. IsFiniteSet(1 .. N) /\ Cardinality(1 .. N) = N
    BY <1>1, FS_Interval
  <2>4. f \in Surjection(Mandatory, 1 .. N)
    <3> HIDE DEF f
    <3> QED
      BY <2>2, <2>3, FS_Injection
  <2> QED
    BY <2>4 DEF Surjection
<1> QED
  BY <1>1, <1>2, <1>3, <1>4, <1>5

\* The rows of a new draft: one of each mandatory path, below the one of its parent.
LEMMA NewRows ==
    /\ DOMAIN Created = 1 .. Cardinality(Mandatory)
    /\ \A i \in DOMAIN Created :
          /\ Created[i] \in SequenceRow /\ Created[i].path \in Mandatory
          /\ RowOf(Created[i].path) = i /\ Created[i].parent < i
          /\ IsBelow(Created, Created[i].path, Created[i].parent)
    /\ \A i, k \in DOMAIN Created : Created[i].path = Created[k].path => i = k
<1> DEFINE PathAt(i) == CHOOSE p \in Mandatory : RowOf(p) = i
           N == Cardinality(Mandatory)
<1>1. /\ N \in Nat /\ NoPath \notin Mandatory /\ Mandatory \subseteq Paths
      /\ \A p \in Mandatory : RowOf(p) \in 1 .. N
      /\ \A p, r \in Mandatory : Layout[p].order < Layout[r].order => RowOf(p) < RowOf(r)
      /\ \A p, r \in Mandatory : RowOf(p) = RowOf(r) => p = r
      /\ N <= MaxSequences /\ MaxSequences \in Nat
  BY RowsOfPaths, LayoutAssumption
<1>2. ASSUME NEW i \in 1 .. N PROVE PathAt(i) \in Mandatory /\ RowOf(PathAt(i)) = i
  BY RowsOfPaths
<1> HIDE DEF PathAt
<1>3. /\ DOMAIN Created = 1 .. N
      /\ \A i \in 1 .. N : Created[i] = [path |-> PathAt(i), parent |-> RowOf(Layout[PathAt(i)].parent),
                                         occ |-> 1]
  BY DEF Created, PathAt
<1> HIDE DEF N
<1>4. ASSUME NEW i \in 1 .. N
      PROVE  /\ Created[i] \in SequenceRow /\ Created[i].path \in Mandatory
             /\ RowOf(Created[i].path) = i /\ Created[i].parent < i
             /\ IsBelow(Created, Created[i].path, Created[i].parent)
  <2> SUFFICES ASSUME NEW p, p = PathAt(i), NEW above, above = Layout[p].parent
               PROVE  /\ Created[i] \in SequenceRow /\ Created[i].path \in Mandatory
                      /\ RowOf(Created[i].path) = i /\ Created[i].parent < i
                      /\ IsBelow(Created, Created[i].path, Created[i].parent)
    OBVIOUS
  <2>1. p \in Mandatory /\ RowOf(p) = i
    BY <1>2
  <2>2. Created[i] = [path |-> p, parent |-> RowOf(above), occ |-> 1]
    BY <1>3
  <2>3. CASE above = NoPath
    <3>1. RowOf(above) = 0
      BY <1>1, <2>3 DEF RowOf
    <3>2. Created[i] = [path |-> p, parent |-> 0, occ |-> 1]
      BY <2>2, <3>1
    <3>3. Created[i] \in SequenceRow /\ Created[i].path = p /\ Created[i].parent = 0
      BY <1>1, <2>1, <3>2 DEF SequenceRow, SeqIds, ParentIds
    <3>4. IsBelow(Created, p, 0)
      BY <2>3 DEF IsBelow
    <3> QED
      BY <2>1, <3>3, <3>4
  <2>4. CASE above # NoPath
    <3>1. above \in Mandatory /\ Layout[above].order < Layout[p].order
      BY <2>1, <2>4, LayoutAssumption
    <3>2. RowOf(above) \in 1 .. N /\ RowOf(above) < i
      BY <1>1, <2>1, <3>1
    <3>3. Created[RowOf(above)].path = above
      <4>1. PathAt(RowOf(above)) \in Mandatory /\ RowOf(PathAt(RowOf(above))) = RowOf(above)
        BY <1>2, <3>2
      <4>2. PathAt(RowOf(above)) = above
        BY <1>1, <3>1, <4>1
      <4> QED
        BY <1>3, <3>2, <4>2
    <3> QED
      BY <1>1, <1>3, <2>1, <2>2, <2>4, <3>2, <3>3 DEF SequenceRow, SeqIds, ParentIds, IsBelow, MayHaveParent
  <2> QED
    BY <2>3, <2>4
<1>5. \A i, k \in 1 .. N : Created[i].path = Created[k].path => i = k
  BY <1>4
<1> QED
  BY <1>3, <1>4, <1>5 DEF N

--------------------------------------------------------------------------------
\* What a request has read is of the types that its commit writes.
Writes(q) ==
    /\ editor[q].op = "add" => editor[q].path \in Paths /\ editor[q].occ # 0
                                /\ editor[q].seq \in 0 .. made.seqs \cup {Unknown}
    /\ editor[q].op = "upsert" => editor[q].value \in Values /\ editor[q].seq \in SeqIds
Typed == StructureTypeOK /\ \A q \in Editors : Writes(q)

LEMMA InitTyped == StructureInit => Typed
<1> SUFFICES ASSUME StructureInit PROVE Typed
  OBVIOUS
<1>1. /\ Cardinality(Mandatory) \in 0 .. MaxSequences /\ 0 \in FieldIds /\ 0 \in SeqIds /\ 0 \in ParentIds
      /\ field = <<>> /\ raced = FALSE
      /\ made = [seqs |-> Cardinality(Mandatory), fields |-> 0]
  BY Configured, RowsOfPaths, LayoutAssumption DEF StructureInit, FieldIds, SeqIds, ParentIds
<1>2. NoEditor \in Request /\ NoEditor.op = "idle"
  BY <1>1 DEF NoEditor, Request
<1>3. DOMAIN occurrence \subseteq 1 .. made.seqs
  BY <1>1, NewRows DEF StructureInit
<1>4. \A i \in DOMAIN occurrence : occurrence[i] \in SequenceRow /\ occurrence[i].parent < i
  BY NewRows DEF StructureInit
<1>5. editor \in [Editors -> Request] /\ \A q \in Editors : Writes(q)
  BY <1>2 DEF StructureInit, Writes
<1>6. made \in [seqs : SeqIds, fields : FieldIds] /\ DOMAIN field = {}
  BY <1>1 DEF SeqIds
<1> QED
  BY <1>1, <1>3, <1>4, <1>5, <1>6 DEF Typed, StructureTypeOK

\* A request that enters or leaves changes nobody else's.
LEMMA BeginTyped ==
    ASSUME Typed, NEW q \in Editors, NEW row \in Request, Begins(q, row),
           row.op = "add" => row.path \in Paths /\ row.occ # 0 /\ row.seq \in 0 .. made.seqs \cup {Unknown},
           row.op = "upsert" => row.value \in Values /\ row.seq \in SeqIds
    PROVE  Typed'
<1>1. /\ editor' \in [Editors -> Request] /\ editor'[q] = row
      /\ \A p \in Editors \ {q} : editor'[p] = editor[p]
  BY DEF Typed, StructureTypeOK, Begins
<1>2. UNCHANGED <<occurrence, field, made>> /\ raced' \in BOOLEAN
  BY DEF Typed, StructureTypeOK, Begins
<1>3. StructureTypeOK'
  BY <1>1, <1>2 DEF Typed, StructureTypeOK
<1>4. \A p \in Editors : Writes(p)'
  BY <1>1, <1>2 DEF Typed, Writes
<1> QED
  BY <1>3, <1>4 DEF Typed

LEMMA CommitTyped ==
    ASSUME Typed, NEW q \in Editors, NEW op, Commits(q, op),
           made' \in [seqs : SeqIds, fields : FieldIds], made.seqs <= made'.seqs,
           DOMAIN occurrence' \subseteq 1 .. made'.seqs, DOMAIN field' \subseteq 1 .. made'.fields,
           \A i \in DOMAIN occurrence' : occurrence'[i] \in SequenceRow /\ occurrence'[i].parent < i,
           \A f \in DOMAIN field' : field'[f] \in FieldRow
    PROVE  Typed'
<1>1. NoEditor \in Request /\ NoEditor.op = "idle"
  BY Configured DEF NoEditor, Request, SeqIds, ParentIds, FieldIds
<1>2. /\ editor' \in [Editors -> Request] /\ editor'[q] = NoEditor
      /\ \A p \in Editors \ {q} : editor'[p] = editor[p]
  BY <1>1 DEF Typed, StructureTypeOK, Commits
<1>3. StructureTypeOK'
  BY <1>2 DEF Typed, StructureTypeOK, Commits
<1>4. made.seqs \in Nat /\ made'.seqs \in Nat
  BY Configured DEF Typed, StructureTypeOK, SeqIds
<1>5. \A p \in Editors : Writes(p)'
  BY <1>1, <1>2, <1>4 DEF Typed, Writes
<1> QED
  BY <1>3, <1>5 DEF Typed

LEMMA StepTyped == Typed /\ [StructureNext]_structureVars => Typed'
<1> SUFFICES ASSUME Typed, [StructureNext]_structureVars PROVE Typed'
  OBVIOUS
<1>1. /\ MaxSequences \in Nat /\ MaxFields \in Nat /\ NoEditor \in Request
      /\ made \in [seqs : SeqIds, fields : FieldIds] /\ made.seqs \in SeqIds /\ made.fields \in FieldIds
      /\ editor \in [Editors -> Request]
      /\ DOMAIN occurrence \subseteq 1 .. made.seqs /\ DOMAIN field \subseteq 1 .. made.fields
      /\ \A i \in DOMAIN occurrence : occurrence[i] \in SequenceRow /\ occurrence[i].parent < i
      /\ \A f \in DOMAIN field : field[f] \in FieldRow
  BY Configured DEF Typed, StructureTypeOK, NoEditor, Request, SeqIds, ParentIds, FieldIds
<1>2. /\ DOMAIN occurrence \subseteq SeqIds \ {0} /\ DOMAIN field \subseteq FieldIds \ {0}
      /\ IsFiniteSet(DOMAIN occurrence) /\ SeqIds \subseteq ParentIds
  <2>1. made.seqs \in Nat /\ made.fields \in Nat
    BY <1>1 DEF SeqIds, FieldIds
  <2>2. IsFiniteSet(1 .. made.seqs)
    BY <2>1, FS_Interval
  <2>3. IsFiniteSet(DOMAIN occurrence)
    BY <1>1, <2>2, FS_Subset
  <2> QED
    BY <1>1, <2>1, <2>3 DEF SeqIds, ParentIds, FieldIds
<1>3. CASE UNCHANGED structureVars
  BY <1>3 DEF structureVars, Typed, StructureTypeOK, Writes
<1>4. ASSUME NEW q \in Editors, NEW path \in Paths, NEW parent \in 1 .. made.seqs \cup {0, Unknown},
             BeginAdd(q, path, parent)
      PROVE  Typed'
  <2> DEFINE n == Cardinality(Siblings(occurrence, path, parent))
             row == [NoEditor EXCEPT !.op = "add", !.seq = parent, !.path = path, !.occ = n + 1]
  <2>1. n \in Nat /\ n + 1 \in Nat /\ n + 1 # 0 /\ parent \in ParentIds
    <3>1. IsFiniteSet(Siblings(occurrence, path, parent))
      BY <1>2, FS_Subset DEF Siblings
    <3>2. n \in Nat
      BY <3>1, FS_CardinalityType
    <3> HIDE DEF n
    <3> QED
      BY <1>1, <1>2, <3>2 DEF SeqIds, ParentIds
  <2>2. Begins(q, row)
    BY <1>4 DEF BeginAdd
  <2> HIDE DEF n
  <2>3. row \in Request /\ row.op = "add" /\ row.path = path /\ row.occ # 0 /\ row.seq = parent
    BY <1>1, <2>1 DEF NoEditor, Request
  <2>4. parent \in 0 .. made.seqs \cup {Unknown}
    BY <1>1 DEF SeqIds
  <2> HIDE DEF row
  <2> QED
    BY <2>2, <2>3, <2>4, BeginTyped
<1>5. ASSUME NEW q \in Editors, NEW i \in DOMAIN occurrence, BeginRemove(q, i) PROVE Typed'
  <2> DEFINE row == [NoEditor EXCEPT !.op = "remove", !.seq = i]
  <2>1. Begins(q, row) /\ row \in Request /\ row.op = "remove"
    BY <1>1, <1>2, <1>5 DEF BeginRemove, NoEditor, Request
  <2> HIDE DEF row
  <2> QED
    BY <2>1, BeginTyped
<1>6. ASSUME NEW q \in Editors, NEW i \in DOMAIN occurrence, NEW value \in Values, BeginUpsert(q, i, value)
      PROVE  Typed'
  <2>0. Existing(i) \subseteq FieldIds /\ 0 \in FieldIds
    BY <1>1, <1>2 DEF Existing, FieldsOf, FieldIds
  <2>1. PICK f \in FieldIds :
           Begins(q, [NoEditor EXCEPT !.op = "upsert", !.seq = i, !.field = f, !.value = value])
    BY <1>6, <2>0 DEF BeginUpsert
  <2> DEFINE row == [NoEditor EXCEPT !.op = "upsert", !.seq = i, !.field = f, !.value = value]
  <2>2. Begins(q, row) /\ row \in Request /\ row.op = "upsert" /\ row.value = value /\ row.seq \in SeqIds
    BY <1>1, <1>2, <2>1 DEF NoEditor, Request
  <2> HIDE DEF row
  <2> QED
    BY <2>2, BeginTyped
<1>7. ASSUME NEW q \in Editors, NEW f \in DOMAIN field, BeginDelete(q, f) PROVE Typed'
  <2> DEFINE row == [NoEditor EXCEPT !.op = "delete", !.field = f]
  <2>1. Begins(q, row) /\ row \in Request /\ row.op = "delete"
    BY <1>1, <1>2, <1>7 DEF BeginDelete, NoEditor, Request
  <2> HIDE DEF row
  <2> QED
    BY <2>1, BeginTyped
<1>8. ASSUME NEW q \in Editors, CommitAdd(q) PROVE Typed'
  <2> DEFINE id == made.seqs + 1
             row == [path |-> editor[q].path, parent |-> editor[q].seq, occ |-> editor[q].occ]
  <2>1. /\ Commits(q, "add") /\ made.seqs < MaxSequences /\ made' = [made EXCEPT !.seqs = id]
        /\ occurrence' = Insert(occurrence, made'.seqs, row) /\ field' = field
    BY <1>8 DEF CommitAdd
  <2>2. /\ id \in SeqIds /\ made' \in [seqs : SeqIds, fields : FieldIds] /\ made'.seqs = id
        /\ made'.fields = made.fields /\ made.seqs <= id
    BY <1>1, <2>1 DEF SeqIds
  <2>3. row \in SequenceRow /\ row.parent < id
    <3>1. editor[q] \in Request /\ editor[q].op = "add"
      BY <1>1, <2>1 DEF Commits
    <3>2. editor[q].path \in Paths /\ editor[q].occ # 0
          /\ editor[q].seq \in 0 .. made.seqs \cup {Unknown}
      BY <3>1 DEF Typed, Writes
    <3>3. editor[q].seq \in ParentIds /\ editor[q].occ \in Nat
      BY <3>1 DEF Request
    <3>4. editor[q].seq < id
      BY <1>1, <3>2 DEF SeqIds, Unknown
    <3> QED
      BY <3>2, <3>3, <3>4 DEF SequenceRow
  <2> HIDE DEF row, id
  <2>4. /\ DOMAIN occurrence' = DOMAIN occurrence \cup {id} /\ occurrence'[id] = row
        /\ \A k \in DOMAIN occurrence \ {id} : occurrence'[k] = occurrence[k]
    BY <2>1, <2>2 DEF Insert
  <2>5. DOMAIN occurrence' \subseteq 1 .. made'.seqs
    BY <1>1, <2>2, <2>4 DEF id, SeqIds
  <2>6. \A i \in DOMAIN occurrence' : occurrence'[i] \in SequenceRow /\ occurrence'[i].parent < i
    BY <1>1, <2>3, <2>4
  <2> QED
    BY <1>1, <2>1, <2>2, <2>5, <2>6, CommitTyped
<1>9. ASSUME NEW q \in Editors, CommitRemove(q) PROVE Typed'
  <2>1. /\ Commits(q, "remove") /\ made' = made
        /\ occurrence' = Delete(occurrence, {editor[q].seq})
        /\ field' = Delete(field, FieldsOf(field, editor[q].seq))
    BY <1>9 DEF CommitRemove
  <2>2. /\ DOMAIN occurrence' \subseteq DOMAIN occurrence /\ DOMAIN field' \subseteq DOMAIN field
        /\ \A i \in DOMAIN occurrence' : occurrence'[i] = occurrence[i]
        /\ \A f \in DOMAIN field' : field'[f] = field[f]
    BY <2>1 DEF Delete
  <2>3. made.seqs <= made'.seqs
    BY <1>1, <2>1 DEF SeqIds
  <2> QED
    BY <1>1, <2>1, <2>2, <2>3, CommitTyped
<1>10. ASSUME NEW q \in Editors, CommitUpdate(q) PROVE Typed'
  <2>1. /\ Commits(q, "upsert") /\ editor[q].field \in DOMAIN field /\ UNCHANGED <<occurrence, made>>
        /\ field' = [field EXCEPT ![editor[q].field].value = editor[q].value]
    BY <1>10 DEF CommitUpdate
  <2>2. editor[q].value \in Values
    BY <2>1 DEF Typed, Writes, Commits
  <2>3. DOMAIN field' = DOMAIN field /\ \A f \in DOMAIN field' : field'[f] \in FieldRow
    BY <1>1, <2>1, <2>2 DEF FieldRow
  <2>4. made.seqs <= made'.seqs
    BY <1>1, <2>1 DEF SeqIds
  <2> QED
    BY <1>1, <2>1, <2>3, <2>4, CommitTyped
<1>11. ASSUME NEW q \in Editors, CommitInsert(q) PROVE Typed'
  <2> DEFINE id == made.fields + 1
             row == [seq |-> editor[q].seq, value |-> editor[q].value]
  <2>1. /\ Commits(q, "upsert") /\ made.fields < MaxFields /\ made' = [made EXCEPT !.fields = id]
        /\ field' = Insert(field, made'.fields, row) /\ occurrence' = occurrence
    BY <1>11 DEF CommitInsert
  <2>2. /\ made' \in [seqs : SeqIds, fields : FieldIds] /\ made'.fields = id /\ made'.seqs = made.seqs
        /\ made.seqs <= made.seqs
    BY <1>1, <2>1 DEF SeqIds, FieldIds
  <2>3. row \in FieldRow
    <3>1. editor[q] \in Request /\ editor[q].value \in Values
      BY <1>1, <2>1 DEF Typed, Writes, Commits
    <3>2. editor[q].seq \in SeqIds
      BY <1>1, <2>1 DEF Typed, Writes, Commits
    <3> PICK k, v : k = editor[q].seq /\ v = editor[q].value
      OBVIOUS
    <3>3. [seq |-> k, value |-> v] \in FieldRow
      <4>1. k \in SeqIds /\ v \in Values
        BY <3>1, <3>2, Zenon
      <4> QED
        BY ONLY <4>1 DEF FieldRow
    <3> QED
      BY <3>3, Zenon
  <2> HIDE DEF row, id
  <2>4. /\ DOMAIN field' = DOMAIN field \cup {id} /\ field'[id] = row
        /\ \A k \in DOMAIN field \ {id} : field'[k] = field[k]
    BY <2>1, <2>2 DEF Insert
  <2>5. DOMAIN field' \subseteq 1 .. made'.fields
    BY <1>1, <2>2, <2>4 DEF id, FieldIds
  <2>6. \A f \in DOMAIN field' : field'[f] \in FieldRow
    BY <1>1, <2>3, <2>4
  <2> QED
    BY <1>1, <2>1, <2>2, <2>5, <2>6, CommitTyped
<1>12. ASSUME NEW q \in Editors, CommitDelete(q) PROVE Typed'
  <2>1. /\ Commits(q, "delete") /\ UNCHANGED <<occurrence, made>>
        /\ field' = Delete(field, {editor[q].field})
    BY <1>12 DEF CommitDelete
  <2>2. DOMAIN field' \subseteq DOMAIN field /\ \A f \in DOMAIN field' : field'[f] = field[f]
    BY <2>1 DEF Delete
  <2>3. made.seqs <= made'.seqs
    BY <1>1, <2>1 DEF SeqIds
  <2> QED
    BY <1>1, <2>1, <2>2, <2>3, CommitTyped
<1>13. ASSUME NEW q \in Editors, RollBack(q) PROVE Typed'
  <2>1. Commits(q, editor[q].op) /\ UNCHANGED <<occurrence, field, made>> /\ made.seqs <= made'.seqs
    BY <1>1, <1>13 DEF RollBack, SeqIds
  <2> QED
    BY <1>1, <2>1, CommitTyped
<1> QED
  BY <1>3, <1>4, <1>5, <1>6, <1>7, <1>8, <1>9, <1>10, <1>11, <1>12, <1>13 DEF StructureNext

\* Rows, fields and requests stay of their types, and a row is below an earlier one.
THEOREM StructureTypeCorrect == StructureSpec => []StructureTypeOK
<1>1. StructureInit => Typed
  BY InitTyped
<1>2. Typed /\ [StructureNext]_structureVars => Typed'
  BY StepTyped
<1>3. Typed => StructureTypeOK
  BY DEF Typed
<1> QED
  BY <1>1, <1>2, <1>3, PTL DEF StructureSpec

--------------------------------------------------------------------------------
\* A table without lost parents, without a second field and within every limit.
Sheltered(rs, fs) ==
    /\ \A i \in DOMAIN rs : MayHaveParent(rs, rs[i].path, rs[i].parent)
    /\ \A f \in DOMAIN fs : fs[f].seq \in DOMAIN rs
Limited(rs) ==
    \A path \in Paths, parent \in ParentIds : Cardinality(Siblings(rs, path, parent)) <= Layout[path].max
Sound == Sheltered(occurrence, field) /\ SingleFields(field) /\ Limited(occurrence)
\* What the request in progress has read is still so, as nobody else writes.
Holds(q) ==
    LET e == editor[q] IN
    /\ e.op = "add" => /\ MayHaveParent(occurrence, e.path, e.seq)
                       /\ Cardinality(Siblings(occurrence, e.path, e.seq)) < Layout[e.path].max
    /\ e.op = "remove" => e.seq # 0 /\ \A k \in DOMAIN occurrence : occurrence[k].parent # e.seq
    /\ e.op = "upsert" => e.seq \in DOMAIN occurrence /\ (e.field = 0 => FieldsOf(field, e.seq) = {})
OneAtATime == \A p, q \in Editors : p # q => Idle(p) \/ Idle(q)
Serial == ~raced => OneAtATime /\ (\A q \in Editors : Holds(q)) /\ Sound

LEMMA FiniteSiblings ==
    ASSUME Typed, NEW path, NEW parent
    PROVE  /\ IsFiniteSet(Siblings(occurrence, path, parent))
           /\ Cardinality(Siblings(occurrence, path, parent)) \in Nat
<1>1. made.seqs \in Nat /\ DOMAIN occurrence \subseteq 1 .. made.seqs
  BY Configured DEF Typed, StructureTypeOK, SeqIds
<1>2. IsFiniteSet(DOMAIN occurrence)
  <2>1. IsFiniteSet(1 .. made.seqs)
    BY <1>1, FS_Interval
  <2> QED
    BY <1>1, <2>1, FS_Subset
<1>3. Siblings(occurrence, path, parent) \subseteq DOMAIN occurrence
  BY DEF Siblings
<1> QED
  BY <1>2, <1>3, FS_Subset, FS_CardinalityType

LEMMA InitSerial ==
    ASSUME StructureInit PROVE Serial
<1>1. /\ occurrence = Created /\ field = <<>> /\ \A q \in Editors : editor[q].op = "idle"
  BY DEF StructureInit, NoEditor
<1>2. Sheltered(occurrence, field) /\ SingleFields(field)
  BY <1>1, NewRows DEF Sheltered, SingleFields, IsBelow, MayHaveParent
<1>3. Limited(occurrence)
  <2> SUFFICES ASSUME NEW path \in Paths, NEW parent \in ParentIds
               PROVE  Cardinality(Siblings(occurrence, path, parent)) <= Layout[path].max
    BY DEF Limited
  <2>1. \A i, k \in Siblings(occurrence, path, parent) : i = k
    BY <1>1, NewRows DEF Siblings
  <2>2. CASE Siblings(occurrence, path, parent) = {}
    BY <2>2, Configured, FS_EmptySet
  <2>3. ASSUME NEW i \in Siblings(occurrence, path, parent)
        PROVE  Cardinality(Siblings(occurrence, path, parent)) <= Layout[path].max
    <3>1. Siblings(occurrence, path, parent) = {i}
      BY <2>1
    <3>2. Cardinality({i}) = 1
      BY FS_Singleton
    <3> QED
      BY <3>1, <3>2, Configured
  <2> QED
    BY <2>2, <2>3
<1> QED
  BY <1>1, <1>2, <1>3 DEF Serial, OneAtATime, Idle, Holds, Sound

\* A request that begins while no other is in progress has read what is there.
LEMMA BeginSerial ==
    ASSUME Typed, Serial, NEW q \in Editors, Idle(q), NEW row \in Request, Begins(q, row),
           row.op = "add" =>
               /\ MayHaveParent(occurrence, row.path, row.seq)
               /\ Cardinality(Siblings(occurrence, row.path, row.seq)) < Layout[row.path].max,
           row.op = "remove" => row.seq # 0 /\ \A k \in DOMAIN occurrence : occurrence[k].parent # row.seq,
           row.op = "upsert" =>
               row.seq \in DOMAIN occurrence /\ (row.field = 0 => FieldsOf(field, row.seq) = {})
    PROVE  Serial'
<1> SUFFICES ASSUME ~raced' PROVE (OneAtATime /\ (\A p \in Editors : Holds(p)) /\ Sound)'
  BY DEF Serial
<1>1. /\ editor'[q] = row /\ \A p \in Editors \ {q} : editor'[p] = editor[p]
      /\ UNCHANGED <<occurrence, field>>
      /\ ~raced /\ \A p \in Editors : Idle(p)
  BY DEF Begins, Typed, StructureTypeOK
<1>2. OneAtATime'
  BY <1>1 DEF OneAtATime, Idle
<1>3. Holds(q)'
  BY <1>1 DEF Holds, MayHaveParent, Siblings, FieldsOf
<1>4. \A p \in Editors \ {q} : Holds(p)'
  BY <1>1 DEF Holds, Idle
<1>5. Sound'
  BY <1>1 DEF Serial, Sound, Sheltered, SingleFields, Limited, MayHaveParent, Siblings
<1> QED
  BY <1>2, <1>3, <1>4, <1>5

\* One that ends leaves nobody in progress.
LEMMA CommitSerial ==
    ASSUME Typed, Serial, NEW q \in Editors, ~Idle(q), NEW op, Commits(q, op),
           ~raced => Sound'
    PROVE  Serial'
<1> SUFFICES ASSUME ~raced' PROVE (OneAtATime /\ (\A p \in Editors : Holds(p)) /\ Sound)'
  BY DEF Serial
<1>1. ~raced /\ editor'[q] = NoEditor /\ \A p \in Editors \ {q} : editor'[p] = editor[p]
  BY DEF Commits, Typed, StructureTypeOK
<1>2. \A p \in Editors : editor'[p].op = "idle"
  BY <1>1 DEF Serial, OneAtATime, Idle, NoEditor
<1>3. OneAtATime' /\ \A p \in Editors : Holds(p)'
  BY <1>2 DEF OneAtATime, Idle, Holds
<1> QED
  BY <1>1, <1>3

\* Adding a row below a parent that is there, one below its limit.
LEMMA AddSound ==
    ASSUME Typed, Typed', Serial, ~raced, NEW q \in Editors, CommitAdd(q)
    PROVE  Sound'
<1> SUFFICES ASSUME NEW e, e = editor[q], NEW id, id = made.seqs + 1 PROVE Sound'
  OBVIOUS
<1>1. /\ e.op = "add" /\ made' = [made EXCEPT !.seqs = id] /\ field' = field
      /\ occurrence' = Insert(occurrence, made'.seqs, [path |-> e.path, parent |-> e.seq, occ |-> e.occ])
  BY DEF CommitAdd, Commits
<1>2. /\ id \in Nat /\ made'.seqs = id /\ id \notin DOMAIN occurrence /\ id # 0
      /\ e.path \in Paths /\ e.seq # id
      /\ \A i \in DOMAIN occurrence : occurrence[i].parent # id
  BY <1>1, Configured DEF Typed, StructureTypeOK, Writes, SeqIds, ParentIds, SequenceRow, Unknown
<1>3. /\ DOMAIN occurrence' = DOMAIN occurrence \cup {id}
      /\ occurrence'[id].path = e.path /\ occurrence'[id].parent = e.seq
      /\ \A k \in DOMAIN occurrence : occurrence'[k] = occurrence[k]
  BY <1>1, <1>2 DEF Insert
<1>4. /\ Sound /\ MayHaveParent(occurrence, e.path, e.seq)
      /\ Cardinality(Siblings(occurrence, e.path, e.seq)) < Layout[e.path].max
  BY <1>1 DEF Serial, Holds
<1>5. \A path, parent : MayHaveParent(occurrence, path, parent) /\ parent # id
                         => MayHaveParent(occurrence', path, parent)
  BY <1>3 DEF MayHaveParent
<1>6. Sheltered(occurrence, field)'
  BY <1>1, <1>2, <1>3, <1>4, <1>5 DEF Sound, Sheltered
<1>7. SingleFields(field)'
  BY <1>1, <1>4 DEF Sound, SingleFields
<1>8. Limited(occurrence)'
  <2> SUFFICES ASSUME NEW path \in Paths, NEW parent \in ParentIds
               PROVE  Cardinality(Siblings(occurrence', path, parent)) <= Layout[path].max
    BY DEF Limited
  <2> DEFINE old == Siblings(occurrence, path, parent)
  <2>1. IsFiniteSet(old) /\ Cardinality(old) \in Nat /\ Cardinality(old) <= Layout[path].max
    BY <1>4, FiniteSiblings DEF Sound, Limited
  <2>2. CASE path = e.path /\ parent = e.seq
    <3>1. Siblings(occurrence', path, parent) = old \cup {id} /\ id \notin old
      BY <1>2, <1>3, <2>2 DEF Siblings
    <3>2. Cardinality(old) < Layout[path].max /\ Layout[path].max \in Nat
      BY <1>4, <2>2, Configured
    <3> HIDE DEF old
    <3>3. Cardinality(old \cup {id}) = Cardinality(old) + 1
      BY <2>1, <3>1, FS_AddElement
    <3> QED
      BY <2>1, <3>1, <3>2, <3>3
  <2>3. CASE ~(path = e.path /\ parent = e.seq)
    <3>1. Siblings(occurrence', path, parent) = old
      BY <1>2, <1>3, <2>3 DEF Siblings
    <3> QED
      BY <2>1, <3>1
  <2> QED
    BY <2>2, <2>3
<1> QED
  BY <1>6, <1>7, <1>8 DEF Sound

\* Removing a row that is nobody's parent, with its fields.
LEMMA RemoveSound ==
    ASSUME Typed, Serial, ~raced, NEW q \in Editors, CommitRemove(q)
    PROVE  Sound'
<1> SUFFICES ASSUME NEW i, i = editor[q].seq PROVE Sound'
  OBVIOUS
<1>1. /\ editor[q].op = "remove" /\ occurrence' = Delete(occurrence, {i})
      /\ field' = Delete(field, FieldsOf(field, i))
  BY DEF CommitRemove, Commits
<1>2. /\ DOMAIN occurrence' = DOMAIN occurrence \ {i}
      /\ \A k \in DOMAIN occurrence' : occurrence'[k] = occurrence[k]
      /\ DOMAIN field' = DOMAIN field \ FieldsOf(field, i)
      /\ \A f \in DOMAIN field' : field'[f] = field[f] /\ field'[f].seq # i
  BY <1>1 DEF Delete, FieldsOf
<1>3. Sound /\ i # 0 /\ \A k \in DOMAIN occurrence : occurrence[k].parent # i
  BY <1>1 DEF Serial, Holds
<1>4. Sheltered(occurrence, field)'
  BY <1>2, <1>3 DEF Sound, Sheltered, MayHaveParent
<1>5. SingleFields(field)'
  BY <1>2, <1>3 DEF Sound, SingleFields
<1>6. Limited(occurrence)'
  <2> SUFFICES ASSUME NEW path \in Paths, NEW parent \in ParentIds
               PROVE  Cardinality(Siblings(occurrence', path, parent)) <= Layout[path].max
    BY DEF Limited
  <2>1. Siblings(occurrence', path, parent) \subseteq Siblings(occurrence, path, parent)
    BY <1>2 DEF Siblings
  <2>2. /\ IsFiniteSet(Siblings(occurrence, path, parent))
        /\ Cardinality(Siblings(occurrence, path, parent)) \in Nat
        /\ Cardinality(Siblings(occurrence, path, parent)) <= Layout[path].max
    BY <1>3, FiniteSiblings DEF Sound, Limited
  <2>3. Cardinality(Siblings(occurrence', path, parent)) <= Cardinality(Siblings(occurrence, path, parent))
        /\ Cardinality(Siblings(occurrence', path, parent)) \in Nat
    BY <2>1, <2>2, FS_Subset, FS_CardinalityType
  <2> QED
    BY <2>2, <2>3, Configured
<1> QED
  BY <1>4, <1>5, <1>6 DEF Sound

\* Writing a field: another value of the row that was found, or the only row.
LEMMA UpsertSound ==
    ASSUME Typed, Serial, ~raced, NEW q \in Editors, CommitUpdate(q) \/ CommitInsert(q)
    PROVE  Sound'
<1>1. Sound /\ occurrence' = occurrence
  BY DEF Serial, CommitUpdate, CommitInsert
<1>2. CASE CommitUpdate(q)
  <2>1. /\ DOMAIN field' = DOMAIN field
        /\ \A f \in DOMAIN field : field'[f].seq = field[f].seq
    BY <1>2 DEF CommitUpdate, Typed, StructureTypeOK, FieldRow
  <2> QED
    BY <1>1, <2>1 DEF Sound, Sheltered, SingleFields, Limited
<1>3. CASE CommitInsert(q)
  <2> SUFFICES ASSUME NEW id, id = made.fields + 1, NEW i, i = editor[q].seq PROVE Sound'
    OBVIOUS
  <2>1. /\ i \in DOMAIN occurrence /\ FieldsOf(field, i) = {}
    BY <1>3 DEF CommitInsert, Commits, Serial, Holds
  <2>2. made'.fields = id /\ id \notin DOMAIN field
    BY <1>3, Configured DEF CommitInsert, Typed, StructureTypeOK, FieldIds
  <2>3. /\ DOMAIN field' = DOMAIN field \cup {id} /\ field'[id].seq = i
        /\ \A f \in DOMAIN field : field'[f] = field[f]
    BY <1>3, <2>2 DEF CommitInsert, Insert
  <2>4. \A f \in DOMAIN field : field[f].seq # i
    BY <2>1 DEF FieldsOf
  <2> QED
    BY <1>1, <2>1, <2>3, <2>4 DEF Sound, Sheltered, SingleFields, Limited
<1> QED
  BY <1>2, <1>3

LEMMA StepSerial ==
    ASSUME Typed, Serial, [StructureNext]_structureVars PROVE Serial'
<1>1. Typed'
  BY StepTyped
<1>2. CASE UNCHANGED structureVars
  BY <1>2 DEF structureVars, Serial, OneAtATime, Idle, Holds, Sound, Sheltered, SingleFields, Limited,
              MayHaveParent, Siblings, FieldsOf
<1>3. /\ NoEditor \in Request /\ DOMAIN occurrence \subseteq SeqIds \ {0}
      /\ DOMAIN field \subseteq FieldIds \ {0} /\ 0 \in FieldIds /\ 0 \in SeqIds
      /\ SeqIds \subseteq ParentIds /\ 1 .. made.seqs \cup {0, Unknown} \subseteq ParentIds
  BY Configured DEF Typed, StructureTypeOK, NoEditor, Request, SeqIds, ParentIds, FieldIds
<1>4. ASSUME NEW q \in Editors, Idle(q), NEW path \in Paths, NEW parent \in 1 .. made.seqs \cup {0, Unknown},
             BeginAdd(q, path, parent)
      PROVE  Serial'
  <2> DEFINE n == Cardinality(Siblings(occurrence, path, parent))
             row == [NoEditor EXCEPT !.op = "add", !.seq = parent, !.path = path, !.occ = n + 1]
  <2>1. Begins(q, row) /\ MayHaveParent(occurrence, path, parent) /\ n < Layout[path].max
    BY <1>4 DEF BeginAdd
  <2>2. n \in Nat
    BY FiniteSiblings
  <2>3. row \in Request /\ row.op = "add" /\ row.path = path /\ row.seq = parent
    <3> HIDE DEF n
    <3>1. n + 1 \in Nat /\ parent \in ParentIds
      BY <1>3, <2>2
    <3> QED
      BY <1>3, <3>1 DEF NoEditor, Request
  <2> HIDE DEF row
  <2> QED
    BY <1>4, <2>1, <2>3, BeginSerial
<1>5. ASSUME NEW q \in Editors, Idle(q), NEW i \in DOMAIN occurrence, BeginRemove(q, i) PROVE Serial'
  <2> DEFINE row == [NoEditor EXCEPT !.op = "remove", !.seq = i]
  <2>1. Begins(q, row) /\ \A k \in DOMAIN occurrence : occurrence[k].parent # i
    BY <1>5 DEF BeginRemove
  <2>2. row \in Request /\ row.op = "remove" /\ row.seq = i /\ i # 0
    BY <1>3 DEF NoEditor, Request
  <2> HIDE DEF row
  <2> QED
    BY <1>5, <2>1, <2>2, BeginSerial
<1>6. ASSUME NEW q \in Editors, Idle(q), NEW i \in DOMAIN occurrence, NEW value \in Values,
             BeginUpsert(q, i, value)
      PROVE  Serial'
  <2>1. Existing(i) = FieldsOf(field, i) /\ Existing(i) \subseteq FieldIds \ {0}
    BY <1>3 DEF Existing, FieldsOf
  <2>2. PICK f \in FieldIds :
           /\ f = 0 => FieldsOf(field, i) = {}
           /\ Begins(q, [NoEditor EXCEPT !.op = "upsert", !.seq = i, !.field = f, !.value = value])
    BY <1>3, <1>6, <2>1 DEF BeginUpsert
  <2> DEFINE row == [NoEditor EXCEPT !.op = "upsert", !.seq = i, !.field = f, !.value = value]
  <2>3. row \in Request /\ row.op = "upsert" /\ row.seq = i /\ row.field = f
    BY <1>3, <2>2 DEF NoEditor, Request
  <2>4. Begins(q, row)
    BY <2>2
  <2> HIDE DEF row
  <2> QED
    BY <1>6, <2>2, <2>3, <2>4, BeginSerial
<1>7. ASSUME NEW q \in Editors, Idle(q), NEW f \in DOMAIN field, BeginDelete(q, f) PROVE Serial'
  <2> DEFINE row == [NoEditor EXCEPT !.op = "delete", !.field = f]
  <2>1. Begins(q, row) /\ row \in Request /\ row.op = "delete"
    BY <1>3, <1>7 DEF BeginDelete, NoEditor, Request
  <2> HIDE DEF row
  <2> QED
    BY <1>7, <2>1, BeginSerial
<1>8. ASSUME NEW q \in Editors, NEW op, op # "idle", Commits(q, op), ~raced => Sound' PROVE Serial'
  <2>1. ~Idle(q)
    BY <1>8 DEF Commits, Idle
  <2> QED
    BY <1>8, <2>1, CommitSerial
<1>9. ASSUME NEW q \in Editors, CommitAdd(q) PROVE Serial'
  <2>1. Commits(q, "add")
    BY <1>9 DEF CommitAdd
  <2> QED
    BY <1>1, <1>8, <1>9, <2>1, AddSound
<1>10. ASSUME NEW q \in Editors, CommitRemove(q) PROVE Serial'
  <2>1. Commits(q, "remove")
    BY <1>10 DEF CommitRemove
  <2> QED
    BY <1>8, <1>10, <2>1, RemoveSound
<1>11. ASSUME NEW q \in Editors, CommitUpdate(q) \/ CommitInsert(q) PROVE Serial'
  <2>1. Commits(q, "upsert")
    BY <1>11 DEF CommitUpdate, CommitInsert
  <2> QED
    BY <1>8, <1>11, <2>1, UpsertSound
<1>12. ASSUME NEW q \in Editors, CommitDelete(q) PROVE Serial'
  <2>1. Commits(q, "delete") /\ occurrence' = occurrence /\ field' = Delete(field, {editor[q].field})
    BY <1>12 DEF CommitDelete
  <2>2. DOMAIN field' \subseteq DOMAIN field /\ \A f \in DOMAIN field' : field'[f] = field[f]
    BY <2>1 DEF Delete
  <2>3. Sound => Sheltered(occurrence, field)' /\ SingleFields(field)' /\ Limited(occurrence)'
    <3>1. Sound => Sheltered(occurrence, field)'
      BY <2>1, <2>2 DEF Sound, Sheltered
    <3>2. Sound => SingleFields(field)'
      BY <2>2 DEF Sound, SingleFields
    <3>3. Sound => Limited(occurrence)'
      BY <2>1 DEF Sound, Limited
    <3> QED
      BY <3>1, <3>2, <3>3
  <2>4. ~raced => Sound'
    BY <2>3 DEF Serial, Sound
  <2> QED
    BY <1>8, <2>1, <2>4
<1>13. ASSUME NEW q \in Editors, RollBack(q) PROVE Serial'
  <2>1. Commits(q, editor[q].op) /\ editor[q].op # "idle" /\ UNCHANGED <<occurrence, field>>
    BY <1>13 DEF RollBack, Idle
  <2>2. ~raced => Sound'
    BY <2>1 DEF Serial, Sound
  <2> QED
    BY <1>8, <2>1, <2>2
<1> QED
  BY <1>2, <1>4, <1>5, <1>6, <1>7, <1>9, <1>10, <1>11, <1>12, <1>13 DEF StructureNext

\* As long as edits do not overlap, no row loses its parent, no sequence exceeds its
\* limit and a field exists once, whatever the configuration and however often a
\* request is rolled back.
THEOREM SerialEditsAreSound == StructureSpec => []SerialEditsKeepTheLayout
<1>1. StructureInit => Typed /\ Serial
  BY InitTyped, InitSerial
<1>2. Typed /\ Serial /\ [StructureNext]_structureVars => (Typed /\ Serial)'
  BY StepTyped, StepSerial
<1>3. Typed /\ Serial => SerialEditsKeepTheLayout
  <2> SUFFICES ASSUME Typed, Sound PROVE SerialEditsKeepTheLayout
    BY DEF Serial, SerialEditsKeepTheLayout
  <2>1. ASSUME NEW i \in DOMAIN occurrence
        PROVE  Cardinality(Siblings(occurrence, occurrence[i].path, occurrence[i].parent))
                   <= Layout[occurrence[i].path].max
    <3>1. occurrence[i].path \in Paths /\ occurrence[i].parent \in ParentIds
      BY DEF Typed, StructureTypeOK, SequenceRow
    <3> QED
      BY <3>1 DEF Sound, Limited
  <2> QED
    BY <2>1 DEF Sound, Sheltered, SerialEditsKeepTheLayout
<1> QED
  BY <1>1, <1>2, <1>3, PTL DEF StructureSpec

--------------------------------------------------------------------------------
(***************************************************************************)
(* The text of passing rows is complete.  The argument: what a row's text  *)
(* contains is what the row and everything under it amount to, by          *)
(* induction from the last row to the first (a parent is older than its    *)
(* children), and every row is under one without a parent.                 *)
(***************************************************************************)

\* Rows as StructureTypeOK has them.
RowsOf(rs, N) ==
    /\ N \in Nat /\ DOMAIN rs \subseteq 1 .. N
    /\ \A i \in DOMAIN rs : /\ rs[i].path \in Paths /\ rs[i].occ \in Nat
                            /\ rs[i].parent \in Nat /\ rs[i].parent < i
Below(rs, i) == {k \in DOMAIN rs : rs[k].parent = i}

LEMMA PlacedRows ==
    ASSUME Typed, Placed(occurrence, field) PROVE RowsOf(occurrence, made.seqs)
<1>1. /\ made.seqs \in Nat /\ DOMAIN occurrence \subseteq 1 .. made.seqs
      /\ \A i \in DOMAIN occurrence : /\ occurrence[i].path \in Paths /\ occurrence[i].occ \in Nat
                                       /\ occurrence[i].parent < i
  BY Configured DEF Typed, StructureTypeOK, SequenceRow, SeqIds
<1>2. \A i \in DOMAIN occurrence : occurrence[i].parent = 0 \/ occurrence[i].parent \in DOMAIN occurrence
  BY DEF Placed, IsBelow, MayHaveParent
<1>3. \A i \in DOMAIN occurrence : occurrence[i].parent \in Nat
  BY <1>1, <1>2
<1> QED
  BY <1>1, <1>3 DEF RowsOf

LEMMA FiniteRows ==
    ASSUME NEW rs, NEW N, RowsOf(rs, N)
    PROVE  IsFiniteSet(DOMAIN rs) /\ DOMAIN rs \subseteq Nat \ {0}
<1>1. N \in Nat /\ DOMAIN rs \subseteq 1 .. N
  BY DEF RowsOf
<1>2. IsFiniteSet(1 .. N)
  BY <1>1, FS_Interval
<1> QED
  BY <1>1, <1>2, FS_Subset

\* ByOccurrence orders the rows: of two, one comes first.
LEMMA ByOccurrenceIsLinear ==
    ASSUME NEW rs, NEW N, RowsOf(rs, N)
    PROVE  /\ \A i \in DOMAIN rs : ~ByOccurrence(rs, i, i)
           /\ \A i, k \in DOMAIN rs : i # k => ByOccurrence(rs, i, k) \/ ByOccurrence(rs, k, i)
           /\ \A i, k, m \in DOMAIN rs :
                 ByOccurrence(rs, i, k) /\ ByOccurrence(rs, k, m) => ByOccurrence(rs, i, m)
<1>1. \A i \in DOMAIN rs : /\ i \in Nat /\ rs[i].path \in Paths /\ rs[i].occ \in Nat
                           /\ Layout[rs[i].path].order \in Nat
  BY Configured, FiniteRows DEF RowsOf
<1>2. \A i, k \in DOMAIN rs : Layout[rs[i].path].order = Layout[rs[k].path].order
                                  <=> rs[i].path = rs[k].path
  BY <1>1, LayoutAssumption
<1> QED
  BY <1>1, <1>2 DEF ByOccurrence

\* ChildrenOf lists what is below a row in that order.
ChildrenUpTo(rs, parent) ==
    [i \in Below(rs, parent) |-> {k \in Below(rs, parent) : ~ByOccurrence(rs, i, k)}]

LEMMA ChildrenListed ==
    ASSUME NEW rs, NEW N, RowsOf(rs, N), NEW parent
    PROVE  /\ Linear(Below(rs, parent), ChildrenUpTo(rs, parent))
           /\ ChildrenOf(rs, parent) = InOrder(Below(rs, parent), ChildrenUpTo(rs, parent))
<1> DEFINE S == Below(rs, parent)
           UpTo == ChildrenUpTo(rs, parent)
<1>1. S \subseteq DOMAIN rs /\ IsFiniteSet(S)
  BY FiniteRows, FS_Subset DEF Below
<1>2. ChildrenOf(rs, parent) = InOrder(S, UpTo)
  BY DEF ChildrenOf, Below, ChildrenUpTo
<1>3. UpTo = [i \in S |-> {k \in S : ~ByOccurrence(rs, i, k)}]
  BY DEF ChildrenUpTo
<1> HIDE DEF S, UpTo
<1>4. UpTo \in [S -> SUBSET S] /\ \A i \in S : i \in UpTo[i]
  BY <1>1, <1>3, ByOccurrenceIsLinear
<1>5. ASSUME NEW i \in S, NEW k \in S, ByOccurrence(rs, i, k)
      PROVE  UpTo[i] \subseteq UpTo[k] /\ k \notin UpTo[i]
  BY <1>1, <1>3, <1>5, ByOccurrenceIsLinear
<1>6. \A i, k \in S : \/ i = k
                      \/ UpTo[i] \subseteq UpTo[k] /\ k \notin UpTo[i]
                      \/ UpTo[k] \subseteq UpTo[i] /\ i \notin UpTo[k]
  BY <1>1, <1>5, ByOccurrenceIsLinear
<1>7. Linear(S, UpTo)
  BY <1>1, <1>4, <1>6 DEF Linear
<1> QED
  BY <1>2, <1>7 DEF S, UpTo

LEMMA ChildrenEnumerated ==
    ASSUME NEW rs, NEW N, RowsOf(rs, N), NEW parent
    PROVE  Enumerates(ChildrenOf(rs, parent), Below(rs, parent))
<1> PICK S, UpTo : S = Below(rs, parent) /\ UpTo = ChildrenUpTo(rs, parent)
  OBVIOUS
<1>1. Linear(S, UpTo) /\ ChildrenOf(rs, parent) = InOrder(S, UpTo)
  BY ChildrenListed
<1>2. Enumerates(InOrder(S, UpTo), S)
  BY <1>1, InOrderLists
<1> QED
  BY <1>1, <1>2, Zenon

LEMMA FieldsEnumerated ==
    ASSUME NEW fs, NEW M \in Nat, DOMAIN fs \subseteq 1 .. M, NEW i
    PROVE  IsFiniteSet(FieldsOf(fs, i)) /\ Enumerates(FieldOrder(fs, i), FieldsOf(fs, i))
<1> DEFINE S == FieldsOf(fs, i)
           UpTo == [f \in S |-> {g \in S : g <= f}]
<1>1. S \subseteq Nat /\ IsFiniteSet(S)
  <2>1. S \subseteq 1 .. M
    BY DEF FieldsOf
  <2>2. IsFiniteSet(1 .. M)
    BY FS_Interval
  <2> QED
    BY <2>1, <2>2, FS_Subset
<1>2. UpTo \in [S -> SUBSET S] /\ \A f \in S : f \in UpTo[f]
  BY <1>1
<1>4. \A f, g \in S : \/ f = g
                      \/ UpTo[f] \subseteq UpTo[g] /\ g \notin UpTo[f]
                      \/ UpTo[g] \subseteq UpTo[f] /\ f \notin UpTo[g]
  BY <1>1
<1>5. FieldOrder(fs, i) = InOrder(S, UpTo)
  BY DEF FieldOrder
<1> HIDE DEF UpTo, S
<1>6. Linear(S, UpTo)
  BY <1>1, <1>2, <1>4 DEF Linear
<1>7. Enumerates(InOrder(S, UpTo), S)
  BY <1>6, InOrderLists
<1> QED
  BY <1>1, <1>5, <1>7 DEF S

\* Tokens of one kind in a text.
Kinds == {"16R", "16S", "field"}
Tokens == [kind : Kinds, path : Paths, value : Values \cup {NoPath}]
At(text, kind) == {n \in DOMAIN text : text[n].kind = kind}
Count(text, kind) == Cardinality(At(text, kind))

LEMMA CountIsFinite ==
    ASSUME NEW text \in Seq(Tokens), NEW kind
    PROVE  IsFiniteSet(At(text, kind)) /\ Count(text, kind) \in Nat
<1>1. Len(text) \in Nat /\ DOMAIN text = 1 .. Len(text)
  OBVIOUS
<1>2. IsFiniteSet(1 .. Len(text))
  BY <1>1, FS_Interval
<1>3. At(text, kind) \subseteq 1 .. Len(text)
  BY <1>1 DEF At
<1> QED
  BY <1>2, <1>3, FS_Subset, FS_CardinalityType DEF Count

\* Counting is additive.
LEMMA CountConcatenation ==
    ASSUME NEW a \in Seq(Tokens), NEW b \in Seq(Tokens), NEW kind
    PROVE  a \o b \in Seq(Tokens) /\ Count(a \o b, kind) = Count(a, kind) + Count(b, kind)
<1> DEFINE A == At(a, kind)
           B == At(b, kind)
           Shift == [n \in B |-> Len(a) + n]
           C == {Len(a) + n : n \in B}
<1>1. /\ Len(a) \in Nat /\ Len(b) \in Nat /\ a \o b \in Seq(Tokens)
      /\ DOMAIN a = 1 .. Len(a) /\ DOMAIN b = 1 .. Len(b) /\ DOMAIN (a \o b) = 1 .. Len(a) + Len(b)
      /\ \A n \in 1 .. Len(a) : (a \o b)[n] = a[n]
      /\ \A n \in 1 .. Len(b) : (a \o b)[Len(a) + n] = b[n]
  OBVIOUS
<1>2. A \subseteq 1 .. Len(a) /\ B \subseteq 1 .. Len(b)
  BY <1>1 DEF At
<1>3. At(a \o b, kind) = A \cup C
  <2>1. A \cup C \subseteq At(a \o b, kind)
    BY <1>1 DEF At
  <2>2. ASSUME NEW n \in At(a \o b, kind) PROVE n \in A \cup C
    <3>1. n \in 1 .. Len(a) + Len(b) /\ (a \o b)[n].kind = kind
      BY <1>1 DEF At
    <3>2. CASE n <= Len(a)
      BY <1>1, <3>1, <3>2 DEF At
    <3>3. CASE ~(n <= Len(a))
      <4>1. n - Len(a) \in 1 .. Len(b) /\ n = Len(a) + (n - Len(a))
        BY <1>1, <3>1, <3>3
      <4>2. b[n - Len(a)].kind = kind
        BY <1>1, <3>1, <4>1
      <4> QED
        BY <1>1, <4>1, <4>2 DEF At
    <3> QED
      BY <3>2, <3>3
  <2> QED
    BY <2>1, <2>2
<1>4. IsFiniteSet(A) /\ IsFiniteSet(B)
  BY CountIsFinite
<1>5. IsFiniteSet(C) /\ Cardinality(C) = Cardinality(B)
  <2>1. Shift \in Bijection(B, C)
    <3>1. Shift \in [B -> C] /\ \A m, n \in B : Shift[m] = Shift[n] => m = n
      BY <1>1, <1>2
    <3>2. \A c \in C : \E n \in B : Shift[n] = c
      OBVIOUS
    <3> HIDE DEF Shift, B, C
    <3> QED
      BY <3>1, <3>2 DEF Bijection, Injection, Surjection, IsInjective
  <2> HIDE DEF Shift, B, C
  <2> QED
    BY <1>4, <2>1, FS_Bijection DEF ExistsBijection
<1>6. A \cap C = {}
  BY <1>1, <1>2
<1> HIDE DEF A, B, C
<1>7. Cardinality(A \cup C) = Cardinality(A) + Cardinality(C) - Cardinality(A \cap C)
  BY <1>4, <1>5, FS_Union
<1>8. Cardinality(A \cap C) = 0
  BY <1>6, FS_EmptySet
<1>9. Cardinality(A) \in Nat /\ Cardinality(B) \in Nat
  BY <1>4, FS_CardinalityType
<1> QED
  BY <1>1, <1>3, <1>5, <1>7, <1>8, <1>9 DEF Count, A, B

\* A row contributes one opening, one closing and its fields.
FieldRows(fs, M) ==
    M \in Nat /\ DOMAIN fs \subseteq 1 .. M /\ \A f \in DOMAIN fs : fs[f].value \in Values
Own(fs, i, kind) == IF kind = "field" THEN Cardinality(FieldsOf(fs, i)) ELSE 1

LEMMA CountSingle ==
    ASSUME NEW token \in Tokens, NEW kind
    PROVE  <<token>> \in Seq(Tokens)
           /\ Count(<<token>>, kind) = IF token.kind = kind THEN 1 ELSE 0
<1>1. At(<<token>>, kind) = IF token.kind = kind THEN {1} ELSE {}
  BY DEF At
<1>2. Cardinality({1}) = 1 /\ Cardinality({}) = 0
  BY FS_Singleton, FS_EmptySet
<1> QED
  BY <1>1, <1>2 DEF Count

LEMMA BlockCounts ==
    ASSUME NEW rs, NEW N, RowsOf(rs, N), NEW fs, NEW M, FieldRows(fs, M), NEW i \in DOMAIN rs,
           NEW inner \in Seq(Tokens)
    PROVE  /\ Block(rs, fs, i, inner) \in Seq(Tokens)
           /\ \A kind \in Kinds :
                 Count(Block(rs, fs, i, inner), kind) = Own(fs, i, kind) + Count(inner, kind)
<1> DEFINE path == rs[i].path
           fields == FieldOrder(fs, i)
           F == Cardinality(FieldsOf(fs, i))
           open == <<Token("16R", path, NoPath)>>
           middle == [n \in DOMAIN fields |-> Token("field", path, fs[fields[n]].value)]
           close == <<Token("16S", path, NoPath)>>
<1>1. /\ F \in Nat /\ DOMAIN fields = 1 .. F
      /\ \A n \in 1 .. F : fields[n] \in FieldsOf(fs, i)
  <2>1. M \in Nat /\ DOMAIN fs \subseteq 1 .. M
    BY DEF FieldRows
  <2>2. Enumerates(FieldOrder(fs, i), FieldsOf(fs, i))
    BY <2>1, FieldsEnumerated
  <2> QED
    BY <2>2 DEF Enumerates
<1>2. path \in Paths /\ \A f \in FieldsOf(fs, i) : fs[f].value \in Values
  BY DEF RowsOf, FieldRows, FieldsOf
<1>3. Token("16R", path, NoPath) \in Tokens /\ Token("16S", path, NoPath) \in Tokens
  BY <1>2 DEF Token, Tokens, Kinds
<1>4. /\ middle \in Seq(Tokens) /\ DOMAIN middle = 1 .. F
      /\ \A n \in 1 .. F : middle[n].kind = "field"
  <2> HIDE DEF fields, F, path
  <2>1. \A n \in 1 .. F : Token("field", path, fs[fields[n]].value) \in Tokens
    BY <1>1, <1>2 DEF Token, Tokens, Kinds
  <2>2. middle \in [1 .. F -> Tokens]
    BY <1>1, <2>1
  <2>3. \A n \in 1 .. F : middle[n].kind = "field"
    BY <1>1 DEF Token
  <2> QED
    BY <1>1, <2>2, <2>3
<1>5. \A kind \in Kinds : Count(middle, kind) = IF kind = "field" THEN F ELSE 0
  <2> HIDE DEF middle, F
  <2>1. \A kind \in Kinds : At(middle, kind) = IF kind = "field" THEN 1 .. F ELSE {}
    BY <1>4 DEF At
  <2>2. Cardinality(1 .. F) = F /\ Cardinality({}) = 0
    BY <1>1, FS_Interval, FS_EmptySet
  <2> QED
    BY <2>1, <2>2 DEF Count
<1>6. /\ open \in Seq(Tokens) /\ close \in Seq(Tokens)
      /\ \A kind \in Kinds : /\ Count(open, kind) = IF kind = "16R" THEN 1 ELSE 0
                             /\ Count(close, kind) = IF kind = "16S" THEN 1 ELSE 0
  <2>1. Token("16R", path, NoPath).kind = "16R" /\ Token("16S", path, NoPath).kind = "16S"
    BY DEF Token
  <2> HIDE DEF path
  <2> QED
    BY <1>3, <2>1, CountSingle
<1>7. Block(rs, fs, i, inner) = open \o middle \o inner \o close
  BY DEF Block
<1> HIDE DEF open, middle, close, fields, F
<1>8. open \o middle \in Seq(Tokens) /\ \A kind \in Kinds :
          Count(open \o middle, kind) = Count(open, kind) + Count(middle, kind)
  BY <1>4, <1>6, CountConcatenation
<1> DEFINE head == open \o middle
           most == head \o inner
<1>9. most \in Seq(Tokens) /\ \A kind \in Kinds :
          Count(most, kind) = Count(head, kind) + Count(inner, kind)
  <2> HIDE DEF head
  <2> QED
    BY <1>8, CountConcatenation DEF head
<1>10. most \o close \in Seq(Tokens) /\ \A kind \in Kinds :
          Count(most \o close, kind) = Count(most, kind) + Count(close, kind)
  <2> HIDE DEF most
  <2>1. close \in Seq(Tokens) /\ most \in Seq(Tokens)
    BY <1>6, <1>9
  <2> QED
    BY <2>1, CountConcatenation
<1>11. ASSUME NEW kind \in Kinds
       PROVE Count(Block(rs, fs, i, inner), kind) = Own(fs, i, kind) + Count(inner, kind)
  <2>1. Count(inner, kind) \in Nat
    BY CountIsFinite
  <2>2. Own(fs, i, kind) = IF kind = "field" THEN F ELSE 1
    BY DEF Own, F
  <2>3. Count(Block(rs, fs, i, inner), kind)
          = (IF kind = "16R" THEN 1 ELSE 0) + (IF kind = "field" THEN F ELSE 0) + Count(inner, kind)
            + (IF kind = "16S" THEN 1 ELSE 0)
    BY <1>5, <1>6, <1>7, <1>8, <1>9, <1>10
  <2>4. kind = "16R" \/ kind = "16S" \/ kind = "field"
    BY DEF Kinds
  <2> QED
    BY <1>1, <2>1, <2>2, <2>3, <2>4
<1> QED
  BY <1>7, <1>10, <1>11

\* The rows below a row at any depth, itself included.
Closed(rs, T) == \A k \in DOMAIN rs : rs[k].parent \in T => k \in T
Under(rs, i) ==
    {k \in DOMAIN rs : \A T \in SUBSET DOMAIN rs : i \in T /\ Closed(rs, T) => k \in T}

LEMMA UnderRule ==
    ASSUME NEW rs, NEW N, RowsOf(rs, N), NEW i \in DOMAIN rs
    PROVE  /\ i \in Under(rs, i) /\ Closed(rs, Under(rs, i))
           /\ \A T \in SUBSET DOMAIN rs : i \in T /\ Closed(rs, T) => Under(rs, i) \subseteq T
           /\ \A k \in Under(rs, i) : i <= k
           /\ \A k \in Under(rs, i) : k = i \/ rs[k].parent \in Under(rs, i)
<1>1. i \in Under(rs, i) /\ Closed(rs, Under(rs, i))
  BY DEF Under, Closed
<1>2. \A T \in SUBSET DOMAIN rs : i \in T /\ Closed(rs, T) => Under(rs, i) \subseteq T
  BY DEF Under
<1>3. \A k \in Under(rs, i) : i <= k
  <2> DEFINE T == {k \in DOMAIN rs : i <= k}
  <2>1. \A k \in DOMAIN rs : k \in Nat /\ rs[k].parent \in Nat /\ rs[k].parent < k
    BY FiniteRows DEF RowsOf
  <2>2. i \in T /\ T \in SUBSET DOMAIN rs /\ Closed(rs, T)
    BY <2>1 DEF Closed
  <2> QED
    BY <1>2, <2>2
<1>4. \A k \in Under(rs, i) : k = i \/ rs[k].parent \in Under(rs, i)
  <2> DEFINE T == {k \in Under(rs, i) : k = i \/ rs[k].parent \in Under(rs, i)}
  <2>1. i \in T /\ T \in SUBSET DOMAIN rs
    BY <1>1 DEF Under
  <2>2. Closed(rs, T)
    BY <1>1 DEF Closed
  <2> HIDE DEF T
  <2>3. Under(rs, i) \subseteq T
    BY <1>2, <2>1, <2>2
  <2> QED
    BY <2>3 DEF T
<1> QED
  BY <1>1, <1>2, <1>3, <1>4

\* A row's own and those under its children, without overlap, are all under it.
LEMMA UnderSplits ==
    ASSUME NEW rs, NEW N, RowsOf(rs, N), NEW i \in DOMAIN rs
    PROVE  /\ Under(rs, i) = {i} \cup UNION {Under(rs, k) : k \in Below(rs, i)}
           /\ i \notin UNION {Under(rs, k) : k \in Below(rs, i)}
<1> DEFINE U == UNION {Under(rs, k) : k \in Below(rs, i)}
<1>1. Below(rs, i) \subseteq DOMAIN rs /\ \A k \in Below(rs, i) : rs[k].parent = i /\ i < k
  BY DEF Below, RowsOf
<1>2. \A k \in Below(rs, i) : Under(rs, k) \subseteq Under(rs, i)
  <2>1. \A k \in Below(rs, i) : k \in Under(rs, i)
    BY <1>1, UnderRule DEF Closed
  <2>2. Closed(rs, Under(rs, i)) /\ Under(rs, i) \in SUBSET DOMAIN rs
    BY UnderRule DEF Under
  <2> QED
    BY <1>1, <2>1, <2>2, UnderRule
<1>3. Closed(rs, {i} \cup U)
  <2> SUFFICES ASSUME NEW k \in DOMAIN rs, rs[k].parent \in {i} \cup U PROVE k \in {i} \cup U
    BY DEF Closed
  <2>1. CASE rs[k].parent = i
    <3>1. k \in Below(rs, i) /\ k \in Under(rs, k)
      BY <2>1, UnderRule DEF Below
    <3> QED
      BY <3>1
  <2>2. CASE rs[k].parent \in U
    <3>1. PICK c \in Below(rs, i) : rs[k].parent \in Under(rs, c)
      BY <2>2
    <3>2. k \in Under(rs, c)
      BY <1>1, <3>1, UnderRule DEF Closed
    <3> QED
      BY <3>1, <3>2
  <2> QED
    BY <2>1, <2>2
<1>4. {i} \cup U \in SUBSET DOMAIN rs
  BY DEF Under
<1>5. i \notin U
  <2> SUFFICES ASSUME NEW k \in Below(rs, i), i \in Under(rs, k) PROVE FALSE
    OBVIOUS
  <2>1. k <= i /\ i < k /\ i \in Nat /\ k \in Nat
    BY <1>1, UnderRule, FiniteRows
  <2> QED
    BY <2>1
<1> HIDE DEF U
<1>6. Under(rs, i) \subseteq {i} \cup U
  BY <1>3, <1>4, UnderRule
<1>7. {i} \cup U \subseteq Under(rs, i)
  BY <1>2, UnderRule DEF U
<1> QED
  BY <1>5, <1>6, <1>7 DEF U

LEMMA UnderDisjoint ==
    ASSUME NEW rs, NEW N, RowsOf(rs, N), NEW c \in DOMAIN rs, NEW d \in DOMAIN rs,
           c # d, rs[c].parent = rs[d].parent
    PROVE  Under(rs, c) \cap Under(rs, d) = {}
<1> DEFINE T == Under(rs, c) \ Under(rs, d)
<1>1. \A k \in DOMAIN rs : k \in Nat /\ rs[k].parent \in Nat /\ rs[k].parent < k
  BY FiniteRows DEF RowsOf
<1>2. rs[c].parent \notin Under(rs, c) /\ rs[d].parent \notin Under(rs, d)
  BY <1>1, UnderRule
<1>3. c \in T
  BY <1>2, UnderRule
<1>4. Closed(rs, T)
  <2> SUFFICES ASSUME NEW k \in DOMAIN rs, rs[k].parent \in T PROVE k \in T
    BY DEF Closed
  <2>1. k \in Under(rs, c)
    BY UnderRule DEF Closed
  <2>2. k # d
    BY <1>2
  <2>3. k \notin Under(rs, d)
    BY <2>2, UnderRule
  <2> QED
    BY <2>1, <2>3
<1>5. T \in SUBSET DOMAIN rs
  BY DEF Under
<1> HIDE DEF T
<1>6. Under(rs, c) \subseteq T
  BY <1>3, <1>4, <1>5, UnderRule
<1> QED
  BY <1>6 DEF T

\* Every row is under a row without parent, when every parent is a row.
LEMMA UnderCovers ==
    ASSUME NEW rs, NEW N, RowsOf(rs, N), \A k \in DOMAIN rs : rs[k].parent \in DOMAIN rs \cup {0}
    PROVE  DOMAIN rs = UNION {Under(rs, k) : k \in Below(rs, 0)}
<1> DEFINE U == UNION {Under(rs, k) : k \in Below(rs, 0)}
           Rest == DOMAIN rs \ U
<1>1. \A k \in DOMAIN rs : k \in Nat /\ rs[k].parent \in Nat /\ rs[k].parent < k
  BY FiniteRows DEF RowsOf
<1>2. U \subseteq DOMAIN rs
  BY DEF Under
<1>3. Rest = {}
  <2> SUFFICES ASSUME Rest # {} PROVE FALSE
    OBVIOUS
  <2>1. PICK m \in Rest : \A q \in Rest : m <= q
    <3>1. Rest \in SUBSET Nat
      BY <1>1
    <3> HIDE DEF Rest
    <3> QED
      BY <3>1, SmallestNumber
  <2>2. m \in DOMAIN rs /\ m \notin U
    OBVIOUS
  <2>3. CASE rs[m].parent = 0
    <3>1. m \in Below(rs, 0) /\ m \in Under(rs, m)
      BY <2>2, <2>3, UnderRule DEF Below
    <3> QED
      BY <2>2, <3>1
  <2>4. CASE rs[m].parent # 0
    <3>1. rs[m].parent \in DOMAIN rs
      BY <2>2, <2>4
    <3>2. ~(m <= rs[m].parent)
      BY <1>1, <2>2
    <3>3. rs[m].parent \in U
      <4> HIDE DEF U
      <4> QED
        BY <2>1, <3>1, <3>2
    <3>4. PICK k \in Below(rs, 0) : rs[m].parent \in Under(rs, k)
      BY <3>3
    <3>5. m \in Under(rs, k)
      BY <2>2, <3>4, UnderRule DEF Closed, Below
    <3> QED
      BY <2>2, <3>4, <3>5
  <2> QED
    BY <2>3, <2>4
<1> QED
  BY <1>2, <1>3

\* What a set of rows amounts to in tokens of a kind: the rows, or the fields they hold.
Share(fs, S, kind) == IF kind = "field" THEN {f \in DOMAIN fs : fs[f].seq \in S} ELSE S
Amount(fs, S, kind) == Cardinality(Share(fs, S, kind))

LEMMA AmountAdds ==
    ASSUME NEW fs, NEW M, FieldRows(fs, M), NEW S, NEW T, IsFiniteSet(S), IsFiniteSet(T),
           S \cap T = {}, NEW kind
    PROVE  /\ Amount(fs, S, kind) \in Nat /\ Amount(fs, T, kind) \in Nat
           /\ Amount(fs, S \cup T, kind) = Amount(fs, S, kind) + Amount(fs, T, kind)
<1> DEFINE A == Share(fs, S, kind)
           B == Share(fs, T, kind)
<1>1. Share(fs, S \cup T, kind) = A \cup B /\ A \cap B = {}
  BY DEF Share
<1>2. IsFiniteSet(A) /\ IsFiniteSet(B)
  <2>1. IsFiniteSet(DOMAIN fs)
    <3>1. M \in Nat /\ DOMAIN fs \subseteq 1 .. M
      BY DEF FieldRows
    <3>2. IsFiniteSet(1 .. M)
      BY <3>1, FS_Interval
    <3> QED
      BY <3>1, <3>2, FS_Subset
  <2>2. CASE kind = "field"
    <3>1. A \subseteq DOMAIN fs /\ B \subseteq DOMAIN fs
      BY <2>2 DEF Share
    <3> HIDE DEF A, B
    <3> QED
      BY <2>1, <3>1, FS_Subset
  <2>3. CASE kind # "field"
    BY <2>3 DEF Share
  <2> QED
    BY <2>2, <2>3
<1> HIDE DEF A, B
<1>3. Cardinality(A \cup B) = Cardinality(A) + Cardinality(B) - Cardinality(A \cap B)
  BY <1>2, FS_Union
<1>4. Cardinality(A \cap B) = 0 /\ Cardinality(A) \in Nat /\ Cardinality(B) \in Nat
  BY <1>1, <1>2, FS_EmptySet, FS_CardinalityType
<1>5. /\ Amount(fs, S, kind) = Cardinality(A) /\ Amount(fs, T, kind) = Cardinality(B)
      /\ Amount(fs, S \cup T, kind) = Cardinality(A \cup B)
  BY <1>1 DEF Amount, A, B
<1> QED
  BY <1>3, <1>4, <1>5

LEMMA AmountOfNothing ==
    ASSUME NEW fs, NEW kind PROVE Amount(fs, {}, kind) = 0
<1>1. Share(fs, {}, kind) = {}
  BY DEF Share
<1> QED
  BY <1>1, FS_EmptySet DEF Amount

LEMMA AmountOfRow ==
    ASSUME NEW fs, NEW i, NEW kind PROVE Amount(fs, {i}, kind) = Own(fs, i, kind)
<1>1. Share(fs, {i}, kind) = IF kind = "field" THEN FieldsOf(fs, i) ELSE {i}
  BY DEF Share, FieldsOf
<1>2. Cardinality({i}) = 1
  BY FS_Singleton
<1> QED
  BY <1>1, <1>2 DEF Amount, Own

\* The text holds the tokens of S: one opening and one closing of each row, and its fields.
Tells(fs, text, S) ==
    text \in Seq(Tokens) /\ \A kind \in Kinds : Count(text, kind) = Amount(fs, S, kind)

LEMMA TellsTogether ==
    ASSUME NEW fs, NEW M, FieldRows(fs, M), NEW S, NEW T, IsFiniteSet(S), IsFiniteSet(T),
           S \cap T = {}, NEW a, NEW b, Tells(fs, a, S), Tells(fs, b, T)
    PROVE  Tells(fs, a \o b, S \cup T)
<1>1. a \in Seq(Tokens) /\ b \in Seq(Tokens)
  BY DEF Tells
<1>2. a \o b \in Seq(Tokens)
      /\ \A kind \in Kinds : Count(a \o b, kind) = Count(a, kind) + Count(b, kind)
  BY <1>1, CountConcatenation
<1>3. \A kind \in Kinds : Amount(fs, S \cup T, kind) = Amount(fs, S, kind) + Amount(fs, T, kind)
  BY AmountAdds
<1> QED
  BY <1>2, <1>3 DEF Tells

LEMMA TellsNothing == ASSUME NEW fs PROVE Tells(fs, <<>>, {})
<1>1. <<>> \in Seq(Tokens) /\ \A kind : At(<<>>, kind) = {}
  BY DEF At
<1>2. \A kind : Count(<<>>, kind) = 0
  BY <1>1, FS_EmptySet DEF Count
<1> QED
  BY <1>1, <1>2, AmountOfNothing DEF Tells

\* Pieces that tell parts without overlap tell their union when put together.
LEMMA ConcatTells ==
    ASSUME NEW fs, NEW M, FieldRows(fs, M), NEW R, IsFiniteSet(R), NEW pieces, NEW L \in Nat,
           Len(pieces) = L, NEW part \in [1 .. L -> SUBSET R],
           \A m, n \in 1 .. L : m # n => part[m] \cap part[n] = {},
           \A n \in 1 .. L : Tells(fs, pieces[n], part[n])
    PROVE  Tells(fs, Concat(pieces), UNION {part[n] : n \in 1 .. L})
<1>1. PICK joined : /\ Concat(pieces) = joined[L] /\ joined[0] = <<>>
                    /\ \A n \in 1 .. L : joined[n] = joined[n - 1] \o pieces[n]
  BY ConcatRule
<1> DEFINE Upto(m) == UNION {part[n] : n \in 1 .. m}
           P(m) == Tells(fs, joined[m], Upto(m))
           Bad == {m \in 0 .. L : ~P(m)}
<1>2. P(0)
  <2>1. Upto(0) = {}
    OBVIOUS
  <2> HIDE DEF Upto
  <2> QED
    BY <1>1, <2>1, TellsNothing
<1>3. ASSUME NEW m \in 1 .. L, P(m - 1) PROVE P(m)
  <2>1. Upto(m) = Upto(m - 1) \cup part[m]
    <3>1. 1 .. m = (1 .. m - 1) \cup {m}
      OBVIOUS
    <3> QED
      BY <3>1
  <2>2. Upto(m - 1) \cap part[m] = {}
    <3>1. \A n \in 1 .. m - 1 : n \in 1 .. L /\ n # m
      OBVIOUS
    <3> QED
      BY <3>1
  <2>3. IsFiniteSet(Upto(m - 1)) /\ IsFiniteSet(part[m])
    <3>1. \A n \in 1 .. m - 1 : n \in 1 .. L
      OBVIOUS
    <3>2. Upto(m - 1) \subseteq R /\ part[m] \subseteq R
      BY <3>1
    <3> HIDE DEF Upto
    <3> QED
      BY <3>2, FS_Subset
  <2> HIDE DEF Upto
  <2>4. Tells(fs, joined[m - 1] \o pieces[m], Upto(m - 1) \cup part[m])
    BY <1>3, <2>2, <2>3, TellsTogether
  <2>5. joined[m] = joined[m - 1] \o pieces[m]
    BY <1>1
  <2> QED
    BY <2>1, <2>4, <2>5
<1>4. Bad = {}
  <2> SUFFICES ASSUME Bad # {} PROVE FALSE
    OBVIOUS
  <2>1. PICK m \in Bad : \A q \in Bad : m <= q
    <3>1. Bad \in SUBSET Nat
      OBVIOUS
    <3> HIDE DEF Bad
    <3> QED
      BY <3>1, SmallestNumber
  <2>2. m \in 0 .. L /\ ~P(m)
    BY DEF Bad
  <2> HIDE DEF P
  <2>3. m \in 1 .. L /\ m - 1 \in 0 .. L /\ ~(m <= m - 1)
    <3>1. m # 0
      BY <1>2, <2>2
    <3> QED
      BY <2>2, <3>1
  <2>4. P(m - 1)
    BY <2>1, <2>3 DEF Bad
  <2> QED
    BY <1>3, <2>2, <2>3, <2>4
<1> HIDE DEF P
<1>5. ASSUME ~P(L) PROVE FALSE
  <2>1. L \in Bad
    BY <1>5
  <2> QED
    BY <1>4, <2>1
<1> QED
  BY <1>1, <1>5 DEF P

\* The recursion of Lines over the rows has a solution, built from the last row to the first.
Inner(rs, text, i) ==
    LET children == ChildrenOf(rs, i) IN Concat([n \in DOMAIN children |-> text[children[n]]])
Renders(rs, fs, text, ids) == text = [i \in ids |-> Block(rs, fs, i, Inner(rs, text, i))]

LEMMA ChildrenAreLater ==
    ASSUME NEW rs, NEW N, RowsOf(rs, N), NEW i
    PROVE  \A n \in DOMAIN ChildrenOf(rs, i) :
              /\ ChildrenOf(rs, i)[n] \in DOMAIN rs /\ rs[ChildrenOf(rs, i)[n]].parent = i
              /\ i < ChildrenOf(rs, i)[n]
<1> DEFINE children == ChildrenOf(rs, i)
<1>1. Enumerates(children, Below(rs, i))
  BY ChildrenEnumerated
<1> HIDE DEF children
<1>2. \A n \in DOMAIN children : children[n] \in Below(rs, i)
  BY <1>1 DEF Enumerates
<1>3. \A k \in Below(rs, i) : k \in DOMAIN rs /\ rs[k].parent = i /\ i < k
  BY DEF Below, RowsOf
<1> QED
  BY <1>2, <1>3 DEF children

LEMMA InnerDepends ==
    ASSUME NEW rs, NEW i, NEW f, NEW g,
           \A n \in DOMAIN ChildrenOf(rs, i) : f[ChildrenOf(rs, i)[n]] = g[ChildrenOf(rs, i)[n]]
    PROVE  Inner(rs, f, i) = Inner(rs, g, i)
<1> DEFINE children == ChildrenOf(rs, i)
<1>1. [n \in DOMAIN children |-> f[children[n]]] = [n \in DOMAIN children |-> g[children[n]]]
  <2>1. \A n \in DOMAIN children : f[children[n]] = g[children[n]]
    OBVIOUS
  <2> HIDE DEF children
  <2> QED
    BY <2>1
<1> QED
  BY <1>1 DEF Inner

LEMMA RendersExist ==
    ASSUME NEW rs, NEW N, RowsOf(rs, N), NEW fs
    PROVE  \E text : Renders(rs, fs, text, DOMAIN rs)
<1> DEFINE Late(m) == {i \in DOMAIN rs : N - m < i}
           P(m) == \E text : Renders(rs, fs, text, Late(m))
           Bad == {m \in 0 .. N : ~P(m)}
<1>0. N \in Nat /\ DOMAIN rs \subseteq 1 .. N /\ DOMAIN rs \subseteq Nat
  BY DEF RowsOf
<1>1. P(0)
  <2> DEFINE text == [i \in {} |-> <<>>]
  <2>1. Late(0) = {}
    BY <1>0
  <2>2. Renders(rs, fs, text, {})
    BY DEF Renders
  <2> HIDE DEF text, Late
  <2> QED
    BY <2>1, <2>2
<1>2. ASSUME NEW m \in 1 .. N, P(m - 1) PROVE P(m)
  <2>1. PICK f : Renders(rs, fs, f, Late(m - 1))
    BY <1>2
  <2> DEFINE new == N - m + 1
             text == [i \in Late(m) |-> IF i = new THEN Block(rs, fs, i, Inner(rs, f, i)) ELSE f[i]]
  <2>2. \A i \in Late(m) : i # new => i \in Late(m - 1)
    BY <1>0
  <2>3. \A i \in Late(m - 1) : f[i] = Block(rs, fs, i, Inner(rs, f, i))
    BY <2>1 DEF Renders
  <2>4. ASSUME NEW i \in Late(m) PROVE Inner(rs, text, i) = Inner(rs, f, i)
    <3>1. ASSUME NEW k \in DOMAIN rs, i < k PROVE text[k] = f[k]
      <4>1. k \in Late(m) /\ k # new
        BY <1>0, <3>1
      <4> HIDE DEF new
      <4> QED
        BY <4>1
    <3> HIDE DEF text, Late
    <3>2. \A n \in DOMAIN ChildrenOf(rs, i) : text[ChildrenOf(rs, i)[n]] = f[ChildrenOf(rs, i)[n]]
      BY <3>1, ChildrenAreLater
    <3> QED
      BY <3>2, InnerDepends
  <2>5. ASSUME NEW i \in Late(m) PROVE text[i] = Block(rs, fs, i, Inner(rs, text, i))
    <3>1. text[i] = Block(rs, fs, i, Inner(rs, f, i))
      <4> HIDE DEF new, Late
      <4> QED
        BY <2>2, <2>3
    <3> HIDE DEF text, Late
    <3> QED
      BY <2>4, <3>1
  <2>6. text = [i \in Late(m) |-> text[i]]
    OBVIOUS
  <2> HIDE DEF text, Late
  <2>7. Renders(rs, fs, text, Late(m))
    BY <2>5, <2>6 DEF Renders
  <2> QED
    BY <2>7
<1>3. Bad = {}
  <2> SUFFICES ASSUME Bad # {} PROVE FALSE
    OBVIOUS
  <2>1. PICK m \in Bad : \A q \in Bad : m <= q
    <3>1. Bad \in SUBSET Nat
      OBVIOUS
    <3> HIDE DEF Bad
    <3> QED
      BY <3>1, SmallestNumber
  <2>2. m \in 0 .. N /\ ~P(m)
    BY DEF Bad
  <2> HIDE DEF P
  <2>3. m \in 1 .. N /\ m - 1 \in 0 .. N /\ ~(m <= m - 1)
    <3>1. m # 0
      BY <1>1, <2>2
    <3> QED
      BY <1>0, <2>2, <3>1
  <2>4. P(m - 1)
    BY <2>1, <2>3 DEF Bad
  <2> QED
    BY <1>2, <2>2, <2>3, <2>4
<1> HIDE DEF P
<1>4. ASSUME ~P(N) PROVE FALSE
  <2>1. N \in Bad
    BY <1>0, <1>4
  <2> QED
    BY <1>3, <2>1
<1>5. Late(N) = DOMAIN rs
  BY <1>0
<1> HIDE DEF Late
<1> QED
  BY <1>4, <1>5 DEF P

\* The text is that of the rows without parent, each row's text being its own lines around
\* the text of its children.
LEMMA LinesRule ==
    ASSUME NEW rs, NEW N, RowsOf(rs, N), NEW fs
    PROVE  \E text : /\ Lines(rs, fs) = Inner(rs, text, 0)
                     /\ \A i \in DOMAIN rs : text[i] = Block(rs, fs, i, Inner(rs, text, i))
<1> DEFINE Eq(f) == [i \in DOMAIN rs |->
                        Block(rs, fs, i, LET children == ChildrenOf(rs, i)
                                         IN  Concat([n \in DOMAIN children |-> f[children[n]]]))]
           Render == CHOOSE f : f = Eq(f)
<1>1. Lines(rs, fs) = LET roots == ChildrenOf(rs, 0) IN Concat([n \in DOMAIN roots |-> Render[roots[n]]])
  BY DEF Lines
<1>2. PICK g : Renders(rs, fs, g, DOMAIN rs)
  BY RendersExist
<1>3. g = Eq(g)
  BY <1>2 DEF Renders, Inner
<1>4. Render = Eq(Render)
  <2> HIDE DEF Eq
  <2> QED
    BY <1>3
<1> HIDE DEF Render
<1>5. \A i \in DOMAIN rs : Render[i] = Block(rs, fs, i, Inner(rs, Render, i))
  <2>1. \A i \in DOMAIN rs : Eq(Render)[i] = Block(rs, fs, i, Inner(rs, Render, i))
    BY DEF Inner
  <2> HIDE DEF Eq
  <2> QED
    BY <1>4, <2>1
<1>6. Lines(rs, fs) = Inner(rs, Render, 0)
  BY <1>1 DEF Inner
<1> QED
  BY <1>5, <1>6

\* When the children's texts tell what is under them, together they tell what is below.
LEMMA InnerTells ==
    ASSUME NEW rs, NEW N, RowsOf(rs, N), NEW fs, NEW M, FieldRows(fs, M), NEW text, NEW i,
           \A k \in Below(rs, i) : Tells(fs, text[k], Under(rs, k))
    PROVE  Tells(fs, Inner(rs, text, i), UNION {Under(rs, k) : k \in Below(rs, i)})
<1> DEFINE children == ChildrenOf(rs, i)
           L == Cardinality(Below(rs, i))
           pieces == [n \in DOMAIN children |-> text[children[n]]]
           part == [n \in 1 .. L |-> Under(rs, children[n])]
<1>1. Enumerates(children, Below(rs, i))
  BY ChildrenEnumerated
<1> HIDE DEF children
<1>2. /\ L \in Nat /\ DOMAIN children = 1 .. L /\ \A n \in 1 .. L : children[n] \in Below(rs, i)
      /\ \A m, n \in 1 .. L : children[m] = children[n] => m = n
      /\ \A k \in Below(rs, i) : \E n \in 1 .. L : children[n] = k
  BY <1>1 DEF Enumerates
<1>3. \A k \in Below(rs, i) : k \in DOMAIN rs /\ rs[k].parent = i
  BY DEF Below
<1> HIDE DEF L
<1>4. Len(pieces) = L
  <2>1. DOMAIN pieces = 1 .. L
    BY <1>2
  <2>2. pieces \in Seq({text[children[n]] : n \in 1 .. L})
    BY <1>2
  <2> HIDE DEF pieces
  <2> QED
    BY <1>2, <2>1, <2>2
<1>5. part \in [1 .. L -> SUBSET DOMAIN rs]
  <2>1. \A k : Under(rs, k) \subseteq DOMAIN rs
    BY DEF Under
  <2> QED
    BY <2>1
<1>6. ASSUME NEW m \in 1 .. L, NEW n \in 1 .. L, m # n PROVE part[m] \cap part[n] = {}
  <2>1. children[m] # children[n]
    BY <1>2, <1>6
  <2> QED
    BY <1>2, <1>3, <2>1, UnderDisjoint
<1>7. \A n \in 1 .. L : Tells(fs, pieces[n], part[n])
  BY <1>2
<1>8. UNION {part[n] : n \in 1 .. L} = UNION {Under(rs, k) : k \in Below(rs, i)}
  BY <1>2
<1>9. Inner(rs, text, i) = Concat(pieces)
  BY DEF Inner, children
<1>10. IsFiniteSet(DOMAIN rs) /\ \A m, n \in 1 .. L : m # n => part[m] \cap part[n] = {}
  BY <1>6, FiniteRows
<1> HIDE DEF pieces, part
<1>11. Tells(fs, Concat(pieces), UNION {part[n] : n \in 1 .. L})
  BY <1>2, <1>4, <1>5, <1>7, <1>10, ConcatTells
<1> QED
  BY <1>8, <1>9, <1>11

\* Each row's text tells the row and all that is under it.
LEMMA RowsTell ==
    ASSUME NEW rs, NEW N, RowsOf(rs, N), NEW fs, NEW M, FieldRows(fs, M), NEW text,
           \A i \in DOMAIN rs : text[i] = Block(rs, fs, i, Inner(rs, text, i))
    PROVE  \A i \in DOMAIN rs : Tells(fs, text[i], Under(rs, i))
<1> DEFINE P(i) == Tells(fs, text[i], Under(rs, i))
           Bad == {d \in 0 .. N : N - d \in DOMAIN rs /\ ~P(N - d)}
<1>0. N \in Nat /\ DOMAIN rs \subseteq 1 .. N /\ DOMAIN rs \subseteq Nat
  BY DEF RowsOf
<1>1. ASSUME NEW i \in DOMAIN rs, \A k \in DOMAIN rs : i < k => P(k) PROVE P(i)
  <2> DEFINE U == UNION {Under(rs, k) : k \in Below(rs, i)}
             inner == Inner(rs, text, i)
  <2>1. \A k \in Below(rs, i) : k \in DOMAIN rs /\ i < k
    BY DEF Below, RowsOf
  <2>2. Tells(fs, inner, U)
    BY <1>1, <2>1, InnerTells
  <2>3. Under(rs, i) = {i} \cup U /\ i \notin U
    BY UnderSplits
  <2>4. IsFiniteSet({i}) /\ IsFiniteSet(U)
    <3>1. U \subseteq DOMAIN rs
      BY DEF Under
    <3> HIDE DEF U
    <3> QED
      BY <3>1, FiniteRows, FS_Subset, FS_Singleton
  <2> HIDE DEF U, inner
  <2>5. inner \in Seq(Tokens) /\ \A kind \in Kinds : Count(inner, kind) = Amount(fs, U, kind)
    BY <2>2 DEF Tells
  <2>6. /\ Block(rs, fs, i, inner) \in Seq(Tokens)
        /\ \A kind \in Kinds :
              Count(Block(rs, fs, i, inner), kind) = Own(fs, i, kind) + Count(inner, kind)
    BY <2>5, BlockCounts
  <2>7. {i} \cap U = {}
    BY <2>3
  <2>8. \A kind \in Kinds : Amount(fs, {i} \cup U, kind) = Own(fs, i, kind) + Amount(fs, U, kind)
    BY <2>4, <2>7, AmountAdds, AmountOfRow
  <2>9. text[i] = Block(rs, fs, i, inner)
    BY DEF inner
  <2> QED
    BY <2>3, <2>5, <2>6, <2>8, <2>9 DEF Tells
<1> HIDE DEF P
<1>2. Bad = {}
  <2> SUFFICES ASSUME Bad # {} PROVE FALSE
    OBVIOUS
  <2>1. PICK d \in Bad : \A q \in Bad : d <= q
    <3>1. Bad \in SUBSET Nat
      OBVIOUS
    <3> HIDE DEF Bad
    <3> QED
      BY <3>1, SmallestNumber
  <2>2. d \in 0 .. N /\ N - d \in DOMAIN rs /\ ~P(N - d)
    OBVIOUS
  <2>3. ASSUME NEW k \in DOMAIN rs, N - d < k, ~P(k) PROVE FALSE
    <3>1. N - k \in 0 .. N /\ N - (N - k) = k /\ ~(d <= N - k)
      BY <1>0, <2>2, <2>3
    <3>2. N - k \in Bad
      BY <2>3, <3>1
    <3> QED
      BY <2>1, <3>1, <3>2
  <2> QED
    BY <1>1, <2>2, <2>3
<1>3. ASSUME NEW i \in DOMAIN rs, ~P(i) PROVE FALSE
  <2>1. N - i \in 0 .. N /\ N - (N - i) = i
    BY <1>0
  <2>2. N - i \in Bad
    BY <1>3, <2>1
  <2> QED
    BY <1>2, <2>2
<1> QED
  BY <1>3 DEF P

\* Text of rows whose parents and sequences are there tells all of them.
LEMMA LinesTell ==
    ASSUME NEW rs, NEW N, RowsOf(rs, N), NEW fs, NEW M, FieldRows(fs, M), Placed(rs, fs)
    PROVE  Tells(fs, Lines(rs, fs), DOMAIN rs)
<1>1. PICK text : /\ Lines(rs, fs) = Inner(rs, text, 0)
                  /\ \A i \in DOMAIN rs : text[i] = Block(rs, fs, i, Inner(rs, text, i))
  BY LinesRule
<1>2. \A i \in DOMAIN rs : Tells(fs, text[i], Under(rs, i))
  BY <1>1, RowsTell
<1>3. \A k \in DOMAIN rs : rs[k].parent \in DOMAIN rs \cup {0}
  BY DEF Placed, IsBelow, MayHaveParent
<1>4. DOMAIN rs = UNION {Under(rs, k) : k \in Below(rs, 0)}
  BY <1>3, UnderCovers
<1>5. \A k \in Below(rs, 0) : Tells(fs, text[k], Under(rs, k))
  BY <1>2 DEF Below
<1>6. Tells(fs, Inner(rs, text, 0), UNION {Under(rs, k) : k \in Below(rs, 0)})
  BY <1>5, InnerTells
<1> QED
  BY <1>1, <1>4, <1>6

\* However edits race, a text that passes the composer's checks opens and closes every
\* occurrence of the draft once and holds every field, whatever the configuration and
\* however many rows there are.
THEOREM PassingTextsAreComplete == StructureSpec => []PassingTextIsComplete
<1>1. ASSUME Typed, Passes(occurrence, field)
      PROVE  Tells(field, Lines(occurrence, field), DOMAIN occurrence)
  <2>1. Placed(occurrence, field)
    BY <1>1 DEF Passes
  <2>2. RowsOf(occurrence, made.seqs)
    BY <1>1, <2>1, PlacedRows
  <2>3. FieldRows(field, made.fields)
    BY <1>1, Configured DEF Typed, StructureTypeOK, FieldRow, FieldIds, FieldRows
  <2> QED
    BY <2>1, <2>2, <2>3, LinesTell
<1>2. Typed => PassingTextIsComplete
  <2> SUFFICES ASSUME Typed, Passes(occurrence, field) PROVE PassingTextIsComplete
    BY DEF PassingTextIsComplete
  <2> DEFINE lines == Lines(occurrence, field)
  <2>1. \A kind \in Kinds : Count(lines, kind) = Amount(field, DOMAIN occurrence, kind)
    BY <1>1 DEF Tells
  <2>2. "16R" \in Kinds /\ "16S" \in Kinds /\ "field" \in Kinds
    BY DEF Kinds
  <2>3. Share(field, DOMAIN occurrence, "field") = DOMAIN field
    BY DEF Share, Passes, Placed
  <2>4. Share(field, DOMAIN occurrence, "16R") = DOMAIN occurrence
        /\ Share(field, DOMAIN occurrence, "16S") = DOMAIN occurrence
    BY DEF Share
  <2>5. /\ Count(lines, "16R") = Cardinality(DOMAIN occurrence)
        /\ Count(lines, "16S") = Cardinality(DOMAIN occurrence)
        /\ Count(lines, "field") = Cardinality(DOMAIN field)
    BY <2>1, <2>2, <2>3, <2>4 DEF Amount
  <2> QED
    BY <2>5 DEF PassingTextIsComplete, Count, At
<1>3. StructureInit => Typed
  BY InitTyped
<1>4. Typed /\ [StructureNext]_structureVars => Typed'
  BY StepTyped
<1> QED
  BY <1>2, <1>3, <1>4, PTL DEF StructureSpec

(***************************************************************************)
(* Reading the text back.  The rows of a text, in the order in which the   *)
(* text opens them, are numbered along each path; the parser finds these   *)
(* numbers.  A run of the parser is followed by r, its states, and by a,   *)
(* which marks each opening with its address and the one around it.        *)
(***************************************************************************)
Address == [path : Paths, occ : Nat]
Around == Address \cup {NoPath}
Mark == [path : Paths, occ : Nat, above : Around]
Found == [path : Paths, occ : Nat, value : Values]
ParserStates == [stack : Seq(Address), counts : [Paths -> Nat], fields : Seq(Found)]
Top(stack) == IF stack = <<>> THEN NoPath ELSE Last(stack)
Noted(state, token) ==
    IF token.kind # "16R" THEN <<>>
    ELSE <<[path |-> token.path, occ |-> state.counts[token.path] + 1, above |-> Top(state.stack)]>>
TokenRead(s, a, t, b, token) == t = ReadToken(s, token) /\ b = a \o Noted(s, token)
Reads(r, a, t, o) ==
    \A n \in 1 .. Len(t) : TokenRead(r[o + n - 1], a[o + n - 1], r[o + n], a[o + n], t[n])

LEMMA Pushed ==
    ASSUME NEW T, NEW s \in Seq(T), NEW x \in T
    PROVE  /\ Append(s, x) \in Seq(T) /\ Append(s, x) # <<>>
           /\ Front(Append(s, x)) = s /\ Last(Append(s, x)) = x
<1>1. /\ Append(s, x) \in Seq(T) /\ Len(Append(s, x)) = Len(s) + 1 /\ Len(s) \in Nat
      /\ Append(s, x)[Len(s) + 1] = x
  OBVIOUS
<1>2. Append(s, x) # <<>>
  BY <1>1
<1>3. Last(Append(s, x)) = x
  BY <1>1 DEF Last
<1>4. Front(Append(s, x)) = s
  BY <1>1 DEF Front
<1> QED
  BY <1>1, <1>2, <1>3, <1>4

\* A state as its parts.
LEMMA StateParts ==
    ASSUME NEW s
    PROVE  /\ s \in ParserStates =>
                 /\ s = [stack |-> s.stack, counts |-> s.counts, fields |-> s.fields]
                 /\ s.stack \in Seq(Address) /\ s.counts \in [Paths -> Nat] /\ s.fields \in Seq(Found)
           /\ \A k \in Seq(Address), c \in [Paths -> Nat], f \in Seq(Found) :
                 [stack |-> k, counts |-> c, fields |-> f] \in ParserStates
BY DEF ParserStates

\* What the parser makes of each kind of token.
LEMMA OpeningIsRead ==
    ASSUME NEW s \in ParserStates, NEW path \in Paths
    PROVE  LET here == [path |-> path, occ |-> s.counts[path] + 1]
           IN  /\ here \in Address
               /\ [s.counts EXCEPT ![path] = @ + 1] \in [Paths -> Nat]
               /\ ReadToken(s, Token("16R", path, NoPath))
                    = [stack |-> Append(s.stack, here), counts |-> [s.counts EXCEPT ![path] = @ + 1],
                       fields |-> s.fields]
<1> DEFINE here == [path |-> path, occ |-> s.counts[path] + 1]
           counts == [s.counts EXCEPT ![path] = @ + 1]
<1>1. /\ s = [stack |-> s.stack, counts |-> s.counts, fields |-> s.fields]
      /\ s.counts \in [Paths -> Nat]
  BY StateParts
<1>2. here \in Address /\ counts \in [Paths -> Nat] /\ counts[path] = s.counts[path] + 1
  BY <1>1 DEF Address
<1>3. ReadToken(s, Token("16R", path, NoPath))
        = [stack |-> Append(s.stack, [path |-> path, occ |-> counts[path]]), counts |-> counts,
           fields |-> s.fields]
  BY <1>1 DEF ReadToken, Token, Opened
<1> QED
  BY <1>2, <1>3

LEMMA FieldIsRead ==
    ASSUME NEW s \in ParserStates, NEW k \in Seq(Address), NEW here \in Address,
           s.stack = Append(k, here), NEW value \in Values
    PROVE  LET new == [path |-> here.path, occ |-> here.occ, value |-> value]
           IN  /\ new \in Found
               /\ ReadToken(s, Token("field", here.path, value))
                    = [stack |-> s.stack, counts |-> s.counts, fields |-> Append(s.fields, new)]
               /\ ReadToken(s, Token("field", here.path, value)) \in ParserStates
               /\ Noted(s, Token("field", here.path, value)) = <<>>
<1> DEFINE new == [path |-> here.path, occ |-> here.occ, value |-> value]
<1>1. /\ s = [stack |-> s.stack, counts |-> s.counts, fields |-> s.fields]
      /\ s.stack \in Seq(Address) /\ s.counts \in [Paths -> Nat] /\ s.fields \in Seq(Found)
  BY StateParts
<1>2. Last(s.stack) = here /\ Front(s.stack) = k /\ s.stack # <<>>
  BY Pushed
<1>3. new \in Found /\ Append(s.fields, new) \in Seq(Found)
  BY <1>1 DEF Address, Found
<1>4. ReadToken(s, Token("field", here.path, value))
        = [stack |-> s.stack, counts |-> s.counts, fields |-> Append(s.fields, new)]
  BY <1>1, <1>2 DEF ReadToken, Token
<1>5. Noted(s, Token("field", here.path, value)) = <<>>
  BY DEF Noted, Token
<1> HIDE DEF new
<1>7. ReadToken(s, Token("field", here.path, value)) \in ParserStates
  <2>1. PICK f : f = Append(s.fields, new)
    OBVIOUS
  <2>2. f \in Seq(Found)
    BY <1>3, <2>1
  <2>3. [stack |-> s.stack, counts |-> s.counts, fields |-> f] \in ParserStates
    BY <1>1, <2>2, StateParts
  <2> QED
    BY <1>4, <2>1, <2>3
<1> QED
  BY <1>3, <1>4, <1>5, <1>7 DEF new

LEMMA ClosingIsRead ==
    ASSUME NEW s \in ParserStates, NEW k \in Seq(Address), NEW here \in Address,
           s.stack = Append(k, here), NEW path
    PROVE  /\ ReadToken(s, Token("16S", path, NoPath)) = [stack |-> k, counts |-> s.counts, fields |-> s.fields]
           /\ ReadToken(s, Token("16S", path, NoPath)) \in ParserStates
<1>1. /\ s = [stack |-> s.stack, counts |-> s.counts, fields |-> s.fields]
      /\ s.counts \in [Paths -> Nat] /\ s.fields \in Seq(Found)
  BY StateParts
<1>2. Front(s.stack) = k
  BY Pushed
<1>3. ReadToken(s, Token("16S", path, NoPath)) = [stack |-> k, counts |-> s.counts, fields |-> s.fields]
  BY <1>1, <1>2 DEF ReadToken, Token
<1> QED
  BY <1>1, <1>3, StateParts

(***************************************************************************)
(* A piece of the text opens the rows S in an order L, below a row e that  *)
(* is open around it; num is how the parser numbers them.                  *)
(***************************************************************************)
Orders(rs, L, S, e) ==
    /\ L \in Seq(S)
    /\ \A k \in S : \E n \in 1 .. Len(L) : L[n] = k
    /\ \A m, n \in 1 .. Len(L) : L[m] = L[n] => m = n
    /\ \A n \in 1 .. Len(L) : rs[L[n]].parent = e \/ \E m \in 1 .. n - 1 : L[m] = rs[L[n]].parent
    /\ \A m, n \in 1 .. Len(L) :
          rs[L[m]].parent = rs[L[n]].parent /\ ByOccurrence(rs, L[m], L[n]) => m < n

\* The numbers go on from the counts c to the counts d, along each path in the order of L.
Numbers(rs, L, c, d, num) ==
    /\ \A n \in 1 .. Len(L) : num[L[n]] \in c[rs[L[n]].path] + 1 .. d[rs[L[n]].path]
    /\ \A p \in Paths : /\ c[p] <= d[p]
                        /\ \A x \in c[p] + 1 .. d[p] :
                              \E n \in 1 .. Len(L) : rs[L[n]].path = p /\ num[L[n]] = x
    /\ \A m, n \in 1 .. Len(L) : m < n /\ rs[L[m]].path = rs[L[n]].path => num[L[m]] < num[L[n]]

OfPaths(rs, S) == \A k \in S : rs[k].path \in Paths
Agree(z, x, S) == \A k \in S : z[k] = x[k]

\* t is s with the N items after it.
Adds(s, t, N, item) ==
    /\ Len(t) = Len(s) + N
    /\ \A n \in 1 .. Len(s) : t[n] = s[n]
    /\ \A n \in 1 .. N : t[Len(s) + n] = item[n]

LEMMA AddsTogether ==
    ASSUME NEW s, NEW t, NEW u, Len(s) \in Nat, NEW N \in Nat, NEW M \in Nat, NEW Q, Q = N + M,
           NEW x, NEW y, NEW z, Adds(s, t, N, x), Adds(t, u, M, y),
           \A n \in 1 .. N : z[n] = x[n], \A n \in 1 .. M : z[N + n] = y[n]
    PROVE  Adds(s, u, Q, z)
<1>1. Len(t) = Len(s) + N /\ Len(u) = Len(s) + N + M
  BY DEF Adds
<1>2. ASSUME NEW n \in 1 .. Len(s) PROVE u[n] = s[n]
  <2>1. n \in 1 .. Len(t)
    BY <1>1
  <2> QED
    BY <2>1 DEF Adds
<1>3. ASSUME NEW n \in 1 .. N + M PROVE u[Len(s) + n] = z[n]
  <2>1. CASE n <= N
    <3>1. n \in 1 .. N /\ Len(s) + n \in 1 .. Len(t)
      BY <1>1, <2>1
    <3> QED
      BY <3>1 DEF Adds
  <2>2. CASE ~(n <= N)
    <3>1. n - N \in 1 .. M /\ Len(t) + (n - N) = Len(s) + n /\ N + (n - N) = n
      BY <1>1, <2>2
    <3>2. u[Len(t) + (n - N)] = y[n - N] /\ z[N + (n - N)] = y[n - N]
      BY <3>1 DEF Adds
    <3> QED
      BY <3>1, <3>2
  <2> QED
    BY <2>1, <2>2
<1> QED
  BY <1>1, <1>2, <1>3 DEF Adds

\* A is L followed by K: a place in A is one of L or one of K.
Follows(A, L, S, K, T) ==
    /\ A \in Seq(S \cup T) /\ Len(A) = Len(L) + Len(K)
    /\ Len(L) \in Nat /\ Len(K) \in Nat
    /\ \A n \in 1 .. Len(L) : A[n] = L[n] /\ L[n] \in S
    /\ \A n \in 1 .. Len(K) : A[Len(L) + n] = K[n] /\ K[n] \in T
    /\ \A n \in 1 .. Len(A) : n \in 1 .. Len(L) \/ \E j \in 1 .. Len(K) : n = Len(L) + j

LEMMA Places ==
    ASSUME NEW S, NEW T, NEW L \in Seq(S), NEW K \in Seq(T)
    PROVE  Follows(L \o K, L, S, K, T)
<1> PICK A : A = L \o K
  OBVIOUS
<1>1. /\ Len(L) \in Nat /\ Len(K) \in Nat /\ Len(A) = Len(L) + Len(K)
      /\ \A n \in 1 .. Len(L) : A[n] = L[n] /\ L[n] \in S
      /\ \A n \in 1 .. Len(K) : A[Len(L) + n] = K[n] /\ K[n] \in T
  OBVIOUS
<1>2. A \in Seq(S \cup T)
  <2>1. L \in Seq(S \cup T) /\ K \in Seq(S \cup T)
    OBVIOUS
  <2> QED
    BY <2>1
<1>3. ASSUME NEW n \in 1 .. Len(A), n \notin 1 .. Len(L)
      PROVE  \E j \in 1 .. Len(K) : n = Len(L) + j
  <2>1. n - Len(L) \in 1 .. Len(K) /\ n = Len(L) + (n - Len(L))
    BY <1>1, <1>3
  <2> QED
    BY <2>1
<1> QED
  BY <1>1, <1>2, <1>3 DEF Follows

LEMMA OrdersTogether ==
    ASSUME NEW rs, NEW S, NEW T, NEW L, NEW K, NEW e, NEW f, Orders(rs, L, S, e), Orders(rs, K, T, f),
           S \cap T = {}, f = e \/ f \in S,
           \A i \in S, k \in T : rs[k].parent = rs[i].parent => ~ByOccurrence(rs, k, i)
    PROVE  Orders(rs, L \o K, S \cup T, e)
<1> PICK A : A = L \o K
  OBVIOUS
<1>0. L \in Seq(S) /\ K \in Seq(T)
  BY DEF Orders
<1>1. /\ A \in Seq(S \cup T) /\ Len(A) = Len(L) + Len(K) /\ Len(L) \in Nat /\ Len(K) \in Nat
      /\ \A n \in 1 .. Len(L) : A[n] = L[n] /\ L[n] \in S
      /\ \A n \in 1 .. Len(K) : A[Len(L) + n] = K[n] /\ K[n] \in T
      /\ \A n \in 1 .. Len(A) : n \in 1 .. Len(L) \/ \E j \in 1 .. Len(K) : n = Len(L) + j
  <2>1. Follows(A, L, S, K, T)
    BY <1>0, Places
  <2> QED
    BY <2>1 DEF Follows
<1>2. ASSUME NEW k \in S \cup T PROVE \E n \in 1 .. Len(A) : A[n] = k
  <2>1. CASE k \in S
    <3>1. PICK n \in 1 .. Len(L) : L[n] = k
      BY <2>1 DEF Orders
    <3> QED
      BY <1>1, <3>1
  <2>2. CASE k \in T
    <3>1. PICK n \in 1 .. Len(K) : K[n] = k
      BY <2>2 DEF Orders
    <3>2. Len(L) + n \in 1 .. Len(A)
      BY <1>1
    <3> QED
      BY <1>1, <3>1, <3>2
  <2> QED
    BY <2>1, <2>2
<1>3. ASSUME NEW m \in 1 .. Len(A), NEW n \in 1 .. Len(A), A[m] = A[n] PROVE m = n
  <2>1. CASE m \in 1 .. Len(L) /\ n \in 1 .. Len(L)
    BY <1>1, <1>3, <2>1 DEF Orders
  <2>2. CASE m \in 1 .. Len(L) /\ n \notin 1 .. Len(L)
    BY <1>1, <1>3, <2>2
  <2>3. CASE m \notin 1 .. Len(L) /\ n \in 1 .. Len(L)
    BY <1>1, <1>3, <2>3
  <2>4. CASE m \notin 1 .. Len(L) /\ n \notin 1 .. Len(L)
    <3>1. PICK x \in 1 .. Len(K), y \in 1 .. Len(K) : m = Len(L) + x /\ n = Len(L) + y
      BY <1>1, <2>4
    <3>2. K[x] = K[y]
      BY <1>1, <1>3, <3>1
    <3> QED
      BY <3>1, <3>2 DEF Orders
  <2> QED
    BY <2>1, <2>2, <2>3, <2>4
<1>4. ASSUME NEW n \in 1 .. Len(A) PROVE rs[A[n]].parent = e \/ \E m \in 1 .. n - 1 : A[m] = rs[A[n]].parent
  <2>1. CASE n \in 1 .. Len(L)
    <3>1. rs[L[n]].parent = e \/ \E m \in 1 .. n - 1 : L[m] = rs[L[n]].parent
      BY <2>1 DEF Orders
    <3>2. \A m \in 1 .. n - 1 : m \in 1 .. Len(L)
      BY <1>1, <2>1
    <3> QED
      BY <1>1, <2>1, <3>1, <3>2
  <2>2. CASE n \notin 1 .. Len(L)
    <3>1. PICK j \in 1 .. Len(K) : n = Len(L) + j
      BY <1>1, <2>2
    <3>2. A[n] = K[j]
      BY <1>1, <3>1
    <3>3. rs[K[j]].parent = f \/ \E m \in 1 .. j - 1 : K[m] = rs[K[j]].parent
      BY DEF Orders
    <3>4. CASE rs[K[j]].parent = e
      BY <3>2, <3>4
    <3>5. CASE rs[K[j]].parent = f /\ f \in S
      <4>1. PICK m \in 1 .. Len(L) : L[m] = f
        BY <3>5 DEF Orders
      <4>2. m \in 1 .. n - 1 /\ A[m] = f
        BY <1>1, <3>1, <4>1
      <4> QED
        BY <3>2, <3>5, <4>2
    <3>6. ASSUME NEW m \in 1 .. j - 1, K[m] = rs[K[j]].parent
          PROVE  \E x \in 1 .. n - 1 : A[x] = rs[A[n]].parent
      <4>1. m \in 1 .. Len(K) /\ Len(L) + m \in 1 .. n - 1
        BY <1>1, <3>1
      <4>2. A[Len(L) + m] = K[m]
        BY <1>1, <4>1
      <4> QED
        BY <3>2, <3>6, <4>1, <4>2
    <3>7. ASSUME NEW m \in 1 .. j - 1, K[m] = rs[K[j]].parent
          PROVE  rs[A[n]].parent = e \/ \E x \in 1 .. n - 1 : A[x] = rs[A[n]].parent
      BY <3>6, <3>7
    <3>8. f = e \/ f \in S
      OBVIOUS
    <3>9. CASE rs[K[j]].parent = f
      BY <3>4, <3>5, <3>8, <3>9
    <3> QED
      BY <3>3, <3>7, <3>9
  <2> QED
    BY <2>1, <2>2
<1>5. ASSUME NEW m \in 1 .. Len(A), NEW n \in 1 .. Len(A),
             rs[A[m]].parent = rs[A[n]].parent, ByOccurrence(rs, A[m], A[n])
      PROVE  m < n
  <2>1. CASE m \in 1 .. Len(L) /\ n \in 1 .. Len(L)
    <3>1. A[m] = L[m] /\ A[n] = L[n]
      BY <1>1, <2>1
    <3>2. rs[L[m]].parent = rs[L[n]].parent /\ ByOccurrence(rs, L[m], L[n])
      BY <1>5, <3>1
    <3> QED
      BY <2>1, <3>2 DEF Orders
  <2>2. CASE m \in 1 .. Len(L) /\ n \notin 1 .. Len(L)
    BY <1>1, <2>2
  <2>3. CASE m \notin 1 .. Len(L) /\ n \in 1 .. Len(L)
    <3>1. A[m] \in T /\ A[n] \in S
      BY <1>1, <2>3
    <3> QED
      BY <1>5, <3>1
  <2>4. CASE m \notin 1 .. Len(L) /\ n \notin 1 .. Len(L)
    <3>1. PICK x \in 1 .. Len(K), y \in 1 .. Len(K) : m = Len(L) + x /\ n = Len(L) + y
      BY <1>1, <2>4
    <3>2. A[m] = K[x] /\ A[n] = K[y]
      BY <1>1, <3>1
    <3>3. rs[K[x]].parent = rs[K[y]].parent /\ ByOccurrence(rs, K[x], K[y])
      BY <1>5, <3>2
    <3>4. x < y
      BY <3>3 DEF Orders
    <3> QED
      BY <1>1, <3>1, <3>4
  <2> QED
    BY <2>1, <2>2, <2>3, <2>4
<1>6. Orders(rs, A, S \cup T, e)
  BY <1>1, <1>2, <1>3, <1>4, <1>5 DEF Orders
<1> QED
  BY <1>6

LEMMA NumbersTogether ==
    ASSUME NEW rs, NEW S, NEW T, NEW L, NEW K, NEW A, Follows(A, L, S, K, T),
           NEW c \in [Paths -> Nat], NEW d \in [Paths -> Nat], NEW e \in [Paths -> Nat],
           NEW x, NEW y, NEW z, OfPaths(rs, S), OfPaths(rs, T),
           Numbers(rs, L, c, d, x), Numbers(rs, K, d, e, y),
           Agree(z, x, S), Agree(z, y, T)
    PROVE  Numbers(rs, A, c, e, z)
<1>1. /\ Len(A) = Len(L) + Len(K) /\ Len(L) \in Nat /\ Len(K) \in Nat
      /\ \A n \in 1 .. Len(L) : A[n] = L[n] /\ L[n] \in S
      /\ \A n \in 1 .. Len(K) : A[Len(L) + n] = K[n] /\ K[n] \in T
      /\ \A n \in 1 .. Len(A) : n \in 1 .. Len(L) \/ \E j \in 1 .. Len(K) : n = Len(L) + j
  BY DEF Follows
<1>0. (\A k \in S : z[k] = x[k]) /\ (\A k \in T : z[k] = y[k])
  BY DEF Agree
<1>2. \A p \in Paths : c[p] \in Nat /\ d[p] \in Nat /\ e[p] \in Nat /\ c[p] <= d[p] /\ d[p] <= e[p]
  BY DEF Numbers
<1>3. ASSUME NEW n \in 1 .. Len(L) PROVE z[A[n]] \in c[rs[A[n]].path] + 1 .. d[rs[A[n]].path]
  <2>1. A[n] = L[n] /\ z[L[n]] = x[L[n]]
    BY <1>0, <1>1
  <2>2. x[L[n]] \in c[rs[L[n]].path] + 1 .. d[rs[L[n]].path]
    BY DEF Numbers
  <2> QED
    BY <2>1, <2>2
<1>4. ASSUME NEW n \in 1 .. Len(K)
      PROVE  z[A[Len(L) + n]] \in d[rs[A[Len(L) + n]].path] + 1 .. e[rs[A[Len(L) + n]].path]
  <2>1. A[Len(L) + n] = K[n] /\ z[K[n]] = y[K[n]]
    BY <1>0, <1>1
  <2>2. y[K[n]] \in d[rs[K[n]].path] + 1 .. e[rs[K[n]].path]
    BY DEF Numbers
  <2> QED
    BY <2>1, <2>2
<1>5. ASSUME NEW n \in 1 .. Len(A)
      PROVE  rs[A[n]].path \in Paths /\ z[A[n]] \in c[rs[A[n]].path] + 1 .. e[rs[A[n]].path]
  <2>1. A[n] \in S \/ A[n] \in T
    BY <1>1
  <2>2. PICK p : p = rs[A[n]].path
    OBVIOUS
  <2>3. p \in Paths
    BY <2>1, <2>2 DEF OfPaths
  <2>4. z[A[n]] \in c[p] + 1 .. d[p] \/ z[A[n]] \in d[p] + 1 .. e[p]
    BY <1>1, <1>3, <1>4, <2>2
  <2>5. z[A[n]] \in c[p] + 1 .. e[p]
    BY <1>2, <2>3, <2>4
  <2> QED
    BY <2>2, <2>3, <2>5
<1>6. ASSUME NEW p \in Paths, NEW v \in c[p] + 1 .. e[p]
      PROVE  \E n \in 1 .. Len(A) : rs[A[n]].path = p /\ z[A[n]] = v
  <2>1. CASE v \in c[p] + 1 .. d[p]
    <3>1. PICK n \in 1 .. Len(L) : rs[L[n]].path = p /\ x[L[n]] = v
      BY <2>1 DEF Numbers
    <3>2. n \in 1 .. Len(A) /\ A[n] = L[n] /\ z[L[n]] = x[L[n]]
      BY <1>0, <1>1
    <3> QED
      BY <3>1, <3>2
  <2>2. CASE v \in d[p] + 1 .. e[p]
    <3>1. PICK n \in 1 .. Len(K) : rs[K[n]].path = p /\ y[K[n]] = v
      BY <2>2 DEF Numbers
    <3>2. Len(L) + n \in 1 .. Len(A) /\ A[Len(L) + n] = K[n] /\ z[K[n]] = y[K[n]]
      BY <1>0, <1>1
    <3> QED
      BY <3>1, <3>2
  <2>3. c[p] \in Nat /\ d[p] \in Nat /\ e[p] \in Nat
    OBVIOUS
  <2>4. v \in c[p] + 1 .. d[p] \/ v \in d[p] + 1 .. e[p]
    BY <2>3
  <2> QED
    BY <2>1, <2>2, <2>4
<1>7. ASSUME NEW m \in 1 .. Len(A), NEW n \in 1 .. Len(A), m < n, rs[A[m]].path = rs[A[n]].path
      PROVE  z[A[m]] < z[A[n]]
  <2>1. CASE m \in 1 .. Len(L) /\ n \in 1 .. Len(L)
    <3>1. A[m] = L[m] /\ A[n] = L[n] /\ z[L[m]] = x[L[m]] /\ z[L[n]] = x[L[n]]
      BY <1>0, <1>1, <2>1
    <3>2. x[L[m]] < x[L[n]]
      BY <1>7, <2>1, <3>1 DEF Numbers
    <3> QED
      BY <3>1, <3>2
  <2>2. CASE m \in 1 .. Len(L) /\ n \notin 1 .. Len(L)
    <3>1. PICK j \in 1 .. Len(K) : n = Len(L) + j
      BY <1>1, <2>2
    <3>2. z[A[m]] \in c[rs[A[m]].path] + 1 .. d[rs[A[m]].path]
      BY <1>3, <2>2
    <3>3. z[A[n]] \in d[rs[A[n]].path] + 1 .. e[rs[A[n]].path]
      BY <1>4, <3>1
    <3>4. rs[A[m]].path \in Paths
      BY <1>5
    <3>5. PICK p : p = rs[A[n]].path
      OBVIOUS
    <3>6. z[A[m]] \in c[p] + 1 .. d[p] /\ z[A[n]] \in d[p] + 1 .. e[p]
      BY <1>7, <3>2, <3>3, <3>5
    <3>7. c[p] \in Nat /\ d[p] \in Nat /\ e[p] \in Nat
      BY <1>2, <1>7, <3>4, <3>5
    <3>8. \A u, v, q, r, s : q \in Nat /\ r \in Nat /\ s \in Nat /\ u \in q + 1 .. r /\ v \in r + 1 .. s => u < v
      OBVIOUS
    <3> QED
      BY <3>6, <3>7, <3>8
  <2>3. CASE m \notin 1 .. Len(L) /\ n \in 1 .. Len(L)
    BY <1>1, <1>7, <2>3
  <2>4. CASE m \notin 1 .. Len(L) /\ n \notin 1 .. Len(L)
    <3>1. PICK i \in 1 .. Len(K), j \in 1 .. Len(K) : m = Len(L) + i /\ n = Len(L) + j
      BY <1>1, <2>4
    <3>2. A[m] = K[i] /\ A[n] = K[j] /\ z[K[i]] = y[K[i]] /\ z[K[j]] = y[K[j]] /\ i < j
      BY <1>0, <1>1, <1>7, <3>1
    <3>3. y[K[i]] < y[K[j]]
      BY <1>7, <3>2 DEF Numbers
    <3> QED
      BY <3>2, <3>3
  <2> QED
    BY <2>1, <2>2, <2>3, <2>4
<1>8. \A p \in Paths : c[p] <= e[p]
  BY <1>2
<1> QED
  BY <1>5, <1>6, <1>7, <1>8 DEF Numbers

\* J picks from L the rows that hold a field, in their order.
Picks(fs, J, L) ==
    /\ \A n \in 1 .. Len(J) : FieldsOf(fs, J[n]) # {} /\ \E x \in 1 .. Len(L) : J[n] = L[x]
    /\ \A x \in 1 .. Len(L) : FieldsOf(fs, L[x]) # {} => \E n \in 1 .. Len(J) : J[n] = L[x]
    /\ \A m, n \in 1 .. Len(J), x, y \in 1 .. Len(L) : J[m] = L[x] /\ J[n] = L[y] => (m < n <=> x < y)

LEMMA PicksTogether ==
    ASSUME NEW fs, NEW S, NEW T, S \cap T = {}, NEW L, NEW K, NEW A, Follows(A, L, S, K, T),
           NEW J, NEW H, NEW B, Follows(B, J, S, H, T), Picks(fs, J, L), Picks(fs, H, K)
    PROVE  Picks(fs, B, A)
<1>1. /\ Len(A) = Len(L) + Len(K) /\ Len(L) \in Nat /\ Len(K) \in Nat
      /\ \A n \in 1 .. Len(L) : n \in 1 .. Len(A) /\ A[n] = L[n] /\ L[n] \in S
      /\ \A n \in 1 .. Len(K) : Len(L) + n \in 1 .. Len(A) /\ A[Len(L) + n] = K[n] /\ K[n] \in T
      /\ \A n \in 1 .. Len(A) : n \in 1 .. Len(L) \/ \E j \in 1 .. Len(K) : n = Len(L) + j
  BY DEF Follows
<1>2. /\ Len(B) = Len(J) + Len(H) /\ Len(J) \in Nat /\ Len(H) \in Nat
      /\ \A n \in 1 .. Len(J) : n \in 1 .. Len(B) /\ B[n] = J[n] /\ J[n] \in S
      /\ \A n \in 1 .. Len(H) : Len(J) + n \in 1 .. Len(B) /\ B[Len(J) + n] = H[n] /\ H[n] \in T
      /\ \A n \in 1 .. Len(B) : n \in 1 .. Len(J) \/ \E j \in 1 .. Len(H) : n = Len(J) + j
  BY DEF Follows
<1>3. ASSUME NEW n \in 1 .. Len(B)
      PROVE  FieldsOf(fs, B[n]) # {} /\ \E x \in 1 .. Len(A) : B[n] = A[x]
  <2>1. CASE n \in 1 .. Len(J)
    <3>1. FieldsOf(fs, J[n]) # {} /\ \E x \in 1 .. Len(L) : J[n] = L[x]
      BY <2>1 DEF Picks
    <3> QED
      BY <1>1, <1>2, <2>1, <3>1
  <2>2. ASSUME NEW j \in 1 .. Len(H), n = Len(J) + j
        PROVE  FieldsOf(fs, B[n]) # {} /\ \E x \in 1 .. Len(A) : B[n] = A[x]
    <3>1. FieldsOf(fs, H[j]) # {} /\ \E x \in 1 .. Len(K) : H[j] = K[x]
      BY DEF Picks
    <3>2. B[n] = H[j]
      BY <1>2, <2>2
    <3> QED
      BY <1>1, <3>1, <3>2
  <2> QED
    BY <1>2, <2>1, <2>2
<1>4. ASSUME NEW x \in 1 .. Len(A), FieldsOf(fs, A[x]) # {}
      PROVE  \E n \in 1 .. Len(B) : B[n] = A[x]
  <2>1. CASE x \in 1 .. Len(L)
    <3>1. \E n \in 1 .. Len(J) : J[n] = L[x]
      BY <1>1, <1>4, <2>1 DEF Picks
    <3> QED
      BY <1>1, <1>2, <2>1, <3>1
  <2>2. ASSUME NEW j \in 1 .. Len(K), x = Len(L) + j
        PROVE  \E n \in 1 .. Len(B) : B[n] = A[x]
    <3>1. A[x] = K[j]
      BY <1>1, <2>2
    <3>2. PICK n \in 1 .. Len(H) : H[n] = K[j]
      BY <1>4, <3>1 DEF Picks
    <3> QED
      BY <1>2, <3>1, <3>2
  <2> QED
    BY <1>1, <2>1, <2>2
<1>5. ASSUME NEW m \in 1 .. Len(B), NEW n \in 1 .. Len(B), NEW x \in 1 .. Len(A), NEW y \in 1 .. Len(A),
             B[m] = A[x], B[n] = A[y]
      PROVE  m < n <=> x < y
  <2>1. ASSUME NEW k \in 1 .. Len(B), NEW z \in 1 .. Len(A), B[k] = A[z]
        PROVE  \/ k \in 1 .. Len(J) /\ z \in 1 .. Len(L) /\ J[k] = L[z]
               \/ \E i \in 1 .. Len(H), j \in 1 .. Len(K) : k = Len(J) + i /\ z = Len(L) + j /\ H[i] = K[j]
    <3>1. CASE k \in 1 .. Len(J) /\ z \in 1 .. Len(L)
      BY <1>1, <1>2, <2>1, <3>1
    <3>2. CASE k \notin 1 .. Len(J) /\ z \notin 1 .. Len(L)
      <4>1. PICK i \in 1 .. Len(H) : k = Len(J) + i
        BY <1>2, <3>2
      <4>2. PICK j \in 1 .. Len(K) : z = Len(L) + j
        BY <1>1, <3>2
      <4>3. H[i] = B[k] /\ K[j] = A[z]
        BY <1>1, <1>2, <4>1, <4>2
      <4> QED
        BY <2>1, <4>1, <4>2, <4>3
    <3>3. ASSUME k \in 1 .. Len(J), z \notin 1 .. Len(L) PROVE FALSE
      <4>1. PICK j \in 1 .. Len(K) : z = Len(L) + j
        BY <1>1, <3>3
      <4>2. B[k] \in S /\ A[z] \in T
        BY <1>1, <1>2, <3>3, <4>1
      <4> QED
        BY <2>1, <4>2
    <3>4. ASSUME k \notin 1 .. Len(J), z \in 1 .. Len(L) PROVE FALSE
      <4>1. PICK j \in 1 .. Len(H) : k = Len(J) + j
        BY <1>2, <3>4
      <4>2. B[k] \in T /\ A[z] \in S
        BY <1>1, <1>2, <3>4, <4>1
      <4> QED
        BY <2>1, <4>2
    <3> QED
      BY <3>1, <3>2, <3>3, <3>4
  <2>2. /\ \/ m \in 1 .. Len(J) /\ x \in 1 .. Len(L) /\ J[m] = L[x]
           \/ \E i \in 1 .. Len(H), j \in 1 .. Len(K) : m = Len(J) + i /\ x = Len(L) + j /\ H[i] = K[j]
        /\ \/ n \in 1 .. Len(J) /\ y \in 1 .. Len(L) /\ J[n] = L[y]
           \/ \E i \in 1 .. Len(H), j \in 1 .. Len(K) : n = Len(J) + i /\ y = Len(L) + j /\ H[i] = K[j]
    BY <1>5, <2>1
  <2>3. /\ \A c, d \in 1 .. Len(J), i, j \in 1 .. Len(L) : J[c] = L[i] /\ J[d] = L[j] => (c < d <=> i < j)
        /\ \A c, d \in 1 .. Len(H), i, j \in 1 .. Len(K) : H[c] = K[i] /\ H[d] = K[j] => (c < d <=> i < j)
    BY DEF Picks
  <2>4. CASE m \in 1 .. Len(J) /\ x \in 1 .. Len(L) /\ J[m] = L[x]
    <3>1. CASE n \in 1 .. Len(J) /\ y \in 1 .. Len(L) /\ J[n] = L[y]
      BY <2>3, <2>4, <3>1
    <3>2. ASSUME NEW i \in 1 .. Len(H), NEW j \in 1 .. Len(K), n = Len(J) + i, y = Len(L) + j
          PROVE  m < n <=> x < y
      BY <1>1, <1>2, <2>4, <3>2
    <3> QED
      BY <2>2, <3>1, <3>2
  <2>5. ASSUME NEW c \in 1 .. Len(H), NEW d \in 1 .. Len(K), m = Len(J) + c, x = Len(L) + d, H[c] = K[d]
        PROVE  m < n <=> x < y
    <3>1. CASE n \in 1 .. Len(J) /\ y \in 1 .. Len(L)
      BY <1>1, <1>2, <2>5, <3>1
    <3>2. ASSUME NEW i \in 1 .. Len(H), NEW j \in 1 .. Len(K), n = Len(J) + i, y = Len(L) + j, H[i] = K[j]
          PROVE  m < n <=> x < y
      <4>1. c < i <=> d < j
        BY <2>3, <2>5, <3>2
      <4>2. /\ Len(J) \in Nat /\ Len(L) \in Nat
            /\ c \in Int /\ d \in Int /\ i \in Int /\ j \in Int
        BY <1>1, <1>2
      <4>3. m = Len(J) + c /\ x = Len(L) + d /\ n = Len(J) + i /\ y = Len(L) + j
        BY <2>5, <3>2
      <4> QED
        BY ONLY <4>1, <4>2, <4>3
    <3> QED
      BY <2>2, <3>1, <3>2
  <2> QED
    BY <2>2, <2>4, <2>5
<1> QED
  BY <1>3, <1>4, <1>5 DEF Picks

\* What the parser finds of a row, and around it, within a row e whose address is top.
Held(fs, i) == fs[CHOOSE f \in FieldsOf(fs, i) : TRUE].value
FieldRead(rs, fs, num, i) == [path |-> rs[i].path, occ |-> num[i], value |-> Held(fs, i)]
AroundOf(rs, num, e, top, i) ==
    IF rs[i].parent = e THEN top
    ELSE [path |-> rs[rs[i].parent].path, occ |-> num[rs[i].parent]]

MarkOf(rs, num, e, top, i) ==
    [path |-> rs[i].path, occ |-> num[i], above |-> AroundOf(rs, num, e, top, i)]

\* What is found of the rows L, of which J hold a field, from the fields f and the marks a on.
Finds(rs, fs, L, J, e, top, f, a, g, b, num) ==
    /\ Adds(f, g, Len(J), [n \in 1 .. Len(J) |-> FieldRead(rs, fs, num, J[n])])
    /\ Adds(a, b, Len(L), [n \in 1 .. Len(L) |-> MarkOf(rs, num, e, top, L[n])])

\* From the state s, with the marks a so far, the parser comes to t and b.
Reading(rs, fs, L, J, e, s, a, t, b, num) ==
    /\ t \in ParserStates /\ b \in Seq(Mark)
    /\ t.stack = s.stack
    /\ Numbers(rs, L, s.counts, t.counts, num)
    /\ Finds(rs, fs, L, J, e, Top(s.stack), s.fields, a, t.fields, b, num)
Told(rs, fs, text, L, J, e) ==
    \A r, a : \A o \in Nat :
        Reads(r, a, text, o) /\ r[o] \in ParserStates /\ a[o] \in Seq(Mark) =>
            \E num : Reading(rs, fs, L, J, e, r[o], a[o], r[o + Len(text)], a[o + Len(text)], num)
Lists(rs, fs, L, J, S, e) == Orders(rs, L, S, e) /\ J \in Seq(S) /\ Picks(fs, J, L)
Piece(rs, fs, text, S, e) ==
    text \in Seq(Tokens) /\ \E L, J : Lists(rs, fs, L, J, S, e) /\ Told(rs, fs, text, L, J, e)

LEMMA FindsTogether ==
    ASSUME NEW rs, NEW fs, NEW S, NEW T, NEW L, NEW K, NEW A, Follows(A, L, S, K, T),
           NEW J, NEW H, NEW B, Follows(B, J, S, H, T),
           NEW e, NEW top, NEW i, NEW up, NEW f, NEW g, NEW h, NEW a, NEW b, NEW c,
           Len(f) \in Nat, Len(a) \in Nat, NEW x, NEW y, NEW z, Agree(z, x, S), Agree(z, y, T),
           Finds(rs, fs, L, J, e, top, f, a, g, b, x), Finds(rs, fs, K, H, i, up, g, b, h, c, y),
           \A n \in 1 .. Len(L) : AroundOf(rs, z, e, top, L[n]) = AroundOf(rs, x, e, top, L[n]),
           \A n \in 1 .. Len(K) : AroundOf(rs, z, e, top, K[n]) = AroundOf(rs, y, i, up, K[n])
    PROVE  Finds(rs, fs, A, B, e, top, f, a, h, c, z)
<1>1. (\A k \in S : z[k] = x[k]) /\ (\A k \in T : z[k] = y[k])
  BY DEF Agree
<1>2. /\ Len(A) = Len(L) + Len(K) /\ Len(L) \in Nat /\ Len(K) \in Nat
      /\ \A n \in 1 .. Len(L) : A[n] = L[n] /\ L[n] \in S
      /\ \A n \in 1 .. Len(K) : A[Len(L) + n] = K[n] /\ K[n] \in T
  BY DEF Follows
<1>2a. /\ Len(B) = Len(J) + Len(H) /\ Len(J) \in Nat /\ Len(H) \in Nat
       /\ \A n \in 1 .. Len(J) : B[n] = J[n] /\ J[n] \in S
       /\ \A n \in 1 .. Len(H) : B[Len(J) + n] = H[n] /\ H[n] \in T
  BY DEF Follows
<1> DEFINE field1 == [n \in 1 .. Len(J) |-> FieldRead(rs, fs, x, J[n])]
           field2 == [n \in 1 .. Len(H) |-> FieldRead(rs, fs, y, H[n])]
           fields == [n \in 1 .. Len(B) |-> FieldRead(rs, fs, z, B[n])]
           mark1 == [n \in 1 .. Len(L) |-> MarkOf(rs, x, e, top, L[n])]
           mark2 == [n \in 1 .. Len(K) |-> MarkOf(rs, y, i, up, K[n])]
           marks == [n \in 1 .. Len(A) |-> MarkOf(rs, z, e, top, A[n])]
<1>3. /\ \A n \in 1 .. Len(L) : n \in 1 .. Len(A)
      /\ \A n \in 1 .. Len(K) : Len(L) + n \in 1 .. Len(A)
      /\ \A n \in 1 .. Len(J) : n \in 1 .. Len(B)
      /\ \A n \in 1 .. Len(H) : Len(J) + n \in 1 .. Len(B)
  BY <1>2, <1>2a
<1>4. /\ \A n \in 1 .. Len(J) : fields[n] = field1[n]
      /\ \A n \in 1 .. Len(H) : fields[Len(J) + n] = field2[n]
  BY <1>1, <1>2a, <1>3 DEF FieldRead
<1>5. /\ \A n \in 1 .. Len(L) : marks[n] = mark1[n]
      /\ \A n \in 1 .. Len(K) : marks[Len(L) + n] = mark2[n]
  BY <1>1, <1>2, <1>3 DEF MarkOf
<1>7. /\ Adds(f, g, Len(J), field1) /\ Adds(g, h, Len(H), field2)
      /\ Adds(a, b, Len(L), mark1) /\ Adds(b, c, Len(K), mark2)
  BY DEF Finds
<1> HIDE DEF fields, field1, field2, marks, mark1, mark2
<1>8. Adds(f, h, Len(B), fields)
  BY <1>2a, <1>4, <1>7, AddsTogether
<1>9. Adds(a, c, Len(A), marks)
  BY <1>2, <1>5, <1>7, AddsTogether
<1> QED
  BY <1>8, <1>9 DEF Finds, fields, marks

LEMMA ReadingTogether ==
    ASSUME NEW rs, NEW fs, NEW S, NEW T, NEW L, NEW K, NEW e, NEW J, NEW H,
           Lists(rs, fs, L, J, S, e), Lists(rs, fs, K, H, T, e),
           S \cap T = {}, OfPaths(rs, S), OfPaths(rs, T),
           NEW s \in ParserStates, NEW t, NEW u, NEW a \in Seq(Mark), NEW b, NEW c, NEW x, NEW y,
           Reading(rs, fs, L, J, e, s, a, t, b, x), Reading(rs, fs, K, H, e, t, b, u, c, y)
    PROVE  \E z : Reading(rs, fs, L \o K, J \o H, e, s, a, u, c, z)
<1> DEFINE z == [k \in S \cup T |-> IF k \in S THEN x[k] ELSE y[k]]
<1>1. Agree(z, x, S) /\ Agree(z, y, T)
  BY DEF Agree
<1> HIDE DEF z
<1>2. L \in Seq(S) /\ K \in Seq(T) /\ J \in Seq(S) /\ H \in Seq(T)
  BY DEF Orders, Lists
<1> DEFINE A == L \o K
           B == J \o H
<1>3. Follows(A, L, S, K, T) /\ Follows(B, J, S, H, T)
  BY <1>2, Places
<1> HIDE DEF A, B
<1>4. t \in ParserStates /\ u \in ParserStates /\ b \in Seq(Mark) /\ c \in Seq(Mark)
      /\ t.stack = s.stack /\ u.stack = s.stack
  BY DEF Reading
<1>5. s.counts \in [Paths -> Nat] /\ t.counts \in [Paths -> Nat] /\ u.counts \in [Paths -> Nat]
      /\ Len(s.fields) \in Nat /\ Len(a) \in Nat
  BY <1>4, StateParts
<1>6. Numbers(rs, A, s.counts, u.counts, z)
  <2>1. Numbers(rs, L, s.counts, t.counts, x) /\ Numbers(rs, K, t.counts, u.counts, y)
    BY DEF Reading
  <2>2. Follows(A, L, S, K, T) /\ OfPaths(rs, S) /\ OfPaths(rs, T)
    BY <1>3
  <2> QED
    BY ONLY <1>1, <1>5, <2>1, <2>2, NumbersTogether, SMTT(40)
<1>7. Finds(rs, fs, A, B, e, Top(s.stack), s.fields, a, u.fields, c, z)
  <2>0. Finds(rs, fs, K, H, e, Top(t.stack), t.fields, b, u.fields, c, y)
    BY DEF Reading
  <2>1. /\ Finds(rs, fs, L, J, e, Top(s.stack), s.fields, a, t.fields, b, x)
        /\ Finds(rs, fs, K, H, e, Top(s.stack), t.fields, b, u.fields, c, y)
    <3>1. Finds(rs, fs, L, J, e, Top(s.stack), s.fields, a, t.fields, b, x)
      BY DEF Reading
    <3>2. Top(t.stack) = Top(s.stack)
      BY <1>4
    <3> QED
      BY <2>0, <3>1, <3>2
  <2>2. ASSUME NEW n \in 1 .. Len(L)
        PROVE  AroundOf(rs, z, e, Top(s.stack), L[n]) = AroundOf(rs, x, e, Top(s.stack), L[n])
    <3>1. rs[L[n]].parent = e \/ \E m \in 1 .. n - 1 : L[m] = rs[L[n]].parent
      BY DEF Orders, Lists
    <3>2. rs[L[n]].parent = e \/ rs[L[n]].parent \in S
      BY <1>3, <3>1 DEF Follows
    <3> QED
      BY <1>1, <3>2 DEF AroundOf, Agree
  <2>3. ASSUME NEW n \in 1 .. Len(K)
        PROVE  AroundOf(rs, z, e, Top(s.stack), K[n]) = AroundOf(rs, y, e, Top(s.stack), K[n])
    <3>1. rs[K[n]].parent = e \/ \E m \in 1 .. n - 1 : K[m] = rs[K[n]].parent
      BY DEF Orders, Lists
    <3>2. rs[K[n]].parent = e \/ rs[K[n]].parent \in T
      BY <1>3, <3>1 DEF Follows
    <3> QED
      BY <1>1, <3>2 DEF AroundOf, Agree
  <2> QED
    BY <1>1, <1>3, <1>5, <2>1, <2>2, <2>3, FindsTogether
<1>8. Reading(rs, fs, A, B, e, s, a, u, c, z)
  BY <1>4, <1>6, <1>7 DEF Reading
<1> QED
  BY <1>8 DEF A, B

\* Reading a text that is put together is reading one part after the other.
LEMMA ReadsInTurn ==
    ASSUME NEW r, NEW a, NEW o \in Nat, NEW s \in Seq(Tokens), NEW t \in Seq(Tokens),
           Reads(r, a, s \o t, o)
    PROVE  /\ Reads(r, a, s, o) /\ Reads(r, a, t, o + Len(s))
           /\ Len(s) \in Nat /\ Len(t) \in Nat /\ Len(s \o t) = Len(s) + Len(t)
<1> PICK w : w = s \o t
  OBVIOUS
<1>1. /\ Len(s) \in Nat /\ Len(t) \in Nat /\ Len(w) = Len(s) + Len(t)
      /\ \A j \in 1 .. Len(s) : w[j] = s[j]
      /\ \A j \in 1 .. Len(t) : w[Len(s) + j] = t[j]
  BY Concatenation
<1>2. \A n \in 1 .. Len(w) : TokenRead(r[o + n - 1], a[o + n - 1], r[o + n], a[o + n], w[n])
  BY DEF Reads
<1>3. ASSUME NEW n \in 1 .. Len(s)
      PROVE  TokenRead(r[o + n - 1], a[o + n - 1], r[o + n], a[o + n], s[n])
  <2>1. n \in 1 .. Len(w) /\ w[n] = s[n]
    BY <1>1
  <2> QED
    BY <1>2, <2>1
<1>4. ASSUME NEW n \in 1 .. Len(t)
      PROVE  TokenRead(r[o + Len(s) + n - 1], a[o + Len(s) + n - 1], r[o + Len(s) + n], a[o + Len(s) + n], t[n])
  <2>1. Len(s) + n \in 1 .. Len(w) /\ w[Len(s) + n] = t[n]
    BY <1>1
  <2>2. o + (Len(s) + n) = o + Len(s) + n /\ o + (Len(s) + n) - 1 = o + Len(s) + n - 1
    BY <1>1
  <2> QED
    BY <1>2, <2>1, <2>2
<1> QED
  BY <1>1, <1>3, <1>4 DEF Reads

LEMMA ListsTogether ==
    ASSUME NEW rs, NEW fs, NEW S, NEW T, NEW L, NEW K, NEW J, NEW H, NEW e, NEW f,
           Lists(rs, fs, L, J, S, e), Lists(rs, fs, K, H, T, f), S \cap T = {}, f = e \/ f \in S,
           \A i \in S, k \in T : rs[k].parent = rs[i].parent => ~ByOccurrence(rs, k, i)
    PROVE  Lists(rs, fs, L \o K, J \o H, S \cup T, e)
<1>1. Orders(rs, L, S, e) /\ Orders(rs, K, T, f) /\ Picks(fs, J, L) /\ Picks(fs, H, K)
      /\ L \in Seq(S) /\ K \in Seq(T) /\ J \in Seq(S) /\ H \in Seq(T)
  BY DEF Lists, Orders
<1>2. Orders(rs, L \o K, S \cup T, e)
  BY <1>1, OrdersTogether
<1>3. Follows(L \o K, L, S, K, T) /\ Follows(J \o H, J, S, H, T)
  BY <1>1, Places
<1>4. J \o H \in Seq(S \cup T)
  BY <1>3 DEF Follows
<1>5. Picks(fs, J \o H, L \o K)
  BY <1>1, <1>3, PicksTogether
<1> QED
  BY <1>2, <1>4, <1>5 DEF Lists

LEMMA PiecesTogether ==
    ASSUME NEW rs, NEW fs, NEW S, NEW T, NEW e, NEW s, NEW t, Piece(rs, fs, s, S, e), Piece(rs, fs, t, T, e),
           S \cap T = {}, OfPaths(rs, S), OfPaths(rs, T),
           \A i \in S, k \in T : rs[k].parent = rs[i].parent => ~ByOccurrence(rs, k, i)
    PROVE  Piece(rs, fs, s \o t, S \cup T, e)
<1>1. s \in Seq(Tokens) /\ t \in Seq(Tokens) /\ s \o t \in Seq(Tokens)
  BY DEF Piece
<1>2. PICK L, J : Lists(rs, fs, L, J, S, e) /\ Told(rs, fs, s, L, J, e)
  BY DEF Piece
<1>3. PICK K, H : Lists(rs, fs, K, H, T, e) /\ Told(rs, fs, t, K, H, e)
  BY DEF Piece
<1>4. Lists(rs, fs, L \o K, J \o H, S \cup T, e)
  BY <1>2, <1>3, ListsTogether
<1>5. ASSUME NEW r, NEW a, NEW o \in Nat,
             Reads(r, a, s \o t, o), r[o] \in ParserStates, a[o] \in Seq(Mark)
      PROVE  \E num : Reading(rs, fs, L \o K, J \o H, e, r[o], a[o], r[o + Len(s \o t)], a[o + Len(s \o t)], num)
  <2> PICK p : p = o + Len(s)
    OBVIOUS
  <2>1. /\ Reads(r, a, s, o) /\ Reads(r, a, t, p) /\ p \in Nat
        /\ o + Len(s \o t) = p + Len(t)
    BY <1>1, <1>5, ReadsInTurn
  <2>2. PICK x : Reading(rs, fs, L, J, e, r[o], a[o], r[p], a[p], x)
    BY <1>2, <1>5, <2>1 DEF Told
  <2>3. r[p] \in ParserStates /\ a[p] \in Seq(Mark)
    BY <2>2 DEF Reading
  <2>4. PICK y : Reading(rs, fs, K, H, e, r[p], a[p], r[p + Len(t)], a[p + Len(t)], y)
    BY <1>3, <2>1, <2>3 DEF Told
  <2>5. \E z : Reading(rs, fs, L \o K, J \o H, e, r[o], a[o], r[p + Len(t)], a[p + Len(t)], z)
    BY <1>2, <1>3, <1>5, <2>2, <2>4, ReadingTogether
  <2> QED
    BY <2>1, <2>5
<1>6. Told(rs, fs, s \o t, L \o K, J \o H, e)
  BY <1>5 DEF Told
<1> QED
  BY <1>1, <1>4, <1>6 DEF Piece

LEMMA NoPiece == ASSUME NEW rs, NEW fs, NEW e PROVE Piece(rs, fs, <<>>, {}, e)
<1>1. Lists(rs, fs, <<>>, <<>>, {}, e)
  BY DEF Orders, Picks, Lists
<1>2. ASSUME NEW r, NEW a, NEW o \in Nat, r[o] \in ParserStates, a[o] \in Seq(Mark)
      PROVE  Reading(rs, fs, <<>>, <<>>, e, r[o], a[o], r[o], a[o], <<>>)
  <2>1. r[o].counts \in [Paths -> Nat] /\ Len(r[o].fields) \in Nat /\ Len(a[o]) \in Nat
    BY <1>2, StateParts
  <2>2. Numbers(rs, <<>>, r[o].counts, r[o].counts, <<>>)
    BY <2>1 DEF Numbers
  <2>3. \A s, x : Len(s) \in Nat => Adds(s, s, 0, x)
    BY DEF Adds
  <2> QED
    BY <1>2, <2>1, <2>2, <2>3 DEF Reading, Finds
<1>3. ASSUME NEW r, NEW a, NEW o \in Nat, r[o] \in ParserStates, a[o] \in Seq(Mark)
      PROVE  \E num : Reading(rs, fs, <<>>, <<>>, e, r[o], a[o], r[o + Len(<<>>)], a[o + Len(<<>>)], num)
  <2>1. o + Len(<<>>) = o
    OBVIOUS
  <2>2. Reading(rs, fs, <<>>, <<>>, e, r[o], a[o], r[o], a[o], <<>>)
    BY <1>2, <1>3
  <2> QED
    BY <2>1, <2>2
<1>4. Told(rs, fs, <<>>, <<>>, <<>>, e)
  BY <1>3 DEF Told
<1> QED
  BY <1>1, <1>4 DEF Piece

\* The opening of the row i takes the parser from s and a to t and b, and with it the field
\* that i may hold to u and c.
HeadRead(rs, fs, i, s, a, u, c) ==
    LET path == rs[i].path
        here == [path |-> path, occ |-> s.counts[path] + 1]
    IN  /\ here \in Address
        /\ u \in ParserStates /\ c \in Seq(Mark)
        /\ u.stack = Append(s.stack, here) /\ Top(u.stack) = here
        /\ u.counts = [s.counts EXCEPT ![path] = @ + 1]
        /\ u.fields = IF FieldsOf(fs, i) = {} THEN s.fields
                      ELSE Append(s.fields, [path |-> path, occ |-> here.occ, value |-> Held(fs, i)])
        /\ c = Append(a, [path |-> path, occ |-> here.occ, above |-> Top(s.stack)])

OpenRead(s, a, path, t, b) ==
    LET here == [path |-> path, occ |-> s.counts[path] + 1]
    IN  /\ here \in Address
        /\ t \in ParserStates /\ b \in Seq(Mark)
        /\ t.stack = Append(s.stack, here) /\ Top(t.stack) = here
        /\ t.counts = [s.counts EXCEPT ![path] = @ + 1]
        /\ t.fields = s.fields
        /\ b = Append(a, [path |-> path, occ |-> here.occ, above |-> Top(s.stack)])

LEMMA OpenIsRead ==
    ASSUME NEW s \in ParserStates, NEW a \in Seq(Mark), NEW path \in Paths, NEW t, NEW b,
           TokenRead(s, a, t, b, Token("16R", path, NoPath))
    PROVE  OpenRead(s, a, path, t, b)
<1> DEFINE here == [path |-> path, occ |-> s.counts[path] + 1]
           counts == [s.counts EXCEPT ![path] = @ + 1]
           mark == [path |-> path, occ |-> here.occ, above |-> Top(s.stack)]
<1>0. /\ t = ReadToken(s, Token("16R", path, NoPath))
      /\ b = a \o Noted(s, Token("16R", path, NoPath))
  BY DEF TokenRead
<1>1. /\ here \in Address /\ counts \in [Paths -> Nat]
      /\ t = [stack |-> Append(s.stack, here), counts |-> counts, fields |-> s.fields]
  BY <1>0, OpeningIsRead
<1>2. here.path = path /\ here.occ = s.counts[path] + 1 /\ here.occ \in Nat
  BY <1>1 DEF Address
<1>3. s.stack \in Seq(Address) /\ s.fields \in Seq(Found)
  BY StateParts
<1>4. Top(s.stack) \in Around
  <2>1. CASE s.stack = <<>>
    BY <2>1 DEF Top, Around
  <2>2. CASE s.stack # <<>>
    <3>1. Last(s.stack) \in Address
      BY <1>3, <2>2 DEF Last
    <3> QED
      BY <2>2, <3>1 DEF Top, Around
  <2> QED
    BY <2>1, <2>2
<1>5. mark \in Mark
  BY <1>2, <1>4 DEF Mark
<1>6. Noted(s, Token("16R", path, NoPath)) = <<mark>>
  BY <1>2 DEF Noted, Token
<1> HIDE DEF here, counts, mark
<1>7. PICK k : k = Append(s.stack, here)
  OBVIOUS
<1>8. k \in Seq(Address) /\ k # <<>> /\ Last(k) = here
  BY <1>1, <1>3, <1>7, Pushed
<1>9. t \in ParserStates /\ t.stack = k /\ t.counts = counts /\ t.fields = s.fields
  <2>1. [stack |-> k, counts |-> counts, fields |-> s.fields] \in ParserStates
    BY <1>1, <1>3, <1>8, StateParts
  <2>2. t = [stack |-> k, counts |-> counts, fields |-> s.fields]
    BY <1>1, <1>7
  <2> QED
    BY <2>1, <2>2
<1>10. Top(t.stack) = here
  BY <1>8, <1>9 DEF Top
<1>11. b = Append(a, mark) /\ b \in Seq(Mark)
  <2>1. PICK m : m = mark
    OBVIOUS
  <2>2. m \in Mark /\ b = a \o <<m>>
    BY <1>0, <1>5, <1>6, <2>1
  <2>3. a \o <<m>> = Append(a, m) /\ Append(a, m) \in Seq(Mark)
    BY <2>2
  <2> QED
    BY <2>1, <2>2, <2>3
<1> QED
  BY <1>1, <1>2, <1>7, <1>9, <1>10, <1>11 DEF OpenRead, here, counts, mark

\* The line of the field that the row i may hold.
OwnText(rs, fs, i) ==
    IF FieldsOf(fs, i) = {} THEN <<>> ELSE <<Token("field", rs[i].path, Held(fs, i))>>

LEMMA HeadIsRead ==
    ASSUME NEW rs, NEW fs, NEW i, rs[i].path \in Paths, FieldsOf(fs, i) # {} => Held(fs, i) \in Values,
           NEW s \in ParserStates, NEW a \in Seq(Mark), NEW t, NEW b, NEW u, NEW c,
           TokenRead(s, a, t, b, Token("16R", rs[i].path, NoPath)),
           FieldsOf(fs, i) = {} => u = t /\ c = b,
           FieldsOf(fs, i) # {} => TokenRead(t, b, u, c, Token("field", rs[i].path, Held(fs, i)))
    PROVE  HeadRead(rs, fs, i, s, a, u, c)
<1> DEFINE path == rs[i].path
           here == [path |-> path, occ |-> s.counts[path] + 1]
           counts == [s.counts EXCEPT ![path] = @ + 1]
<1>1. /\ here \in Address
      /\ t \in ParserStates /\ b \in Seq(Mark)
      /\ t.stack = Append(s.stack, here) /\ Top(t.stack) = here
      /\ t.counts = counts
      /\ t.fields = s.fields
      /\ b = Append(a, [path |-> path, occ |-> here.occ, above |-> Top(s.stack)])
  <2>1. OpenRead(s, a, path, t, b)
    BY OpenIsRead
  <2> QED
    BY <2>1 DEF OpenRead
<1>2. here.path = path
  OBVIOUS
<1>3. s.stack \in Seq(Address)
  BY StateParts
<1> HIDE DEF here, counts
<1>4. CASE FieldsOf(fs, i) = {}
  BY <1>1, <1>4 DEF HeadRead, here, counts
<1>5. CASE FieldsOf(fs, i) # {}
  <2> DEFINE new == [path |-> here.path, occ |-> here.occ, value |-> Held(fs, i)]
  <2>1. TokenRead(t, b, u, c, Token("field", here.path, Held(fs, i)))
    BY <1>2, <1>5
  <2>2. /\ ReadToken(t, Token("field", here.path, Held(fs, i)))
             = [stack |-> t.stack, counts |-> t.counts, fields |-> Append(t.fields, new)]
        /\ ReadToken(t, Token("field", here.path, Held(fs, i))) \in ParserStates
        /\ Noted(t, Token("field", here.path, Held(fs, i))) = <<>>
    BY <1>1, <1>3, <1>5, FieldIsRead
  <2>3. /\ u = ReadToken(t, Token("field", here.path, Held(fs, i)))
        /\ c = b \o Noted(t, Token("field", here.path, Held(fs, i)))
    BY <2>1 DEF TokenRead
  <2>4. u \in ParserStates /\ u.stack = t.stack /\ u.counts = t.counts /\ u.fields = Append(t.fields, new)
    BY <2>2, <2>3
  <2>5. c = b
    BY <1>1, <2>2, <2>3
  <2> QED
    BY <1>1, <1>2, <1>5, <2>4, <2>5 DEF HeadRead, here, counts
<1> QED
  BY <1>4, <1>5

\* The text of a row, around the text of the rows under it.
IsBlock(text, rs, fs, i, inner) ==
    text = <<Token("16R", rs[i].path, NoPath)>> \o OwnText(rs, fs, i)
           \o inner \o <<Token("16S", rs[i].path, NoPath)>>

LEMMA BlockText ==
    ASSUME NEW rs, NEW fs, NEW i, NEW inner,
           FieldsOf(fs, i) = {} \/ \E f \in Nat : FieldsOf(fs, i) = {f}
    PROVE  IsBlock(Block(rs, fs, i, inner), rs, fs, i, inner)
<1> DEFINE S == FieldsOf(fs, i)
           UpTo == [g \in S |-> {h \in S : h <= g}]
           fields == FieldOrder(fs, i)
           middle == [n \in DOMAIN fields |-> Token("field", rs[i].path, fs[fields[n]].value)]
<1>2. fields = InOrder(S, UpTo)
  BY DEF FieldOrder
<1>3. Linear(S, UpTo)
  <2>1. IsFiniteSet(S)
    BY FS_Singleton, FS_EmptySet
  <2>2. UpTo \in [S -> SUBSET S] /\ \A g, h \in S : g = h
    OBVIOUS
  <2>3. \A g \in S : g \in UpTo[g]
    OBVIOUS
  <2> HIDE DEF S, UpTo
  <2> QED
    BY <2>1, <2>2, <2>3 DEF Linear
<1>4. Enumerates(fields, S)
  <2> HIDE DEF S, UpTo, fields
  <2> QED
    BY <1>2, <1>3, InOrderLists
<1>5. middle = OwnText(rs, fs, i)
  <2>1. CASE S = {}
    <3>1. Cardinality(S) = 0
      BY <2>1, FS_EmptySet
    <3>2. DOMAIN fields = {}
      <4> HIDE DEF fields, S
      <4> QED
        BY <1>4, <3>1 DEF Enumerates
    <3> HIDE DEF fields
    <3>3. middle = <<>>
      BY <3>2
    <3> QED
      BY <2>1, <3>3 DEF OwnText
  <2>2. ASSUME NEW f \in Nat, S = {f} PROVE middle = OwnText(rs, fs, i)
    <3>1. Held(fs, i) = fs[f].value
      BY <2>2 DEF Held
    <3>2. Cardinality(S) = 1
      BY <2>2, FS_Singleton
    <3>3. DOMAIN fields = 1 .. 1 /\ fields[1] = f
      <4> HIDE DEF fields, S
      <4> QED
        <5>1. fields \in [1 .. 1 -> {f}]
          BY <1>4, <2>2, <3>2 DEF Enumerates
        <5> QED
          BY <5>1
    <3> HIDE DEF fields
    <3>4. middle = [n \in 1 .. 1 |-> Token("field", rs[i].path, fs[f].value)]
      BY <3>3
    <3> HIDE DEF middle
    <3>5. middle = <<Token("field", rs[i].path, Held(fs, i))>>
      BY <3>1, <3>4
    <3>6. FieldsOf(fs, i) # {}
      BY <2>2
    <3> QED
      BY <3>5, <3>6 DEF OwnText
  <2> QED
    BY <2>1, <2>2
<1> QED
  BY <1>5 DEF Block, IsBlock

\* The rows of a block: the row itself, then those under it.
Filled(fs, i) == IF FieldsOf(fs, i) = {} THEN <<>> ELSE <<i>>

LEMMA OwnListed ==
    ASSUME NEW rs, NEW N, RowsOf(rs, N), NEW fs, NEW i \in DOMAIN rs
    PROVE  Lists(rs, fs, <<i>>, Filled(fs, i), {i}, rs[i].parent)
<1>1. ~ByOccurrence(rs, i, i)
  BY ByOccurrenceIsLinear
<1>2. Orders(rs, <<i>>, {i}, rs[i].parent)
  BY <1>1 DEF Orders
<1>3. Filled(fs, i) \in Seq({i}) /\ Picks(fs, Filled(fs, i), <<i>>)
  <2>1. CASE FieldsOf(fs, i) = {}
    BY <2>1 DEF Filled, Picks
  <2>2. CASE FieldsOf(fs, i) # {}
    <3>1. Len(<<i>>) = 1 /\ <<i>>[1] = i /\ <<i>> \in Seq({i})
      OBVIOUS
    <3>2. \A x \in 1 .. 1 : x = 1
      OBVIOUS
    <3>3. Picks(fs, <<i>>, <<i>>)
      BY <2>2, <3>1, <3>2 DEF Picks
    <3> QED
      BY <2>2, <3>1, <3>3 DEF Filled
  <2> QED
    BY <2>1, <2>2
<1> QED
  BY <1>2, <1>3 DEF Lists

LEMMA BlockLists ==
    ASSUME NEW rs, NEW N, RowsOf(rs, N), NEW fs, NEW i \in DOMAIN rs, NEW U, NEW L, NEW J,
           Lists(rs, fs, L, J, U, i), i \notin U, \A k \in U : rs[k].parent # rs[i].parent
    PROVE  Lists(rs, fs, <<i>> \o L, Filled(fs, i) \o J, {i} \cup U, rs[i].parent)
<1>1. Lists(rs, fs, <<i>>, Filled(fs, i), {i}, rs[i].parent)
  BY OwnListed
<1>2. {i} \cap U = {} /\ i \in {i}
  OBVIOUS
<1>3. \A j \in {i}, k \in U : rs[k].parent = rs[j].parent => ~ByOccurrence(rs, k, j)
  OBVIOUS
<1> QED
  BY <1>1, <1>2, <1>3, ListsTogether

LEMMA BlockNumbers ==
    ASSUME NEW rs, NEW N, RowsOf(rs, N), NEW i \in DOMAIN rs, NEW U \in SUBSET DOMAIN rs, NEW L,
           NEW A, Follows(A, <<i>>, {i}, L, U), NEW c \in [Paths -> Nat], NEW e \in [Paths -> Nat],
           NEW d \in [Paths -> Nat],
           \A p \in Paths : d[p] = IF p = rs[i].path THEN c[p] + 1 ELSE c[p], NEW x, Numbers(rs, L, d, e, x),
           NEW z, z[i] = c[rs[i].path] + 1, Agree(z, x, U)
    PROVE  Numbers(rs, A, c, e, z)
<1>1. OfPaths(rs, {i}) /\ OfPaths(rs, U)
  BY DEF OfPaths, RowsOf
<1>2. rs[i].path \in Paths
  BY DEF RowsOf
<1>4. Agree(z, z, {i})
  BY DEF Agree
<1>5. Numbers(rs, <<i>>, c, d, z)
  <2>1. Len(<<i>>) = 1 /\ <<i>>[1] = i
    OBVIOUS
  <2>2. z[i] \in c[rs[i].path] + 1 .. d[rs[i].path]
    BY <1>2
  <2>3. \A p \in Paths : /\ c[p] <= d[p]
                          /\ \A y \in c[p] + 1 .. d[p] : p = rs[i].path /\ z[i] = y
    OBVIOUS
  <2> QED
    BY <2>1, <2>2, <2>3 DEF Numbers
<1> QED
  BY <1>1, <1>4, <1>5, NumbersTogether

LEMMA AddsOne ==
    ASSUME NEW T, NEW s \in Seq(T), NEW x, NEW item, item[1] = x
    PROVE  Adds(s, Append(s, x), 1, item)
BY DEF Adds

LEMMA OwnFinds ==
    ASSUME NEW rs, NEW fs, NEW i, NEW top, NEW z, NEW f \in Seq(Found), NEW a \in Seq(Mark), NEW g, NEW b,
           g = IF FieldsOf(fs, i) = {} THEN f ELSE Append(f, FieldRead(rs, fs, z, i)),
           b = Append(a, [path |-> rs[i].path, occ |-> z[i], above |-> top])
    PROVE  Finds(rs, fs, <<i>>, Filled(fs, i), rs[i].parent, top, f, a, g, b, z)
<1> DEFINE J == Filled(fs, i)
           v == [n \in 1 .. Len(J) |-> FieldRead(rs, fs, z, J[n])]
           w == [n \in 1 .. Len(<<i>>) |-> MarkOf(rs, z, rs[i].parent, top, <<i>>[n])]
<1>1. Len(<<i>>) = 1 /\ <<i>>[1] = i
  OBVIOUS
<1>2. w[1] = [path |-> rs[i].path, occ |-> z[i], above |-> top]
  BY <1>1 DEF MarkOf, AroundOf
<1>3. Adds(a, b, 1, w)
  <2> HIDE DEF w
  <2> QED
    BY <1>2, AddsOne
<1>4. Adds(f, g, Len(J), v)
  <2>1. CASE FieldsOf(fs, i) = {}
    <3>1. Len(J) = 0 /\ g = f /\ Len(f) \in Nat
      BY <2>1 DEF Filled
    <3> HIDE DEF v, J
    <3> QED
      BY <3>1 DEF Adds
  <2>2. CASE FieldsOf(fs, i) # {}
    <3>1. J = <<i>>
      BY <2>2 DEF Filled
    <3>2. Len(J) = 1 /\ J[1] = i
      BY <3>1
    <3> HIDE DEF J
    <3>3. v[1] = FieldRead(rs, fs, z, i)
      BY <3>2
    <3> HIDE DEF v
    <3>4. g = Append(f, FieldRead(rs, fs, z, i))
      BY <2>2
    <3> QED
      BY <3>2, <3>3, <3>4, AddsOne
  <2> QED
    BY <2>1, <2>2
<1> QED
  BY <1>1, <1>3, <1>4 DEF Finds

LEMMA BlockFinds ==
    ASSUME NEW rs, NEW fs, NEW i, NEW U, NEW L, NEW J, Lists(rs, fs, L, J, U, i),
           \A k \in U : rs[k].parent # rs[i].parent,
           NEW A, Follows(A, <<i>>, {i}, L, U), NEW B, Follows(B, Filled(fs, i), {i}, J, U),
           NEW top, NEW here, NEW x, NEW z, Agree(z, x, U),
           here = [path |-> rs[i].path, occ |-> z[i]],
           NEW f \in Seq(Found), NEW a \in Seq(Mark), NEW g, NEW b, NEW h, NEW c,
           g = IF FieldsOf(fs, i) = {} THEN f ELSE Append(f, FieldRead(rs, fs, z, i)),
           b = Append(a, [path |-> rs[i].path, occ |-> z[i], above |-> top]),
           Finds(rs, fs, L, J, i, here, g, b, h, c, x)
    PROVE  Finds(rs, fs, A, B, rs[i].parent, top, f, a, h, c, z)
<1>2. Finds(rs, fs, <<i>>, Filled(fs, i), rs[i].parent, top, f, a, g, b, z)
  BY OwnFinds
<1>3. \A n \in 1 .. Len(<<i>>) : AroundOf(rs, z, rs[i].parent, top, <<i>>[n])
                                  = AroundOf(rs, z, rs[i].parent, top, <<i>>[n])
  OBVIOUS
<1>4. ASSUME NEW n \in 1 .. Len(L)
      PROVE  AroundOf(rs, z, rs[i].parent, top, L[n]) = AroundOf(rs, x, i, here, L[n])
  <2>1. rs[L[n]].parent = i \/ \E m \in 1 .. n - 1 : L[m] = rs[L[n]].parent
    BY DEF Orders, Lists
  <2>2. Len(L) \in Nat /\ \A m \in 1 .. Len(L) : L[m] \in U
    BY DEF Follows
  <2>3. L[n] \in U /\ rs[L[n]].parent # rs[i].parent
    BY <2>2
  <2>4. CASE rs[L[n]].parent = i
    <3>1. AroundOf(rs, x, i, here, L[n]) = here
      BY <2>4 DEF AroundOf
    <3>2. AroundOf(rs, z, rs[i].parent, top, L[n]) = [path |-> rs[i].path, occ |-> z[i]]
      BY <2>3, <2>4 DEF AroundOf
    <3> QED
      BY <3>1, <3>2
  <2>5. CASE rs[L[n]].parent # i
    <3>1. rs[L[n]].parent \in U
      BY <2>1, <2>2, <2>5
    <3> QED
      BY <2>3, <2>5, <3>1 DEF AroundOf, Agree
  <2> QED
    BY <2>4, <2>5
<1>5. Agree(z, z, {i}) /\ Len(f) \in Nat /\ Len(a) \in Nat
  BY DEF Agree
<1> QED
  BY <1>2, <1>3, <1>4, <1>5, FindsTogether

LEMMA BlockIsRead ==
    ASSUME NEW rs, NEW fs, NEW N, RowsOf(rs, N), NEW i \in DOMAIN rs,
           NEW U \in SUBSET DOMAIN rs, NEW L, NEW J, Lists(rs, fs, L, J, U, i), i \notin U,
           \A k \in U : rs[k].parent # rs[i].parent,
           NEW s \in ParserStates, NEW a \in Seq(Mark), NEW u, NEW c, NEW v, NEW d,
           NEW w, NEW e, NEW x,
           HeadRead(rs, fs, i, s, a, u, c),
           Reading(rs, fs, L, J, i, u, c, v, d, x),
           TokenRead(v, d, w, e, Token("16S", rs[i].path, NoPath))
    PROVE  \E z : Reading(rs, fs, <<i>> \o L, Filled(fs, i) \o J, rs[i].parent, s, a, w, e, z)
<1> DEFINE path == rs[i].path
           here == [path |-> path, occ |-> s.counts[path] + 1]
           z == [k \in {i} \cup U |-> IF k = i THEN s.counts[path] + 1 ELSE x[k]]
           A == <<i>> \o L
           B == Filled(fs, i) \o J
           top == Top(s.stack)
<1>0. /\ w = ReadToken(v, Token("16S", rs[i].path, NoPath))
      /\ e = d \o Noted(v, Token("16S", rs[i].path, NoPath))
  BY DEF TokenRead
<1>1. path \in Paths
  BY DEF RowsOf
<1>2. /\ here \in Address /\ u \in ParserStates /\ c \in Seq(Mark)
      /\ u.stack = Append(s.stack, here) /\ Top(u.stack) = here
      /\ u.counts = [s.counts EXCEPT ![path] = @ + 1]
      /\ u.fields = IF FieldsOf(fs, i) = {} THEN s.fields
                    ELSE Append(s.fields, [path |-> path, occ |-> here.occ, value |-> Held(fs, i)])
      /\ c = Append(a, [path |-> path, occ |-> here.occ, above |-> top])
  BY DEF HeadRead
<1>3. /\ v \in ParserStates /\ d \in Seq(Mark) /\ v.stack = u.stack
      /\ Numbers(rs, L, u.counts, v.counts, x)
      /\ Finds(rs, fs, L, J, i, Top(u.stack), u.fields, c, v.fields, d, x)
  BY DEF Reading
<1>4. s.stack \in Seq(Address) /\ s.counts \in [Paths -> Nat] /\ Len(s.fields) \in Nat /\ Len(a) \in Nat
      /\ u.counts \in [Paths -> Nat] /\ v.counts \in [Paths -> Nat]
  <2>1. /\ s.stack \in Seq(Address) /\ s.counts \in [Paths -> Nat] /\ s.fields \in Seq(Found)
    BY StateParts
  <2>2. u.counts \in [Paths -> Nat]
    BY <1>2, StateParts
  <2>3. v.counts \in [Paths -> Nat]
    BY <1>3, StateParts
  <2>4. Len(s.fields) \in Nat /\ Len(a) \in Nat
    BY <2>1
  <2> QED
    BY <2>1, <2>2, <2>3, <2>4
<1>5. z[i] = here.occ /\ z[i] = s.counts[path] + 1 /\ \A k \in U : z[k] = x[k]
  OBVIOUS
<1>6. Agree(z, z, {i}) /\ Agree(z, x, U)
  BY <1>5 DEF Agree
<1>7. here.path = path /\ here.occ = s.counts[path] + 1
  OBVIOUS
<1> HIDE DEF z, here, path, top
<1>8. w \in ParserStates /\ w.stack = s.stack /\ w.counts = v.counts /\ w.fields = v.fields
  <2>1. v.stack = Append(s.stack, here)
    BY <1>2, <1>3
  <2>2. w = [stack |-> s.stack, counts |-> v.counts, fields |-> v.fields] /\ w \in ParserStates
    BY <1>0, <1>2, <1>3, <1>4, <2>1, ClosingIsRead, ZenonT(60)
  <2> QED
    BY <2>2
<1>9. e = d
  <2>1. Noted(v, Token("16S", rs[i].path, NoPath)) = <<>>
    BY DEF Noted, Token
  <2> QED
    BY <1>0, <1>3, <2>1
<1>10. Lists(rs, fs, <<i>>, Filled(fs, i), {i}, rs[i].parent)
  BY OwnListed
<1>11. Follows(A, <<i>>, {i}, L, U) /\ Follows(B, Filled(fs, i), {i}, J, U)
  <2>1. <<i>> \in Seq({i}) /\ L \in Seq(U) /\ Filled(fs, i) \in Seq({i}) /\ J \in Seq(U)
    BY <1>10 DEF Orders, Lists
  <2> QED
    BY <2>1, Places
<1> HIDE DEF A, B
<1>12. Numbers(rs, A, s.counts, v.counts, z)
  <2>1. /\ z[i] = s.counts[rs[i].path] + 1
        /\ \A p \in Paths : u.counts[p] = IF p = rs[i].path THEN s.counts[p] + 1 ELSE s.counts[p]
    BY <1>2, <1>4, <1>5 DEF path
  <2> QED
    BY <1>3, <1>4, <1>6, <1>11, <2>1, BlockNumbers
<1>13. Finds(rs, fs, A, B, rs[i].parent, top, s.fields, a, v.fields, d, z)
  <2>1. Finds(rs, fs, L, J, i, here, u.fields, c, v.fields, d, x)
    BY <1>2, <1>3
  <2>2. u.fields = IF FieldsOf(fs, i) = {} THEN s.fields ELSE Append(s.fields, FieldRead(rs, fs, z, i))
    BY <1>2, <1>5 DEF FieldRead, path
  <2>3. here = [path |-> rs[i].path, occ |-> z[i]]
    BY <1>5 DEF here, path
  <2>4. c = Append(a, [path |-> rs[i].path, occ |-> z[i], above |-> top])
    BY <1>2, <1>5 DEF path
  <2>5. s.fields \in Seq(Found)
    BY StateParts
  <2> QED
    BY <1>6, <1>11, <2>1, <2>2, <2>3, <2>4, <2>5, BlockFinds
<1>14. Reading(rs, fs, A, B, rs[i].parent, s, a, w, e, z)
  BY <1>3, <1>8, <1>9, <1>12, <1>13 DEF Reading, top
<1> QED
  BY <1>14 DEF A, B

LEMMA ReadsOne ==
    ASSUME NEW r, NEW a, NEW token, NEW o \in Nat, NEW text, Reads(r, a, text, o),
           Len(text) = 1, text[1] = token
    PROVE  TokenRead(r[o], a[o], r[o + 1], a[o + 1], token)
<1>1. 1 \in 1 .. Len(text) /\ o + 1 - 1 = o
  OBVIOUS
<1> QED
  BY <1>1 DEF Reads

\* A row holds one field or none.
OneField(rs, fs) ==
    \A i \in DOMAIN rs : FieldsOf(fs, i) = {} \/ \E f \in DOMAIN fs : FieldsOf(fs, i) = {f}

LEMMA HeldValue ==
    ASSUME NEW rs, NEW fs, NEW M, FieldRows(fs, M), OneField(rs, fs), NEW i \in DOMAIN rs,
           FieldsOf(fs, i) # {}
    PROVE  /\ Held(fs, i) \in Values
           /\ \E f \in DOMAIN fs : f \in Nat /\ FieldsOf(fs, i) = {f} /\ Held(fs, i) = fs[f].value
<1>1. PICK f \in DOMAIN fs : FieldsOf(fs, i) = {f}
  BY DEF OneField
<1>2. Held(fs, i) = fs[f].value
  BY <1>1 DEF Held
<1>3. f \in Nat /\ fs[f].value \in Values
  BY DEF FieldRows
<1> QED
  BY <1>1, <1>2, <1>3

\* The line of the row's own field, if it has one, takes the parser from t and b to u and c.
LEMMA OwnIsRead ==
    ASSUME NEW rs, NEW fs, NEW i, NEW r, NEW a, NEW o \in Nat, Reads(r, a, OwnText(rs, fs, i), o),
           NEW q, q = o + Len(OwnText(rs, fs, i))
    PROVE  /\ FieldsOf(fs, i) = {} => r[q] = r[o] /\ a[q] = a[o]
           /\ FieldsOf(fs, i) # {} =>
                 TokenRead(r[o], a[o], r[q], a[q], Token("field", rs[i].path, Held(fs, i)))
<1>1. CASE FieldsOf(fs, i) = {}
  <2>1. q = o
    BY <1>1 DEF OwnText
  <2> QED
    BY <1>1, <2>1
<1>2. CASE FieldsOf(fs, i) # {}
  <2> DEFINE token == Token("field", rs[i].path, Held(fs, i))
  <2>1. OwnText(rs, fs, i) = <<token>>
    BY <1>2 DEF OwnText
  <2> HIDE DEF token
  <2>2. Len(<<token>>) = 1 /\ <<token>>[1] = token
    OBVIOUS
  <2>3. q = o + 1
    BY <2>1, <2>2
  <2>4. TokenRead(r[o], a[o], r[o + 1], a[o + 1], token)
    BY <2>1, <2>2, ReadsOne
  <2> QED
    BY <1>2, <2>3, <2>4 DEF token
<1> QED
  BY <1>1, <1>2

\* The text of a row is a piece when that of the rows under it is.
LEMMA BlockPiece ==
    ASSUME NEW rs, NEW N, RowsOf(rs, N), NEW fs, NEW M, FieldRows(fs, M), OneField(rs, fs),
           NEW i \in DOMAIN rs, NEW U \in SUBSET DOMAIN rs, NEW inner, Piece(rs, fs, inner, U, i),
           i \notin U, \A k \in U : rs[k].parent # rs[i].parent
    PROVE  Piece(rs, fs, Block(rs, fs, i, inner), {i} \cup U, rs[i].parent)
<1> DEFINE path == rs[i].path
           open == Token("16R", path, NoPath)
           own == OwnText(rs, fs, i)
           close == Token("16S", path, NoPath)
           head == <<open>> \o own
           most == head \o inner
<1>1. Block(rs, fs, i, inner) = most \o <<close>>
  <2>1. FieldsOf(fs, i) = {} \/ \E f \in Nat : FieldsOf(fs, i) = {f}
    BY DEF OneField, FieldRows
  <2> QED
    BY <2>1, BlockText DEF IsBlock
<1>2. inner \in Seq(Tokens) /\ \E L, J : Lists(rs, fs, L, J, U, i) /\ Told(rs, fs, inner, L, J, i)
  BY DEF Piece
<1>3. PICK L, J : Lists(rs, fs, L, J, U, i) /\ Told(rs, fs, inner, L, J, i)
  BY <1>2
<1>4. path \in Paths /\ (FieldsOf(fs, i) # {} => Held(fs, i) \in Values)
  BY HeldValue DEF RowsOf
<1>5. open \in Tokens /\ close \in Tokens
  BY <1>4 DEF Token, Tokens, Kinds
<1>6. own \in Seq(Tokens)
  <2>1. CASE FieldsOf(fs, i) = {}
    BY <2>1 DEF OwnText
  <2>2. CASE FieldsOf(fs, i) # {}
    <3>1. Token("field", path, Held(fs, i)) \in Tokens
      BY <1>4, <2>2 DEF Token, Tokens, Kinds
    <3> QED
      BY <2>2, <3>1 DEF OwnText
  <2> QED
    BY <2>1, <2>2
<1> HIDE DEF open, own, close
<1>7. <<open>> \in Seq(Tokens) /\ <<close>> \in Seq(Tokens)
      /\ Len(<<open>>) = 1 /\ Len(<<close>>) = 1 /\ <<open>>[1] = open /\ <<close>>[1] = close
  BY <1>5
<1>8. head \in Seq(Tokens) /\ Len(head) = 1 + Len(own) /\ Len(own) \in Nat
  BY <1>6, <1>7, Concatenation
<1> HIDE DEF head
<1>9. most \in Seq(Tokens) /\ Len(most) = Len(head) + Len(inner) /\ Len(inner) \in Nat
  BY <1>2, <1>8, Concatenation
<1> HIDE DEF most
<1>10. most \o <<close>> \in Seq(Tokens) /\ Len(most \o <<close>>) = Len(most) + 1
  BY <1>7, <1>9, Concatenation
<1>11. ASSUME NEW r, NEW a, NEW o \in Nat, Reads(r, a, most \o <<close>>, o),
              r[o] \in ParserStates, a[o] \in Seq(Mark)
       PROVE  \E z : Reading(rs, fs, <<i>> \o L, Filled(fs, i) \o J, rs[i].parent, r[o], a[o],
                             r[o + Len(most \o <<close>>)], a[o + Len(most \o <<close>>)], z)
  <2> PICK k : k = o + 1
    OBVIOUS
  <2> PICK q : q = o + Len(head)
    OBVIOUS
  <2> PICK p : p = o + Len(most)
    OBVIOUS
  <2>0. /\ k \in Nat /\ q \in Nat /\ p \in Nat /\ q = k + Len(own) /\ p = q + Len(inner)
        /\ o + Len(most \o <<close>>) = p + 1
    BY <1>8, <1>9, <1>10
  <2>1. Reads(r, a, most, o) /\ Reads(r, a, <<close>>, p)
    BY <1>7, <1>9, <1>11, ReadsInTurn
  <2>2. Reads(r, a, head, o) /\ Reads(r, a, inner, q)
    BY <1>2, <1>8, <2>1, ReadsInTurn DEF most
  <2>3. Reads(r, a, <<open>>, o) /\ Reads(r, a, own, k)
    <3>1. Reads(r, a, <<open>>, o) /\ Reads(r, a, own, o + Len(<<open>>))
      BY <1>6, <1>7, <2>2, ReadsInTurn DEF head
    <3>2. o + Len(<<open>>) = k
      BY <1>7
    <3> QED
      BY <3>1, <3>2
  <2>4. TokenRead(r[o], a[o], r[k], a[k], open)
    BY <1>7, <2>3, ReadsOne
  <2>5. /\ FieldsOf(fs, i) = {} => r[q] = r[k] /\ a[q] = a[k]
        /\ FieldsOf(fs, i) # {} => TokenRead(r[k], a[k], r[q], a[q], Token("field", path, Held(fs, i)))
    BY <2>0, <2>3, OwnIsRead DEF own
  <2>6. TokenRead(r[p], a[p], r[p + 1], a[p + 1], close)
    BY <1>7, <2>0, <2>1, ReadsOne
  <2>7. HeadRead(rs, fs, i, r[o], a[o], r[q], a[q])
    BY <1>4, <1>11, <2>4, <2>5, HeadIsRead DEF open
  <2>8. r[q] \in ParserStates /\ a[q] \in Seq(Mark)
    BY <2>7 DEF HeadRead
  <2>9. PICK x : Reading(rs, fs, L, J, i, r[q], a[q], r[p], a[p], x)
    BY <1>3, <2>0, <2>2, <2>8 DEF Told
  <2>10. \E z : Reading(rs, fs, <<i>> \o L, Filled(fs, i) \o J, rs[i].parent, r[o], a[o], r[p + 1], a[p + 1], z)
    BY <1>3, <1>11, <2>6, <2>7, <2>9, BlockIsRead DEF close
  <2> QED
    BY <2>0, <2>10
<1>12. Told(rs, fs, most \o <<close>>, <<i>> \o L, Filled(fs, i) \o J, rs[i].parent)
  BY <1>11 DEF Told
<1>13. Lists(rs, fs, <<i>> \o L, Filled(fs, i) \o J, {i} \cup U, rs[i].parent)
  BY <1>3, BlockLists
<1> QED
  BY <1>1, <1>10, <1>12, <1>13 DEF Piece

\* Pieces of parts without overlap make a piece of their union, when no part holds a row that
\* belongs before a row of an earlier part.
InTurn(rs, S, T) == \A i \in S, k \in T : rs[k].parent = rs[i].parent => ~ByOccurrence(rs, k, i)

Apart(rs, part, L) ==
    \A m, n \in 1 .. L : m < n => part[m] \cap part[n] = {} /\ InTurn(rs, part[m], part[n])
Upto(part, m) == UNION {part[n] : n \in 1 .. m}

LEMMA ConcatPieces ==
    ASSUME NEW rs, NEW N, RowsOf(rs, N), NEW fs, NEW e, NEW pieces, NEW L \in Nat, Len(pieces) = L,
           NEW part \in [1 .. L -> SUBSET DOMAIN rs],
           Apart(rs, part, L), \A n \in 1 .. L : Piece(rs, fs, pieces[n], part[n], e)
    PROVE  Piece(rs, fs, Concat(pieces), Upto(part, L), e)
<1>1. PICK joined : /\ Concat(pieces) = joined[L] /\ joined[0] = <<>>
                    /\ \A n \in 1 .. L : joined[n] = joined[n - 1] \o pieces[n]
  BY ConcatRule
<1> DEFINE Good == {m \in 0 .. L : Piece(rs, fs, joined[m], Upto(part, m), e)}
<1>2. 0 \in Good
  <2>1. Upto(part, 0) = {}
    BY DEF Upto
  <2>2. Piece(rs, fs, joined[0], {}, e)
    BY <1>1, NoPiece
  <2>3. Piece(rs, fs, joined[0], Upto(part, 0), e)
    BY <2>1, <2>2, Zenon
  <2> QED
    BY <2>3
<1>3. ASSUME NEW m \in 1 .. L, m - 1 \in Good PROVE m \in Good
  <2>1. Upto(part, m) = Upto(part, m - 1) \cup part[m]
    <3>1. 1 .. m = (1 .. m - 1) \cup {m}
      OBVIOUS
    <3> QED
      BY <3>1 DEF Upto
  <2>2. \A n \in 1 .. m - 1 : n \in 1 .. L /\ n < m
    OBVIOUS
  <2>3. Upto(part, m - 1) \cap part[m] = {} /\ InTurn(rs, Upto(part, m - 1), part[m])
    BY <2>2 DEF InTurn, Apart, Upto
  <2>4. Upto(part, m - 1) \subseteq DOMAIN rs /\ part[m] \subseteq DOMAIN rs
    BY <2>2 DEF Upto
  <2>5. Piece(rs, fs, joined[m - 1], Upto(part, m - 1), e)
    BY <1>3
  <2> HIDE DEF Good
  <2>6. OfPaths(rs, Upto(part, m - 1)) /\ OfPaths(rs, part[m])
    BY <2>4 DEF OfPaths, RowsOf
  <2>7. Piece(rs, fs, joined[m - 1] \o pieces[m], Upto(part, m - 1) \cup part[m], e)
    BY <2>3, <2>5, <2>6, PiecesTogether DEF InTurn
  <2>8. joined[m] = joined[m - 1] \o pieces[m]
    BY <1>1
  <2>9. Piece(rs, fs, joined[m], Upto(part, m), e) /\ m \in 0 .. L
    BY <2>1, <2>7, <2>8
  <2> QED
    BY <2>9 DEF Good
<1> HIDE DEF Good
<1>4. ASSUME NEW m \in 0 .. L, \A k \in 0 .. L : k < m => k \in Good PROVE m \in Good
  <2>1. CASE m = 0
    BY <1>2, <2>1
  <2>2. CASE m # 0
    <3>1. m \in 1 .. L /\ m - 1 \in 0 .. L /\ m - 1 < m
      BY <2>2
    <3> QED
      BY <1>3, <1>4, <3>1
  <2> QED
    BY <2>1, <2>2
<1>5. L \in Good
  <2>1. 0 .. L \subseteq Good
    BY <1>4, Upwards
  <2> QED
    BY <2>1
<1> QED
  BY <1>1, <1>5 DEF Good

\* Children come in the composer's order.
LEMMA ChildrenSorted ==
    ASSUME NEW rs, NEW N, RowsOf(rs, N), NEW parent,
           NEW m \in 1 .. Cardinality(Below(rs, parent)), NEW n \in 1 .. Cardinality(Below(rs, parent)), m < n
    PROVE  ByOccurrence(rs, ChildrenOf(rs, parent)[m], ChildrenOf(rs, parent)[n])
<1> PICK S, UpTo : S = Below(rs, parent) /\ UpTo = ChildrenUpTo(rs, parent)
  OBVIOUS
<1>1. Linear(S, UpTo) /\ ChildrenOf(rs, parent) = InOrder(S, UpTo)
  BY ChildrenListed
<1> PICK i, k : i = ChildrenOf(rs, parent)[m] /\ k = ChildrenOf(rs, parent)[n]
  OBVIOUS
<1>2. i \in S /\ k \in S
  BY ChildrenEnumerated DEF Enumerates
<1>3. InOrder(S, UpTo)[n] \notin UpTo[InOrder(S, UpTo)[m]]
  BY <1>1, InOrderLists
<1>4. k \notin UpTo[i]
  BY <1>1, <1>3
<1> QED
  BY <1>2, <1>4 DEF ChildrenUpTo

\* The texts of the children together.
LEMMA InnerPiece ==
    ASSUME NEW rs, NEW N, RowsOf(rs, N), NEW fs, NEW text, NEW i,
           \A k \in Below(rs, i) : Piece(rs, fs, text[k], Under(rs, k), i)
    PROVE  Piece(rs, fs, Inner(rs, text, i), UNION {Under(rs, k) : k \in Below(rs, i)}, i)
<1> DEFINE children == ChildrenOf(rs, i)
           L == Cardinality(Below(rs, i))
           pieces == [n \in DOMAIN children |-> text[children[n]]]
           part == [n \in 1 .. L |-> Under(rs, children[n])]
<1>1. /\ L \in Nat /\ DOMAIN children = 1 .. L /\ \A n \in 1 .. L : children[n] \in Below(rs, i)
      /\ \A m, n \in 1 .. L : children[m] = children[n] => m = n
      /\ \A k \in Below(rs, i) : \E n \in 1 .. L : children[n] = k
  <2>1. Enumerates(children, Below(rs, i))
    BY ChildrenEnumerated
  <2> HIDE DEF children
  <2> QED
    BY <2>1 DEF Enumerates
<1>2. \A m, n \in 1 .. L : m < n => ByOccurrence(rs, children[m], children[n])
  BY ChildrenSorted
<1> HIDE DEF children
<1>3. \A k \in Below(rs, i) : k \in DOMAIN rs /\ rs[k].parent = i /\ i < k
  BY DEF Below, RowsOf
<1> HIDE DEF L
<1>4. Len(pieces) = L
  <2>1. DOMAIN pieces = 1 .. L
    BY <1>1
  <2>2. pieces \in Seq({text[children[n]] : n \in 1 .. L})
    BY <1>1
  <2> HIDE DEF pieces
  <2> QED
    BY <1>1, <2>1, <2>2
<1>5. part \in [1 .. L -> SUBSET DOMAIN rs]
  <2>1. \A k : Under(rs, k) \subseteq DOMAIN rs
    BY DEF Under
  <2> QED
    BY <2>1
<1>6. ASSUME NEW m \in 1 .. L, NEW n \in 1 .. L, m < n
      PROVE  part[m] \cap part[n] = {} /\ InTurn(rs, part[m], part[n])
  <2> PICK c, d : c = children[m] /\ d = children[n]
    OBVIOUS
  <2>1. /\ c # d /\ c \in DOMAIN rs /\ d \in DOMAIN rs /\ rs[c].parent = i /\ rs[d].parent = i
        /\ ByOccurrence(rs, c, d) /\ i < c /\ i < d
    BY <1>1, <1>2, <1>3, <1>6
  <2>2. Under(rs, c) \cap Under(rs, d) = {}
    BY <2>1, UnderDisjoint
  <2>3. i \notin Under(rs, c) /\ i \notin Under(rs, d)
    <3>1. ASSUME i \in Under(rs, c) \/ i \in Under(rs, d) PROVE FALSE
      <4>1. i \in DOMAIN rs /\ (c <= i \/ d <= i)
        BY <2>1, <3>1, UnderRule DEF Under
      <4>2. i \in Nat /\ c \in Nat /\ d \in Nat
        BY <2>1, <4>1, FiniteRows
      <4> QED
        BY <2>1, <4>1, <4>2
    <3> QED
      BY <3>1
  <2>4. ASSUME NEW x \in Under(rs, c), NEW y \in Under(rs, d), rs[y].parent = rs[x].parent,
               ByOccurrence(rs, y, x)
        PROVE  FALSE
    <3>1. x = c \/ rs[x].parent \in Under(rs, c)
      BY <2>1, UnderRule
    <3>2. y = d \/ rs[y].parent \in Under(rs, d)
      BY <2>1, UnderRule
    <3>3. x = c /\ y = d
      BY <2>1, <2>2, <2>3, <2>4, <3>1, <3>2
    <3> QED
      BY <2>1, <2>4, <3>3, ByOccurrenceIsLinear
  <2>5. part[m] = Under(rs, c) /\ part[n] = Under(rs, d)
    OBVIOUS
  <2> QED
    BY <2>2, <2>4, <2>5 DEF InTurn
<1>7. \A n \in 1 .. L : Piece(rs, fs, pieces[n], part[n], i)
  BY <1>1
<1>8. Upto(part, L) = UNION {Under(rs, k) : k \in Below(rs, i)}
  BY <1>1 DEF Upto
<1>9. Inner(rs, text, i) = Concat(pieces)
  BY DEF Inner, children
<1>10. L \in Nat
  BY <1>1
<1> HIDE DEF pieces, part
<1>11. Piece(rs, fs, Concat(pieces), Upto(part, L), i)
  <2>1. Apart(rs, part, L)
    BY <1>6 DEF Apart
  <2> QED
    BY <1>4, <1>5, <1>7, <1>10, <2>1, ConcatPieces
<1> QED
  BY <1>8, <1>9, <1>11

LEMMA RowsArePieces ==
    ASSUME NEW rs, NEW N, RowsOf(rs, N), NEW fs, NEW M, FieldRows(fs, M), OneField(rs, fs), NEW text,
           \A i \in DOMAIN rs : text[i] = Block(rs, fs, i, Inner(rs, text, i))
    PROVE  \A i \in DOMAIN rs : Piece(rs, fs, text[i], Under(rs, i), rs[i].parent)
<1> DEFINE Good == {i \in 0 .. N : i \in DOMAIN rs => Piece(rs, fs, text[i], Under(rs, i), rs[i].parent)}
<1>0. N \in Nat /\ DOMAIN rs \subseteq 0 .. N
  BY DEF RowsOf
<1>1. ASSUME NEW i \in DOMAIN rs, \A k \in 0 .. N : i < k => k \in Good
      PROVE  Piece(rs, fs, text[i], Under(rs, i), rs[i].parent)
  <2> DEFINE U == UNION {Under(rs, k) : k \in Below(rs, i)}
  <2>1. \A k \in Below(rs, i) : k \in DOMAIN rs /\ i < k /\ rs[k].parent = i
    BY DEF Below, RowsOf
  <2>2. \A k \in Below(rs, i) : Piece(rs, fs, text[k], Under(rs, k), i)
    BY <1>0, <1>1, <2>1
  <2>3. Piece(rs, fs, Inner(rs, text, i), U, i)
    BY <2>2, InnerPiece
  <2>4. Under(rs, i) = {i} \cup U /\ i \notin U
    BY UnderSplits
  <2>5. U \in SUBSET DOMAIN rs
    BY DEF Under
  <2> HIDE DEF U
  <2>6. ASSUME NEW k \in U, rs[k].parent = rs[i].parent PROVE FALSE
    <3>1. k \in Under(rs, i) /\ k # i
      BY <2>4
    <3>2. rs[i].parent \in Under(rs, i)
      BY <2>6, <3>1, UnderRule
    <3>3. i <= rs[i].parent /\ rs[i].parent < i /\ i \in Nat /\ rs[i].parent \in Nat
      BY <3>2, UnderRule, FiniteRows DEF RowsOf
    <3> QED
      BY <3>3
  <2>7. Piece(rs, fs, Block(rs, fs, i, Inner(rs, text, i)), {i} \cup U, rs[i].parent)
    BY <2>3, <2>4, <2>5, <2>6, BlockPiece
  <2> QED
    BY <2>4, <2>7
<1>2. ASSUME NEW m \in 0 .. N, \A k \in 0 .. N : m < k => k \in Good PROVE m \in Good
  BY <1>1, <1>2
<1> HIDE DEF Good
<1>3. 0 .. N \subseteq Good
  BY <1>0, <1>2, Downwards
<1> QED
  BY <1>0, <1>3 DEF Good

LEMMA LinesArePieces ==
    ASSUME NEW rs, NEW N, RowsOf(rs, N), NEW fs, NEW M, FieldRows(fs, M), OneField(rs, fs),
           \A k \in DOMAIN rs : rs[k].parent \in DOMAIN rs \cup {0}
    PROVE  Piece(rs, fs, Lines(rs, fs), DOMAIN rs, 0)
<1>1. PICK text : /\ Lines(rs, fs) = Inner(rs, text, 0)
                  /\ \A i \in DOMAIN rs : text[i] = Block(rs, fs, i, Inner(rs, text, i))
  BY LinesRule
<1>2. \A i \in DOMAIN rs : Piece(rs, fs, text[i], Under(rs, i), rs[i].parent)
  BY <1>1, RowsArePieces
<1>3. DOMAIN rs = UNION {Under(rs, k) : k \in Below(rs, 0)}
  BY UnderCovers
<1>4. \A k \in Below(rs, 0) : Piece(rs, fs, text[k], Under(rs, k), 0)
  BY <1>2 DEF Below
<1>5. Piece(rs, fs, Inner(rs, text, 0), UNION {Under(rs, k) : k \in Below(rs, 0)}, 0)
  BY <1>4, InnerPiece
<1> QED
  BY <1>1, <1>3, <1>5

(***************************************************************************)
(* The whole text: Run is the run of Parsed, and Marks its openings.       *)
(***************************************************************************)
Run(lines) ==
    LET After[n \in 0 .. Len(lines)] == IF n = 0 THEN NewParser ELSE ReadToken(After[n - 1], lines[n])
    IN  After
Marks(lines) == Concat([n \in 1 .. Len(lines) |-> Noted(Run(lines)[n - 1], lines[n])])
Runs(r, lines, m) == r = [n \in 0 .. m |-> IF n = 0 THEN NewParser ELSE ReadToken(r[n - 1], lines[n])]

LEMMA RunsExist ==
    ASSUME NEW lines, NEW N \in Nat PROVE \E r : Runs(r, lines, N)
<1> DEFINE Good == {m \in 0 .. N : \E r : Runs(r, lines, m)}
<1>1. 0 \in Good
  <2> DEFINE r == [n \in 0 .. 0 |-> NewParser]
  <2>1. Runs(r, lines, 0)
    BY DEF Runs
  <2> QED
    BY <2>1
<1>2. ASSUME NEW m \in 1 .. N, m - 1 \in Good PROVE m \in Good
  <2>1. PICK f : Runs(f, lines, m - 1)
    BY <1>2
  <2> DEFINE new == ReadToken(f[m - 1], lines[m])
             r == [n \in 0 .. m |-> IF n = m THEN new ELSE f[n]]
  <2>2. \A n \in 0 .. m - 1 : f[n] = IF n = 0 THEN NewParser ELSE ReadToken(f[n - 1], lines[n])
    BY <2>1 DEF Runs
  <2>3. ASSUME NEW n \in 0 .. m
        PROVE  r[n] = IF n = 0 THEN NewParser ELSE ReadToken(r[n - 1], lines[n])
    <3>1. n # 0 => n - 1 \in 0 .. m - 1 /\ n - 1 \in 0 .. m /\ n - 1 # m
      OBVIOUS
    <3>2. n # 0 => r[n - 1] = f[n - 1]
      BY <3>1
    <3>3. CASE n = m
      <4>1. r[n] = new /\ n # 0
        BY <3>3
      <4> HIDE DEF r
      <4> QED
        BY <3>2, <3>3, <4>1
    <3>4. CASE n # m
      <4>1. n \in 0 .. m - 1 /\ r[n] = f[n]
        BY <3>4
      <4> HIDE DEF r
      <4> QED
        BY <2>2, <3>2, <4>1
    <3> QED
      BY <3>3, <3>4
  <2>4. r = [n \in 0 .. m |-> r[n]]
    OBVIOUS
  <2> HIDE DEF r
  <2>5. Runs(r, lines, m)
    BY <2>3, <2>4 DEF Runs
  <2> QED
    BY <2>5
<1> HIDE DEF Good
<1>3. ASSUME NEW m \in 0 .. N, \A k \in 0 .. N : k < m => k \in Good PROVE m \in Good
  <2>1. m = 0 \/ (m \in 1 .. N /\ m - 1 \in 0 .. N /\ m - 1 < m)
    OBVIOUS
  <2> QED
    BY <1>1, <1>2, <1>3, <2>1
<1>4. 0 .. N \subseteq Good
  BY <1>3, Upwards
<1> QED
  BY <1>4 DEF Good

LEMMA RunRule ==
    ASSUME NEW lines, Len(lines) \in Nat
    PROVE  /\ Parsed(lines) = Run(lines)[Len(lines)].fields
           /\ Run(lines)[0] = NewParser
           /\ \A n \in 1 .. Len(lines) : Run(lines)[n] = ReadToken(Run(lines)[n - 1], lines[n])
<1> DEFINE N == Len(lines)
           Eq(f) == [n \in 0 .. N |-> IF n = 0 THEN NewParser ELSE ReadToken(f[n - 1], lines[n])]
           R == CHOOSE f : f = Eq(f)
<1>1. Run(lines) = R /\ Parsed(lines) = R[N].fields
  BY DEF Run, Parsed
<1> HIDE DEF N
<1>2. N \in Nat
  BY DEF N
<1>3. PICK g : Runs(g, lines, N)
  BY <1>2, RunsExist
<1>4. g = Eq(g)
  BY <1>3 DEF Runs
<1>5. R = Eq(R)
  <2> HIDE DEF Eq
  <2> QED
    BY <1>4
<1> HIDE DEF R
<1>6. \A n \in 0 .. N : R[n] = IF n = 0 THEN NewParser ELSE ReadToken(R[n - 1], lines[n])
  <2>1. \A n \in 0 .. N : R[n] = Eq(R)[n]
    BY <1>5
  <2> QED
    BY <2>1
<1>7. 0 \in 0 .. N /\ \A n \in 1 .. N : n \in 0 .. N /\ n # 0
  BY <1>2
<1>8. R[0] = NewParser /\ \A n \in 1 .. N : R[n] = ReadToken(R[n - 1], lines[n])
  BY <1>6, <1>7
<1> QED
  BY <1>1, <1>8 DEF N

\* The rows of a draft in the order L of its text, with the number num of each along its
\* path, are what is opened in it, and those of them that hold a field, J, what is found.
Whole(rs, fs, found, marks, L, J, num) ==
    /\ Lists(rs, fs, L, J, DOMAIN rs, 0)
    /\ \A n \in 1 .. Len(L) :
          /\ num[L[n]] \in Nat \ {0}
          /\ \A x \in 1 .. num[L[n]] :
                \E m \in 1 .. Len(L) : rs[L[m]].path = rs[L[n]].path /\ num[L[m]] = x
    /\ \A m, n \in 1 .. Len(L) : m < n /\ rs[L[m]].path = rs[L[n]].path => num[L[m]] < num[L[n]]
    /\ Len(found) = Len(J) /\ \A n \in 1 .. Len(J) : found[n] = FieldRead(rs, fs, num, J[n])
    /\ Len(marks) = Len(L) /\ \A n \in 1 .. Len(L) : marks[n] = MarkOf(rs, num, 0, NoPath, L[n])

LEMMA TextIsRead ==
    ASSUME NEW rs, NEW N, RowsOf(rs, N), NEW fs, NEW M, FieldRows(fs, M), OneField(rs, fs),
           \A k \in DOMAIN rs : rs[k].parent \in DOMAIN rs \cup {0},
           NEW lines, lines = Lines(rs, fs)
    PROVE  \E L, J, num : Whole(rs, fs, Parsed(lines), Marks(lines), L, J, num)
<1>1. lines \in Seq(Tokens) /\ \E L, J : Lists(rs, fs, L, J, DOMAIN rs, 0) /\ Told(rs, fs, lines, L, J, 0)
  BY LinesArePieces DEF Piece
<1>2. PICK L, J : Lists(rs, fs, L, J, DOMAIN rs, 0) /\ Told(rs, fs, lines, L, J, 0)
  BY <1>1
<1>3. Len(lines) \in Nat
  BY <1>1
<1> DEFINE r == Run(lines)
           pieces == [n \in 1 .. Len(lines) |-> Noted(Run(lines)[n - 1], lines[n])]
<1>4. /\ Parsed(lines) = r[Len(lines)].fields /\ r[0] = NewParser
      /\ \A n \in 1 .. Len(lines) : r[n] = ReadToken(r[n - 1], lines[n])
  BY <1>3, RunRule
<1>5. Len(pieces) = Len(lines) /\ \A n \in 1 .. Len(lines) : pieces[n] = Noted(r[n - 1], lines[n])
  BY <1>3
<1>6. PICK a : /\ Concat(pieces) = a[Len(pieces)] /\ a[0] = <<>>
               /\ \A n \in 1 .. Len(pieces) : a[n] = a[n - 1] \o pieces[n]
  <2> HIDE DEF pieces
  <2> QED
    BY <1>3, <1>5, ConcatRule
<1>7. Marks(lines) = a[Len(lines)]
  BY <1>5, <1>6 DEF Marks
<1> HIDE DEF r, pieces
<1>8. Reads(r, a, lines, 0)
  <2>1. \A n \in 1 .. Len(lines) : TokenRead(r[n - 1], a[n - 1], r[n], a[n], lines[n])
    BY <1>4, <1>5, <1>6 DEF TokenRead
  <2>2. \A n \in 1 .. Len(lines) : 0 + n - 1 = n - 1 /\ 0 + n = n
    BY <1>3
  <2> QED
    BY <2>1, <2>2 DEF Reads
<1>9. r[0] \in ParserStates /\ a[0] \in Seq(Mark) /\ r[0].stack = <<>> /\ r[0].fields = <<>>
      /\ r[0].counts = [p \in Paths |-> 0]
  <2>1. NewParser \in ParserStates
    BY DEF NewParser, ParserStates
  <2> QED
    BY <1>4, <1>6, <2>1 DEF NewParser
<1>10. PICK num : Reading(rs, fs, L, J, 0, r[0], a[0], r[Len(lines)], a[Len(lines)], num)
  <2>1. 0 \in Nat /\ 0 + Len(lines) = Len(lines)
    BY <1>3
  <2>2. \E num : Reading(rs, fs, L, J, 0, r[0], a[0], r[0 + Len(lines)], a[0 + Len(lines)], num)
    BY <1>2, <1>8, <1>9, <2>1 DEF Told
  <2> QED
    BY <2>1, <2>2
<1>11. PICK c, f, b, d : c = [p \in Paths |-> 0] /\ f = Parsed(lines) /\ b = Marks(lines)
                         /\ d = r[Len(lines)].counts
  OBVIOUS
<1>12. Numbers(rs, L, c, d, num) /\ Finds(rs, fs, L, J, 0, NoPath, <<>>, <<>>, f, b, num)
  <2>1. Top(<<>>) = NoPath
    BY DEF Top
  <2> QED
    BY <1>4, <1>6, <1>7, <1>9, <1>10, <1>11, <2>1 DEF Reading
<1>13. d \in [Paths -> Nat]
  BY <1>10, <1>11, StateParts DEF Reading
<1>14. Len(L) \in Nat /\ \A n \in 1 .. Len(L) : L[n] \in DOMAIN rs /\ rs[L[n]].path \in Paths
  <2>1. L \in Seq(DOMAIN rs)
    BY <1>2 DEF Orders, Lists
  <2>2. Len(L) \in Nat /\ \A n \in 1 .. Len(L) : L[n] \in DOMAIN rs
    BY <2>1
  <2> QED
    BY <2>2 DEF RowsOf
<1>14a. Len(J) \in Nat
  BY <1>2 DEF Lists
<1>15. ASSUME NEW n \in 1 .. Len(L)
       PROVE  /\ num[L[n]] \in Nat \ {0}
              /\ \A x \in 1 .. num[L[n]] :
                    \E m \in 1 .. Len(L) : rs[L[m]].path = rs[L[n]].path /\ num[L[m]] = x
  <2> DEFINE p == rs[L[n]].path
  <2>1. p \in Paths /\ c[p] = 0 /\ d[p] \in Nat
    BY <1>11, <1>13, <1>14
  <2>2. num[L[n]] \in 1 .. d[p]
    BY <1>12, <2>1 DEF Numbers
  <2>3. \A x \in c[p] + 1 .. d[p] : \E m \in 1 .. Len(L) : rs[L[m]].path = p /\ num[L[m]] = x
    BY <1>12, <2>1 DEF Numbers
  <2>4. num[L[n]] \in Nat \ {0} /\ \A x \in 1 .. num[L[n]] : x \in c[p] + 1 .. d[p]
    BY <2>1, <2>2
  <2>5. \A x \in 1 .. num[L[n]] : \E m \in 1 .. Len(L) : rs[L[m]].path = p /\ num[L[m]] = x
    BY <2>3, <2>4
  <2> QED
    BY <2>4, <2>5
<1>16. \A m, n \in 1 .. Len(L) : m < n /\ rs[L[m]].path = rs[L[n]].path => num[L[m]] < num[L[n]]
  BY <1>12 DEF Numbers
<1>17. Len(f) = Len(J) /\ \A n \in 1 .. Len(J) : f[n] = FieldRead(rs, fs, num, J[n])
  <2> DEFINE item == [n \in 1 .. Len(J) |-> FieldRead(rs, fs, num, J[n])]
  <2>1. Adds(<<>>, f, Len(J), item)
    BY <1>12 DEF Finds
  <2>2. \A n \in 1 .. Len(J) : item[n] = FieldRead(rs, fs, num, J[n])
    OBVIOUS
  <2> HIDE DEF item
  <2>3. Len(f) = 0 + Len(J) /\ \A n \in 1 .. Len(J) : f[0 + n] = item[n]
    BY <2>1 DEF Adds
  <2>4. 0 + Len(J) = Len(J) /\ \A n \in 1 .. Len(J) : 0 + n = n
    BY <1>14a
  <2> QED
    BY <2>2, <2>3, <2>4
<1>18. Len(b) = Len(L) /\ \A n \in 1 .. Len(L) : b[n] = MarkOf(rs, num, 0, NoPath, L[n])
  <2> DEFINE item == [n \in 1 .. Len(L) |-> MarkOf(rs, num, 0, NoPath, L[n])]
  <2>1. Adds(<<>>, b, Len(L), item)
    BY <1>12 DEF Finds
  <2>2. \A n \in 1 .. Len(L) : item[n] = MarkOf(rs, num, 0, NoPath, L[n])
    OBVIOUS
  <2> HIDE DEF item
  <2>3. Len(b) = 0 + Len(L) /\ \A n \in 1 .. Len(L) : b[0 + n] = item[n]
    BY <2>1 DEF Adds
  <2>4. 0 + Len(L) = Len(L) /\ \A n \in 1 .. Len(L) : 0 + n = n
    BY <1>14
  <2> QED
    BY <2>2, <2>3, <2>4
<1>19. Whole(rs, fs, f, b, L, J, num)
  BY <1>2, <1>15, <1>16, <1>17, <1>18 DEF Whole
<1> QED
  BY <1>11, <1>19

(***************************************************************************)
(* What the numbers say: they go from one on along each path, and order    *)
(* the rows of a path below one parent as the composer does.               *)
(***************************************************************************)
Numbered(rs, num) ==
    /\ \A i \in DOMAIN rs :
          /\ num[i] \in Nat \ {0}
          /\ \A x \in 1 .. num[i] : \E k \in DOMAIN rs : rs[k].path = rs[i].path /\ num[k] = x
    /\ \A i, k \in DOMAIN rs : rs[i].path = rs[k].path /\ num[i] = num[k] => i = k
    /\ \A i, k \in DOMAIN rs :
          rs[i].path = rs[k].path /\ rs[i].parent = rs[k].parent
          => (num[i] < num[k] <=> ByOccurrence(rs, i, k))

LEMMA PlacesOfRows ==
    ASSUME NEW rs, NEW N, RowsOf(rs, N), NEW L, Orders(rs, L, DOMAIN rs, 0)
    PROVE  /\ Len(L) \in Nat /\ \A n \in 1 .. Len(L) : L[n] \in DOMAIN rs
           /\ \A i \in DOMAIN rs : \E n \in 1 .. Len(L) : L[n] = i
<1>1. L \in Seq(DOMAIN rs)
  BY DEF Orders
<1>2. Len(L) \in Nat /\ \A n \in 1 .. Len(L) : L[n] \in DOMAIN rs
  BY <1>1
<1> QED
  BY <1>2 DEF Orders

LEMMA WholeIsNumbered ==
    ASSUME NEW rs, NEW N, RowsOf(rs, N), NEW fs, NEW found, NEW marks, NEW L, NEW J, NEW num,
           Whole(rs, fs, found, marks, L, J, num)
    PROVE  Numbered(rs, num)
<1>1. Orders(rs, L, DOMAIN rs, 0)
  BY DEF Whole, Lists
<1>2. /\ Len(L) \in Nat /\ \A n \in 1 .. Len(L) : L[n] \in DOMAIN rs
      /\ \A i \in DOMAIN rs : \E n \in 1 .. Len(L) : L[n] = i
  BY <1>1, PlacesOfRows
<1>3. ASSUME NEW i \in DOMAIN rs
      PROVE  /\ num[i] \in Nat \ {0}
             /\ \A x \in 1 .. num[i] : \E k \in DOMAIN rs : rs[k].path = rs[i].path /\ num[k] = x
  <2>1. PICK n \in 1 .. Len(L) : L[n] = i
    BY <1>2
  <2>2. num[L[n]] \in Nat \ {0}
    BY DEF Whole
  <2>3. \A x \in 1 .. num[L[n]] : \E m \in 1 .. Len(L) : rs[L[m]].path = rs[L[n]].path /\ num[L[m]] = x
    BY DEF Whole
  <2>4. \A x \in 1 .. num[i] : \E m \in 1 .. Len(L) : rs[L[m]].path = rs[i].path /\ num[L[m]] = x
    BY <2>1, <2>3
  <2>5. \A x \in 1 .. num[i] : \E k \in DOMAIN rs : rs[k].path = rs[i].path /\ num[k] = x
    BY <1>2, <2>4
  <2> QED
    BY <2>1, <2>2, <2>5
<1>4. ASSUME NEW i \in DOMAIN rs, NEW k \in DOMAIN rs, rs[i].path = rs[k].path
      PROVE  /\ num[i] = num[k] => i = k
             /\ rs[i].parent = rs[k].parent => (num[i] < num[k] <=> ByOccurrence(rs, i, k))
  <2>1. PICK m \in 1 .. Len(L) : L[m] = i
    BY <1>2
  <2>2. PICK n \in 1 .. Len(L) : L[n] = k
    BY <1>2
  <2>3. /\ m < n => num[i] < num[k]
        /\ n < m => num[k] < num[i]
    BY <1>4, <2>1, <2>2 DEF Whole
  <2>4. num[i] \in Nat /\ num[k] \in Nat /\ m \in Nat /\ n \in Nat
    BY <1>3
  <2>5. num[i] = num[k] => i = k
    BY <2>1, <2>2, <2>3, <2>4
  <2>6. ASSUME rs[i].parent = rs[k].parent
        PROVE  num[i] < num[k] <=> ByOccurrence(rs, i, k)
    <3>1. /\ ByOccurrence(rs, i, k) => m < n
          /\ ByOccurrence(rs, k, i) => n < m
      BY <1>1, <2>1, <2>2, <2>6 DEF Orders
    <3>2. ~ByOccurrence(rs, i, i) /\ (i # k => ByOccurrence(rs, i, k) \/ ByOccurrence(rs, k, i))
      BY ByOccurrenceIsLinear
    <3> QED
      BY <2>3, <2>4, <3>1, <3>2
  <2> QED
    BY <2>5, <2>6
<1> QED
  BY <1>3, <1>4 DEF Numbered

\* Nothing stands below another than the first occurrence of its parent's path, and a row
\* without a field is the first of a mandatory path: in the order of the composer or by
\* number, which is the same as no row has a lost parent.
FirstBelow(rs) == \A i \in DOMAIN rs : rs[i].parent \in DOMAIN rs => IsFirst(rs, rs[i].parent)
FirstParents(rs, num) == \A i \in DOMAIN rs : rs[i].parent = 0 \/ num[rs[i].parent] = 1
EmptyCreated(rs, fs) ==
    \A i \in DOMAIN rs : FieldsOf(fs, i) = {} => rs[i].path \in Mandatory /\ IsFirst(rs, i)
EmptyFirst(rs, fs, num) ==
    \A i \in DOMAIN rs : FieldsOf(fs, i) = {} => rs[i].path \in Mandatory /\ num[i] = 1

\* Where a row is: below nothing, or below a row of the path that is configured.
LEMMA ParentOfRow ==
    ASSUME NEW rs, NEW N, RowsOf(rs, N), NEW fs, Placed(rs, fs), NEW i \in DOMAIN rs
    PROVE  /\ Layout[rs[i].path].parent = NoPath => rs[i].parent = 0
           /\ Layout[rs[i].path].parent # NoPath =>
                 rs[i].parent \in DOMAIN rs /\ rs[rs[i].parent].path = Layout[rs[i].path].parent
                 /\ rs[i].parent # 0
<1>1. IsBelow(rs, rs[i].path, rs[i].parent)
  BY DEF Placed
<1>2. 0 \notin DOMAIN rs
  BY FiniteRows
<1> QED
  BY <1>1, <1>2 DEF IsBelow, MayHaveParent

\* When all stands below first occurrences, rows of one path are below one parent.
LEMMA OneParent ==
    ASSUME NEW rs, NEW N, RowsOf(rs, N), NEW fs, Placed(rs, fs), NEW num, Numbered(rs, num),
           FirstBelow(rs) \/ FirstParents(rs, num),
           NEW i \in DOMAIN rs, NEW k \in DOMAIN rs, rs[i].path = rs[k].path
    PROVE  rs[i].parent = rs[k].parent
<1>1. CASE Layout[rs[i].path].parent = NoPath
  BY <1>1, ParentOfRow
<1>2. CASE Layout[rs[i].path].parent # NoPath
  <2> DEFINE y == rs[i].parent
             z == rs[k].parent
  <2>1. y \in DOMAIN rs /\ z \in DOMAIN rs /\ rs[y].path = rs[z].path /\ y # 0 /\ z # 0
    BY <1>2, ParentOfRow
  <2>2. CASE FirstParents(rs, num)
    <3>1. num[y] = 1 /\ num[z] = 1
      BY <2>1, <2>2 DEF FirstParents
    <3> QED
      BY <2>1, <3>1 DEF Numbered
  <2>3. CASE FirstBelow(rs)
    <3>1. y # z => ByOccurrence(rs, y, z) /\ ByOccurrence(rs, z, y)
      BY <2>1, <2>3 DEF FirstBelow, IsFirst
    <3>2. ~(ByOccurrence(rs, y, z) /\ ByOccurrence(rs, z, y))
      BY <2>1, ByOccurrenceIsLinear
    <3> QED
      BY <3>1, <3>2
  <2> QED
    BY <2>2, <2>3
<1> QED
  BY <1>1, <1>2

LEMMA FirstIsOne ==
    ASSUME NEW rs, NEW N, RowsOf(rs, N), NEW fs, Placed(rs, fs), NEW num, Numbered(rs, num),
           FirstBelow(rs) \/ FirstParents(rs, num), NEW x \in DOMAIN rs
    PROVE  IsFirst(rs, x) <=> num[x] = 1
<1>1. ASSUME IsFirst(rs, x) PROVE num[x] = 1
  <2>1. num[x] \in Nat \ {0} /\ \A y \in 1 .. num[x] :
             \E k \in DOMAIN rs : rs[k].path = rs[x].path /\ num[k] = y
    BY DEF Numbered
  <2>2. PICK k \in DOMAIN rs : rs[k].path = rs[x].path /\ num[k] = 1
    BY <2>1
  <2>3. CASE k # x
    <3>1. ByOccurrence(rs, x, k)
      BY <1>1, <2>2, <2>3 DEF IsFirst
    <3>2. rs[x].parent = rs[k].parent
      BY <2>2, OneParent
    <3>3. num[x] < num[k]
      BY <2>2, <3>1, <3>2 DEF Numbered
    <3> QED
      BY <2>1, <2>2, <3>3
  <2> QED
    BY <2>2, <2>3
<1>2. ASSUME num[x] = 1, NEW k \in DOMAIN rs \ {x}, rs[k].path = rs[x].path
      PROVE  ByOccurrence(rs, x, k)
  <2>1. rs[x].parent = rs[k].parent
    BY <1>2, OneParent
  <2>2. num[k] \in Nat \ {0} /\ num[k] # num[x]
    BY <1>2 DEF Numbered
  <2>3. num[x] < num[k]
    BY <1>2, <2>2
  <2> QED
    BY <1>2, <2>1, <2>3 DEF Numbered
<1> QED
  BY <1>1, <1>2 DEF IsFirst

LEMMA FirstParentsAreFirst ==
    ASSUME NEW rs, NEW N, RowsOf(rs, N), NEW fs, Placed(rs, fs), NEW num, Numbered(rs, num)
    PROVE  FirstBelow(rs) /\ EmptyCreated(rs, fs) <=> FirstParents(rs, num) /\ EmptyFirst(rs, fs, num)
<1>1. 0 \notin DOMAIN rs
  BY FiniteRows
<1>2. \A i \in DOMAIN rs : rs[i].parent = 0 \/ rs[i].parent \in DOMAIN rs
  BY ParentOfRow
<1>3. FirstBelow(rs) \/ FirstParents(rs, num) => \A x \in DOMAIN rs : IsFirst(rs, x) <=> num[x] = 1
  BY FirstIsOne
<1>4. FirstBelow(rs) <=> FirstParents(rs, num)
  BY <1>1, <1>2, <1>3 DEF FirstBelow, FirstParents
<1> QED
  BY <1>3, <1>4 DEF EmptyCreated, EmptyFirst

(***************************************************************************)
(* The addresses found in a text: along each path they rise.  They come in *)
(* turn, each after the first of its parent's path, when the text is of a  *)
(* draft with everything below first occurrences: what is not found before *)
(* is in every new draft.                                                  *)
(***************************************************************************)
Rising(found) ==
    /\ Len(found) \in Nat
    /\ \A n \in 1 .. Len(found) :
          found[n].path \in Paths /\ found[n].occ \in Nat \ {0} /\ found[n].value \in Values
    /\ \A m, n \in 1 .. Len(found) :
          m < n /\ found[m].path = found[n].path => found[m].occ < found[n].occ
Before(found, n, p, x) ==
    \/ p \in Mandatory /\ x = 1
    \/ \E m \in 1 .. n : found[m].path = p /\ found[m].occ = x
Addressed(found) ==
    \A n \in 1 .. Len(found) :
        /\ \A x \in 1 .. found[n].occ - 1 : Before(found, n - 1, found[n].path, x)
        /\ Layout[found[n].path].parent # NoPath => Before(found, n - 1, Layout[found[n].path].parent, 1)

\* Counted rows have one of every mandatory path: each is asked for below its parent.
LEMMA MandatoryRows ==
    ASSUME NEW rs, NEW N, RowsOf(rs, N), Counted(rs)
    PROVE  \A p \in Mandatory : \E i \in DOMAIN rs : rs[i].path = p
<1> DEFINE C == Cardinality(Mandatory)
           Good == {m \in 0 .. C : \A p \in Mandatory : RowOf(p) = m => \E i \in DOMAIN rs : rs[i].path = p}
<1>1. C \in Nat /\ \A p \in Mandatory : RowOf(p) \in 1 .. C
  BY RowsOfPaths
<1> HIDE DEF C
<1>2. ASSUME NEW m \in 0 .. C, \A k \in 0 .. C : k < m => k \in Good, NEW p \in Mandatory, RowOf(p) = m
      PROVE  \E i \in DOMAIN rs : rs[i].path = p
  <2> DEFINE q == Layout[p].parent
             parents == IF q = NoPath THEN {0} ELSE {i \in DOMAIN rs : rs[i].path = q}
  <2>1. p \in Paths /\ Layout[p].min \in Nat /\ Layout[p].min > 0 /\ Layout[p].max \in Nat
    BY Configured DEF Mandatory
  <2>2. \A i \in parents : Cardinality(Siblings(rs, p, i)) \in Layout[p].min .. Layout[p].max
    BY <2>1 DEF Counted
  <2>3. \E i : i \in parents
    <3>1. CASE q = NoPath
      BY <3>1
    <3>2. CASE q # NoPath
      <4>1. q \in Mandatory /\ Layout[q].order < Layout[p].order
        BY <3>2, LayoutAssumption
      <4>2. RowOf(q) < RowOf(p) /\ RowOf(q) \in 0 .. C
        BY <1>1, <4>1, RowsOfPaths
      <4>3. RowOf(q) \in Good
        BY <1>2, <4>2
      <4>4. \E i \in DOMAIN rs : rs[i].path = q
        BY <4>1, <4>3
      <4> QED
        BY <3>2, <4>4
    <3> QED
      BY <3>1, <3>2
  <2>4. PICK i : i \in parents
    BY <2>3
  <2> HIDE DEF parents
  <2>5. Cardinality(Siblings(rs, p, i)) # 0
    BY <2>1, <2>2, <2>4
  <2>6. Siblings(rs, p, i) # {}
    BY <2>5, FS_EmptySet
  <2> QED
    BY <2>6 DEF Siblings
<1>3. ASSUME NEW m \in 0 .. C, \A k \in 0 .. C : k < m => k \in Good PROVE m \in Good
  <2> HIDE DEF Good
  <2>1. \A p \in Mandatory : RowOf(p) = m => \E i \in DOMAIN rs : rs[i].path = p
    BY <1>2, <1>3
  <2> QED
    BY <2>1 DEF Good
<1> HIDE DEF Good
<1>4. 0 .. C \subseteq Good
  BY <1>1, <1>3, Upwards
<1>5. ASSUME NEW p \in Mandatory PROVE \E i \in DOMAIN rs : rs[i].path = p
  <2>1. RowOf(p) \in Good
    BY <1>1, <1>4
  <2> QED
    BY <2>1 DEF Good
<1> QED
  BY <1>5

\* The fields found are those of the rows that hold one, in their order.
LEMMA FoundFields ==
    ASSUME NEW rs, NEW N, RowsOf(rs, N), NEW fs, NEW found, NEW marks, NEW L, NEW J, NEW num,
           Whole(rs, fs, found, marks, L, J, num)
    PROVE  /\ Len(found) = Len(J) /\ Len(J) \in Nat
           /\ \A n \in 1 .. Len(J) :
                 /\ J[n] \in DOMAIN rs /\ FieldsOf(fs, J[n]) # {}
                 /\ found[n].path = rs[J[n]].path /\ found[n].occ = num[J[n]]
                 /\ found[n].value = Held(fs, J[n])
           /\ \A i \in DOMAIN rs : FieldsOf(fs, i) # {} => \E n \in 1 .. Len(J) : J[n] = i
           /\ \A m, n \in 1 .. Len(J) : m < n /\ rs[J[m]].path = rs[J[n]].path => num[J[m]] < num[J[n]]
<1>1. Orders(rs, L, DOMAIN rs, 0) /\ J \in Seq(DOMAIN rs) /\ Picks(fs, J, L) /\ Len(found) = Len(J)
  BY DEF Whole, Lists
<1>2. /\ Len(L) \in Nat /\ \A n \in 1 .. Len(L) : L[n] \in DOMAIN rs
      /\ \A i \in DOMAIN rs : \E n \in 1 .. Len(L) : L[n] = i
  BY <1>1, PlacesOfRows
<1>3. Len(J) \in Nat /\ \A n \in 1 .. Len(J) : J[n] \in DOMAIN rs
  BY <1>1
<1>4. ASSUME NEW n \in 1 .. Len(J)
      PROVE  found[n].path = rs[J[n]].path /\ found[n].occ = num[J[n]] /\ found[n].value = Held(fs, J[n])
  <2> PICK f, p, k, v : f = found[n] /\ p = rs[J[n]].path /\ k = num[J[n]] /\ v = Held(fs, J[n])
    OBVIOUS
  <2>1. found[n] = FieldRead(rs, fs, num, J[n])
    BY DEF Whole
  <2>2. f = [path |-> p, occ |-> k, value |-> v]
    BY <2>1, Zenon DEF FieldRead
  <2>3. f.path = p /\ f.occ = k /\ f.value = v
    BY <2>2
  <2> QED
    BY <2>3
<1>5. \A n \in 1 .. Len(J) : FieldsOf(fs, J[n]) # {} /\ \E x \in 1 .. Len(L) : J[n] = L[x]
  BY <1>1 DEF Picks
<1>6. \A i \in DOMAIN rs : FieldsOf(fs, i) # {} => \E n \in 1 .. Len(J) : J[n] = i
  BY <1>1, <1>2 DEF Picks
<1>7. ASSUME NEW m \in 1 .. Len(J), NEW n \in 1 .. Len(J), m < n, rs[J[m]].path = rs[J[n]].path
      PROVE  num[J[m]] < num[J[n]]
  <2>1. PICK x \in 1 .. Len(L) : J[m] = L[x]
    BY <1>5
  <2>2. PICK y \in 1 .. Len(L) : J[n] = L[y]
    BY <1>5
  <2>3. x < y
    BY <1>1, <1>7, <2>1, <2>2 DEF Picks
  <2> QED
    BY <1>7, <2>1, <2>2, <2>3 DEF Whole
<1> QED
  BY <1>1, <1>3, <1>4, <1>5, <1>6, <1>7

LEMMA FoundIsRising ==
    ASSUME NEW rs, NEW N, RowsOf(rs, N), NEW fs, NEW M, FieldRows(fs, M), OneField(rs, fs),
           NEW found, NEW marks, NEW L, NEW J, NEW num, Whole(rs, fs, found, marks, L, J, num)
    PROVE  Rising(found)
<1>1. /\ Len(found) = Len(J) /\ Len(J) \in Nat
      /\ \A n \in 1 .. Len(J) :
            /\ J[n] \in DOMAIN rs /\ FieldsOf(fs, J[n]) # {}
            /\ found[n].path = rs[J[n]].path /\ found[n].occ = num[J[n]]
            /\ found[n].value = Held(fs, J[n])
      /\ \A m, n \in 1 .. Len(J) : m < n /\ rs[J[m]].path = rs[J[n]].path => num[J[m]] < num[J[n]]
  BY FoundFields
<1>2. \A i \in DOMAIN rs : rs[i].path \in Paths /\ num[i] \in Nat \ {0}
  <2>1. Numbered(rs, num)
    BY WholeIsNumbered
  <2> QED
    BY <2>1 DEF RowsOf, Numbered
<1>3. \A n \in 1 .. Len(J) : Held(fs, J[n]) \in Values
  BY <1>1, HeldValue
<1> QED
  BY <1>1, <1>2, <1>3 DEF Rising

LEMMA FoundIsAddressed ==
    ASSUME NEW rs, NEW N, RowsOf(rs, N), NEW fs, NEW M, FieldRows(fs, M), OneField(rs, fs),
           Placed(rs, fs), NEW found, NEW marks, NEW L, NEW J, NEW num,
           Whole(rs, fs, found, marks, L, J, num), FirstParents(rs, num), EmptyFirst(rs, fs, num)
    PROVE  Addressed(found)
<1>1. Orders(rs, L, DOMAIN rs, 0) /\ Picks(fs, J, L)
  BY DEF Whole, Lists
<1>2. /\ Len(L) \in Nat /\ \A n \in 1 .. Len(L) : L[n] \in DOMAIN rs
      /\ \A i \in DOMAIN rs : \E n \in 1 .. Len(L) : L[n] = i
  BY <1>1, PlacesOfRows
<1>3. /\ Len(found) = Len(J) /\ Len(J) \in Nat
      /\ \A n \in 1 .. Len(J) :
            /\ J[n] \in DOMAIN rs /\ FieldsOf(fs, J[n]) # {}
            /\ found[n].path = rs[J[n]].path /\ found[n].occ = num[J[n]]
      /\ \A i \in DOMAIN rs : FieldsOf(fs, i) # {} => \E n \in 1 .. Len(J) : J[n] = i
      /\ \A m, n \in 1 .. Len(J) : m < n /\ rs[J[m]].path = rs[J[n]].path => num[J[m]] < num[J[n]]
  BY FoundFields
<1>4. Numbered(rs, num)
  BY WholeIsNumbered
<1>5. ASSUME NEW n \in 1 .. Len(J), NEW k \in DOMAIN rs, NEW p, p = rs[k].path, NEW x, x = num[k],
             \A m \in 1 .. Len(J) : J[m] = k => m < n
      PROVE  Before(found, n - 1, p, x)
  <2>1. CASE FieldsOf(fs, k) = {}
    BY <1>5, <2>1 DEF EmptyFirst, Before
  <2>2. CASE FieldsOf(fs, k) # {}
    <3>1. PICK m \in 1 .. Len(J) : J[m] = k
      BY <1>3, <2>2
    <3>2. m \in 1 .. n - 1
      BY <1>3, <1>5, <3>1
    <3>3. found[m].path = p /\ found[m].occ = x
      BY <1>3, <1>5, <3>1
    <3> QED
      BY <3>2, <3>3 DEF Before
  <2> QED
    BY <2>1, <2>2
<1>6. ASSUME NEW n \in 1 .. Len(J), NEW x \in 1 .. found[n].occ - 1
      PROVE  Before(found, n - 1, found[n].path, x)
  <2> PICK i, p, o : i = J[n] /\ p = found[n].path /\ o = found[n].occ
    OBVIOUS
  <2>1. i \in DOMAIN rs /\ p = rs[i].path /\ o = num[i] /\ o \in Nat \ {0}
    BY <1>3, <1>4 DEF Numbered
  <2>2. x \in 1 .. o /\ x < o /\ x \in Nat
    BY <2>1
  <2>3. PICK k \in DOMAIN rs : rs[k].path = p /\ num[k] = x
    BY <1>4, <2>1, <2>2 DEF Numbered
  <2>4. ASSUME NEW m \in 1 .. Len(J), J[m] = k PROVE m < n
    <3>1. n < m => o < x
      BY <1>3, <2>1, <2>3, <2>4
    <3>2. m # n
      BY <2>1, <2>2, <2>3, <2>4
    <3> QED
      BY <1>3, <2>1, <2>2, <3>1, <3>2
  <2>5. Before(found, n - 1, p, x)
    BY <1>5, <2>3, <2>4
  <2> QED
    BY <2>5
<1>7. ASSUME NEW n \in 1 .. Len(J), Layout[found[n].path].parent # NoPath
      PROVE  Before(found, n - 1, Layout[found[n].path].parent, 1)
  <2> PICK i, p, up : i = J[n] /\ p = found[n].path /\ up = rs[i].parent
    OBVIOUS
  <2>1. i \in DOMAIN rs /\ p = rs[i].path
    BY <1>3
  <2>2. up \in DOMAIN rs /\ rs[up].path = Layout[p].parent /\ up # 0
    BY <1>7, <2>1, ParentOfRow
  <2>3. num[up] = 1
    BY <2>1, <2>2 DEF FirstParents
  <2>4. PICK y \in 1 .. Len(L) : L[y] = i
    BY <1>2, <2>1
  <2>5. rs[L[y]].parent = 0 \/ \E z \in 1 .. y - 1 : L[z] = rs[L[y]].parent
    BY <1>1 DEF Orders
  <2>6. PICK z \in 1 .. y - 1 : L[z] = up
    BY <2>2, <2>4, <2>5
  <2>7. z \in 1 .. Len(L) /\ z < y
    BY <1>2
  <2>8. ASSUME NEW m \in 1 .. Len(J), J[m] = up PROVE m < n
    <3>1. J[m] = L[z] /\ J[n] = L[y]
      BY <2>4, <2>6, <2>8
    <3> QED
      BY <1>1, <2>7, <3>1 DEF Picks
  <2>9. Before(found, n - 1, Layout[p].parent, 1)
    BY <1>5, <2>2, <2>3, <2>8
  <2> QED
    BY <2>9
<1> QED
  BY <1>3, <1>6, <1>7 DEF Addressed

(***************************************************************************)
(* The import of those addresses.  After n of them a draft that is not     *)
(* refused holds one row for each of them and for each mandatory path,     *)
(* below the first occurrence of its parent's path, and their fields.      *)
(***************************************************************************)
ImportedRow == [path : Paths, parent : Nat, occ : Nat \ {0}]
ImportedField == [seq : Nat, value : Values]
SameAddress(x, y) == x.path = y.path /\ x.occ = y.occ
BelowFirst(R, path, parent) ==
    IF Layout[path].parent = NoPath THEN parent = 0
    ELSE parent \in DOMAIN R /\ R[parent].path = Layout[path].parent /\ R[parent].occ = 1
DraftRows(R, found, n) ==
    /\ R \in Seq(ImportedRow)
    /\ \A i, k \in DOMAIN R : SameAddress(R[i], R[k]) => i = k
    /\ \A i \in DOMAIN R : \/ \E m \in 1 .. n : SameAddress(R[i], found[m])
                           \/ R[i].path \in Mandatory /\ R[i].occ = 1
    /\ \A m \in 1 .. n : \E i \in DOMAIN R : SameAddress(R[i], found[m])
    /\ \A p \in Mandatory : \E i \in DOMAIN R : R[i].path = p /\ R[i].occ = 1
    /\ \A i \in DOMAIN R : R[i].parent < i /\ BelowFirst(R, R[i].path, R[i].parent)
DraftFields(R, F, found, n) ==
    /\ F \in Seq(ImportedField) /\ Len(F) = n
    /\ \A m \in 1 .. n : /\ F[m].value = found[m].value
                         /\ F[m].seq \in DOMAIN R /\ SameAddress(R[F[m].seq], found[m])
DraftOf(R, F) == [rs |-> R, fs |-> F, refused |-> FALSE]

LEMMA NewDraftFollows ==
    ASSUME NEW found
    PROVE  \E R, F : NewDraft = DraftOf(R, F) /\ DraftRows(R, found, 0) /\ DraftFields(R, F, found, 0)
<1> DEFINE C == Cardinality(Mandatory)
<1>1. PICK R : R = Created
  OBVIOUS
<1>2. /\ C \in Nat /\ \A p \in Mandatory : RowOf(p) \in 1 .. C
      /\ \A p, r \in Mandatory : RowOf(p) = RowOf(r) => p = r
  BY RowsOfPaths
<1>3. R = [i \in 1 .. C |-> R[i]] /\ \A i \in 1 .. C : R[i].occ = 1
  BY <1>1 DEF Created
<1>4. /\ DOMAIN R = 1 .. C
      /\ \A i \in 1 .. C : /\ R[i] \in SequenceRow /\ R[i].path \in Mandatory
                           /\ RowOf(R[i].path) = i /\ R[i].parent < i
                           /\ IsBelow(R, R[i].path, R[i].parent)
      /\ \A i, k \in 1 .. C : R[i].path = R[k].path => i = k
  BY <1>1, NewRows
<1> HIDE DEF C
<1>5. \A i \in 1 .. C : R[i] \in ImportedRow
  <2> SUFFICES ASSUME NEW i \in 1 .. C PROVE R[i] \in ImportedRow
    OBVIOUS
  <2>1. R[i].parent \in Nat
    BY <1>2, <1>4 DEF IsBelow, MayHaveParent
  <2> QED
    BY <1>4, <2>1 DEF SequenceRow, ImportedRow
<1>6. R \in Seq(ImportedRow)
  <2>1. R \in [1 .. C -> ImportedRow]
    BY <1>3, <1>5
  <2> QED
    BY <1>2, <2>1
<1>7. \A i, k \in DOMAIN R : SameAddress(R[i], R[k]) => i = k
  BY <1>4 DEF SameAddress
<1>8. \A i \in DOMAIN R : R[i].path \in Mandatory /\ R[i].occ = 1
  BY <1>3, <1>4
<1>9. ASSUME NEW p \in Mandatory PROVE \E i \in DOMAIN R : R[i].path = p /\ R[i].occ = 1
  <2> DEFINE i == RowOf(p)
  <2>1. i \in 1 .. C /\ R[i].path \in Mandatory /\ RowOf(R[i].path) = RowOf(p) /\ R[i].occ = 1
    BY <1>2, <1>3, <1>4
  <2>2. R[i].path = p
    BY <1>2, <2>1
  <2> QED
    BY <1>4, <2>1, <2>2
<1>10. ASSUME NEW i \in DOMAIN R PROVE R[i].parent < i /\ BelowFirst(R, R[i].path, R[i].parent)
  BY <1>3, <1>4 DEF IsBelow, MayHaveParent, BelowFirst
<1>11. DraftRows(R, found, 0)
  BY <1>6, <1>7, <1>8, <1>9, <1>10 DEF DraftRows
<1>12. DraftFields(R, <<>>, found, 0)
  BY DEF DraftFields
<1>13. NewDraft = DraftOf(R, <<>>)
  BY <1>1 DEF NewDraft, DraftOf
<1> QED
  BY <1>11, <1>12, <1>13

\* Where the import puts the rows of a path: below one row, or below none.
PlaceFor(R, p, parent) ==
    /\ ParentsFor(R, p) = {parent} /\ parent \in Nat /\ parent <= Len(R) /\ BelowFirst(R, p, parent)
    /\ \A i \in DOMAIN R : R[i].path = p => R[i].parent = parent
IsNext(R, p, parent, occ) == Cardinality(Siblings(R, p, parent)) + 1 = occ

LEMMA PlaceForPath ==
    ASSUME NEW found, NEW n, NEW R, DraftRows(R, found, n), NEW p, NEW parent \in ParentsFor(R, p)
    PROVE  PlaceFor(R, p, parent)
<1>1. \A i \in DOMAIN R : BelowFirst(R, R[i].path, R[i].parent)
  BY DEF DraftRows
<1>2. R \in Seq(ImportedRow)
  BY DEF DraftRows
<1>3. Len(R) \in Nat /\ DOMAIN R = 1 .. Len(R)
  BY <1>2
<1>4. CASE Layout[p].parent = NoPath
  <2>1. ParentsFor(R, p) = {0} /\ parent = 0 /\ BelowFirst(R, p, 0)
    BY <1>4 DEF ParentsFor, BelowFirst
  <2>2. \A i \in DOMAIN R : R[i].path = p => R[i].parent = 0
    BY <1>1, <1>4 DEF BelowFirst
  <2> QED
    BY <1>3, <2>1, <2>2 DEF PlaceFor
<1>5. CASE Layout[p].parent # NoPath
  <2> DEFINE q == Layout[p].parent
  <2>1. ParentsFor(R, p) = {i \in DOMAIN R : R[i].path = q /\ R[i].occ = 1}
    BY <1>5 DEF ParentsFor, Holding
  <2>2. parent \in DOMAIN R /\ R[parent].path = q /\ R[parent].occ = 1
    BY <2>1
  <2>3. \A i \in DOMAIN R : R[i].path = q /\ R[i].occ = 1 => i = parent
    BY <2>2 DEF DraftRows, SameAddress
  <2>4. ParentsFor(R, p) = {parent}
    BY <2>1, <2>2, <2>3
  <2>5. BelowFirst(R, p, parent)
    BY <1>5, <2>2 DEF BelowFirst
  <2>6. \A i \in DOMAIN R : R[i].path = p => R[i].parent = parent
    BY <1>1, <1>5, <2>3 DEF BelowFirst
  <2> QED
    BY <1>3, <2>2, <2>4, <2>5, <2>6 DEF PlaceFor
<1> QED
  BY <1>4, <1>5

\* What is found before n, or is in every new draft, has its row by then.
LEMMA BeforeIsThere ==
    ASSUME NEW found, NEW n, NEW R, DraftRows(R, found, n), NEW p, NEW x, Before(found, n, p, x)
    PROVE  \E i \in DOMAIN R : R[i].path = p /\ R[i].occ = x
<1>1. CASE p \in Mandatory /\ x = 1
  BY <1>1 DEF DraftRows
<1>2. ASSUME NEW m \in 1 .. n, found[m].path = p, found[m].occ = x
      PROVE  \E i \in DOMAIN R : R[i].path = p /\ R[i].occ = x
  BY <1>2 DEF DraftRows, SameAddress
<1> QED
  BY <1>1, <1>2 DEF Before

LEMMA PlaceExists ==
    ASSUME NEW found, Addressed(found), NEW n \in 1 .. Len(found), NEW R, DraftRows(R, found, n - 1),
           NEW p, p = found[n].path
    PROVE  \E parent : parent \in ParentsFor(R, p)
<1>1. CASE Layout[p].parent = NoPath
  BY <1>1 DEF ParentsFor
<1>2. CASE Layout[p].parent # NoPath
  <2>1. Before(found, n - 1, Layout[p].parent, 1)
    BY <1>2 DEF Addressed
  <2> PICK w, q, x : w = n - 1 /\ q = Layout[p].parent /\ x = 1
    OBVIOUS
  <2>2. DraftRows(R, found, w) /\ Before(found, w, q, x)
    BY <2>1
  <2>3. \E i \in DOMAIN R : R[i].path = q /\ R[i].occ = x
    <3>1. CASE q \in Mandatory /\ x = 1
      BY <2>2, <3>1 DEF DraftRows
    <3>2. ASSUME NEW m \in 1 .. w, found[m].path = q, found[m].occ = x
          PROVE  \E i \in DOMAIN R : R[i].path = q /\ R[i].occ = x
      BY <2>2, <3>2 DEF DraftRows, SameAddress
    <3> QED
      BY <2>2, <3>1, <3>2 DEF Before
  <2>4. PICK i \in DOMAIN R : R[i].path = Layout[p].parent /\ R[i].occ = 1
    BY <2>3
  <2>5. i \in Holding(R, Layout[p].parent, 1)
    BY <2>4 DEF Holding
  <2> QED
    BY <1>2, <2>5, Zenon DEF ParentsFor
<1> QED
  BY <1>1, <1>2

\* An address that is missing is the next of its path.
LEMMA MissingIsNext ==
    ASSUME NEW found, Rising(found), Addressed(found), NEW n \in 1 .. Len(found), NEW R, DraftRows(R, found, n - 1),
           NEW p, p = found[n].path, NEW o, o = found[n].occ, Holding(R, p, o) = {},
           NEW parent, PlaceFor(R, p, parent)
    PROVE  IsNext(R, p, parent, o)
<1> DEFINE S == Siblings(R, p, parent)
           f == [i \in S |-> R[i].occ]
<1>1. S = {i \in DOMAIN R : R[i].path = p}
  BY DEF Siblings, PlaceFor
<1>2. o \in Nat \ {0} /\ n \in Nat /\ Len(found) \in Nat
  BY DEF Rising
<1>3. R \in Seq(ImportedRow)
  BY DEF DraftRows
<1>4. \A i \in DOMAIN R : R[i].occ \in Nat \ {0}
  <2>1. \A i \in DOMAIN R : R[i] \in ImportedRow
    BY <1>3
  <2> QED
    BY <2>1 DEF ImportedRow
<1>5. ASSUME NEW i \in S PROVE R[i].occ \in 1 .. o - 1
  <2>1. i \in DOMAIN R /\ R[i].path = p /\ R[i].occ \in Nat \ {0}
    BY <1>1, <1>4
  <2>2. R[i].occ # o
    BY <2>1 DEF Holding
  <2>3. CASE R[i].occ = 1
    BY <1>2, <2>2, <2>3
  <2>4. CASE R[i].occ # 1
    <3>1. PICK m \in 1 .. n - 1 : SameAddress(R[i], found[m])
      BY <2>1, <2>4 DEF DraftRows
    <3>2. m \in 1 .. Len(found) /\ m < n
      BY <1>2
    <3>3. found[m].path = found[n].path /\ found[m].occ = R[i].occ
      BY <2>1, <3>1 DEF SameAddress
    <3>4. R[i].occ < o
      BY <3>2, <3>3 DEF Rising
    <3> QED
      BY <1>2, <2>1, <3>4
  <2> QED
    BY <2>3, <2>4
<1>6. ASSUME NEW x \in 1 .. o - 1 PROVE \E i \in S : R[i].occ = x
  <2>1. Before(found, n - 1, p, x)
    BY DEF Addressed
  <2> PICK w : w = n - 1
    OBVIOUS
  <2>2. DraftRows(R, found, w) /\ Before(found, w, p, x)
    BY <2>1
  <2>3. PICK i \in DOMAIN R : R[i].path = p /\ R[i].occ = x
    BY <2>2, BeforeIsThere
  <2> QED
    BY <1>1, <2>3
<1>7. \A i, k \in S : R[i].occ = R[k].occ => i = k
  BY <1>1 DEF DraftRows, SameAddress
<1> HIDE DEF S
<1>8. f \in Injection(S, 1 .. o - 1) /\ f \in Surjection(S, 1 .. o - 1)
  <2>1. f \in [S -> 1 .. o - 1] /\ (\A i, k \in S : f[i] = f[k] => i = k)
        /\ \A x \in 1 .. o - 1 : \E i \in S : f[i] = x
    BY <1>5, <1>6, <1>7
  <2> HIDE DEF f
  <2> QED
    BY <2>1 DEF Injection, Surjection, IsInjective
<1> HIDE DEF f
<1>9. IsFiniteSet(1 .. o - 1) /\ Cardinality(1 .. o - 1) = o - 1
  <2> PICK w : w = o - 1
    OBVIOUS
  <2>1. w \in Int /\ 1 \in Int /\ (1 > w => w = 0)
    BY <1>2
  <2>2. IsFiniteSet(1 .. w) /\ Cardinality(1 .. w) = IF 1 > w THEN 0 ELSE w - 1 + 1
    BY <2>1, FS_Interval, Zenon
  <2>3. Cardinality(1 .. w) = w
    BY <2>1, <2>2
  <2> QED
    BY <2>2, <2>3
<1>10. Cardinality(S) = o - 1
  BY <1>8, <1>9, FS_Injection
<1> QED
  BY <1>2, <1>10 DEF S, IsNext

LEMMA DraftParts ==
    ASSUME NEW R, NEW F
    PROVE  DraftOf(R, F).rs = R /\ DraftOf(R, F).fs = F /\ DraftOf(R, F).refused = FALSE
BY DEF DraftOf

LEMMA RowAdded ==
    ASSUME NEW found, Rising(found), NEW n \in 1 .. Len(found), NEW R, DraftRows(R, found, n - 1),
           NEW p, p = found[n].path, NEW o, o = found[n].occ, Holding(R, p, o) = {},
           NEW parent \in Nat, parent <= Len(R), BelowFirst(R, p, parent),
           NEW Q, Q = Append(R, [path |-> p, parent |-> parent, occ |-> o])
    PROVE  /\ DraftRows(Q, found, n) /\ \A i \in DOMAIN R : i \in DOMAIN Q /\ Q[i] = R[i]
           /\ \E i \in DOMAIN Q : SameAddress(Q[i], found[n])
<1>1. p \in Paths /\ o \in Nat \ {0} /\ n \in Nat /\ Len(found) \in Nat
  BY DEF Rising
<1>2. R \in Seq(ImportedRow)
  BY DEF DraftRows
<1> PICK row : row = [path |-> p, parent |-> parent, occ |-> o]
  OBVIOUS
<1>3. row \in ImportedRow /\ row.path = p /\ row.parent = parent /\ row.occ = o
  BY <1>1 DEF ImportedRow
<1>4. Q = Append(R, row)
  OBVIOUS
<1>5. PICK last : last = Len(R) + 1
  OBVIOUS
<1>6. /\ Q \in Seq(ImportedRow) /\ DOMAIN R = 1 .. Len(R) /\ Len(R) \in Nat /\ DOMAIN Q = 1 .. last
      /\ Q[last] = row /\ \A i \in 1 .. Len(R) : Q[i] = R[i]
  BY <1>2, <1>3, <1>4, <1>5
<1>7. /\ \A i \in DOMAIN R : i \in DOMAIN Q /\ Q[i] = R[i] /\ i < last
      /\ last \in DOMAIN Q /\ \A i \in DOMAIN Q : i \in DOMAIN R \/ i = last
  BY <1>5, <1>6
<1>8. \A m \in 1 .. n : m \in 1 .. n - 1 \/ m = n
  BY <1>1
<1>9. SameAddress(Q[last], found[n])
  BY <1>3, <1>6 DEF SameAddress
<1>10. \A i \in DOMAIN R : ~(R[i].path = p /\ R[i].occ = o)
  BY DEF Holding
<1>11. \A i, k \in DOMAIN Q : SameAddress(Q[i], Q[k]) => i = k
  <2>1. \A i, k \in DOMAIN R : SameAddress(R[i], R[k]) => i = k
    BY DEF DraftRows
  <2>2. \A i \in DOMAIN R : ~SameAddress(Q[i], Q[last]) /\ ~SameAddress(Q[last], Q[i])
    BY <1>3, <1>6, <1>7, <1>10 DEF SameAddress
  <2> QED
    BY <1>7, <2>1, <2>2
<1>12. ASSUME NEW i \in DOMAIN Q
       PROVE  (\E m \in 1 .. n : SameAddress(Q[i], found[m])) \/ (Q[i].path \in Mandatory /\ Q[i].occ = 1)
  <2>1. CASE i = last
    <3>1. n \in 1 .. n
      BY <1>1
    <3> QED
      BY <1>9, <2>1, <3>1
  <2>2. CASE i \in DOMAIN R
    <3>1. (\E m \in 1 .. n - 1 : SameAddress(R[i], found[m])) \/ (R[i].path \in Mandatory /\ R[i].occ = 1)
      BY <2>2 DEF DraftRows
    <3>2. \A m \in 1 .. n - 1 : m \in 1 .. n
      BY <1>1
    <3> QED
      BY <1>7, <2>2, <3>1, <3>2
  <2> QED
    BY <1>7, <2>1, <2>2
<1>13. ASSUME NEW m \in 1 .. n PROVE \E i \in DOMAIN Q : SameAddress(Q[i], found[m])
  <2>1. CASE m = n
    BY <1>7, <1>9, <2>1
  <2>2. CASE m \in 1 .. n - 1
    <3>1. PICK i \in DOMAIN R : SameAddress(R[i], found[m])
      BY <2>2 DEF DraftRows
    <3> QED
      BY <1>7, <3>1
  <2> QED
    BY <1>8, <2>1, <2>2
<1>14. ASSUME NEW r \in Mandatory PROVE \E i \in DOMAIN Q : Q[i].path = r /\ Q[i].occ = 1
  <2>1. PICK i \in DOMAIN R : R[i].path = r /\ R[i].occ = 1
    BY DEF DraftRows
  <2> QED
    BY <1>7, <2>1
<1>15. ASSUME NEW i \in DOMAIN Q PROVE Q[i].parent < i /\ BelowFirst(Q, Q[i].path, Q[i].parent)
  <2>1. \A x, y : BelowFirst(R, x, y) => BelowFirst(Q, x, y)
    BY <1>7 DEF BelowFirst
  <2>2. CASE i = last
    BY <1>3, <1>5, <1>6, <2>1, <2>2
  <2>3. CASE i \in DOMAIN R
    <3>1. R[i].parent < i /\ BelowFirst(R, R[i].path, R[i].parent)
      BY <2>3 DEF DraftRows
    <3> QED
      BY <1>7, <2>1, <2>3, <3>1
  <2> QED
    BY <1>7, <2>2, <2>3
<1>16. DraftRows(Q, found, n)
  BY <1>6, <1>11, <1>12, <1>13, <1>14, <1>15 DEF DraftRows
<1> QED
  BY <1>7, <1>9, <1>16

LEMMA RowThere ==
    ASSUME NEW found, Rising(found), NEW n \in 1 .. Len(found), NEW R, DraftRows(R, found, n - 1),
           Holding(R, found[n].path, found[n].occ) # {}
    PROVE  DraftRows(R, found, n) /\ \E i \in DOMAIN R : SameAddress(R[i], found[n])
<1>1. n \in Nat
  BY DEF Rising
<1>2. \E i \in DOMAIN R : SameAddress(R[i], found[n])
  BY DEF Holding, SameAddress
<1>3. \A m \in 1 .. n : m \in 1 .. n - 1 \/ m = n
  BY <1>1
<1>4. \A m \in 1 .. n - 1 : m \in 1 .. n
  BY <1>1
<1>5. \A m \in 1 .. n : \E i \in DOMAIN R : SameAddress(R[i], found[m])
  BY <1>2, <1>3 DEF DraftRows
<1>6. \A i \in DOMAIN R : \/ \E m \in 1 .. n : SameAddress(R[i], found[m])
                          \/ R[i].path \in Mandatory /\ R[i].occ = 1
  BY <1>4 DEF DraftRows
<1> QED
  BY <1>2, <1>5, <1>6 DEF DraftRows

\* add_sequence refuses only what exceeds the limit or comes out of turn.
LEMMA SequenceImported ==
    ASSUME NEW found, Rising(found), NEW n \in 1 .. Len(found), NEW R, DraftRows(R, found, n - 1),
           NEW p, p = found[n].path, NEW o, o = found[n].occ,
           NEW F, NEW next, next = ImportSequence(DraftOf(R, F), p, o)
    PROVE  \/ next.refused /\ ~(Addressed(found) /\ o <= Layout[p].max)
           \/ \E Q : /\ next = DraftOf(Q, F) /\ DraftRows(Q, found, n)
                     /\ \A i \in DOMAIN R : i \in DOMAIN Q /\ Q[i] = R[i]
                     /\ \E i \in DOMAIN Q : SameAddress(Q[i], found[n])
<1> DEFINE d == DraftOf(R, F)
           number(parent) == Cardinality(Siblings(d.rs, p, parent)) + 1
           row(parent) == [path |-> p, parent |-> parent, occ |-> number(parent)]
           parents == ParentsFor(d.rs, p)
<1>1. next = IF Holding(d.rs, p, o) # {} THEN d
             ELSE IF \E parent \in parents : number(parent) = o /\ o <= Layout[p].max
             THEN [d EXCEPT !.rs = Append(d.rs, row(CHOOSE parent \in parents : TRUE))]
             ELSE [d EXCEPT !.refused = TRUE]
  BY DEF ImportSequence
<1>2. d.rs = R
  BY DraftParts
<1>3. CASE Holding(R, p, o) # {}
  <2>1. next = DraftOf(R, F)
    <3> HIDE DEF d
    <3>1. next = d
      BY <1>1, <1>2, <1>3
    <3> QED
      BY <3>1 DEF d
  <2>2. DraftRows(R, found, n) /\ \E i \in DOMAIN R : SameAddress(R[i], found[n])
    BY <1>3, RowThere
  <2> QED
    BY <2>1, <2>2
<1>4. ASSUME Holding(R, p, o) = {}, NEW parent \in ParentsFor(R, p), IsNext(R, p, parent, o),
             o <= Layout[p].max
      PROVE  \E Q : /\ next = DraftOf(Q, F) /\ DraftRows(Q, found, n)
                    /\ \A i \in DOMAIN R : i \in DOMAIN Q /\ Q[i] = R[i]
                    /\ \E i \in DOMAIN Q : SameAddress(Q[i], found[n])
  <2>0. PlaceFor(R, p, parent)
    BY <1>4, PlaceForPath
  <2>1. ParentsFor(R, p) = {parent} /\ parent \in Nat /\ parent <= Len(R) /\ BelowFirst(R, p, parent)
    BY <2>0 DEF PlaceFor
  <2> PICK D, P : D = d /\ P = parents
    OBVIOUS
  <2>2. D.rs = R /\ P = {parent}
    BY <1>2, <2>1
  <2>3. number(parent) = o
    BY <1>2, <1>4 DEF IsNext
  <2>4. (CHOOSE x \in P : TRUE) = parent
    BY <2>2
  <2>5. row(CHOOSE x \in P : TRUE) = [path |-> p, parent |-> parent, occ |-> o]
    BY <2>3, <2>4, Zenon
  <2> DEFINE Q == Append(R, [path |-> p, parent |-> parent, occ |-> o])
  <2>6. next = [D EXCEPT !.rs = Append(D.rs, row(CHOOSE x \in P : TRUE))]
    <3> HIDE DEF d, parents
    <3>1. \E x \in P : number(x) = o /\ o <= Layout[p].max
      BY <1>4, <2>2, <2>3
    <3>2. ~(Holding(d.rs, p, o) # {})
      BY <1>2, <1>4
    <3> HIDE DEF number, row
    <3> QED
      BY <1>1, <3>1, <3>2, Zenon
  <2>7. next = [D EXCEPT !.rs = Q]
    BY <2>2, <2>5, <2>6, Zenon
  <2>8. D = DraftOf(R, F)
    OBVIOUS
  <2>9. next = DraftOf(Q, F)
    <3> HIDE DEF Q
    <3> PICK b : b = FALSE
      OBVIOUS
    <3>1. D = [rs |-> R, fs |-> F, refused |-> b]
      BY <2>8, Zenon DEF DraftOf
    <3>2. [[rs |-> R, fs |-> F, refused |-> b] EXCEPT !.rs = Q] = [rs |-> Q, fs |-> F, refused |-> b]
      OBVIOUS
    <3>3. next = [rs |-> Q, fs |-> F, refused |-> b]
      BY <2>7, <3>1, <3>2, Zenon
    <3> QED
      BY <3>3, Zenon DEF DraftOf
  <2>10. /\ DraftRows(Q, found, n) /\ \A i \in DOMAIN R : i \in DOMAIN Q /\ Q[i] = R[i]
         /\ \E i \in DOMAIN Q : SameAddress(Q[i], found[n])
    <3>1. /\ Holding(R, p, o) = {} /\ parent \in Nat /\ parent <= Len(R) /\ BelowFirst(R, p, parent)
          /\ Rising(found) /\ n \in 1 .. Len(found) /\ DraftRows(R, found, n - 1)
          /\ p = found[n].path /\ o = found[n].occ
      BY <1>4, <2>1
    <3> QED
      BY ONLY <3>1, RowAdded, ZenonT(60)
  <2> HIDE DEF Q
  <2> QED
    BY <2>9, <2>10
<1>5. ASSUME Holding(R, p, o) = {},
             ~ \E parent \in ParentsFor(R, p) : IsNext(R, p, parent, o) /\ o <= Layout[p].max
      PROVE  next.refused /\ ~(Addressed(found) /\ o <= Layout[p].max)
  <2>1. next.refused
    <3> PICK D : D = d
      OBVIOUS
    <3>1. ~ \E parent \in parents : number(parent) = o /\ o <= Layout[p].max
      BY <1>2, <1>5 DEF IsNext
    <3>2. ~(Holding(d.rs, p, o) # {})
      BY <1>2, <1>5
    <3>3. next = [D EXCEPT !.refused = TRUE]
      <4> HIDE DEF d, parents, row, number
      <4> QED
        BY <1>1, <3>1, <3>2, Zenon
    <3>4. next.refused = TRUE
      <4>1. D = DraftOf(R, F)
        OBVIOUS
      <4> PICK b : b = FALSE
        OBVIOUS
      <4>2. D = [rs |-> R, fs |-> F, refused |-> b]
        BY <4>1, Zenon DEF DraftOf
      <4> QED
        BY <3>3, <4>2
    <3> QED
      BY <3>4
  <2>2. ASSUME Addressed(found), o <= Layout[p].max PROVE FALSE
    <3>1. PICK parent : parent \in ParentsFor(R, p)
      BY <2>2, PlaceExists
    <3>2. PlaceFor(R, p, parent)
      BY <3>1, PlaceForPath
    <3>3. IsNext(R, p, parent, o)
      BY <1>5, <2>2, <3>2, MissingIsNext
    <3> QED
      BY <1>5, <2>2, <3>1, <3>3
  <2> QED
    BY <2>1, <2>2
<1> QED
  BY <1>3, <1>4, <1>5

\* The states of an import: refused, or following the addresses so far.
SoFar(found, n, d) ==
    \E R, F : d = DraftOf(R, F) /\ DraftRows(R, found, n) /\ DraftFields(R, F, found, n)
Refused(d) == \E R, F : d = [rs |-> R, fs |-> F, refused |-> TRUE]
OverLimit(parsed) == ~(parsed.occ <= Layout[parsed.path].max)

LEMMA FieldImported ==
    ASSUME NEW found, Rising(found), NEW n \in 1 .. Len(found), NEW d, NEW e, e = ImportField(d, found[n]),
           SoFar(found, n - 1, d)
    PROVE  SoFar(found, n, e) \/ (Refused(e) /\ ~(Addressed(found) /\ ~OverLimit(found[n])))
<1>1. PICK R, F : d = DraftOf(R, F) /\ DraftRows(R, found, n - 1) /\ DraftFields(R, F, found, n - 1)
  BY DEF SoFar
<1>2. PICK p, o, v, next : p = found[n].path /\ o = found[n].occ /\ v = found[n].value
                           /\ next = ImportSequence(d, p, o)
  OBVIOUS
<1>3. d.rs = R /\ d.fs = F /\ d.refused = FALSE
  BY ONLY <1>1, DraftParts, ZenonT(60)
<1> DEFINE i == CHOOSE k \in Holding(next.rs, p, o) : TRUE
<1>4. e = IF d.refused \/ next.refused THEN [d EXCEPT !.refused = TRUE]
          ELSE IF FieldsOf(next.fs, i) = {}
               THEN [next EXCEPT !.fs = Append(next.fs, [seq |-> i, value |-> v])]
               ELSE [next EXCEPT !.fs = [f \in DOMAIN next.fs |-> IF next.fs[f].seq = i
                                            THEN [next.fs[f] EXCEPT !.value = v] ELSE next.fs[f]]]
  <2>1. e = ImportField(d, found[n]) /\ next = ImportSequence(d, found[n].path, found[n].occ)
    BY <1>2
  <2> QED
    BY <1>2, <2>1 DEF ImportField
<1>5. p \in Paths /\ o \in Nat \ {0} /\ v \in Values /\ n \in Nat /\ Len(found) \in Nat
  BY <1>2 DEF Rising
<1>6. CASE next.refused /\ ~(Addressed(found) /\ o <= Layout[p].max)
  <2>1. e = [d EXCEPT !.refused = TRUE]
    <3> HIDE DEF i
    <3> QED
      BY <1>4, <1>6, Zenon
  <2>2. d = [rs |-> R, fs |-> F, refused |-> FALSE]
    BY <1>1 DEF DraftOf
  <2>3. e = [rs |-> R, fs |-> F, refused |-> TRUE]
    BY <2>1, <2>2
  <2> QED
    BY <1>2, <1>6, <2>3, Zenon DEF Refused, OverLimit
<1>7. ASSUME NEW Q, next = DraftOf(Q, F), DraftRows(Q, found, n),
             \A k \in DOMAIN R : k \in DOMAIN Q /\ Q[k] = R[k],
             \E k \in DOMAIN Q : SameAddress(Q[k], found[n])
      PROVE  SoFar(found, n, e)
  <2>1. next.rs = Q /\ next.fs = F /\ next.refused = FALSE
    <3>1. next = DraftOf(Q, F)
      BY <1>7
    <3> QED
      BY ONLY <3>1, DraftParts, ZenonT(60)
  <2>2. Q \in Seq(ImportedRow) /\ F \in Seq(ImportedField) /\ Len(F) = n - 1
    BY <1>1, <1>7 DEF DraftRows, DraftFields
  <2>3. DOMAIN Q \subseteq Nat /\ DOMAIN F = 1 .. n - 1
    BY <1>5, <2>2
  <2>4. i \in DOMAIN Q /\ Q[i].path = p /\ Q[i].occ = o
    <3>1. PICK k \in DOMAIN Q : SameAddress(Q[k], found[n])
      BY <1>7
    <3>2. k \in Holding(Q, p, o)
      BY <1>2, <3>1 DEF Holding, SameAddress
    <3>3. i \in Holding(Q, p, o)
      BY <2>1, <3>2
    <3> HIDE DEF i
    <3> QED
      BY <3>3 DEF Holding
  <2> HIDE DEF i
  <2>5. i \in Nat
    BY <2>3, <2>4
  <2>6. ASSUME NEW m \in 1 .. n - 1 PROVE F[m].seq # i
    <3>1. F[m].seq \in DOMAIN R /\ SameAddress(R[F[m].seq], found[m])
      BY <1>1 DEF DraftFields
    <3>2. SameAddress(Q[F[m].seq], found[m])
      BY <1>7, <3>1
    <3>3. F[m].seq = i => found[m].path = found[n].path /\ found[m].occ = found[n].occ
      BY <1>2, <2>4, <3>2 DEF SameAddress
    <3>4. m \in 1 .. Len(found) /\ m < n
      BY <1>5
    <3>5. found[m].path = found[n].path => found[m].occ < found[n].occ
      BY <3>4 DEF Rising
    <3>6. found[m].occ \in Nat /\ found[n].occ \in Nat
      BY <3>4 DEF Rising
    <3> QED
      BY <3>3, <3>5, <3>6
  <2>7. FieldsOf(next.fs, i) = {}
    BY <2>1, <2>3, <2>6 DEF FieldsOf
  <2> PICK new : new = [seq |-> i, value |-> v]
    OBVIOUS
  <2> PICK G : G = Append(F, new)
    OBVIOUS
  <2>8. e = [next EXCEPT !.fs = G]
    BY <1>3, <1>4, <2>1, <2>7, Zenon
  <2>9. e = DraftOf(Q, G)
    <3> PICK b : b = FALSE
      OBVIOUS
    <3>1. next = [rs |-> Q, fs |-> F, refused |-> b]
      BY <1>7, Zenon DEF DraftOf
    <3>2. e = [rs |-> Q, fs |-> G, refused |-> b]
      BY <2>8, <3>1
    <3> QED
      BY <3>2, Zenon DEF DraftOf
  <2>10. new \in ImportedField /\ new.seq = i /\ new.value = v
    BY <1>5, <2>5 DEF ImportedField
  <2>11. /\ G \in Seq(ImportedField) /\ Len(G) = n /\ G[n] = new
         /\ \A m \in 1 .. n - 1 : G[m] = F[m]
    BY <1>5, <2>2, <2>10
  <2>12. ASSUME NEW m \in 1 .. n
         PROVE  /\ G[m].value = found[m].value
                /\ G[m].seq \in DOMAIN Q /\ SameAddress(Q[G[m].seq], found[m])
    <3>1. CASE m = n
      BY <1>2, <2>4, <2>10, <2>11, <3>1 DEF SameAddress
    <3>2. CASE m \in 1 .. n - 1
      <4>1. G[m] = F[m]
        BY <2>11, <3>2
      <4>2. F[m].value = found[m].value /\ F[m].seq \in DOMAIN R /\ SameAddress(R[F[m].seq], found[m])
        BY <1>1, <3>2 DEF DraftFields
      <4> QED
        BY <1>7, <4>1, <4>2
    <3>3. m = n \/ m \in 1 .. n - 1
      BY <1>5
    <3> QED
      BY <3>1, <3>2, <3>3
  <2>13. DraftFields(Q, G, found, n)
    BY <2>11, <2>12 DEF DraftFields
  <2> QED
    BY <1>7, <2>9, <2>13 DEF SoFar
<1> HIDE DEF i
<1>8. \/ next.refused /\ ~(Addressed(found) /\ o <= Layout[p].max)
      \/ \E Q : /\ next = DraftOf(Q, F) /\ DraftRows(Q, found, n)
                /\ \A k \in DOMAIN R : k \in DOMAIN Q /\ Q[k] = R[k]
                /\ \E k \in DOMAIN Q : SameAddress(Q[k], found[n])
  BY <1>1, <1>2, SequenceImported
<1> QED
  BY <1>6, <1>7, <1>8

LEMMA RefusedStays ==
    ASSUME NEW d, Refused(d), NEW parsed PROVE Refused(ImportField(d, parsed))
<1>1. PICK R, F : d = [rs |-> R, fs |-> F, refused |-> TRUE]
  BY DEF Refused
<1>2. d.refused
  <2>1. d.refused = TRUE
    BY <1>1
  <2> QED
    BY <2>1
<1>3. PICK e : e = ImportField(d, parsed)
  OBVIOUS
<1>4. e = [d EXCEPT !.refused = TRUE]
  BY <1>2, <1>3, Zenon DEF ImportField
<1>5. e = [rs |-> R, fs |-> F, refused |-> TRUE]
  BY <1>1, <1>4
<1> QED
  BY <1>3, <1>5, Zenon DEF Refused

\* The import itself: it follows the addresses to the end or is refused, and is refused only
\* when one is over the limit of its path or out of turn.
Imports(r, found, m) ==
    r = [n \in 0 .. m |-> IF n = 0 THEN NewDraft ELSE ImportField(r[n - 1], found[n])]

LEMMA ImportsExist ==
    ASSUME NEW found, NEW N \in Nat PROVE \E r : Imports(r, found, N)
<1> DEFINE Good == {m \in 0 .. N : \E r : Imports(r, found, m)}
<1>1. 0 \in Good
  <2> DEFINE r == [n \in 0 .. 0 |-> NewDraft]
  <2>1. Imports(r, found, 0)
    BY DEF Imports
  <2> QED
    BY <2>1
<1>2. ASSUME NEW m \in 1 .. N, m - 1 \in Good PROVE m \in Good
  <2>1. PICK f : Imports(f, found, m - 1)
    BY <1>2
  <2> DEFINE new == ImportField(f[m - 1], found[m])
             r == [n \in 0 .. m |-> IF n = m THEN new ELSE f[n]]
  <2>2. \A n \in 0 .. m - 1 : f[n] = IF n = 0 THEN NewDraft ELSE ImportField(f[n - 1], found[n])
    BY <2>1 DEF Imports
  <2>3. ASSUME NEW n \in 0 .. m
        PROVE  r[n] = IF n = 0 THEN NewDraft ELSE ImportField(r[n - 1], found[n])
    <3>1. n # 0 => n - 1 \in 0 .. m - 1 /\ n - 1 \in 0 .. m /\ n - 1 # m
      OBVIOUS
    <3>2. n # 0 => r[n - 1] = f[n - 1]
      BY <3>1
    <3>3. CASE n = m
      <4>1. r[n] = new /\ n # 0
        BY <3>3
      <4> HIDE DEF r
      <4> QED
        BY <3>2, <3>3, <4>1
    <3>4. CASE n # m
      <4>1. n \in 0 .. m - 1 /\ r[n] = f[n]
        BY <3>4
      <4> HIDE DEF r
      <4> QED
        BY <2>2, <3>2, <4>1
    <3> QED
      BY <3>3, <3>4
  <2>4. r = [n \in 0 .. m |-> r[n]]
    OBVIOUS
  <2> HIDE DEF r
  <2>5. Imports(r, found, m)
    BY <2>3, <2>4 DEF Imports
  <2> QED
    BY <2>5
<1> HIDE DEF Good
<1>3. ASSUME NEW m \in 0 .. N, \A k \in 0 .. N : k < m => k \in Good PROVE m \in Good
  <2>1. m = 0 \/ (m \in 1 .. N /\ m - 1 \in 0 .. N /\ m - 1 < m)
    OBVIOUS
  <2> QED
    BY <1>1, <1>2, <1>3, <2>1
<1>4. 0 .. N \subseteq Good
  BY <1>3, Upwards
<1> QED
  BY <1>4 DEF Good

LEMMA ImportRule ==
    ASSUME NEW lines, NEW found, found = Parsed(lines), Len(found) \in Nat
    PROVE  \E d : /\ Imported(lines) = d[Len(found)] /\ d[0] = NewDraft
                 /\ \A n \in 1 .. Len(found) : d[n] = ImportField(d[n - 1], found[n])
<1> DEFINE N == Len(found)
           Eq(f) == [n \in 0 .. N |-> IF n = 0 THEN NewDraft ELSE ImportField(f[n - 1], found[n])]
           R == CHOOSE f : f = Eq(f)
<1>1. Imported(lines) = R[N]
  BY DEF Imported
<1> HIDE DEF N
<1>2. N \in Nat
  BY DEF N
<1>3. PICK g : Imports(g, found, N)
  BY <1>2, ImportsExist
<1>4. g = Eq(g)
  BY <1>3 DEF Imports
<1>5. R = Eq(R)
  <2> HIDE DEF Eq
  <2> QED
    BY <1>4
<1> HIDE DEF R
<1>6. \A n \in 0 .. N : R[n] = IF n = 0 THEN NewDraft ELSE ImportField(R[n - 1], found[n])
  <2>1. \A n \in 0 .. N : R[n] = Eq(R)[n]
    BY <1>5
  <2> QED
    BY <2>1
<1>7. 0 \in 0 .. N /\ \A n \in 1 .. N : n \in 0 .. N /\ n # 0
  BY <1>2
<1>8. R[0] = NewDraft /\ \A n \in 1 .. N : R[n] = ImportField(R[n - 1], found[n])
  BY <1>6, <1>7
<1> QED
  BY <1>1, <1>8 DEF N

LEMMA ImportFollows ==
    ASSUME NEW lines, NEW found, found = Parsed(lines), Rising(found)
    PROVE  /\ SoFar(found, Len(found), Imported(lines)) \/ Refused(Imported(lines))
           /\ Addressed(found) /\ (\A n \in 1 .. Len(found) : ~OverLimit(found[n])) =>
                 SoFar(found, Len(found), Imported(lines))
<1> DEFINE N == Len(found)
           Within == Addressed(found) /\ \A n \in 1 .. N : ~OverLimit(found[n])
<1>1. N \in Nat
  BY DEF Rising
<1>2. PICK d : /\ Imported(lines) = d[N] /\ d[0] = NewDraft
               /\ \A n \in 1 .. N : d[n] = ImportField(d[n - 1], found[n])
  BY <1>1, ImportRule
<1> DEFINE Good == {n \in 0 .. N : SoFar(found, n, d[n]) \/ (Refused(d[n]) /\ ~Within)}
<1>3. 0 \in Good
  <2>1. SoFar(found, 0, NewDraft)
    BY NewDraftFollows DEF SoFar
  <2> QED
    BY <1>1, <1>2, <2>1
<1>4. ASSUME NEW n \in 1 .. N, n - 1 \in Good PROVE n \in Good
  <2>1. n \in 0 .. N
    BY <1>1
  <2>2. d[n] = ImportField(d[n - 1], found[n])
    BY <1>2
  <2>3. CASE SoFar(found, n - 1, d[n - 1])
    <3>1. SoFar(found, n, d[n]) \/ (Refused(d[n]) /\ ~(Addressed(found) /\ ~OverLimit(found[n])))
      BY <2>2, <2>3, FieldImported
    <3> QED
      BY <2>1, <3>1
  <2>4. CASE Refused(d[n - 1]) /\ ~Within
    <3>1. Refused(d[n])
      BY <2>2, <2>4, RefusedStays
    <3> QED
      BY <2>1, <2>4, <3>1
  <2> QED
    BY <1>4, <2>3, <2>4
<1> HIDE DEF Good
<1>5. ASSUME NEW m \in 0 .. N, \A k \in 0 .. N : k < m => k \in Good PROVE m \in Good
  <2>1. m = 0 \/ (m \in 1 .. N /\ m - 1 \in 0 .. N /\ m - 1 < m)
    BY <1>1
  <2> QED
    BY <1>3, <1>4, <1>5, <2>1
<1>6. 0 .. N \subseteq Good
  <2> HIDE DEF N
  <2> QED
    BY <1>1, <1>5, Upwards
<1>7. N \in Good
  BY <1>1, <1>6
<1>8. SoFar(found, N, d[N]) \/ (Refused(d[N]) /\ ~Within)
  BY <1>7 DEF Good
<1> QED
  BY <1>2, <1>8

\* The rows and fields of an import that followed every address.
LEMMA ImportedRows ==
    ASSUME NEW found, Rising(found), NEW R, NEW F, DraftRows(R, found, Len(found)),
           DraftFields(R, F, found, Len(found))
    PROVE  /\ RowsOf(R, Len(R)) /\ FieldRows(F, Len(found)) /\ OneField(R, F) /\ Placed(R, F)
           /\ DOMAIN F = 1 .. Len(found)
           /\ \A i \in DOMAIN R : R[i].parent \in DOMAIN R \cup {0}
           /\ \A i \in DOMAIN R :
                 \/ FieldsOf(F, i) = {} /\ R[i].path \in Mandatory /\ R[i].occ = 1
                 \/ \E m \in 1 .. Len(found) : FieldsOf(F, i) = {m} /\ SameAddress(R[i], found[m])
<1> DEFINE N == Len(found)
<1>1. N \in Nat /\ \A n \in 1 .. N : found[n].value \in Values
  BY DEF Rising
<1>2. R \in Seq(ImportedRow) /\ F \in Seq(ImportedField) /\ Len(F) = N
  BY DEF DraftRows, DraftFields
<1>3. DOMAIN R = 1 .. Len(R) /\ Len(R) \in Nat /\ DOMAIN F = 1 .. N
  BY <1>2
<1>4. \A i \in DOMAIN R : R[i].path \in Paths /\ R[i].parent \in Nat /\ R[i].occ \in Nat
  <2>1. \A i \in DOMAIN R : R[i] \in ImportedRow
    BY <1>2
  <2> QED
    BY <2>1 DEF ImportedRow
<1>5. \A i \in DOMAIN R : R[i].parent < i /\ BelowFirst(R, R[i].path, R[i].parent)
  BY DEF DraftRows
<1>6. RowsOf(R, Len(R))
  BY <1>3, <1>4, <1>5 DEF RowsOf
<1>7. \A m \in 1 .. N : /\ F[m].value = found[m].value
                        /\ F[m].seq \in DOMAIN R /\ SameAddress(R[F[m].seq], found[m])
  BY DEF DraftFields
<1>8. FieldRows(F, N)
  BY <1>1, <1>3, <1>7 DEF FieldRows
<1>9. \A i \in DOMAIN R : R[i].parent \in DOMAIN R \cup {0}
  BY <1>5 DEF BelowFirst
<1>10. Placed(R, F)
  <2>1. \A i \in DOMAIN R : IsBelow(R, R[i].path, R[i].parent)
    BY <1>5 DEF BelowFirst, IsBelow, MayHaveParent
  <2> QED
    BY <1>3, <1>7, <2>1 DEF Placed
<1>11. ASSUME NEW i \in DOMAIN R, NEW m \in 1 .. N, SameAddress(R[i], found[m])
       PROVE  FieldsOf(F, i) = {m}
  <2>1. SameAddress(R[F[m].seq], found[m]) /\ F[m].seq \in DOMAIN R
    BY <1>7
  <2>2. SameAddress(R[F[m].seq], R[i])
    BY <1>11, <2>1 DEF SameAddress
  <2>3. F[m].seq = i
    BY <2>1, <2>2 DEF DraftRows
  <2>4. ASSUME NEW k \in 1 .. N, F[k].seq = i PROVE k = m
    <3>1. SameAddress(R[i], found[k])
      BY <1>7, <2>4
    <3>2. found[k].path = found[m].path /\ found[k].occ = found[m].occ
      BY <1>11, <3>1 DEF SameAddress
    <3>3. /\ k < m => found[k].occ < found[m].occ
          /\ m < k => found[m].occ < found[k].occ
      BY <3>2 DEF Rising
    <3>4. found[k].occ \in Nat /\ found[m].occ \in Nat
      BY DEF Rising
    <3>5. k \in Nat /\ m \in Nat
      BY <1>1
    <3> QED
      BY <3>2, <3>3, <3>4, <3>5
  <2> QED
    BY <1>3, <2>3, <2>4 DEF FieldsOf
<1>12. ASSUME NEW i \in DOMAIN R
       PROVE  \/ FieldsOf(F, i) = {} /\ R[i].path \in Mandatory /\ R[i].occ = 1
              \/ \E m \in 1 .. N : FieldsOf(F, i) = {m} /\ SameAddress(R[i], found[m])
  <2>1. CASE \E m \in 1 .. N : SameAddress(R[i], found[m])
    BY <1>11, <2>1
  <2>2. CASE ~\E m \in 1 .. N : SameAddress(R[i], found[m])
    <3>1. R[i].path \in Mandatory /\ R[i].occ = 1
      BY <2>2 DEF DraftRows
    <3>2. ASSUME NEW k \in 1 .. N, F[k].seq = i PROVE FALSE
      BY <1>7, <2>2, <3>2
    <3>3. FieldsOf(F, i) = {}
      BY <1>3, <3>2 DEF FieldsOf
    <3> QED
      BY <3>1, <3>3
  <2> QED
    BY <2>1, <2>2
<1>13. OneField(R, F)
  <2>1. \A i \in DOMAIN R : FieldsOf(F, i) = {} \/ \E m \in DOMAIN F : FieldsOf(F, i) = {m}
    BY <1>3, <1>12
  <2> QED
    BY <2>1 DEF OneField
<1> QED
  BY <1>3, <1>6, <1>8, <1>9, <1>10, <1>12, <1>13

\* In an import everything stands below first occurrences, and what is empty is one.
LEMMA ImportedFirsts ==
    ASSUME NEW found, NEW R, DraftRows(R, found, Len(found)), NEW num, Numbered(R, num),
           NEW y \in DOMAIN R, R[y].occ = 1
    PROVE  num[y] = 1
<1>1. \A i, k \in DOMAIN R : R[i].path = R[k].path /\ R[i].occ = R[k].occ => i = k
  BY DEF DraftRows, SameAddress
<1>2. \A i \in DOMAIN R : BelowFirst(R, R[i].path, R[i].parent)
  BY DEF DraftRows
<1>3. \A i \in DOMAIN R : R[i].occ \in Nat \ {0}
  <2>1. R \in Seq(ImportedRow)
    BY DEF DraftRows
  <2>2. \A i \in DOMAIN R : R[i] \in ImportedRow
    BY <2>1
  <2> QED
    BY <2>2 DEF ImportedRow
<1>4. num[y] \in Nat \ {0} /\ \A x \in 1 .. num[y] : \E k \in DOMAIN R : R[k].path = R[y].path /\ num[k] = x
  BY DEF Numbered
<1>5. PICK k \in DOMAIN R : R[k].path = R[y].path /\ num[k] = 1
  BY <1>4
<1>6. ASSUME k # y PROVE FALSE
  <2>1. R[y].occ < R[k].occ
    BY <1>1, <1>3, <1>5, <1>6
  <2>2. ByOccurrence(R, y, k)
    BY <1>5, <2>1 DEF ByOccurrence
  <2>3. R[y].parent = R[k].parent
    <3>1. BelowFirst(R, R[y].path, R[y].parent) /\ BelowFirst(R, R[y].path, R[k].parent)
      BY <1>2, <1>5
    <3> QED
      BY <1>1, <3>1 DEF BelowFirst
  <2>4. num[y] < num[k]
    BY <1>5, <2>2, <2>3 DEF Numbered
  <2> QED
    BY <1>4, <1>5, <2>4
<1> QED
  BY <1>5, <1>6

LEMMA ImportsBelowFirsts ==
    ASSUME NEW found, Rising(found), NEW R, NEW F, DraftRows(R, found, Len(found)),
           DraftFields(R, F, found, Len(found)), NEW num, Numbered(R, num)
    PROVE  FirstParents(R, num) /\ EmptyFirst(R, F, num)
<1>1. \A y \in DOMAIN R : R[y].occ = 1 => num[y] = 1
  BY ImportedFirsts
<1>2. \A i \in DOMAIN R : R[i].parent = 0 \/ (R[i].parent \in DOMAIN R /\ R[R[i].parent].occ = 1)
  BY DEF DraftRows, BelowFirst
<1>3. \A i \in DOMAIN R : FieldsOf(F, i) = {} => R[i].path \in Mandatory /\ R[i].occ = 1
  <2>1. \A i \in DOMAIN R :
           \/ FieldsOf(F, i) = {} /\ R[i].path \in Mandatory /\ R[i].occ = 1
           \/ \E m \in 1 .. Len(found) : FieldsOf(F, i) = {m} /\ SameAddress(R[i], found[m])
    BY ImportedRows
  <2> QED
    BY <2>1
<1> QED
  BY <1>1, <1>2, <1>3 DEF FirstParents, EmptyFirst

\* When the text of an import reads like that of the draft, the draft's rows are below
\* first occurrences too, and only the first of a mandatory path are empty.
LEMMA SameMarks ==
    ASSUME NEW rs, NEW N, RowsOf(rs, N), NEW fs, Placed(rs, fs),
           NEW R, NEW M, RowsOf(R, M), NEW F, Placed(R, F), NEW found, NEW marks,
           NEW L, NEW J, NEW num, Whole(rs, fs, found, marks, L, J, num),
           NEW K, NEW H, NEW no, Whole(R, F, found, marks, K, H, no),
           FirstParents(R, no), EmptyFirst(R, F, no)
    PROVE  FirstParents(rs, num) /\ EmptyFirst(rs, fs, num)
<1>1. Orders(rs, L, DOMAIN rs, 0) /\ Orders(R, K, DOMAIN R, 0) /\ Len(L) = Len(K)
  BY DEF Whole, Lists
<1>2. /\ Len(L) \in Nat /\ \A n \in 1 .. Len(L) : L[n] \in DOMAIN rs /\ K[n] \in DOMAIN R
      /\ \A i \in DOMAIN rs : \E n \in 1 .. Len(L) : L[n] = i
  BY <1>1, PlacesOfRows
<1>3. ASSUME NEW i \in DOMAIN rs
      PROVE  \E k \in DOMAIN R : /\ R[k].path = rs[i].path /\ no[k] = num[i]
                                 /\ AroundOf(R, no, 0, NoPath, k) = AroundOf(rs, num, 0, NoPath, i)
  <2>1. PICK n \in 1 .. Len(L) : L[n] = i
    BY <1>2
  <2>2. PICK k : k = K[n] /\ k \in DOMAIN R
    BY <1>2
  <2>3. marks[n] = MarkOf(rs, num, 0, NoPath, i) /\ marks[n] = MarkOf(R, no, 0, NoPath, k)
    BY <1>1, <2>1, <2>2 DEF Whole
  <2>4. PICK p, o, v, q, w, u : p = rs[i].path /\ o = num[i] /\ v = AroundOf(rs, num, 0, NoPath, i)
                                /\ q = R[k].path /\ w = no[k] /\ u = AroundOf(R, no, 0, NoPath, k)
    OBVIOUS
  <2>5. marks[n] = [path |-> p, occ |-> o, above |-> v] /\ marks[n] = [path |-> q, occ |-> w, above |-> u]
    BY <2>3, <2>4, Zenon DEF MarkOf
  <2>6. p = q /\ o = w /\ v = u
    BY <2>5
  <2> QED
    BY <2>2, <2>4, <2>6
<1>4. ASSUME NEW i \in DOMAIN rs, rs[i].parent # 0 PROVE num[rs[i].parent] = 1
  <2>1. PICK k \in DOMAIN R : /\ R[k].path = rs[i].path
                              /\ AroundOf(R, no, 0, NoPath, k) = AroundOf(rs, num, 0, NoPath, i)
    BY <1>3
  <2>2. R[k].parent # 0
    <3>1. Layout[rs[i].path].parent # NoPath
      BY <1>4, ParentOfRow
    <3>2. Layout[R[k].path].parent # NoPath
      BY <2>1, <3>1
    <3> QED
      BY <3>2, ParentOfRow
  <2>3. no[R[k].parent] = 1
    BY <2>2 DEF FirstParents
  <2>4. PICK x, y, r, s, z : x = rs[rs[i].parent].path /\ y = num[rs[i].parent]
                             /\ r = R[R[k].parent].path /\ s = no[R[k].parent]
                             /\ z = AroundOf(R, no, 0, NoPath, k)
    OBVIOUS
  <2>5. z = [path |-> x, occ |-> y] /\ z = [path |-> r, occ |-> s]
    BY <1>4, <2>1, <2>2, <2>4, Zenon DEF AroundOf
  <2>6. y = s
    BY <2>5
  <2> QED
    BY <2>3, <2>4, <2>6
<1>5. ASSUME NEW i \in DOMAIN rs, FieldsOf(fs, i) = {} PROVE rs[i].path \in Mandatory /\ num[i] = 1
  <2>1. PICK k \in DOMAIN R : R[k].path = rs[i].path /\ no[k] = num[i]
    BY <1>3
  <2>2. ASSUME FieldsOf(F, k) # {} PROVE FALSE
    <3> PICK h : h = Len(H)
      OBVIOUS
    <3>1. PICK m \in 1 .. h : /\ H[m] = k /\ found[m].path = R[k].path /\ found[m].occ = no[k]
                              /\ Len(found) = h
      <4>1. /\ Len(found) = h
            /\ \A n \in 1 .. h : found[n].path = R[H[n]].path /\ found[n].occ = no[H[n]]
            /\ \A y \in DOMAIN R : FieldsOf(F, y) # {} => \E n \in 1 .. h : H[n] = y
        BY FoundFields
      <4> QED
        BY <2>2, <4>1
    <3>2. h = Len(J)
      BY <3>1, FoundFields
    <3>3. /\ J[m] \in DOMAIN rs /\ FieldsOf(fs, J[m]) # {}
          /\ found[m].path = rs[J[m]].path /\ found[m].occ = num[J[m]]
      BY <3>1, <3>2, FoundFields
    <3>4. Numbered(rs, num)
      BY WholeIsNumbered
    <3>5. rs[J[m]].path = rs[i].path /\ num[J[m]] = num[i]
      BY <2>1, <3>1, <3>3
    <3>6. J[m] = i
      BY <3>3, <3>4, <3>5 DEF Numbered
    <3> QED
      BY <1>5, <3>3, <3>6
  <2> QED
    BY <2>1, <2>2 DEF EmptyFirst
<1> QED
  BY <1>4, <1>5 DEF FirstParents, EmptyFirst

\* A draft whose rows are below first occurrences stays within the limits when it is read.
LEMMA ReadWithinLimits ==
    ASSUME NEW rs, NEW N, RowsOf(rs, N), NEW fs, Placed(rs, fs), Counted(rs), NEW found, NEW marks,
           NEW L, NEW J, NEW num, Whole(rs, fs, found, marks, L, J, num), FirstParents(rs, num)
    PROVE  \A n \in 1 .. Len(found) : ~OverLimit(found[n])
<1>1. Numbered(rs, num)
  BY WholeIsNumbered
<1>2. Len(found) = Len(J) /\ \A n \in 1 .. Len(J) :
         J[n] \in DOMAIN rs /\ found[n].path = rs[J[n]].path /\ found[n].occ = num[J[n]]
  BY FoundFields
<1>3. ASSUME NEW n \in 1 .. Len(J) PROVE found[n].occ <= Layout[found[n].path].max
  <2> PICK i, o, p : i = J[n] /\ o = num[i] /\ p = rs[i].path
    OBVIOUS
  <2>1. i \in DOMAIN rs /\ found[n].path = p /\ found[n].occ = o
    BY <1>2
  <2>2. p \in Paths /\ Layout[p].max \in Nat /\ Layout[p].min \in Nat
    BY <2>1, Configured DEF RowsOf
  <2>3. o \in Nat \ {0} /\ \A x \in 1 .. o : \E k \in DOMAIN rs : rs[k].path = p /\ num[k] = x
    BY <1>1, <2>1 DEF Numbered
  <2> DEFINE S == Siblings(rs, p, rs[i].parent)
             g == [x \in 1 .. o |-> CHOOSE k \in DOMAIN rs : rs[k].path = p /\ num[k] = x]
  <2>4. ASSUME NEW x \in 1 .. o PROVE g[x] \in S /\ num[g[x]] = x
    <3>1. g[x] \in DOMAIN rs /\ rs[g[x]].path = p /\ num[g[x]] = x
      BY <2>3
    <3> HIDE DEF g
    <3>2. rs[g[x]].parent = rs[i].parent
      BY <1>1, <2>1, <3>1, OneParent
    <3> QED
      BY <3>1, <3>2 DEF Siblings
  <2>5. IsFiniteSet(S)
    <3>1. S \subseteq DOMAIN rs
      BY DEF Siblings
    <3> QED
      BY <3>1, FiniteRows, FS_Subset
  <2> HIDE DEF S
  <2>6. g \in Injection(1 .. o, S)
    <3>1. g = [x \in 1 .. o |-> g[x]]
      OBVIOUS
    <3>2. \A x \in 1 .. o : g[x] \in S /\ num[g[x]] = x
      BY <2>4
    <3> HIDE DEF g
    <3>3. g \in [1 .. o -> S]
      BY <3>1, <3>2
    <3>4. \A x, y \in 1 .. o : g[x] = g[y] => x = y
      BY <3>2
    <3> QED
      BY <3>3, <3>4 DEF Injection, IsInjective
  <2> HIDE DEF g
  <2>7. Cardinality(1 .. o) <= Cardinality(S)
    BY <2>5, <2>6, FS_Injection
  <2>8. Cardinality(1 .. o) = o
    <3>1. 1 \in Int /\ o \in Int /\ ~(1 > o)
      BY <2>3
    <3>2. Cardinality(1 .. o) = IF 1 > o THEN 0 ELSE o - 1 + 1
      BY <3>1, FS_Interval, Zenon
    <3> QED
      BY <3>1, <3>2
  <2>9. Cardinality(S) \in Layout[p].min .. Layout[p].max
    <3> DEFINE parents == IF Layout[p].parent = NoPath THEN {0}
                          ELSE {k \in DOMAIN rs : rs[k].path = Layout[p].parent}
    <3>1. rs[i].parent \in parents
      BY <2>1, ParentOfRow
    <3>2. \A k \in parents : Cardinality(Siblings(rs, p, k)) \in Layout[p].min .. Layout[p].max
      BY <2>2 DEF Counted
    <3> QED
      BY <3>1, <3>2 DEF S
  <2> QED
    BY <2>1, <2>2, <2>3, <2>7, <2>8, <2>9
<1> QED
  BY <1>2, <1>3 DEF OverLimit

(***************************************************************************)
(* Rows alike: g takes the rows R of one draft to the rows rs of another   *)
(* one to one, with their paths, fields, parents and order.  Such drafts   *)
(* have the same text.                                                     *)
(***************************************************************************)
Alike(rs, fs, R, F, g) ==
    /\ g \in [DOMAIN R -> DOMAIN rs]
    /\ \A i, k \in DOMAIN R : g[i] = g[k] => i = k
    /\ \A j \in DOMAIN rs : \E i \in DOMAIN R : g[i] = j
    /\ \A i \in DOMAIN R :
          /\ rs[g[i]].path = R[i].path
          /\ FieldsOf(fs, g[i]) = {} <=> FieldsOf(F, i) = {}
          /\ FieldsOf(F, i) # {} => Held(fs, g[i]) = Held(F, i)
          /\ R[i].parent = 0 => rs[g[i]].parent = 0
          /\ R[i].parent # 0 => R[i].parent \in DOMAIN R /\ rs[g[i]].parent = g[R[i].parent]
    /\ \A i, k \in DOMAIN R :
          R[i].parent = R[k].parent => (ByOccurrence(R, i, k) <=> ByOccurrence(rs, g[i], g[k]))

\* What is below a row, or below none, is below the row it is taken to.
Taken(g, i) == IF i = 0 THEN 0 ELSE g[i]

LEMMA BelowAlike ==
    ASSUME NEW rs, NEW N, RowsOf(rs, N), NEW fs, NEW R, NEW M, RowsOf(R, M), NEW F, NEW g,
           Alike(rs, fs, R, F, g), NEW i \in DOMAIN R \cup {0}, NEW j, j = Taken(g, i)
    PROVE  /\ \A k \in Below(R, i) : k \in DOMAIN R /\ g[k] \in Below(rs, j)
           /\ \A h \in Below(rs, j) : \E k \in Below(R, i) : g[k] = h
<1>1. 0 \notin DOMAIN R /\ 0 \notin DOMAIN rs
  BY FiniteRows
<1>2. /\ \A k \in DOMAIN R : g[k] \in DOMAIN rs
      /\ \A k \in DOMAIN R : R[k].parent = 0 => rs[g[k]].parent = 0
      /\ \A k \in DOMAIN R : R[k].parent # 0 => R[k].parent \in DOMAIN R /\ rs[g[k]].parent = g[R[k].parent]
      /\ \A k, h \in DOMAIN R : g[k] = g[h] => k = h
      /\ \A h \in DOMAIN rs : \E k \in DOMAIN R : g[k] = h
  BY DEF Alike
<1>3. /\ i = 0 => j = 0
      /\ i # 0 => i \in DOMAIN R /\ j = g[i] /\ j # 0
  BY <1>1, <1>2 DEF Taken
<1>4. ASSUME NEW k \in DOMAIN R PROVE R[k].parent = i <=> rs[g[k]].parent = j
  <2>1. CASE i = 0
    <3>1. R[k].parent # 0 => rs[g[k]].parent # 0
      BY <1>1, <1>2
    <3> QED
      BY <1>2, <1>3, <2>1, <3>1
  <2>2. CASE i # 0
    <3>1. CASE R[k].parent = 0
      BY <1>2, <1>3, <2>2, <3>1
    <3>2. CASE R[k].parent # 0
      BY <1>2, <1>3, <2>2, <3>2
    <3> QED
      BY <3>1, <3>2
  <2> QED
    BY <2>1, <2>2
<1>5. \A k \in Below(R, i) : k \in DOMAIN R /\ g[k] \in Below(rs, j)
  BY <1>2, <1>4 DEF Below
<1>6. ASSUME NEW h \in Below(rs, j) PROVE \E k \in Below(R, i) : g[k] = h
  <2>1. h \in DOMAIN rs /\ rs[h].parent = j
    BY DEF Below
  <2>2. PICK k \in DOMAIN R : g[k] = h
    BY <1>2, <2>1
  <2>3. k \in Below(R, i)
    BY <1>4, <2>1, <2>2 DEF Below
  <2> QED
    BY <2>2, <2>3
<1> QED
  BY <1>5, <1>6

ListsAlike(c, d, S, g) == DOMAIN d = DOMAIN c /\ \A n \in DOMAIN c : c[n] \in S /\ d[n] = g[c[n]]

LEMMA ChildrenAlike ==
    ASSUME NEW rs, NEW N, RowsOf(rs, N), NEW fs, NEW R, NEW M, RowsOf(R, M), NEW F, NEW g,
           Alike(rs, fs, R, F, g), NEW i \in DOMAIN R \cup {0}, NEW j, j = Taken(g, i)
    PROVE  ListsAlike(ChildrenOf(R, i), ChildrenOf(rs, j), Below(R, i), g)
<1> PICK S, U, T, V : S = Below(R, i) /\ U = ChildrenUpTo(R, i) /\ T = Below(rs, j) /\ V = ChildrenUpTo(rs, j)
  OBVIOUS
<1> DEFINE h == [k \in S |-> g[k]]
<1>1. Linear(S, U) /\ ChildrenOf(R, i) = InOrder(S, U)
  BY ChildrenListed
<1>2. Linear(T, V) /\ ChildrenOf(rs, j) = InOrder(T, V)
  BY ChildrenListed
<1>3. /\ \A k \in S : k \in DOMAIN R /\ g[k] \in T
      /\ \A t \in T : \E k \in S : g[k] = t
  BY BelowAlike
<1>4. /\ \A k, m \in DOMAIN R : g[k] = g[m] => k = m
      /\ \A k, m \in DOMAIN R :
            R[k].parent = R[m].parent => (ByOccurrence(R, k, m) <=> ByOccurrence(rs, g[k], g[m]))
  BY DEF Alike
<1>5. \A k \in S : h[k] = g[k]
  OBVIOUS
<1>6. h \in [S -> T]
  BY <1>3
<1> HIDE DEF h
<1>7. h \in Bijection(S, T)
  <2>1. \A k, m \in S : h[k] = h[m] => k = m
    BY <1>3, <1>4, <1>5
  <2>2. \A t \in T : \E k \in S : h[k] = t
    BY <1>3, <1>5
  <2> QED
    BY <1>6, <2>1, <2>2 DEF Bijection, Injection, Surjection, IsInjective
<1>8. ASSUME NEW k \in S, NEW m \in S PROVE k \in U[m] <=> h[k] \in V[h[m]]
  <2>1. k \in U[m] <=> ~ByOccurrence(R, m, k)
    BY DEF ChildrenUpTo
  <2>2. h[k] \in T /\ h[m] \in T
    BY <1>6
  <2>3. h[k] \in V[h[m]] <=> ~ByOccurrence(rs, h[m], h[k])
    BY <2>2 DEF ChildrenUpTo
  <2>4. R[k].parent = R[m].parent
    BY DEF Below
  <2>5. ByOccurrence(R, m, k) <=> ByOccurrence(rs, h[m], h[k])
    BY <1>3, <1>4, <1>5, <2>4
  <2> QED
    BY <2>1, <2>3, <2>5
<1>9. OrderedAlike(S, U, T, V, h)
  BY <1>1, <1>2, <1>7, <1>8 DEF OrderedAlike
<1>10. /\ Cardinality(T) = Cardinality(S)
       /\ \A n \in 1 .. Cardinality(S) : InOrder(T, V)[n] = h[InOrder(S, U)[n]]
  BY <1>9, OrderCarriesOver
<1>11. Enumerates(ChildrenOf(R, i), S) /\ Enumerates(ChildrenOf(rs, j), T)
  BY ChildrenEnumerated
<1>12. /\ DOMAIN ChildrenOf(R, i) = 1 .. Cardinality(S) /\ DOMAIN ChildrenOf(rs, j) = 1 .. Cardinality(T)
       /\ \A n \in 1 .. Cardinality(S) : ChildrenOf(R, i)[n] \in S
  BY <1>11 DEF Enumerates
<1>13. \A n \in 1 .. Cardinality(S) : ChildrenOf(rs, j)[n] = g[ChildrenOf(R, i)[n]]
  BY <1>1, <1>2, <1>5, <1>10, <1>12
<1> QED
  BY <1>10, <1>12, <1>13 DEF ListsAlike

\* The text below a row, when the texts of its children are the same.
LEMMA InnerAlike ==
    ASSUME NEW rs, NEW N, RowsOf(rs, N), NEW fs, NEW R, NEW M, RowsOf(R, M), NEW F, NEW g,
           Alike(rs, fs, R, F, g), NEW i \in DOMAIN R \cup {0}, NEW j, j = Taken(g, i), NEW text, NEW other,
           \A k \in Below(R, i) : other[k] = text[g[k]]
    PROVE  Inner(R, other, i) = Inner(rs, text, j)
<1> PICK c, d : c = ChildrenOf(R, i) /\ d = ChildrenOf(rs, j)
  OBVIOUS
<1>1. DOMAIN d = DOMAIN c /\ \A n \in DOMAIN c : c[n] \in Below(R, i) /\ d[n] = g[c[n]]
  <2>1. ListsAlike(ChildrenOf(R, i), ChildrenOf(rs, j), Below(R, i), g)
    BY ChildrenAlike
  <2> QED
    BY <2>1 DEF ListsAlike
<1>2. \A n \in DOMAIN c : other[c[n]] = text[d[n]]
  BY <1>1
<1>3. [n \in DOMAIN c |-> other[c[n]]] = [n \in DOMAIN d |-> text[d[n]]]
  BY <1>1, <1>2
<1> QED
  BY <1>3, Zenon DEF Inner

LEMMA LinesAlike ==
    ASSUME NEW rs, NEW N, RowsOf(rs, N), NEW fs, NEW O, FieldRows(fs, O), OneField(rs, fs),
           NEW R, NEW M, RowsOf(R, M), NEW F, NEW P, FieldRows(F, P), OneField(R, F), NEW g,
           Alike(rs, fs, R, F, g)
    PROVE  Lines(R, F) = Lines(rs, fs)
<1>1. PICK text : /\ Lines(rs, fs) = Inner(rs, text, 0)
                  /\ \A i \in DOMAIN rs : text[i] = Block(rs, fs, i, Inner(rs, text, i))
  BY LinesRule
<1>2. PICK other : /\ Lines(R, F) = Inner(R, other, 0)
                   /\ \A i \in DOMAIN R : other[i] = Block(R, F, i, Inner(R, other, i))
  BY LinesRule
<1>3. M \in Nat /\ DOMAIN R \subseteq 0 .. M
  BY DEF RowsOf
<1> DEFINE Good == {i \in 0 .. M : i \in DOMAIN R => other[i] = text[g[i]]}
<1>4. ASSUME NEW i \in DOMAIN R, \A k \in 0 .. M : i < k => k \in Good
      PROVE  other[i] = text[g[i]]
  <2> PICK j : j = g[i]
    OBVIOUS
  <2>1. /\ j \in DOMAIN rs /\ rs[j].path = R[i].path
        /\ FieldsOf(fs, j) = {} <=> FieldsOf(F, i) = {}
        /\ FieldsOf(F, i) # {} => Held(fs, j) = Held(F, i)
    BY DEF Alike
  <2>2. i # 0 /\ j = Taken(g, i)
    <3>1. 0 \notin DOMAIN R
      BY FiniteRows
    <3> QED
      BY <3>1 DEF Taken
  <2>3. \A k \in Below(R, i) : k \in DOMAIN R /\ i < k
    BY DEF Below, RowsOf
  <2>4. \A k \in Below(R, i) : other[k] = text[g[k]]
    BY <1>3, <1>4, <2>3
  <2>5. PICK x, y : x = Inner(R, other, i) /\ y = Inner(rs, text, j)
    OBVIOUS
  <2>6. x = y
    BY <2>2, <2>4, <2>5, InnerAlike
  <2>7. IsBlock(other[i], R, F, i, x)
    <3>1. FieldsOf(F, i) = {} \/ \E f \in Nat : FieldsOf(F, i) = {f}
      BY HeldValue
    <3>2. IsBlock(Block(R, F, i, x), R, F, i, x)
      BY <3>1, BlockText
    <3> QED
      BY <1>2, <2>5, <3>2
  <2>8. IsBlock(text[j], rs, fs, j, y)
    <3>1. FieldsOf(fs, j) = {} \/ \E f \in Nat : FieldsOf(fs, j) = {f}
      BY <2>1, HeldValue
    <3>2. IsBlock(Block(rs, fs, j, y), rs, fs, j, y)
      BY <3>1, BlockText
    <3> QED
      BY <1>1, <2>1, <2>5, <3>2
  <2>9. OwnText(rs, fs, j) = OwnText(R, F, i)
    <3>1. CASE FieldsOf(F, i) = {}
      BY <2>1, <3>1, Zenon DEF OwnText
    <3>2. CASE FieldsOf(F, i) # {}
      <4>1. rs[j].path = R[i].path /\ Held(fs, j) = Held(F, i) /\ FieldsOf(fs, j) # {}
        BY <2>1, <3>2
      <4> QED
        BY <3>2, <4>1, Zenon DEF OwnText
    <3> QED
      BY <3>1, <3>2
  <2> PICK p : p = R[i].path
    OBVIOUS
  <2>10. other[i] = <<Token("16R", p, NoPath)>> \o OwnText(R, F, i) \o x \o <<Token("16S", p, NoPath)>>
    BY <2>7, Zenon DEF IsBlock
  <2>11. text[j] = <<Token("16R", p, NoPath)>> \o OwnText(rs, fs, j) \o y \o <<Token("16S", p, NoPath)>>
    BY <2>1, <2>8, Zenon DEF IsBlock
  <2> QED
    BY <2>6, <2>9, <2>10, <2>11, Zenon
<1>5. ASSUME NEW m \in 0 .. M, \A k \in 0 .. M : m < k => k \in Good PROVE m \in Good
  BY <1>4, <1>5
<1> HIDE DEF Good
<1>6. 0 .. M \subseteq Good
  BY <1>3, <1>5, Downwards
<1>7. \A i \in DOMAIN R : other[i] = text[g[i]]
  BY <1>3, <1>6 DEF Good
<1>8. \A k \in Below(R, 0) : other[k] = text[g[k]]
  BY <1>7 DEF Below
<1>9. PICK z : z = 0 /\ z \in DOMAIN R \cup {0} /\ z = Taken(g, z)
  BY DEF Taken
<1>10. Inner(R, other, z) = Inner(rs, text, z)
  BY <1>8, <1>9, InnerAlike
<1> QED
  BY <1>1, <1>2, <1>9, <1>10, Zenon

\* The rows of an import are those of the draft, when these are below first occurrences and
\* empty only where every new draft has a row: a row is taken to the one with its number.
LEMMA ImportIsAlike ==
    ASSUME NEW rs, NEW N, RowsOf(rs, N), NEW fs, NEW O, FieldRows(fs, O), OneField(rs, fs), Placed(rs, fs),
           Counted(rs), NEW found, NEW marks, NEW L, NEW J, NEW num,
           Whole(rs, fs, found, marks, L, J, num), FirstParents(rs, num), EmptyFirst(rs, fs, num),
           NEW R, NEW F, DraftRows(R, found, Len(found)), DraftFields(R, F, found, Len(found))
    PROVE  \E g : Alike(rs, fs, R, F, g)
<1> DEFINE g == [i \in DOMAIN R |-> CHOOSE j \in DOMAIN rs : rs[j].path = R[i].path /\ num[j] = R[i].occ]
<1>1. Numbered(rs, num) /\ Rising(found)
  BY WholeIsNumbered, FoundIsRising
<1>2. /\ Len(found) = Len(J) /\ Len(J) \in Nat
      /\ \A n \in 1 .. Len(J) :
            /\ J[n] \in DOMAIN rs /\ FieldsOf(fs, J[n]) # {}
            /\ found[n].path = rs[J[n]].path /\ found[n].occ = num[J[n]]
            /\ found[n].value = Held(fs, J[n])
      /\ \A j \in DOMAIN rs : FieldsOf(fs, j) # {} => \E n \in 1 .. Len(J) : J[n] = j
  BY FoundFields
<1>3. /\ RowsOf(R, Len(R)) /\ FieldRows(F, Len(found)) /\ OneField(R, F) /\ Placed(R, F)
      /\ DOMAIN F = 1 .. Len(found)
      /\ \A i \in DOMAIN R :
            \/ FieldsOf(F, i) = {} /\ R[i].path \in Mandatory /\ R[i].occ = 1
            \/ \E m \in 1 .. Len(found) : FieldsOf(F, i) = {m} /\ SameAddress(R[i], found[m])
  BY <1>1, ImportedRows
<1>4. \A j, k \in DOMAIN rs : rs[j].path = rs[k].path /\ num[j] = num[k] => j = k
  BY <1>1 DEF Numbered
<1>5. \A i, k \in DOMAIN R : R[i].path = R[k].path /\ R[i].occ = R[k].occ => i = k
  BY DEF DraftRows, SameAddress
<1>6. ASSUME NEW i \in DOMAIN R
      PROVE  \E j \in DOMAIN rs : rs[j].path = R[i].path /\ num[j] = R[i].occ
  <2>1. CASE R[i].path \in Mandatory /\ R[i].occ = 1
    <3>1. PICK j \in DOMAIN rs : rs[j].path = R[i].path
      BY <2>1, MandatoryRows
    <3>2. num[j] \in Nat \ {0} /\ \A x \in 1 .. num[j] : \E k \in DOMAIN rs : rs[k].path = rs[j].path /\ num[k] = x
      BY <1>1 DEF Numbered
    <3>3. 1 \in 1 .. num[j]
      BY <3>2
    <3> QED
      BY <2>1, <3>1, <3>2, <3>3
  <2>2. CASE \E m \in 1 .. Len(found) : SameAddress(R[i], found[m])
    BY <1>2, <2>2 DEF SameAddress
  <2> QED
    BY <1>3, <2>1, <2>2
<1>7. ASSUME NEW i \in DOMAIN R
      PROVE  g[i] \in DOMAIN rs /\ rs[g[i]].path = R[i].path /\ num[g[i]] = R[i].occ
  BY <1>6
<1>8. g = [i \in DOMAIN R |-> g[i]]
  OBVIOUS
<1> HIDE DEF g
<1>9. g \in [DOMAIN R -> DOMAIN rs]
  BY <1>7, <1>8
<1>10. ASSUME NEW i \in DOMAIN R, NEW m \in 1 .. Len(J), SameAddress(R[i], found[m])
       PROVE  g[i] = J[m]
  BY <1>2, <1>4, <1>7, <1>10 DEF SameAddress
<1>11. \A i, k \in DOMAIN R : g[i] = g[k] => i = k
  <2> SUFFICES ASSUME NEW i \in DOMAIN R, NEW k \in DOMAIN R, g[i] = g[k] PROVE i = k
    OBVIOUS
  <2>1. R[i].path = R[k].path /\ R[i].occ = R[k].occ
    BY <1>7
  <2> QED
    BY <1>5, <2>1
<1>12. \A n \in 1 .. Len(J) : F[n].seq \in DOMAIN R /\ SameAddress(R[F[n].seq], found[n]) /\ F[n].value = found[n].value
  BY <1>2 DEF DraftFields
<1>13. ASSUME NEW j \in DOMAIN rs PROVE \E i \in DOMAIN R : g[i] = j
  <2>1. CASE FieldsOf(fs, j) # {}
    <3>1. PICK n \in 1 .. Len(J) : J[n] = j
      BY <1>2, <2>1
    <3> QED
      BY <1>10, <1>12, <3>1
  <2>2. CASE FieldsOf(fs, j) = {}
    <3>1. rs[j].path \in Mandatory /\ num[j] = 1
      BY <2>2 DEF EmptyFirst
    <3>2. PICK i \in DOMAIN R : R[i].path = rs[j].path /\ R[i].occ = 1
      BY <3>1 DEF DraftRows
    <3>3. g[i] = j
      BY <1>4, <1>7, <3>1, <3>2
    <3> QED
      BY <3>3
  <2> QED
    BY <2>1, <2>2
<1>14. ASSUME NEW i \in DOMAIN R
       PROVE  /\ FieldsOf(fs, g[i]) = {} <=> FieldsOf(F, i) = {}
              /\ FieldsOf(F, i) # {} => Held(fs, g[i]) = Held(F, i)
  <2>1. CASE FieldsOf(F, i) = {}
    <3>1. ASSUME FieldsOf(fs, g[i]) # {} PROVE FALSE
      <4>1. PICK n \in 1 .. Len(J) : J[n] = g[i]
        BY <1>2, <1>7, <3>1
      <4>2. R[F[n].seq].path = R[i].path /\ R[F[n].seq].occ = R[i].occ /\ F[n].seq \in DOMAIN R
        BY <1>2, <1>7, <1>12, <4>1 DEF SameAddress
      <4>3. F[n].seq = i
        BY <1>5, <4>2
      <4>4. n \in FieldsOf(F, i)
        BY <1>2, <1>3, <4>3 DEF FieldsOf
      <4> QED
        BY <2>1, <4>4
    <3> QED
      BY <2>1, <3>1
  <2>2. CASE FieldsOf(F, i) # {}
    <3>1. PICK m \in 1 .. Len(found) : FieldsOf(F, i) = {m} /\ SameAddress(R[i], found[m])
      BY <1>3, <2>2
    <3>2. g[i] = J[m] /\ FieldsOf(fs, J[m]) # {} /\ found[m].value = Held(fs, J[m])
      BY <1>2, <1>10, <3>1
    <3>3. Held(F, i) = F[m].value
      BY <3>1 DEF Held
    <3>4. F[m].value = found[m].value
      BY <1>2, <1>12
    <3> QED
      BY <2>2, <3>2, <3>3, <3>4
  <2> QED
    BY <2>1, <2>2
<1>15. ASSUME NEW i \in DOMAIN R, R[i].parent = 0 PROVE rs[g[i]].parent = 0
  <2>1. Layout[R[i].path].parent = NoPath
    BY <1>3, <1>15, ParentOfRow
  <2>2. Layout[rs[g[i]].path].parent = NoPath
    BY <1>7, <2>1
  <2> QED
    BY <1>7, <2>2, ParentOfRow
<1>16. ASSUME NEW i \in DOMAIN R, R[i].parent # 0
       PROVE  R[i].parent \in DOMAIN R /\ rs[g[i]].parent = g[R[i].parent]
  <2> PICK y, j, x : y = R[i].parent /\ j = g[i] /\ x = rs[j].parent
    OBVIOUS
  <2>1. BelowFirst(R, R[i].path, y)
    BY DEF DraftRows
  <2>2. /\ Layout[R[i].path].parent # NoPath /\ y \in DOMAIN R
        /\ R[y].path = Layout[R[i].path].parent /\ R[y].occ = 1
    BY <1>16, <2>1 DEF BelowFirst
  <2>3. j \in DOMAIN rs /\ rs[j].path = R[i].path
    BY <1>7
  <2>4. x \in DOMAIN rs /\ rs[x].path = Layout[R[i].path].parent /\ x # 0
    BY <2>2, <2>3, ParentOfRow
  <2>5. num[x] = 1
    BY <2>3, <2>4 DEF FirstParents
  <2>6. g[y] \in DOMAIN rs /\ rs[g[y]].path = R[y].path /\ num[g[y]] = 1
    BY <1>7, <2>2
  <2>7. x = g[y]
    BY <1>4, <2>2, <2>4, <2>5, <2>6
  <2> QED
    BY <2>2, <2>7
<1>17. ASSUME NEW i \in DOMAIN R, NEW k \in DOMAIN R
       PROVE  ByOccurrence(R, i, k) <=> ByOccurrence(rs, g[i], g[k])
  <2> PICK x, y : x = g[i] /\ y = g[k]
    OBVIOUS
  <2>1. /\ x \in DOMAIN rs /\ rs[x].path = R[i].path /\ num[x] = R[i].occ
        /\ y \in DOMAIN rs /\ rs[y].path = R[k].path /\ num[y] = R[k].occ
    BY <1>7
  <2>2. CASE R[i].path # R[k].path
    BY <2>1, <2>2 DEF ByOccurrence
  <2>3. CASE R[i].path = R[k].path
    <3>1. rs[x].parent = rs[y].parent
      BY <1>1, <2>1, <2>3, OneParent
    <3>2. num[x] < num[y] <=> ByOccurrence(rs, x, y)
      BY <1>1, <2>1, <2>3, <3>1 DEF Numbered
    <3>3. R[i].occ = R[k].occ => i = k
      BY <1>5, <2>3
    <3>4. i \in Nat /\ k \in Nat /\ Layout[R[i].path].order \in Nat
      <4>1. R[i].path \in Paths
        BY <1>3 DEF RowsOf
      <4> QED
        BY <1>3, <4>1, FiniteRows, Configured
    <3>5. ~(Layout[R[i].path].order < Layout[R[k].path].order) /\ ~(R[i].occ = R[k].occ /\ i < k)
      BY <2>3, <3>3, <3>4
    <3>6. ByOccurrence(R, i, k) <=> R[i].occ < R[k].occ
      BY <2>3, <3>5 DEF ByOccurrence
    <3> QED
      BY <2>1, <3>2, <3>6
  <2> QED
    BY <2>2, <2>3
<1>18. Alike(rs, fs, R, F, g)
  BY <1>7, <1>9, <1>11, <1>13, <1>14, <1>15, <1>16, <1>17 DEF Alike
<1> QED
  BY <1>18

\* The round trip of rows that the composer counts, each with at most one field.
LEMMA RoundTripRule ==
    ASSUME NEW rs, NEW N, RowsOf(rs, N), NEW fs, NEW O, FieldRows(fs, O), OneField(rs, fs),
           Placed(rs, fs), Counted(rs), NEW lines, lines = Lines(rs, fs)
    PROVE  RoundTrips(lines) <=> FirstBelow(rs) /\ EmptyCreated(rs, fs)
<1> PICK found, marks, draft : found = Parsed(lines) /\ marks = Marks(lines) /\ draft = Imported(lines)
  OBVIOUS
<1>1. \A k \in DOMAIN rs : rs[k].parent \in DOMAIN rs \cup {0}
  BY DEF Placed, IsBelow, MayHaveParent
<1>2. \E L, J, num : Whole(rs, fs, Parsed(lines), Marks(lines), L, J, num)
  BY <1>1, TextIsRead
<1>3. PICK L, J, num : Whole(rs, fs, found, marks, L, J, num)
  BY <1>2
<1>4. Rising(found) /\ Numbered(rs, num)
  BY <1>3, FoundIsRising, WholeIsNumbered
<1>5. FirstBelow(rs) /\ EmptyCreated(rs, fs) <=> FirstParents(rs, num) /\ EmptyFirst(rs, fs, num)
  BY <1>4, FirstParentsAreFirst
<1>6. /\ SoFar(found, Len(found), draft) \/ Refused(draft)
      /\ Addressed(found) /\ (\A n \in 1 .. Len(found) : ~OverLimit(found[n])) =>
            SoFar(found, Len(found), draft)
  BY <1>4, ImportFollows
<1>7. RoundTrips(lines) <=> ~draft.refused /\ Lines(draft.rs, draft.fs) = lines
  BY DEF RoundTrips
<1>8. ASSUME FirstParents(rs, num), EmptyFirst(rs, fs, num) PROVE RoundTrips(lines)
  <2>1. (\A n \in 1 .. Len(found) : ~OverLimit(found[n])) /\ Addressed(found)
    BY <1>3, <1>8, ReadWithinLimits, FoundIsAddressed
  <2>2. PICK R, F : draft = DraftOf(R, F) /\ DraftRows(R, found, Len(found))
                    /\ DraftFields(R, F, found, Len(found))
    BY <1>6, <2>1 DEF SoFar
  <2>3. PICK g : Alike(rs, fs, R, F, g)
    BY <1>3, <1>8, <2>2, ImportIsAlike
  <2>4. RowsOf(R, Len(R)) /\ FieldRows(F, Len(found)) /\ OneField(R, F)
    BY <1>4, <2>2, ImportedRows
  <2>5. Lines(R, F) = Lines(rs, fs)
    BY <2>3, <2>4, LinesAlike
  <2>6. draft.rs = R /\ draft.fs = F /\ draft.refused = FALSE
    BY <2>2 DEF DraftOf
  <2> QED
    BY <1>7, <2>5, <2>6
<1>9. ASSUME RoundTrips(lines) PROVE FirstParents(rs, num) /\ EmptyFirst(rs, fs, num)
  <2>1. ~Refused(draft)
    <3>1. ASSUME NEW R, NEW F, draft = [rs |-> R, fs |-> F, refused |-> TRUE] PROVE FALSE
      <4>1. draft.refused = TRUE
        BY <3>1
      <4> QED
        BY <1>7, <1>9, <4>1
    <3> QED
      BY <3>1 DEF Refused
  <2>2. PICK R, F : draft = DraftOf(R, F) /\ DraftRows(R, found, Len(found))
                    /\ DraftFields(R, F, found, Len(found))
    BY <1>6, <2>1 DEF SoFar
  <2>3. draft.rs = R /\ draft.fs = F
    BY <2>2 DEF DraftOf
  <2>4. lines = Lines(R, F)
    BY <1>7, <1>9, <2>3
  <2>5. /\ RowsOf(R, Len(R)) /\ FieldRows(F, Len(found)) /\ OneField(R, F) /\ Placed(R, F)
        /\ \A k \in DOMAIN R : R[k].parent \in DOMAIN R \cup {0}
    BY <1>4, <2>2, ImportedRows
  <2>6. \E K, H, no : Whole(R, F, Parsed(lines), Marks(lines), K, H, no)
    BY <2>4, <2>5, TextIsRead
  <2>7. PICK K, H, no : Whole(R, F, found, marks, K, H, no)
    BY <2>6
  <2>8. Numbered(R, no)
    BY <2>5, <2>7, WholeIsNumbered
  <2>9. FirstParents(R, no) /\ EmptyFirst(R, F, no)
    BY <1>4, <2>2, <2>8, ImportsBelowFirsts
  <2> QED
    BY <1>3, <2>5, <2>7, <2>9, SameMarks
<1> QED
  BY <1>5, <1>8, <1>9

\* However edits race, a text that passes the composer's checks comes back from its import
\* exactly when every row stands below the first occurrence of its parent's path and every
\* row without a field is the first of a mandatory path, whatever the configuration and
\* however many rows there are.
THEOREM RoundTripsAreBelowFirstParents == StructureSpec => []RoundTripsBelowFirstParents
<1>1. ASSUME Typed, Passes(occurrence, field), SingleFields(field)
      PROVE  RoundTrips(Lines(occurrence, field)) <=>
                FirstBelow(occurrence) /\ EmptyCreated(occurrence, field)
  <2>1. Placed(occurrence, field) /\ Counted(occurrence)
    BY <1>1 DEF Passes
  <2>2. RowsOf(occurrence, made.seqs)
    BY <1>1, <2>1, PlacedRows
  <2>3. FieldRows(field, made.fields)
    BY <1>1, Configured DEF Typed, StructureTypeOK, FieldRow, FieldIds, FieldRows
  <2>4. ASSUME NEW i \in DOMAIN occurrence, FieldsOf(field, i) # {}
        PROVE  \E f \in DOMAIN field : FieldsOf(field, i) = {f}
    <3>1. PICK f : f \in FieldsOf(field, i)
      BY <2>4
    <3>2. \A k \in FieldsOf(field, i) : k = f
      BY <1>1, <3>1 DEF FieldsOf, SingleFields
    <3>3. f \in DOMAIN field
      BY <3>1 DEF FieldsOf
    <3> QED
      BY <3>1, <3>2, <3>3
  <2>5. OneField(occurrence, field)
    BY <2>4 DEF OneField
  <2> QED
    BY <2>1, <2>2, <2>3, <2>5, RoundTripRule
<1>2. Typed => RoundTripsBelowFirstParents
  BY <1>1 DEF RoundTripsBelowFirstParents, FirstBelow, EmptyCreated
<1>3. StructureInit => Typed
  BY InitTyped
<1>4. Typed /\ [StructureNext]_structureVars => Typed'
  BY StepTyped
<1> QED
  BY <1>2, <1>3, <1>4, PTL DEF StructureSpec

================================================================================

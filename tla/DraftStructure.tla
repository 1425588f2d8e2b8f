------------------------------- MODULE DraftStructure -------------------------------
(***************************************************************************)
(* The sequence occurrences and fields of one draft, and their round trip  *)
(* through text: the editing operations of authoring/repository.py, the    *)
(* composer that judges and renders the rows, and the parser and import    *)
(* that read the text back.  Edits run in threads; each reads rows and     *)
(* later commits, and nothing but those reads guards the table.            *)
(*                                                                         *)
(* A sequence is bracketed, and its path has one field row.  A parent is   *)
(* whatever id the request gives: 0 is none, Unknown one that no row ever  *)
(* had.                                                                    *)
(***************************************************************************)
EXTENDS Integers, Sequences, FiniteSets, SequencesExt, Listing

CONSTANTS
    Paths,        \* the configured sequences; Layout[p] is what is configured for p
    Layout,       \* (required: whether the field of the path is mandatory)
    NoPath,
    Values,       \* field values
    Editors,      \* requests that can be in progress at once
    MaxSequences, \* bound on the sequence rows ever inserted
    MaxFields     \* bound on the field rows ever inserted

VARIABLES
    occurrence, \* rows of draft_sequences, by the order of their insertion
    field,      \* rows of draft_fields, likewise
    editor,     \* what each request has read and is about to write
    made,       \* sequence and field rows ever inserted
    raced       \* whether two requests were ever in progress at once

structureVars == <<occurrence, field, editor, made, raced>>

Unknown == -1
SeqIds == 0 .. MaxSequences
ParentIds == SeqIds \cup {Unknown}
FieldIds == 0 .. MaxFields
SequenceRow == [path : Paths, parent : ParentIds, occ : Nat \ {0}]
FieldRow == [seq : SeqIds, value : Values]
Request == [op : {"idle", "add", "remove", "upsert", "delete"}, seq : ParentIds,
            path : Paths \cup {NoPath}, occ : Nat, field : FieldIds, value : Values \cup {NoPath}]
NoEditor == [op |-> "idle", seq |-> 0, path |-> NoPath, occ |-> 0, field |-> 0, value |-> NoPath]

StructureTypeOK ==
    /\ made \in [seqs : SeqIds, fields : FieldIds]
    /\ DOMAIN occurrence \subseteq 1 .. made.seqs /\ DOMAIN field \subseteq 1 .. made.fields
    /\ \A i \in DOMAIN occurrence : occurrence[i] \in SequenceRow /\ occurrence[i].parent < i
    /\ \A f \in DOMAIN field : field[f] \in FieldRow
    /\ editor \in [Editors -> Request]
    /\ raced \in BOOLEAN

--------------------------------------------------------------------------------
(***************************************************************************)
(* Rows: rs is a table of sequence occurrences and fs one of fields.       *)
(***************************************************************************)
Siblings(rs, path, parent) == {i \in DOMAIN rs : rs[i].path = path /\ rs[i].parent = parent}
FieldsOf(fs, i) == {f \in DOMAIN fs : fs[f].seq = i}
Insert(table, id, row) == [k \in DOMAIN table \cup {id} |-> IF k = id THEN row ELSE table[k]]
Delete(table, ids) == [k \in DOMAIN table \ ids |-> table[k]]

\* create_draft: one occurrence of every mandatory sequence, in the configured order
Mandatory == {p \in Paths : Layout[p].min > 0}
RowOf(path) ==
    IF path \notin Mandatory THEN 0
    ELSE Cardinality({p \in Mandatory : Layout[p].order <= Layout[path].order})
Created ==
    [i \in 1 .. Cardinality(Mandatory) |->
        LET path == CHOOSE p \in Mandatory : RowOf(p) = i
        IN  [path |-> path, parent |-> RowOf(Layout[path].parent), occ |-> 1]]

\* The configuration (MessageSpecificationRegistry, its YAML): every sequence has
\* an order of its own and may occur, and a mandatory one stands below a mandatory one
\* that comes before it.
ASSUME LayoutAssumption ==
    /\ IsFiniteSet(Paths) /\ NoPath \notin Paths
    /\ Layout \in [Paths -> [parent : Paths \cup {NoPath}, order : Nat, min : Nat,
                            max : Nat \ {0}, required : BOOLEAN]]
    /\ \A p, r \in Paths : Layout[p].order = Layout[r].order => p = r
    /\ \A p \in Mandatory :
          \/ Layout[p].parent = NoPath
          \/ Layout[p].parent \in Mandatory /\ Layout[Layout[p].parent].order < Layout[p].order
    /\ MaxSequences \in Nat /\ MaxFields \in Nat /\ Cardinality(Mandatory) <= MaxSequences

\* add_sequence: the checks of the parent, by what session.get finds of it
MayHaveParent(rs, path, parent) ==
    IF Layout[path].parent = NoPath THEN parent \notin DOMAIN rs
    ELSE parent \in DOMAIN rs /\ rs[parent].path = Layout[path].parent

--------------------------------------------------------------------------------
(***************************************************************************)
(* SpecificationComposer.compose: the structure findings ...               *)
(***************************************************************************)
\* the composer's own check: nothing above a top-level row, found or not
IsBelow(rs, path, parent) ==
    IF Layout[path].parent = NoPath THEN parent = 0 ELSE MayHaveParent(rs, path, parent)
FaultIgnoresOrphans(rs, fs) ==
    \A i \in DOMAIN rs : Layout[rs[i].path].parent = NoPath => rs[i].parent = 0
Placed(rs, fs) ==
    /\ \A i \in DOMAIN rs : IsBelow(rs, rs[i].path, rs[i].parent)
    /\ \A f \in DOMAIN fs : fs[f].seq \in DOMAIN rs
Counted(rs) ==
    \A p \in Paths :
        LET parents == IF Layout[p].parent = NoPath THEN {0}
                       ELSE {i \in DOMAIN rs : rs[i].path = Layout[p].parent}
        IN  \A i \in parents : Cardinality(Siblings(rs, p, i)) \in Layout[p].min .. Layout[p].max
Passes(rs, fs) ==
    /\ Placed(rs, fs)
    /\ Counted(rs)
    /\ \A i \in DOMAIN rs : Layout[rs[i].path].required => FieldsOf(fs, i) # {}

(***************************************************************************)
(* ... and the lines, in the order of the configuration and the occurrence *)
(* numbers; rows that tie come in the order in which they are read.        *)
(***************************************************************************)
Token(kind, path, value) == [kind |-> kind, path |-> path, value |-> value]
ByOccurrence(rs, i, k) ==
    \/ Layout[rs[i].path].order < Layout[rs[k].path].order
    \/ /\ rs[i].path = rs[k].path
       /\ rs[i].occ < rs[k].occ \/ (rs[i].occ = rs[k].occ /\ i < k)
ChildrenOf(rs, parent) ==
    LET children == {i \in DOMAIN rs : rs[i].parent = parent}
    IN  InOrder(children, [i \in children |-> {k \in children : ~ByOccurrence(rs, i, k)}])
FieldOrder(fs, i) ==
    LET fields == FieldsOf(fs, i)
    IN  InOrder(fields, [f \in fields |-> {g \in fields : g <= f}])

\* render: inner is the text of the sequences below i
Block(rs, fs, i, inner) ==
    LET path == rs[i].path
        fields == FieldOrder(fs, i)
    IN  <<Token("16R", path, NoPath)>>
        \o [n \in DOMAIN fields |-> Token("field", path, fs[fields[n]].value)]
        \o inner
        \o <<Token("16S", path, NoPath)>>

Lines(rs, fs) ==
    LET Render[i \in DOMAIN rs] ==
            LET children == ChildrenOf(rs, i)
            IN  Block(rs, fs, i, Concat([n \in DOMAIN children |-> Render[children[n]]]))
        roots == ChildrenOf(rs, 0)
    IN  Concat([n \in DOMAIN roots |-> Render[roots[n]]])

--------------------------------------------------------------------------------
(***************************************************************************)
(* parse_supported_message: a field's address is the path of its sequence  *)
(* and how many sequences of that path were opened so far in the text.     *)
(***************************************************************************)
Opened(counts, path) == [counts EXCEPT ![path] = @ + 1]

NewParser == [stack |-> <<>>, counts |-> [p \in Paths |-> 0], fields |-> <<>>]
ReadToken(state, token) ==
    CASE token.kind = "16R" ->
           LET counts == Opened(state.counts, token.path)
           IN  [state EXCEPT !.counts = counts,
                  !.stack = Append(@, [path |-> token.path, occ |-> counts[token.path]])]
      [] token.kind = "16S" -> [state EXCEPT !.stack = Front(@)]
      [] token.kind = "field" ->
           [state EXCEPT !.fields = Append(@, [path |-> Last(state.stack).path,
                                               occ |-> Last(state.stack).occ,
                                               value |-> token.value])]
Parsed(lines) ==
    LET After[n \in 0 .. Len(lines)] == \* the state after n tokens
            IF n = 0 THEN NewParser ELSE ReadToken(After[n - 1], lines[n])
    IN  After[Len(lines)].fields

(***************************************************************************)
(* import_supported_message (and load_sample_into_draft): each address is  *)
(* looked up among the occurrences of a new draft; one that is missing is  *)
(* added, below occurrence 1 of the parent's path.                         *)
(***************************************************************************)
Holding(rs, path, occ) == {i \in DOMAIN rs : rs[i].path = path /\ rs[i].occ = occ}

FaultLatestParent(rs, path) ==
    IF Layout[path].parent = NoPath THEN {0}
    ELSE {i \in DOMAIN rs : rs[i].path = Layout[path].parent
                                /\ \A k \in DOMAIN rs : rs[k].path = rs[i].path => k <= i}
ParentsFor(rs, path) ==
    IF Layout[path].parent = NoPath THEN {0} ELSE Holding(rs, Layout[path].parent, 1)

ImportSequence(draft, path, occ) ==
    LET parents == ParentsFor(draft.rs, path)
        number(parent) == Cardinality(Siblings(draft.rs, path, parent)) + 1
        row(parent) == [path |-> path, parent |-> parent, occ |-> number(parent)]
    IN  IF Holding(draft.rs, path, occ) # {} THEN draft
        ELSE IF \E parent \in parents : number(parent) = occ /\ occ <= Layout[path].max
        THEN [draft EXCEPT !.rs = Append(@, row(CHOOSE parent \in parents : TRUE))]
        ELSE [draft EXCEPT !.refused = TRUE]

ImportField(draft, parsed) ==
    LET next == ImportSequence(draft, parsed.path, parsed.occ)
    IN  IF draft.refused \/ next.refused THEN [draft EXCEPT !.refused = TRUE]
        ELSE LET i == CHOOSE k \in Holding(next.rs, parsed.path, parsed.occ) : TRUE
             IN  IF FieldsOf(next.fs, i) = {}
                 THEN [next EXCEPT !.fs = Append(@, [seq |-> i, value |-> parsed.value])]
                 ELSE [next EXCEPT !.fs = [f \in DOMAIN @ |-> IF @[f].seq = i
                                              THEN [@[f] EXCEPT !.value = parsed.value] ELSE @[f]]]

NewDraft == [rs |-> Created, fs |-> <<>>, refused |-> FALSE]
Imported(lines) ==
    LET parsed == Parsed(lines)
        After[n \in 0 .. Len(parsed)] == \* the draft after n fields
            IF n = 0 THEN NewDraft ELSE ImportField(After[n - 1], parsed[n])
    IN  After[Len(parsed)]

\* round_trip_equivalent
RoundTrips(lines) ==
    LET draft == Imported(lines) IN ~draft.refused /\ Lines(draft.rs, draft.fs) = lines

--------------------------------------------------------------------------------
StructureInit ==
    /\ occurrence = Created
    /\ field = <<>>
    /\ editor = [q \in Editors |-> NoEditor]
    /\ made = [seqs |-> Cardinality(Mandatory), fields |-> 0]
    /\ raced = FALSE

Idle(q) == editor[q].op = "idle"
Begins(q, row) ==
    /\ editor' = [editor EXCEPT ![q] = row]
    /\ raced' = (raced \/ \E p \in Editors : ~Idle(p))
    /\ UNCHANGED <<occurrence, field, made>>
Commits(q, op) ==
    /\ editor[q].op = op
    /\ editor' = [editor EXCEPT ![q] = NoEditor]
    /\ UNCHANGED raced

BeginAdd(q, path, parent) ==
    LET n == Cardinality(Siblings(occurrence, path, parent)) IN
    /\ MayHaveParent(occurrence, path, parent)
    /\ n < Layout[path].max
    /\ Begins(q, [NoEditor EXCEPT !.op = "add", !.seq = parent, !.path = path, !.occ = n + 1])
CommitAdd(q) ==
    LET e == editor[q] IN
    /\ Commits(q, "add")
    /\ made.seqs < MaxSequences
    /\ made' = [made EXCEPT !.seqs = @ + 1]
    /\ occurrence' = Insert(occurrence, made'.seqs, [path |-> e.path, parent |-> e.seq, occ |-> e.occ])
    /\ UNCHANGED field

BeginRemove(q, i) ==
    /\ Cardinality(Siblings(occurrence, occurrence[i].path, occurrence[i].parent))
         > Layout[occurrence[i].path].min
    /\ \A k \in DOMAIN occurrence : occurrence[k].parent # i
    /\ Begins(q, [NoEditor EXCEPT !.op = "remove", !.seq = i])
CommitRemove(q) ==
    LET i == editor[q].seq IN
    /\ Commits(q, "remove")
    /\ occurrence' = Delete(occurrence, {i})
    /\ field' = Delete(field, FieldsOf(field, i))
    /\ UNCHANGED made

\* upsert_field: the row to update, 0 when there is none
FaultNeverFinds(i) == {}
Existing(i) == FieldsOf(field, i)
BeginUpsert(q, i, value) ==
    \E f \in (IF Existing(i) = {} THEN {0} ELSE Existing(i)) :
        Begins(q, [NoEditor EXCEPT !.op = "upsert", !.seq = i, !.field = f, !.value = value])
CommitUpdate(q) ==
    LET e == editor[q] IN
    /\ e.field \in DOMAIN field
    /\ Commits(q, "upsert")
    /\ field' = [field EXCEPT ![e.field].value = e.value]
    /\ UNCHANGED <<occurrence, made>>
CommitInsert(q) ==
    LET e == editor[q] IN
    /\ e.field = 0
    /\ Commits(q, "upsert")
    /\ made.fields < MaxFields
    /\ made' = [made EXCEPT !.fields = @ + 1]
    /\ field' = Insert(field, made'.fields, [seq |-> e.seq, value |-> e.value])
    /\ UNCHANGED occurrence

BeginDelete(q, f) == Begins(q, [NoEditor EXCEPT !.op = "delete", !.field = f])
CommitDelete(q) ==
    /\ Commits(q, "delete")
    /\ field' = Delete(field, {editor[q].field})
    /\ UNCHANGED <<occurrence, made>>

\* the transaction is rolled back: a foreign key (PostgreSQL enforces them, SQLite does
\* not), a row that is gone, or a crash
RollBack(q) ==
    /\ ~Idle(q)
    /\ Commits(q, editor[q].op)
    /\ UNCHANGED <<occurrence, field, made>>

StructureNext ==
    \E q \in Editors :
        \/ /\ Idle(q)
           /\ \/ \E path \in Paths, parent \in 1 .. made.seqs \cup {0, Unknown} : BeginAdd(q, path, parent)
              \/ \E i \in DOMAIN occurrence : BeginRemove(q, i)
              \/ \E i \in DOMAIN occurrence, value \in Values : BeginUpsert(q, i, value)
              \/ \E f \in DOMAIN field : BeginDelete(q, f)
        \/ CommitAdd(q) \/ CommitRemove(q) \/ CommitUpdate(q) \/ CommitInsert(q) \/ CommitDelete(q)
        \/ RollBack(q)

StructureSpec == StructureInit /\ [][StructureNext]_structureVars

--------------------------------------------------------------------------------
SingleFields(fs) == \A f, g \in DOMAIN fs : fs[f].seq = fs[g].seq => f = g

\* As long as edits do not overlap, no row and no field loses the row it stands below, no
\* sequence exceeds its limit below one parent, and a field exists once: what add_sequence,
\* remove_sequence and upsert_field checked still holds of every row.
SerialEditsKeepTheLayout ==
    ~raced =>
        /\ \A i \in DOMAIN occurrence :
              /\ MayHaveParent(occurrence, occurrence[i].path, occurrence[i].parent)
              /\ Cardinality(Siblings(occurrence, occurrence[i].path, occurrence[i].parent))
                    <= Layout[occurrence[i].path].max
        /\ \A f \in DOMAIN field : field[f].seq \in DOMAIN occurrence
        /\ SingleFields(field)

\* However edits race, text that passes the composer's checks contains every
\* occurrence and every field of the draft: a row that cannot be rendered is found.
PassingTextIsComplete ==
    Passes(occurrence, field) =>
        LET lines == Lines(occurrence, field)
            Count(kind) == Cardinality({n \in DOMAIN lines : lines[n].kind = kind})
        IN  /\ Count("16R") = Cardinality(DOMAIN occurrence)
            /\ Count("16S") = Cardinality(DOMAIN occurrence)
            /\ Count("field") = Cardinality(DOMAIN field)

\* A passing text survives its import exactly when every repeated sequence stands below
\* the first occurrence of its parent, the only place the import knows, and every
\* sequence without a field is one that the new draft has anyway; otherwise
\* round_trip_equivalent is false.
IsFirst(rs, i) == \A k \in DOMAIN rs \ {i} : rs[k].path = rs[i].path => ByOccurrence(rs, i, k)
RoundTripsBelowFirstParents ==
    Passes(occurrence, field) /\ SingleFields(field) =>
        (RoundTrips(Lines(occurrence, field)) <=>
            \A i \in DOMAIN occurrence :
                /\ occurrence[i].parent \in DOMAIN occurrence => IsFirst(occurrence, occurrence[i].parent)
                /\ FieldsOf(field, i) = {} => occurrence[i].path \in Mandatory /\ IsFirst(occurrence, i))

================================================================================

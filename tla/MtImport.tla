---------------------------------- MODULE MtImport ----------------------------------
(***************************************************************************)
(* Reading the text block of an MT message (studio/mt/parser.py) and       *)
(* writing it again (plan_sequences of studio/mt/generator.py and the      *)
(* composer).  The reader turns lines into sequence instances and values   *)
(* addressed by (path, occurrence); the address is flat, so not every      *)
(* nesting can be expressed, and the reader must refuse what the composer  *)
(* would build differently.                                                *)
(*                                                                         *)
(* A value is the number of its line.  No sequence is placed after a tag   *)
(* of its parent (insert_after_tag).                                       *)
(***************************************************************************)
EXTENDS Integers, Sequences, FiniteSets, SequencesExt

CONSTANTS
    Layouts,  \* message specifications, by name: see Chosen below
    NoPath,
    Begun,    \* by the same names, the text that each behaviour begins with
    MaxLines, MaxValues, MaxOccurrence \* bounds: lines of a text by the name of its layout,
                                       \* values of a message, occurrences

VARIABLES
    layout,   \* the name of the specification that is used
    text,     \* the lines of a text block to import, so far
    entered   \* the values of a message to generate, so far

importVars == <<layout, text, entered>>

(***************************************************************************)
(* Chosen.seq[p]  the sequence p: its parent, code, order, min, max,       *)
(*                whether it is bracketed, and its leading tags            *)
(* Chosen.rows    its fields in the order of row_number: path, tag,        *)
(*                mandatory, and tagOnly for one that every instance of its*)
(*                sequence carries without a value                         *)
(***************************************************************************)
Chosen == Layouts[layout]
Seqs == DOMAIN Chosen.seq
Rows == DOMAIN Chosen.rows
Tags == {Chosen.rows[r].tag : r \in Rows}
Codes == {Chosen.seq[p].code : p \in {q \in Seqs : Chosen.seq[q].bracketed}}
RowsAt(path, tag) == {r \in Rows : Chosen.rows[r].path = path /\ Chosen.rows[r].tag = tag}
Least(rows) == CHOOSE r \in rows : \A s \in rows : r <= s
Ranked(paths) == SetToSortSeq(paths, LAMBDA p, q : Chosen.seq[p].order < Chosen.seq[q].order)

LeadBy(tag) == {p \in Seqs : ~Chosen.seq[p].bracketed /\ tag \in Chosen.seq[p].leading}

Ancestors ==
    LET Above[p \in Seqs] == IF Chosen.seq[p].parent = NoPath THEN {}
                             ELSE {Chosen.seq[p].parent} \cup Above[Chosen.seq[p].parent]
    IN  Above

Line(kind, name, value) == [kind |-> kind, name |-> name, value |-> value]

--------------------------------------------------------------------------------
(***************************************************************************)
(* _scan: the reader's state is                                            *)
(*   instances  the sequence instances in the order in which they open:    *)
(*              path, index among those of the path, parent (0: none)      *)
(*   stack      the open :16R: instances                                   *)
(*   current    the open instance of an unbracketed sequence (0: none)     *)
(*   last       the row that each instance read last (last_order)          *)
(*   raw        the fields: instance, tag, value                           *)
(*   broken     whether an error was found                                 *)
(***************************************************************************)
Instance(reader, path, parent) ==
    [path |-> path, parent |-> parent,
     index |-> 1 + Cardinality({i \in DOMAIN reader.instances : reader.instances[i].path = path})]
Open(reader, path, parent) ==
    [reader EXCEPT !.instances = Append(@, Instance(reader, path, parent)),
                   !.last = Append(@, 0)]
Opened(reader) == Len(reader.instances)
Unreadable(reader) == [reader EXCEPT !.broken = TRUE]

Roots == {p \in Seqs : ~Chosen.seq[p].bracketed /\ Chosen.seq[p].parent = NoPath
                          /\ Chosen.seq[p].leading = {}}
NewReader ==
    LET empty == [instances |-> <<>>, stack |-> <<>>, current |-> 0, last |-> <<>>,
                  raw |-> <<>>, broken |-> FALSE]
    IN  IF Roots = {} THEN empty ELSE [Open(empty, Ranked(Roots)[1], 0) EXCEPT !.current = 1]

TopPath(reader) == IF reader.stack = <<>> THEN NoPath ELSE reader.instances[Last(reader.stack)].path

\* _boundary: the code names the sequence below the open one, or the only one it can be
Opens(reader, code) ==
    LET named == {p \in Seqs : Chosen.seq[p].code = code}
        below == {p \in named : Chosen.seq[p].parent = TopPath(reader)}
    IN  IF below # {} THEN below ELSE IF Cardinality(named) = 1 THEN named ELSE {}
Begin(reader, code) ==
    IF Opens(reader, code) = {} THEN Unreadable(reader)
    ELSE LET path == Ranked(Opens(reader, code))[1]
             next == Open(reader, path, IF reader.stack = <<>> THEN 0 ELSE Last(reader.stack))
         IN  [next EXCEPT !.stack = Append(@, Opened(next))]
End(reader, code) ==
    IF reader.stack = <<>> \/ Chosen.seq[TopPath(reader)].code # code THEN Unreadable(reader)
    ELSE [reader EXCEPT !.stack = Front(@)]

\* _implicit_parent: the last instance of the parent, opened here when there is none
WithParent(reader, path) ==
    LET LastOf(r, p) ==
            LET found == {i \in DOMAIN r.instances : r.instances[i].path = p}
            IN  IF found = {} THEN 0 ELSE CHOOSE i \in found : \A k \in found : k <= i
        Opening[p \in Seqs \cup {NoPath}] ==
            IF p = NoPath \/ \E i \in DOMAIN reader.instances : reader.instances[i].path = p
            THEN reader
            ELSE LET above == Opening[Chosen.seq[p].parent]
                 IN  Open(above, p, LastOf(above, Chosen.seq[p].parent))
        parent == Chosen.seq[path].parent
        ready == Opening[parent]
    IN  Open(ready, path, LastOf(ready, parent))

\* the paths of an instance and its ancestors, the nearest first
Chain(reader, i) ==
    LET Up[k \in 0 .. Opened(reader)] ==
            IF k = 0 THEN <<NoPath>>
            ELSE <<reader.instances[k].path>> \o Up[reader.instances[k].parent]
    IN  Up[i]
Depth(chain, path) == CHOOSE n \in DOMAIN chain : chain[n] = path

\* _implicit_target, when a leading tag may open a sequence: the nearest structure wins
Leads(reader, tag) ==
    LET candidates == LeadBy(tag)
        here == reader.instances[reader.current].path
        chain == Chain(reader, reader.current)
        Follows(p) ==
            LET n == Depth(chain, Chosen.seq[p].parent)
            IN  n = 1 \/ Chosen.seq[p].order > Chosen.seq[chain[n - 1]].order
    IN  {p \in candidates :
           IF p = here THEN Chosen.seq[p].max > 1
           ELSE IF Chosen.seq[p].parent \in Range(chain) THEN Follows(p)
           ELSE here \notin candidates \/ Chosen.seq[p].order > Chosen.seq[here].order}
FaultFirstInTable(reader, paths) ==
    CHOOSE p \in paths : \A q \in paths \ {p} : Chosen.seq[p].order < Chosen.seq[q].order
Nearest(reader, paths) ==
    LET chain == Chain(reader, reader.current)
        Rank(p) == IF Chosen.seq[p].parent \in Range(chain)
                   THEN Depth(chain, Chosen.seq[p].parent) ELSE Len(chain) + 1
    IN  CHOOSE p \in paths : \A q \in paths \ {p} :
            Rank(p) < Rank(q) \/ (Rank(p) = Rank(q) /\ Chosen.seq[p].order < Chosen.seq[q].order)

\* an instance that encloses i and has the tag, i itself when there is none
Enclosing(reader, i, tag) ==
    LET Out[k \in 0 .. Opened(reader)] ==
            IF k = 0 THEN i
            ELSE IF RowsAt(reader.instances[k].path, tag) # {} THEN k
            ELSE Out[reader.instances[k].parent]
    IN  Out[reader.instances[i].parent]

\* the reader with its current instance where the field belongs
Placed(reader, tag) ==
    LET i == reader.current
        leading == LeadBy(tag)
        Entered(next) == [next EXCEPT !.current = Opened(next)]
        later == leading \ {reader.instances[i].path}
    IN  IF i = 0
        THEN IF leading = {} THEN reader ELSE Entered(WithParent(reader, Ranked(leading)[1]))
        ELSE IF \E r \in RowsAt(reader.instances[i].path, tag) : r >= reader.last[i] THEN reader
        ELSE IF Leads(reader, tag) # {}
        THEN Entered(WithParent(reader, Nearest(reader, Leads(reader, tag))))
        ELSE IF later # {} THEN Entered(WithParent(reader, Ranked(later)[1]))
        ELSE [reader EXCEPT !.current = Enclosing(reader, i, tag)]

Field(reader, tag, value) ==
    LET next == IF reader.stack = <<>> THEN Placed(reader, tag) ELSE reader
        i == IF reader.stack = <<>> THEN next.current ELSE Last(reader.stack)
        rows == RowsAt(next.instances[i].path, tag)
        further == {r \in rows : r >= next.last[i]}
    IN  IF i = 0 THEN Unreadable(reader)
        ELSE [next EXCEPT !.raw = Append(@, [instance |-> i, tag |-> tag, value |-> value]),
                          !.last[i] = IF further # {} THEN Least(further)
                                      ELSE IF rows # {} THEN Least(rows) ELSE @]

Scan(reader, line) ==
    CASE line.kind = "16R" -> Begin(reader, line.name)
      [] line.kind = "16S" -> End(reader, line.name)
      [] line.kind = "field" -> Field(reader, line.name, line.value)

Scanned(lines) == FoldLeft(Scan, NewReader, lines)

--------------------------------------------------------------------------------
\* _emit: the row of a field is the n-th at its address, the last one for any further
RowOf(reader, n) ==
    LET f == reader.raw[n]
        rows == SetToSortSeq(RowsAt(reader.instances[f.instance].path, f.tag), <)
        before == Cardinality({k \in 1 .. n - 1 : reader.raw[k].instance = f.instance
                                                     /\ reader.raw[k].tag = f.tag})
    IN  IF rows = <<>> THEN 0 ELSE rows[IF before < Len(rows) THEN before + 1 ELSE Len(rows)]
KeyOf(reader, n) == [row |-> RowOf(reader, n), occ |-> reader.instances[reader.raw[n].instance].index]
Resolves(reader) ==
    LET keys == [n \in DOMAIN reader.raw |-> KeyOf(reader, n)]
    IN  (\A n \in DOMAIN keys : keys[n].row # 0) /\ IsInjective(keys)

Address(row, occ) == [path |-> Chosen.rows[row].path, occ |-> occ]
Addressed(reader) == {Address(KeyOf(reader, n).row, KeyOf(reader, n).occ) : n \in DOMAIN reader.raw}
\* what the import returns: rows, occurrences and values
Inputs(reader) ==
    {[row |-> KeyOf(reader, n).row, occ |-> KeyOf(reader, n).occ, value |-> reader.raw[n].value] :
        n \in {m \in DOMAIN reader.raw : ~Chosen.rows[RowOf(reader, m)].tagOnly}}

--------------------------------------------------------------------------------
(***************************************************************************)
(* plan_sequences: the instances that addresses imply.  An ancestor has    *)
(* the occurrence of its descendant only where that was addressed, and     *)
(* from the first one upwards that was not, occurrence 1.                  *)
(***************************************************************************)
Planned(addresses) ==
    LET asked == addresses \cup {[path |-> p, occ |-> 1] :
                                    p \in {q \in Seqs : Chosen.seq[q].parent = NoPath
                                                           /\ Chosen.seq[q].min >= 1}}
        Missing(a) == {p \in Ancestors[a.path] : [path |-> p, occ |-> a.occ] \notin asked}
        Implied(a) == {[path |-> p, occ |-> 1] :
                          p \in UNION {{m} \cup Ancestors[m] : m \in Missing(a)}}
    IN  asked \cup UNION {Implied(a) : a \in asked}

\* the instance that contains a, none for a root
ParentIn(plan, a) ==
    LET path == Chosen.seq[a.path].parent
        same == [path |-> path, occ |-> a.occ]
    IN  IF same \in plan THEN same ELSE [path |-> path, occ |-> 1]

\* _check_structure: every instance that holds a value is planned, and below the
\* instance that it was read in
FaultLooksAtPlanOnly(reader) == TRUE
Nested(reader) ==
    LET plan == Planned(Addressed(reader))
        Entry(i) == [path |-> reader.instances[i].path, occ |-> reader.instances[i].index]
        Within[k \in 0 .. Opened(reader)] ==
            IF k = 0 THEN {} ELSE {k} \cup Within[reader.instances[k].parent]
        bearing == UNION {Within[reader.raw[n].instance] : n \in DOMAIN reader.raw}
    IN  \A i \in DOMAIN reader.instances :
           IF Entry(i) \notin plan THEN i \notin bearing
           ELSE LET parent == reader.instances[i].parent
                    rooted == Chosen.seq[Entry(i).path].parent = NoPath
                IN  IF parent = 0 THEN rooted ELSE ~rooted /\ ParentIn(plan, Entry(i)) = Entry(parent)

Accepted(reader) == ~reader.broken /\ reader.stack = <<>> /\ Resolves(reader) /\ Nested(reader)

--------------------------------------------------------------------------------
(***************************************************************************)
(* The lines that the generator writes for the values: SpecificationComposer*)
(***************************************************************************)
Written(inputs) ==
    LET plan == Planned({Address(v.row, v.occ) : v \in inputs})
        Fields(a) ==
            LET valued == {v \in inputs : Address(v.row, v.occ) = a}
                bare == {[row |-> r, occ |-> a.occ, value |-> 0] :
                            r \in {r \in Rows : Chosen.rows[r].path = a.path /\ Chosen.rows[r].tagOnly}}
                fields == SetToSortSeq(valued \cup bare, LAMBDA v, w : v.row < w.row)
            IN  [n \in DOMAIN fields |-> Line("field", Chosen.rows[fields[n].row].tag, fields[n].value)]
        InOrder(instances) ==
            SetToSortSeq(instances, LAMBDA a, b :
                Chosen.seq[a.path].order < Chosen.seq[b.path].order \/ (a.path = b.path /\ a.occ < b.occ))
        Below(a) == InOrder({b \in plan : Chosen.seq[b.path].parent = a.path /\ ParentIn(plan, b) = a})
        Concat(pieces) == FoldLeft(LAMBDA lines, piece : lines \o piece, <<>>, pieces)
        Mark(kind, a) == IF Chosen.seq[a.path].bracketed
                         THEN <<Line(kind, Chosen.seq[a.path].code, 0)>> ELSE <<>>
        Render[a \in plan] ==
            Mark("16R", a) \o Fields(a)
              \o Concat([n \in DOMAIN Below(a) |-> Render[Below(a)[n]]]) \o Mark("16S", a)
        roots == InOrder({a \in plan : Chosen.seq[a.path].parent = NoPath})
    IN  Concat([n \in DOMAIN roots |-> Render[roots[n]]])

--------------------------------------------------------------------------------
\* An import of a text block, which grows by any line until one is an error, or a message
\* filled in field by field: resolve refuses a second value for a row and occurrence.
ImportInit == layout \in DOMAIN Layouts /\ text = Begun[layout] /\ entered = {}
Adds(line) ==
    /\ entered = {}
    /\ ~Scanned(text).broken
    /\ Len(text) < MaxLines[layout]
    /\ text' = Append(text, line)
    /\ UNCHANGED <<layout, entered>>
Enters(row, occ) ==
    /\ text = <<>>
    /\ ~Chosen.rows[row].tagOnly
    /\ ~\E v \in entered : v.row = row /\ v.occ = occ
    /\ Cardinality(entered) < MaxValues
    /\ entered' = entered \cup {[row |-> row, occ |-> occ, value |-> <<row, occ>>]}
    /\ UNCHANGED <<layout, text>>
ImportNext ==
    \/ \E code \in Codes : Adds(Line("16R", code, 0)) \/ Adds(Line("16S", code, 0))
    \/ \E tag \in Tags : Adds(Line("field", tag, Len(text) + 1))
    \/ \E row \in Rows, occ \in 1 .. MaxOccurrence : Enters(row, occ)
ImportSpec == ImportInit /\ [][ImportNext]_importVars

--------------------------------------------------------------------------------
\* the blocks around each value of a text: their codes and the lines that open them
Around(lines) ==
    LET Step(state, line) ==
            CASE line.kind = "16R" ->
                   [state EXCEPT !.n = @ + 1, !.open = Append(@, [code |-> line.name, at |-> state.n])]
              [] line.kind = "16S" -> [state EXCEPT !.n = @ + 1, !.open = Front(@)]
              [] line.kind = "field" ->
                   [state EXCEPT !.n = @ + 1, !.found = (line.value :> state.open) @@ @]
    IN  FoldLeft(Step, [n |-> 1, open |-> <<>>, found |-> <<>>], lines).found

\* A block that would come back somewhere else is refused, never reshaped: in the text
\* that is written from an accepted one, every value is inside blocks of the same codes,
\* and two values share a block exactly if they did (_check_structure).
NothingIsReshaped ==
    LET reader == Scanned(text) IN
    Accepted(reader) =>
        LET before == Around(text)
            after == Around(Written(Inputs(reader)))
            values == {v.value : v \in Inputs(reader)}
            Code(blocks) == [n \in DOMAIN blocks |-> blocks[n].code]
        IN  \A u, v \in values :
               /\ {u, v} \subseteq DOMAIN after
               /\ Code(before[u]) = Code(after[u])
               /\ \A n \in DOMAIN before[u] \cap DOMAIN before[v] :
                     before[u][n].at = before[v][n].at <=> after[u][n].at = after[v][n].at

\* What the generator writes for a complete message is, when the importer accepts it,
\* read with every value in the field it had, and two values in the same occurrence
\* exactly if they were (the importer is the inverse of the composer, also where only
\* the order of the tags tells an unbracketed sequence from the next).
Complete(inputs) ==
    LET plan == Planned({Address(v.row, v.occ) : v \in inputs}) IN
    \A a \in plan :
        /\ \A r \in Rows : Chosen.rows[r].path = a.path /\ Chosen.rows[r].mandatory =>
               \E v \in inputs : v.row = r /\ v.occ = a.occ
        /\ Cardinality({b \in plan : b.path = a.path /\ ParentIn(plan, b) = ParentIn(plan, a)})
              <= Chosen.seq[a.path].max
WrittenIsReadBack ==
    LET again == Scanned(Written(entered))
        Within(inputs, u, v) ==
            LET plan == Planned({Address(w.row, w.occ) : w \in inputs})
            IN  Chosen.seq[Chosen.rows[u.row].path].parent = Chosen.rows[v.row].path
                   /\ ParentIn(plan, Address(u.row, u.occ)) = Address(v.row, v.occ)
        Same(u, v) == Address(u.row, u.occ) = Address(v.row, v.occ)
    IN  Complete(entered) /\ Accepted(again) =>
            \A u, v \in entered : \E x, y \in Inputs(again) :
                /\ x.value = u.value /\ x.row = u.row
                /\ y.value = v.value /\ y.row = v.row
                /\ Same(u, v) <=> Same(x, y)
                /\ Within(entered, u, v) <=> Within(Inputs(again), x, y)

================================================================================

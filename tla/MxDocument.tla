--------------------------------- MODULE MxDocument ---------------------------------
(***************************************************************************)
(* Writing an ISO 20022 document from values (studio/mx/generator.py) and  *)
(* reading one back into values (studio/mx/parser.py).  A value is         *)
(* addressed by its element and one occurrence, which all the elements     *)
(* below a repeating one inherit; a document is a tree.                    *)
(*                                                                         *)
(* A schema numbers its elements in document order from 1, so that an      *)
(* element stands for its path.  A document is the sequence of its nodes   *)
(* as they open: element, depth, and the value, 0 for none.                *)
(***************************************************************************)
EXTENDS Integers, Sequences, FiniteSets, SequencesExt, Listing

CONSTANTS
    Schemas,                           \* message specifications, by name: see Shape
    MaxNodes, MaxSupplied, MaxRepeat   \* bounds: nodes of a document, values of a message, occurrences

VARIABLES
    schema,    \* the name of the specification that is used
    document,  \* the nodes of a document to import, so far
    supplied   \* the values of a message to generate, so far

mxVars == <<schema, document, supplied>>

\* Shape[e] is the element e: its parent (0: the message root), whether it repeats, is a
\* leaf, is mandatory, and is a choice of one of its children.
Shape == Schemas[schema]

\* _flatten numbers a tree; elements with children have no value of their own, and a choice
\* has children (check_leaf_or_branch).
ASSUME SchemasAreTrees ==
    /\ \A name \in DOMAIN Schemas :
          /\ Schemas[name] \in Seq([parent : Nat, repeats : BOOLEAN, leaf : BOOLEAN,
                                   mandatory : BOOLEAN, choice : BOOLEAN])
          /\ \A e \in DOMAIN Schemas[name] :
                LET above == Schemas[name][e].parent
                IN  /\ above < e /\ (above # 0 => ~Schemas[name][above].leaf)
                    /\ Schemas[name][e].choice => ~Schemas[name][e].leaf
    /\ MaxNodes \in Nat /\ MaxSupplied \in Nat /\ MaxRepeat \in Nat

Elements == DOMAIN Shape
ChildElements(e) == {c \in Elements : Shape[c].parent = e}
\* the elements that enclose e, and e
Path ==
    LET Up[e \in Elements] ==
            {e} \cup (IF Shape[e].parent = 0 THEN {} ELSE Up[Shape[e].parent])
    IN  Up
Repeating(e) == {r \in Path[e] : Shape[r].repeats}
Node(e, value) == [element |-> e, depth |-> Cardinality(Path[e]), value |-> value]

--------------------------------------------------------------------------------
\* _walk over a document: the node that encloses n, 0 for the message root
Enclosing(nodes, n) ==
    LET above == {m \in 1 .. n - 1 : nodes[m].depth < nodes[n].depth}
    IN  IF above = {} THEN 0 ELSE CHOOSE m \in above : \A k \in above : k <= m
\* counts[name]: n and the nodes before it of the same name in the same node
Namesakes(nodes, n) ==
    {m \in 1 .. n : nodes[m].element = nodes[n].element /\ Enclosing(nodes, m) = Enclosing(nodes, n)}
Occurrences(nodes) ==
    LET Occ[n \in DOMAIN nodes] ==
            IF Shape[nodes[n].element].repeats THEN Cardinality(Namesakes(nodes, n))
            ELSE IF Enclosing(nodes, n) = 0 THEN 1
            ELSE Occ[Enclosing(nodes, n)]
    IN  Occ

\* no error at node n: a known child, once unless it repeats, with a value exactly if it
\* is a leaf (children in any order only cause a warning, and containers may be empty)
Sound(nodes, n) ==
    LET e == nodes[n].element
        above == Enclosing(nodes, n)
    IN  /\ Shape[e].parent = IF above = 0 THEN 0 ELSE nodes[above].element
        /\ Shape[e].repeats \/ Namesakes(nodes, n) = {n}
        /\ Shape[e].leaf <=> nodes[n].value # 0
LeafNodes(nodes) == {n \in DOMAIN nodes : Shape[nodes[n].element].leaf}
\* _read_leaf refuses a second value for an address (_claimed)
Claim(nodes, n) == <<nodes[n].element, Occurrences(nodes)[n]>>
Accepted(nodes) ==
    /\ \A n \in DOMAIN nodes : Sound(nodes, n)
    /\ \A m, n \in LeafNodes(nodes) : Claim(nodes, m) = Claim(nodes, n) => m = n
    /\ LeafNodes(nodes) # {}
Read(nodes) ==
    LET occ == Occurrences(nodes)
    IN  {[element |-> nodes[n].element, occ |-> occ[n], value |-> nodes[n].value] : n \in LeafNodes(nodes)}

--------------------------------------------------------------------------------
\* the values of e and of what is below it
Within(values, e) == {v \in values : e \in Path[v.element]}

\* the occurrences in which write visits e inside a given one of its parent
FaultInheritsFirst(values, e, inherited) ==
    IF Shape[e].repeats THEN {v.occ : v \in Within(values, e)} ELSE {1}
Visited(values, e, inherited) ==
    IF Shape[e].repeats THEN {v.occ : v \in Within(values, e)} ELSE {inherited}

\* compose_document_with_paths: write opens the children in the order of the schema, and
\* only those with a value of the occurrence; 0 is the message root
Occs(values) == {1} \cup {v.occ : v \in values}
Has(values, e, occ) == \E v \in Within(values, e) : v.occ = occ
Visits(values, e, inherited) ==
    {visit \in ChildElements(e) \X Occs(values) :
        visit[2] \in Visited(values, visit[1], inherited) /\ Has(values, visit[1], visit[2])}
NotAfter(p, q) == p[1] < q[1] \/ (p[1] = q[1] /\ p[2] <= q[2])
VisitsInOrder(values, e, inherited) ==
    LET visits == Visits(values, e, inherited)
    IN  InOrder(visits, [q \in visits |-> {p \in visits : NotAfter(p, q)}])
ValueAt(values, e, occ) == (CHOOSE v \in values : v.element = e /\ v.occ = occ).value
Document(values) ==
    LET Write[p \in Elements \X Occs(values)] ==
            IF Shape[p[1]].leaf THEN <<Node(p[1], ValueAt(values, p[1], p[2]))>>
            ELSE LET visits == VisitsInOrder(values, p[1], p[2])
                 IN  <<Node(p[1], 0)>> \o Concat([k \in DOMAIN visits |-> Write[visits[k]]])
        top == VisitsInOrder(values, 0, 1)
    IN  Concat([k \in DOMAIN top |-> Write[top[k]]])

\* validate_structure: mandatory elements, choices and cardinality, of the whole message
Used(values, e) == Within(values, e) # {}
Valid(values) ==
    \A e \in Elements :
        /\ (Shape[e].mandatory /\ (Shape[e].parent = 0 \/ Used(values, Shape[e].parent)))
              => Used(values, e)
        /\ Shape[e].choice => Cardinality({c \in ChildElements(e) : Used(values, c)}) <= 1
        /\ (Shape[e].leaf /\ Repeating(e) = {}) => Cardinality(Within(values, e)) <= 1

--------------------------------------------------------------------------------
\* A document to import, which grows node by node until one is an error, or a message
\* filled in value by value: resolve refuses containers, and a second value for an address.
MxInit == schema \in DOMAIN Schemas /\ document = <<>> /\ supplied = {}
Pastes(e, depth, filled) ==
    /\ supplied = {}
    /\ Len(document) < MaxNodes
    /\ \A n \in DOMAIN document : Sound(document, n)
    /\ depth <= 1 + (IF document = <<>> THEN 0 ELSE Last(document).depth)
    /\ document' = Append(document, [element |-> e, depth |-> depth,
                                     value |-> IF filled THEN Len(document) + 1 ELSE 0])
    /\ UNCHANGED <<schema, supplied>>
Supplies(e, occ) ==
    /\ document = <<>>
    /\ Shape[e].leaf
    /\ ~\E v \in supplied : v.element = e /\ v.occ = occ
    /\ Cardinality(supplied) < MaxSupplied
    /\ supplied' = supplied \cup {[element |-> e, occ |-> occ, value |-> MaxRepeat * e + occ]}
    /\ UNCHANGED <<schema, document>>
MxNext ==
    \/ \E e \in Elements, depth \in 1 .. MaxNodes, filled \in BOOLEAN : Pastes(e, depth, filled)
    \/ \E e \in Elements, occ \in 1 .. MaxRepeat : Supplies(e, occ)
MxSpec == MxInit /\ [][MxNext]_mxVars

--------------------------------------------------------------------------------
\* An element whose address tells its place: at most one element around it repeats.
Addressable(e) == Cardinality(Repeating(e)) <= 1

\* the document with the children of every node in the order of the schema, and the nodes
\* of one element in the order they had
Inside(nodes, n) == {m \in DOMAIN nodes : Enclosing(nodes, m) = n}
InsideInOrder(nodes, n) ==
    LET inside == Inside(nodes, n)
        place(m) == <<nodes[m].element, m>>
    IN  InOrder(inside, [k \in inside |-> {m \in inside : NotAfter(place(m), place(k))}])
Rearranged(nodes) ==
    LET Tree[n \in 0 .. Len(nodes)] ==
            LET inside == InsideInOrder(nodes, n)
            IN  (IF n = 0 THEN <<>> ELSE <<nodes[n]>>)
                   \o Concat([k \in DOMAIN inside |-> Tree[inside[k]]])
    IN  Tree[0]

\* An imported document without empty containers is written with every value it has, and
\* as the same document with the children in the schema's order if it does not nest
\* repeating elements.
ImportIsKept ==
    LET written == Document(Read(document)) IN
    (/\ Accepted(document)
     /\ \A n \in DOMAIN document \ LeafNodes(document) :
           Inside(document, n) # {})
        => /\ \A n \in LeafNodes(document) : Node(document[n].element, document[n].value) \in Range(written)
           /\ (\A n \in LeafNodes(document) : Addressable(document[n].element))
                 => written = Rearranged(document)

\* every choice has one option, and mandatory elements are there where nothing repeats
Complete(nodes) ==
    LET Held(n) == {nodes[m].element : m \in Inside(nodes, n)}
    IN  /\ \A n \in DOMAIN nodes : Shape[nodes[n].element].choice => Cardinality(Held(n)) = 1
        /\ \A e \in Elements : Shape[e].mandatory /\ Repeating(e) \subseteq {e} =>
               \A n \in 0 .. Len(nodes) :
                  Shape[e].parent = (IF n = 0 THEN 0 ELSE nodes[n].element) => e \in Held(n)

\* A message that validation passes and whose occurrences are numbered from 1 is written
\* completely, accepted by the reader and read as the same values.
Numbered(values) ==
    \A v \in values : v.occ > 1 =>
        \E w \in values :
            /\ w.occ = v.occ - 1
            /\ w.element = v.element \/ Repeating(v.element) \cap Path[w.element] # {}
GeneratedIsRead ==
    (/\ supplied # {} /\ Valid(supplied) /\ Numbered(supplied)
     /\ \A v \in supplied : Addressable(v.element))
        => \A written \in {Document(supplied)} :
              Complete(written) /\ Accepted(written) /\ Read(written) = supplied

\* Compose(Parse(Compose(v))) == Compose(v), and an import is not reshaped
\* (docs/limitations.md), within what one occurrence index can address.
DocumentsRoundTrip == ImportIsKept /\ GeneratedIsRead
================================================================================

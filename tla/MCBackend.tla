--------------------------------- MODULE MCBackend ---------------------------------
(***************************************************************************)
(* The parts of the backend that keep state of their own and exchange      *)
(* nothing while they run: each behaviour picks one of them, and the       *)
(* others stay as they began.  All use the same two threads and the same   *)
(* two interchangeable names.                                              *)
(***************************************************************************)
EXTENDS MCPreviewLane, SettlementAmendment, WorkflowMessages, DraftStructure, MxDocument

CONSTANTS Layouts, Begun, MaxLines, MaxValues, MaxOccurrence
VARIABLES layout, text, entered
Import == INSTANCE MtImport

VARIABLE focus \* the part that moves

Parts == {"preview", "settlement", "structure", "workflow", "import", "document"}
importState == <<layout, text, entered>>
backendVars == <<previewVars, settlementVars, structureVars, workflowVars, importState,
                 mxVars, focus>>

\* before create_draft: no check of a draft costs anything while another part moves
NoDraft ==
    /\ occurrence = <<>> /\ field = <<>> /\ editor = [q \in Editors |-> NoEditor]
    /\ made = [seqs |-> 0, fields |-> 0] /\ raced = FALSE

BackendInit ==
    /\ focus \in Parts
    /\ PreviewInit /\ SettlementInit
    /\ IF focus = "structure" THEN StructureInit ELSE NoDraft
    /\ WorkflowInit /\ Import!ImportInit /\ MxInit
    /\ focus # "import" => layout = "leading"
    /\ focus # "document" => schema = "choice"

BackendNext ==
    /\ UNCHANGED focus
    /\ \/ focus = "preview" /\ PreviewNext
            /\ UNCHANGED <<settlementVars, structureVars,
                           workflowVars, importState, mxVars>>
       \/ focus = "settlement" /\ SettlementNext
            /\ UNCHANGED <<previewVars, structureVars,
                           workflowVars, importState, mxVars>>
       \/ focus = "structure" /\ StructureNext
            /\ UNCHANGED <<previewVars, settlementVars,
                           workflowVars, importState, mxVars>>
       \/ focus = "workflow" /\ WorkflowNext
            /\ UNCHANGED <<previewVars, settlementVars,
                           structureVars, importState, mxVars>>
       \/ focus = "import" /\ Import!ImportNext
            /\ UNCHANGED <<previewVars, settlementVars,
                           structureVars, workflowVars, mxVars>>
       \/ focus = "document" /\ MxNext
            /\ UNCHANGED <<previewVars, settlementVars,
                           structureVars, workflowVars, importState>>

BackendSpec == BackendInit /\ [][BackendNext]_backendVars
--------------------------------------------------------------------------------
CONSTANTS t1, t2
BackendSymmetry == Permutations({t1, t2}) \cup Permutations({a, b})

\* a mandatory sequence where no field is required, as in RELTRAN of MT537, which may
\* be repeated, and an optional one below it where one is
Configured(parent, order, min, max, required) ==
    [parent |-> parent, order |-> order, min |-> min, max |-> max, required |-> required]
MCLayout == "A" :> Configured(NoPath, 1, 1, 2, FALSE)
         @@ "B" :> Configured("A", 2, 0, 2, TRUE)

Sequence(parent, code, order, min, max, bracketed, leading) ==
    [parent |-> parent, code |-> code, order |-> order, min |-> min, max |-> max,
     bracketed |-> bracketed, leading |-> leading]
Field(path, tag, mandatory, tagOnly) ==
    [path |-> path, tag |-> tag, mandatory |-> mandatory, tagOnly |-> tagOnly]

\* one block code below two parents, like LINK of MT537
Bracketed ==
    [seq |-> "D"  :> Sequence(NoPath, "D", 1, 1, 2, TRUE, {})
          @@ "D1" :> Sequence("D", "LINK", 2, 0, 2, TRUE, {})
          @@ "G"  :> Sequence(NoPath, "G", 3, 0, 2, TRUE, {})
          @@ "G1" :> Sequence("G", "LINK", 4, 0, 2, TRUE, {}),
     rows |-> <<Field("D", "20C", FALSE, FALSE), Field("D1", "20C", FALSE, FALSE),
                Field("G1", "20C", FALSE, FALSE)>>]
\* a tag of a repeating sequence that also leads the next one, like 32B of MT104
Leading ==
    [seq |-> "A" :> Sequence(NoPath, "A", 1, 1, 1, FALSE, {})
          @@ "B" :> Sequence(NoPath, "B", 2, 1, 9, FALSE, {"21"})
          @@ "C" :> Sequence(NoPath, "C", 3, 0, 1, FALSE, {"32B"}),
     rows |-> <<Field("A", "20", TRUE, FALSE), Field("B", "21", TRUE, FALSE),
                Field("B", "32B", TRUE, FALSE), Field("B", "59", TRUE, FALSE),
                Field("C", "32B", TRUE, FALSE)>>]
\* one tag that leads a sequence below each of two, like 18A of MT360
Nested ==
    [seq |-> "A"  :> Sequence(NoPath, "A", 1, 1, 1, FALSE, {})
          @@ "B"  :> Sequence(NoPath, "B", 2, 0, 1, FALSE, {"15B"})
          @@ "B1" :> Sequence("B", "B1", 3, 0, 9, FALSE, {"18A"})
          @@ "E"  :> Sequence(NoPath, "E", 4, 0, 1, FALSE, {"15E"})
          @@ "E1" :> Sequence("E", "E1", 5, 0, 9, FALSE, {"18A"}),
     rows |-> <<Field("A", "20", TRUE, FALSE), Field("B", "15B", FALSE, TRUE),
                Field("B1", "18A", TRUE, FALSE), Field("E", "15E", FALSE, TRUE),
                Field("E1", "18A", TRUE, FALSE)>>]
\* "repeated" begins where one D with a LINK has been read, each with a value: what is
\* added can repeat both, a second LINK in it or a second D with a LINK of its own
MCLayouts == [bracketed |-> Bracketed, repeated |-> Bracketed,
              leading |-> Leading, nested |-> Nested]
Line(kind, name, value) == [kind |-> kind, name |-> name, value |-> value]
MCBegun == [bracketed |-> <<>>, leading |-> <<>>, nested |-> <<>>,
            repeated |-> <<Line("16R", "D", 0), Line("field", "20C", 2),
                           Line("16R", "LINK", 0), Line("field", "20C", 4),
                           Line("16S", "LINK", 0), Line("16S", "D", 0)>>]
MCMaxLines == [bracketed |-> 6, repeated |-> 12, leading |-> 6, nested |-> 6]

Element(parent, repeats, leaf, mandatory, choice) ==
    [parent |-> parent, repeats |-> repeats, leaf |-> leaf, mandatory |-> mandatory, choice |-> choice]
\* a mandatory block around a repeating one, like SttlmTxCond in sese.023, and a leaf
BlockInBlock ==
    <<Element(0, FALSE, FALSE, TRUE, FALSE), Element(1, TRUE, FALSE, FALSE, FALSE),
      Element(2, FALSE, TRUE, TRUE, FALSE), Element(2, FALSE, FALSE, FALSE, FALSE),
      Element(4, FALSE, TRUE, FALSE, FALSE), Element(0, FALSE, TRUE, FALSE, FALSE)>>
\* a leaf that repeats inside a repeating block, and one that repeats alone
TwoIndexes ==
    <<Element(0, TRUE, FALSE, FALSE, FALSE), Element(1, FALSE, TRUE, FALSE, FALSE),
      Element(1, FALSE, FALSE, FALSE, FALSE), Element(3, TRUE, TRUE, FALSE, FALSE),
      Element(0, TRUE, TRUE, FALSE, FALSE)>>
\* a mandatory choice of a leaf and a block with a mandatory and a repeating leaf
OneOfTwo ==
    <<Element(0, FALSE, FALSE, TRUE, TRUE), Element(1, FALSE, TRUE, FALSE, FALSE),
      Element(1, FALSE, FALSE, FALSE, FALSE), Element(3, FALSE, TRUE, TRUE, FALSE),
      Element(3, TRUE, TRUE, FALSE, FALSE)>>
MCSchemas == [block |-> BlockInBlock, indexes |-> TwoIndexes, choice |-> OneOfTwo]

--------------------------------------------------------------------------------
\* Each part keeps the types of its state.
BackendTypeOK ==
    CASE focus = "preview" -> PreviewTypeOK
      [] focus = "settlement" -> SettlementTypeOK
      [] focus = "structure" -> StructureTypeOK
      [] focus = "workflow" -> WorkflowTypeOK
      [] focus = "import" -> layout \in DOMAIN Layouts
      [] focus = "document" -> schema \in DOMAIN Schemas

\* The properties of the instances, under their own names.
\* An imported block is refused, never reshaped (_check_structure).
NothingIsReshaped == focus = "import" => Import!NothingIsReshaped
\* The importer is the inverse of the composer.
WrittenIsReadBack == focus = "import" => Import!WrittenIsReadBack
================================================================================

------------------------------ MODULE DocumentIndex ------------------------------
(***************************************************************************)
(* What the knowledge index promises to a search: under one source id      *)
(* there is nothing, or all of one document, never a part of one or a      *)
(* mixture of two versions; and a change brings in at most one document.   *)
(* (index.py: "every source is one transaction".)                          *)
(***************************************************************************)
CONSTANTS Ids, Docs, SourceOf, None

VARIABLE content   \* the document found under each source id

Init == content = [id \in Ids |-> None]

\* some documents go, because their files did or because another version comes
Change(id, doc) ==
    /\ doc # None => SourceOf[doc] = id
    /\ content'[id] = doc
    /\ \A other \in Ids \ {id} : content'[other] \in {content[other], None}
    /\ content' \in [Ids -> Docs \cup {None}]

Next == \E id \in Ids, doc \in Docs \cup {None} : Change(id, doc)

Spec == Init /\ [][Next]_content
================================================================================

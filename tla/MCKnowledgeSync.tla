----------------------------- MODULE MCKnowledgeSync -----------------------------
(* Two files and three contents: two versions of one document that share a      *)
(* segment, the longer one first, and another document with a text of its own.  *)
EXTENDS KnowledgeSync, TLC

CONSTANTS d1, d2, d3, x, y, ta, tb, tc, r1, r2

MCSourceOf == [d \in {d1, d2, d3} |-> IF d = d3 THEN y ELSE x]
MCTextOf ==
    [d \in {d1, d2, d3} |->
        CASE d = d1 -> <<ta, tb>> [] d = d2 -> <<tb, None>> [] d = d3 -> <<tc, None>>]
RunSymmetry == Permutations(Runs)
================================================================================

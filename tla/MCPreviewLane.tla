------------------------------- MODULE MCPreviewLane -------------------------------
(* Two contents whose packs pass the gates, one whose pack does not.           *)
EXTENDS PreviewLane

CONSTANTS a, b, p, x, s1, s2, q1, q2
================================================================================

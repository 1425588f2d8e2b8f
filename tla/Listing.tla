--------------------------------- MODULE Listing ---------------------------------
(***************************************************************************)
(* How the composers lay out a structure: sorted() over the members of a   *)
(* set, and lines that are appended piece by piece.                        *)
(***************************************************************************)
EXTENDS Integers, Sequences, FiniteSets

\* The elements of S in order, UpTo[i] being those no later than i: each stands at the
\* place that counts them.
InOrder(S, UpTo) ==
    [n \in 1 .. Cardinality(S) |-> CHOOSE i \in S : Cardinality(UpTo[i]) = n]

\* The pieces one after the other.
Concat(pieces) ==
    LET Joined[n \in 0 .. Len(pieces)] == IF n = 0 THEN <<>> ELSE Joined[n - 1] \o pieces[n]
    IN  Joined[Len(pieces)]

================================================================================

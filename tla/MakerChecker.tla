----------------------------- MODULE MakerChecker -----------------------------
(***************************************************************************)
(* What the approval workflow of one draft promises, with every request,   *)
(* session and table left out: a checker who is not the maker approves a   *)
(* (revision, checksum) pair, and a submission sends, at most once per     *)
(* idempotency key, a pair that was approved.                              *)
(***************************************************************************)
CONSTANTS Users, Keys, Revisions, Checksums

VARIABLES
    maker,     \* the user who created the draft
    approved,  \* every approval ever given
    sent       \* every submission ever made

vars == <<maker, approved, sent>>

Init ==
    /\ maker \in Users
    /\ approved = {}
    /\ sent = {}

\* Someone other than the maker approves one checksum of one revision.
Approve(u, r, c) ==
    /\ u # maker
    /\ approved' = approved \cup {[revision |-> r, checksum |-> c, by |-> u]}
    /\ UNCHANGED <<maker, sent>>

\* A key that was never used sends a pair that was approved.
Send(k, r, c) ==
    /\ \A s \in sent : s.key # k
    /\ \E a \in approved : a.revision = r /\ a.checksum = c
    /\ sent' = sent \cup {[key |-> k, revision |-> r, checksum |-> c]}
    /\ UNCHANGED <<maker, approved>>

Next ==
    \E r \in Revisions, c \in Checksums :
        \/ \E u \in Users : Approve(u, r, c)
        \/ \E k \in Keys : Send(k, r, c)

Spec == Init /\ [][Next]_vars
===============================================================================

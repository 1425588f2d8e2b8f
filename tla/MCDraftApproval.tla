--------------------------- MODULE MCDraftApproval ----------------------------
(* Small instances of DraftApproval: ann creates and edits, bob may edit    *)
(* another author's draft and approve, sue submits.                         *)
EXTENDS DraftApproval, TLC

CONSTANTS ann, bob, sue, good, other, bad, base, market

MCUsers == {ann, bob, sue}
MCAuthors == {ann, bob}
MCApprovers == {ann, bob}
MCContents == {good, other, bad}
OneProfile == {base}
TwoProfiles == {base, market}
\* bad is refused by every profile, good by none, other by market.
MCValid == ({good} \X Profiles) \cup {<<other, base>>}
RequestSymmetry == Permutations(Requests)
===============================================================================

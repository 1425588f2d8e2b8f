-------------------------- MODULE MCAiInterpretation --------------------------
(* Small instances of AiInterpretation.                                     *)
EXTENDS AiInterpretation

\* The provider reports none, two or an unknown number of tokens.
MCUsages == {0, 2, NoUsage}
===============================================================================

------------------------- MODULE MCCollectThenGrade -------------------------
(***************************************************************************)
(* Small instances of CollectThenGrade.                                    *)
(***************************************************************************)
EXTENDS CollectThenGradeInductive, TLC

CONSTANTS g1, g2, a1, a2, e1, e2

\* Graders are alike, and so are analysts.
Alike == Permutations(Grader) \cup Permutations(Analyst)
=============================================================================

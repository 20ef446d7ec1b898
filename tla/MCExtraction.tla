---------------------------- MODULE MCExtraction ----------------------------
(* Instances of Extraction: two jobs on a source of one or two chunks. *)
EXTENDS Extraction, TLC

CONSTANTS j1, j2, m0, m1, t1, t2, t3, lost

\* The focus chunk quotes the first again, as its second unit.
SomeAnswers == <<{<<>>, <<t1, t2>>}, {<<lost, t1>>}>>
OtherClaims == <<{<<t1, t2>>}, {<<t2, t3>>}>>
=============================================================================

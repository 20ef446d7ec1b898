---------------------------- MODULE MCFailureLoop ----------------------------
(* An instance of FailureLoop: two statements of one source, without relations. *)
EXTENDS FailureLoop, TLC

CONSTANTS c1, c2, b1, s1, manual

OwnTexts == c1 :> c1 @@ c2 :> c2
OneBatch == c1 :> b1 @@ c2 :> b1
OneSource == b1 :> s1
MarkerRefs == [failure : Failures, anchor : 1..MaxNodes, kind : {"gap", "branch"}]
=============================================================================

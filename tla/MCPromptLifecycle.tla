------------------------- MODULE MCPromptLifecycle -------------------------
(***************************************************************************)
(* Instance of PromptLifecycle: two candidates whose texts hash to one     *)
(* identity (so that UPDATE happens), a third with an identity of its own, *)
(* and an identity no candidate has (a resolve of something the screen     *)
(* never shows).                                                           *)
(***************************************************************************)
EXTENDS PromptLifecycle, TLC

CONSTANTS c1, c2, c3, a, b, x

MCCandidates == {c1, c2, c3}
MCIds == {a, b, x}
MCInstanceId == (c1 :> a) @@ (c2 :> a) @@ (c3 :> b)
=============================================================================

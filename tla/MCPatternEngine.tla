--------------------------- MODULE MCPatternEngine ---------------------------
(***************************************************************************)
(* Instance of PatternEngine: two candidates whose texts hash to one       *)
(* identity (so that UPDATE happens), a third with an identity of its own  *)
(* that reads like the first to the app.                                   *)
(***************************************************************************)
EXTENDS PatternEngine, TLC

CONSTANTS c1, c2, c3, a, b, p, q

MCCandidates == {c1, c2, c3}
MCIds == {a, b}
MCInstanceId == (c1 :> a) @@ (c2 :> a) @@ (c3 :> b)
MCSignature == (c1 :> p) @@ (c2 :> q) @@ (c3 :> p)
=============================================================================

-------------------------- MODULE MCControlStream --------------------------
(***************************************************************************)
(* Instances of ControlStream with one or two control streams.             *)
(***************************************************************************)
EXTENDS ControlStream, TLC

Symmetry == Permutations(Streams)

(***************************************************************************)
(* What the safety properties and the guards can tell apart: not what the  *)
(* clients show, not the frame a thread without choice is sending, no      *)
(* target a thread is done with and no flag of a freed stream.             *)
(***************************************************************************)
Busy == {"wantW", "writing", "sent", "joining", "wantD", "wantL", "sessionJoin",
         "promptJoin", "purgeJoin", "deinitJoin"}
SafetyView ==
    <<listed, freed, closing \ freed, promptSync \ freed, sessionSync \ freed, refs,
      pc, todo, retained, locks, agent, world, msg["monitor"],
      [t \in Threads |-> IF pc[t] \in Busy THEN target[t] ELSE NoThread]>>
=============================================================================

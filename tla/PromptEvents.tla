---------------------------- MODULE PromptEvents ----------------------------
(***************************************************************************)
(* What the prompt lifecycle promises to whoever consumes its events: one  *)
(* overlay, or none, that is shown once per instance, revised in place     *)
(* while the instance keeps its identity, and hidden or swapped for an     *)
(* overlay of another instance.  A consumer never sees two PRESENTs of the *)
(* instance it already shows, an UPDATE of an instance it does not show, a *)
(* revision that moves by anything but one, or a GONE of nothing.          *)
(***************************************************************************)
EXTENDS Naturals

CONSTANTS Candidates,   \* what a rule can recognise on the screen
          Ids,          \* instance identities
          InstanceId,   \* [Candidates -> Ids]
          NoPrompt      \* no overlay

VARIABLE shown          \* NoPrompt or [candidate, revision]

Overlay == [candidate : Candidates, revision : Nat \ {0}]

Fresh(c) == [candidate |-> c, revision |-> 1]

Init == shown = NoPrompt

Show == /\ shown = NoPrompt
        /\ \E c \in Candidates : shown' = Fresh(c)

Revise == /\ shown # NoPrompt
          /\ \E c \in Candidates :
                /\ c # shown.candidate
                /\ InstanceId[c] = InstanceId[shown.candidate]
                /\ shown' = [candidate |-> c, revision |-> shown.revision + 1]

Swap == /\ shown # NoPrompt
        /\ \E c \in Candidates :
              /\ InstanceId[c] # InstanceId[shown.candidate]
              /\ shown' = Fresh(c)

Hide == /\ shown # NoPrompt
        /\ shown' = NoPrompt

Next == Show \/ Revise \/ Swap \/ Hide

Spec == Init /\ [][Next]_shown
=============================================================================

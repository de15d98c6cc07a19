-------------------------- MODULE PromptLifecycle --------------------------
(***************************************************************************)
(* The prompt lifecycle of one data stream                                 *)
(* (agent/src/tmuxremote_prompt_lifecycle.c): every terminal snapshot      *)
(* yields at most one candidate prompt, and the lifecycle turns the        *)
(* sequence of candidates and of the client's resolves into PRESENT,       *)
(* UPDATE and GONE events.  Both entry points run under the detector's     *)
(* mutex (agent/src/tmuxremote_prompt_detector.c), so each is one action.  *)
(*                                                                         *)
(* A candidate is abstracted to a value; its identity is the hash of its   *)
(* texts concatenated, which tells most candidates apart but not all, so   *)
(* InstanceId is any function and two candidates may share an identity.    *)
(***************************************************************************)
EXTENDS Naturals

CONSTANTS Candidates, Ids,
          InstanceId,        \* [Candidates -> Ids], build_instance_id
          NoPrompt,          \* no candidate, no active instance
          NoId,              \* the empty identity string
          AbsenceSnapshots,  \* TMUXREMOTE_PROMPT_ABSENCE_SNAPSHOTS
          AllocOutcomes,     \* what an allocation can do: {TRUE} or BOOLEAN
          MaxRevision        \* bound on revisions, for model checking

ASSUME LifecycleAssumption ==
    /\ InstanceId \in [Candidates -> Ids]
    /\ NoPrompt \notin Candidates
    /\ NoPrompt \notin [candidate : Candidates, revision : Nat \ {0}]
    /\ NoPrompt \notin [type : {"PRESENT", "UPDATE"},
                        instance : [candidate : Candidates, revision : Nat \ {0}]]
    /\ NoId \notin Ids
    /\ AbsenceSnapshots \in Nat \ {0}
    /\ AllocOutcomes \subseteq BOOLEAN
    /\ MaxRevision \in Nat \ {0}

VARIABLES active,      \* has_active and the active instance
          absence,     \* absence_snapshots
          resolvedId,  \* resolved_instance_id, NoId when not suppress_resolved
          gone,        \* the GONE event of the last operation, its id or NoId
          shown        \* the PRESENT or UPDATE it emitted then, or NoPrompt

lifecycle == <<active, absence, resolvedId, gone, shown>>

(***************************************************************************)
(* History of the world around the lifecycle: what a consumer that applies *)
(* the events in order shows, and what the screen has shown.               *)
(***************************************************************************)
VARIABLES view,        \* the overlay of a consumer of the events
          unseen,      \* [id -> snapshots since the screen last showed it]
          answered,    \* [id -> resolved, and shown by every snapshot since]
          lost         \* the instance an allocation failure made the agent drop

history == <<view, unseen, answered, lost>>
vars == <<lifecycle, history>>

Instance == [candidate : Candidates, revision : Nat \ {0}]
ShownEvent == [type : {"PRESENT", "UPDATE"}, instance : Instance]

IdOf(i) == InstanceId[i.candidate]
New(c) == [candidate |-> c, revision |-> 1]
Present(i) == [type |-> "PRESENT", instance |-> i]
Update(i) == [type |-> "UPDATE", instance |-> i]

\* emit_event: an operation emits a GONE, or a PRESENT or UPDATE, or a GONE
\* and then a PRESENT, or nothing.
Emit(id, e) == gone' = id /\ shown' = e

-----------------------------------------------------------------------------
(***************************************************************************)
(* What a consumer that shows v shows after the events of one operation.   *)
(***************************************************************************)
ApplyGone(v, id) == IF v # NoPrompt /\ IdOf(v) = id THEN NoPrompt ELSE v
ApplyShown(v, e) == IF e = NoPrompt THEN v ELSE e.instance
Apply(v, id, e) == ApplyShown(ApplyGone(v, id), e)

(***************************************************************************)
(* The bookkeeping of one snapshot, c being the candidate that reached the *)
(* lifecycle or NoPrompt.                                                  *)
(***************************************************************************)
ObserveSnapshot(c) ==
    /\ view' = Apply(view, gone', shown')
    /\ unseen' = [id \in Ids |->
                    IF c # NoPrompt /\ InstanceId[c] = id THEN 0
                    ELSE IF unseen[id] < AbsenceSnapshots
                         THEN unseen[id] + 1 ELSE unseen[id]]
    /\ answered' = [id \in Ids |->
                      IF c # NoPrompt /\ InstanceId[c] = id THEN answered[id] ELSE "no"]

(***************************************************************************)
(* The lifecycle remembers one resolved id.  An answer is overtaken when   *)
(* another instance is resolved after it, or is active when it comes.      *)
(***************************************************************************)
ObserveResolve(id) ==
    /\ view' = Apply(view, gone', shown')
    /\ answered' = [i \in Ids |->
                      IF i = id /\ (active = NoPrompt \/ IdOf(active) = id) THEN "yes"
                      ELSE IF i = id \/ answered[i] # "no" THEN "overtaken" ELSE "no"]
    /\ UNCHANGED <<unseen, lost>>

-----------------------------------------------------------------------------
Init == /\ active = NoPrompt
        /\ absence = 0
        /\ resolvedId = NoId
        /\ gone = NoId
        /\ shown = NoPrompt
        /\ view = NoPrompt
        /\ unseen = [id \in Ids |-> AbsenceSnapshots]
        /\ answered = [id \in Ids |-> "no"]
        /\ lost = NoPrompt

\* Mutant: the suppression is not tied to the resolved identity.
SuppressesAll(id) == resolvedId # NoId /\ id \in Ids

IsSuppressed(id) == resolvedId # NoId /\ id = resolvedId

Incoming(c) == c # NoPrompt /\ ~IsSuppressed(InstanceId[c])

ClearSuppression == resolvedId' = NoId

(***************************************************************************)
(* tmuxremote_prompt_lifecycle_process, one action per path through it.    *)
(* "copied" is the outcome of tmuxremote_prompt_instance_copy.             *)
(***************************************************************************)
PresentFirst(c, copied) ==
    /\ active = NoPrompt
    /\ Incoming(c)
    /\ ClearSuppression
    /\ IF copied
       THEN active' = New(c) /\ absence' = 0 /\ Emit(NoId, Present(New(c)))
       ELSE Emit(NoId, NoPrompt) /\ UNCHANGED <<active, absence>>
    /\ lost' = IF copied THEN NoPrompt ELSE lost

\* Mutant: a suppressed redraw of the resolved prompt ends the suppression.
StayIdleForgets(c) ==
    /\ active = NoPrompt
    /\ ~Incoming(c)
    /\ ClearSuppression
    /\ Emit(NoId, NoPrompt)
    /\ UNCHANGED <<active, absence, lost>>

StayIdle(c) ==
    /\ active = NoPrompt
    /\ ~Incoming(c)
    /\ IF c = NoPrompt THEN ClearSuppression ELSE UNCHANGED resolvedId
    /\ Emit(NoId, NoPrompt)
    /\ UNCHANGED <<active, absence, lost>>

CountAbsenceTo(c, limit) ==
    /\ active # NoPrompt
    /\ ~Incoming(c)
    /\ IF absence + 1 >= limit
       THEN /\ active' = NoPrompt
            /\ absence' = 0
            /\ Emit(IdOf(active), NoPrompt)
            /\ ClearSuppression
       ELSE /\ absence' = absence + 1
            /\ Emit(NoId, NoPrompt)
            /\ UNCHANGED <<active, resolvedId>>
    /\ UNCHANGED lost

\* Mutants: the limit off by one either way.
CountAbsenceLate(c) == CountAbsenceTo(c, AbsenceSnapshots + 1)
CountAbsenceEarly(c) == CountAbsenceTo(c, AbsenceSnapshots - 1)

CountAbsence(c) == CountAbsenceTo(c, AbsenceSnapshots)

Redraw(c) ==
    /\ active # NoPrompt
    /\ Incoming(c)
    /\ c = active.candidate
    /\ ClearSuppression
    /\ absence' = 0
    /\ Emit(NoId, NoPrompt)
    /\ UNCHANGED <<active, lost>>

\* Mutant: an UPDATE that keeps the revision.
ReviseInPlace(c, copied) ==
    /\ active # NoPrompt
    /\ Incoming(c)
    /\ c # active.candidate
    /\ InstanceId[c] = IdOf(active)
    /\ ClearSuppression
    /\ absence' = 0
    /\ active' = [active EXCEPT !.candidate = c]
    /\ Emit(NoId, Update(active'))
    /\ UNCHANGED lost

Revise(c, copied) ==
    /\ active # NoPrompt
    /\ Incoming(c)
    /\ c # active.candidate
    /\ InstanceId[c] = IdOf(active)
    /\ active.revision < MaxRevision
    /\ ClearSuppression
    /\ absence' = 0
    /\ IF copied
       THEN LET i == [candidate |-> c, revision |-> active.revision + 1]
            IN active' = i /\ Emit(NoId, Update(i))
       ELSE active' = NoPrompt /\ Emit(NoId, NoPrompt)
    /\ lost' = IF copied THEN lost ELSE active

Replace(c, copied) ==
    /\ active # NoPrompt
    /\ Incoming(c)
    /\ InstanceId[c] # IdOf(active)
    /\ ClearSuppression
    /\ absence' = 0
    /\ active' = IF copied THEN New(c) ELSE NoPrompt
    /\ Emit(IdOf(active), IF copied THEN Present(New(c)) ELSE NoPrompt)
    /\ UNCHANGED lost

Process(c, copied) ==
    \/ PresentFirst(c, copied)
    \/ StayIdle(c)
    \/ CountAbsence(c)
    \/ Redraw(c)
    \/ Revise(c, copied)
    \/ Replace(c, copied)

(***************************************************************************)
(* One chunk of pty output: the detector's feed takes a snapshot, matches  *)
(* it against the rules and processes the outcome.  A candidate that       *)
(* cannot be converted to an instance (an allocation fails) counts as      *)
(* absent.                                                                 *)
(***************************************************************************)
Snapshot(c) ==
    \E built, copied \in AllocOutcomes :
        LET seen == IF built THEN c ELSE NoPrompt
        IN Process(seen, copied) /\ ObserveSnapshot(seen)

(***************************************************************************)
(* tmuxremote_prompt_lifecycle_resolve: the client answered or dismissed   *)
(* id, which it may do for any instance it has ever been told of.          *)
(***************************************************************************)
\* Mutant: a resolve that clears the active instance without telling anyone.
ResolveSilently(id) ==
    /\ resolvedId' = id
    /\ active' = IF active # NoPrompt /\ IdOf(active) = id THEN NoPrompt ELSE active
    /\ absence' = 0
    /\ Emit(NoId, NoPrompt)
    /\ ObserveResolve(id)

Resolve(id) ==
    /\ resolvedId' = id
    /\ IF active # NoPrompt /\ IdOf(active) = id
       THEN active' = NoPrompt /\ absence' = 0 /\ Emit(id, NoPrompt)
       ELSE Emit(NoId, NoPrompt) /\ UNCHANGED <<active, absence>>
    /\ ObserveResolve(id)

Next == \/ \E c \in Candidates \cup {NoPrompt} : Snapshot(c)
        \/ \E id \in Ids : Resolve(id)

Spec == Init /\ [][Next]_vars

-----------------------------------------------------------------------------
(***************************************************************************)
(* Properties.                                                             *)
(***************************************************************************)

\* Every variable stays in its type: the active instance is a candidate with
\* a positive revision and the absence counter stays under its limit.
TypeOK == /\ active \in Instance \cup {NoPrompt}
          /\ absence \in 0 .. (AbsenceSnapshots - 1)
          /\ resolvedId \in Ids \cup {NoId}
          /\ gone \in Ids \cup {NoId}
          /\ shown \in ShownEvent \cup {NoPrompt}
          /\ view \in Instance \cup {NoPrompt}
          /\ unseen \in [Ids -> 0 .. AbsenceSnapshots]
          /\ answered \in [Ids -> {"no", "yes", "overtaken"}]
          /\ lost \in Instance \cup {NoPrompt}

\* A consumer that applied every event shows exactly the agent's active
\* instance, content and revision; when the agent has none the consumer shows
\* none, unless an allocation failure in the UPDATE path dropped the instance
\* without a GONE.
ViewMatchesActive == view = IF active = NoPrompt THEN lost ELSE active

\* An overlay never outlives its prompt: the active instance was recognised
\* in one of the last AbsenceSnapshots snapshots.
OverlayIsFresh == active # NoPrompt => unseen[IdOf(active)] < AbsenceSnapshots

\* A prompt that the client resolved and that every snapshot since has shown is
\* not presented again, unless the answer was overtaken: the client has resolved
\* another instance since, or another one was active when the answer came.  One
\* resolved id is all the lifecycle keeps (prompt_lifecycle.c:232-236), and an
\* overtaken prompt that is still on the screen is presented once more.
ResolvedStaysQuiet == active # NoPrompt => answered[IdOf(active)] # "yes"

\* Resolving one instance never suppresses a distinct prompt (DESIGN.md 7.9,
\* rule 4): whatever was resolved before, a snapshot whose candidate is not the
\* instance resolved last ends with that candidate's instance active.
DistinctPromptIsShown ==
    [][\A c \in Candidates :
         Process(c, TRUE) /\ resolvedId # InstanceId[c] =>
            active' # NoPrompt /\ IdOf(active') = InstanceId[c]]_vars

\* GONE is earned: the client resolved the instance, another prompt that is
\* not suppressed is on the screen in its place, or the screen has not shown
\* it for AbsenceSnapshots snapshots.  A redraw that misses the prompt in
\* fewer snapshots flickers nothing (DESIGN.md 7.9, rule 3).
GoneIsEarned ==
    [][\A id \in Ids :
         gone' = id =>
            \/ resolvedId' = id
            \/ \E other \in Ids \ {id} : unseen'[other] = 0 /\ ~IsSuppressed(other)
            \/ unseen'[id] = AbsenceSnapshots]_vars

\* What makes the invariants above inductive: the suppressed identity is never
\* that of the active instance, the absence counter is the age of the active instance, and an
\* answer that was not overtaken is the suppressed identity and leaves none active.
LifecycleInv ==
    /\ active # NoPrompt => IdOf(active) # resolvedId
    /\ active # NoPrompt => unseen[IdOf(active)] = absence
    /\ \A id \in Ids : answered[id] = "yes" => resolvedId = id /\ active = NoPrompt
    /\ active # NoPrompt => lost = NoPrompt
    /\ ViewMatchesActive

\* The events are those of the abstract PromptEvents: the consumer's overlay,
\* until an allocation failure orphans it, goes through PromptEvents' steps.
Overlay == IF lost = NoPrompt THEN view ELSE NoPrompt
Events == INSTANCE PromptEvents WITH shown <- Overlay
ImplementsEvents == Events!Spec
=============================================================================

----------------------- MODULE PromptLifecycleProofs -----------------------
(***************************************************************************)
(* Proofs about PromptLifecycle, for every set of candidates, every        *)
(* identity function (collisions included), every absence limit and        *)
(* whatever allocations do.                                                *)
(***************************************************************************)
EXTENDS PromptLifecycle, TLAPS

IInv == TypeOK /\ LifecycleInv

LEMMA IdOfType == \A i \in Instance : IdOf(i) \in Ids
  BY LifecycleAssumption DEF Instance, IdOf

LEMMA InstanceTypes ==
    /\ \A c \in Candidates : New(c) \in Instance /\ IdOf(New(c)) = InstanceId[c]
    /\ \A i \in Instance, c \in Candidates :
          [candidate |-> c, revision |-> i.revision + 1] \in Instance
  BY DEF New, Instance, IdOf

LEMMA NotNoPrompt ==
    /\ NoPrompt \notin Instance
    /\ NoPrompt \notin ShownEvent
    /\ NoPrompt \notin Candidates
  BY LifecycleAssumption DEF Instance, ShownEvent

LEMMA EventTypes ==
    \A i \in Instance : Present(i) \in ShownEvent /\ Update(i) \in ShownEvent
  BY DEF Present, Update, ShownEvent

(***************************************************************************)
(* What the events of one operation do to the overlay of a consumer.       *)
(***************************************************************************)
LEMMA ApplyNothing ==
    \A v \in Instance \cup {NoPrompt} : Apply(v, NoId, NoPrompt) = v
  BY IdOfType, LifecycleAssumption DEF Apply, ApplyGone, ApplyShown

LEMMA ApplyGoneOnly ==
    \A v : v # NoPrompt => Apply(v, IdOf(v), NoPrompt) = NoPrompt
  BY DEF Apply, ApplyGone, ApplyShown

LEMMA ApplyShows ==
    \A v, id, i : i \in Instance => /\ Apply(v, id, Present(i)) = i
                                    /\ Apply(v, id, Update(i)) = i
<1> SUFFICES ASSUME NEW v, NEW id, NEW i \in Instance
             PROVE  Apply(v, id, Present(i)) = i /\ Apply(v, id, Update(i)) = i
  OBVIOUS
<1>1. Present(i) # NoPrompt /\ Update(i) # NoPrompt
  BY EventTypes, NotNoPrompt
<1> QED
  BY <1>1 DEF Apply, ApplyShown, Present, Update

LEMMA ApplyType ==
    ASSUME NEW v \in Instance \cup {NoPrompt}, NEW id,
           NEW e \in ShownEvent \cup {NoPrompt}
    PROVE  Apply(v, id, e) \in Instance \cup {NoPrompt}
  BY DEF Apply, ApplyGone, ApplyShown, ShownEvent

-----------------------------------------------------------------------------
(***************************************************************************)
(* Type correctness.                                                       *)
(***************************************************************************)
LEMMA ProcessType ==
    ASSUME TypeOK, NEW c \in Candidates \cup {NoPrompt}, NEW copied \in BOOLEAN,
           Process(c, copied)
    PROVE  /\ active' \in Instance \cup {NoPrompt}
           /\ absence' \in 0 .. (AbsenceSnapshots - 1)
           /\ resolvedId' \in Ids \cup {NoId}
           /\ gone' \in Ids \cup {NoId}
           /\ shown' \in ShownEvent \cup {NoPrompt}
           /\ lost' \in Instance \cup {NoPrompt}
<1> USE LifecycleAssumption, IdOfType, InstanceTypes, EventTypes
    DEF TypeOK, ClearSuppression, Emit
<1>1. CASE PresentFirst(c, copied)
  BY <1>1 DEF PresentFirst, Incoming
<1>2. CASE StayIdle(c)
  BY <1>2 DEF StayIdle
<1>3. CASE CountAbsence(c)
  BY <1>3 DEF CountAbsence, CountAbsenceTo
<1>4. CASE Redraw(c)
  BY <1>4 DEF Redraw
<1>5. CASE Revise(c, copied)
  BY <1>5 DEF Revise, Incoming
<1>6. CASE Replace(c, copied)
  BY <1>6 DEF Replace, Incoming
<1> QED
  BY <1>1, <1>2, <1>3, <1>4, <1>5, <1>6 DEF Process

LEMMA InitInv == Init => IInv
  BY LifecycleAssumption DEF Init, IInv, TypeOK, LifecycleInv, ViewMatchesActive

LEMMA TypeStep == TypeOK /\ [Next]_vars => TypeOK'
<1> SUFFICES ASSUME TypeOK, [Next]_vars PROVE TypeOK'
  OBVIOUS
<1>1. ASSUME NEW c \in Candidates \cup {NoPrompt}, Snapshot(c) PROVE TypeOK'
  <2>1. PICK built \in AllocOutcomes, copied \in AllocOutcomes :
          LET seen == IF built THEN c ELSE NoPrompt
          IN Process(seen, copied) /\ ObserveSnapshot(seen)
    BY <1>1 DEF Snapshot
  <2> DEFINE seen == IF built THEN c ELSE NoPrompt
  <2>2. seen \in Candidates \cup {NoPrompt} /\ copied \in BOOLEAN
    BY LifecycleAssumption
  <2>3. Process(seen, copied) /\ ObserveSnapshot(seen)
    BY <2>1
  <2> HIDE DEF seen
  <2>4. view' \in Instance \cup {NoPrompt}
    BY <2>2, <2>3, ProcessType, ApplyType DEF ObserveSnapshot, TypeOK
  <2>5. /\ unseen' \in [Ids -> 0 .. AbsenceSnapshots]
        /\ answered' \in [Ids -> {"no", "yes", "overtaken"}]
    BY <2>3, LifecycleAssumption DEF ObserveSnapshot, TypeOK
  <2> QED
    BY <2>2, <2>3, <2>4, <2>5, ProcessType DEF TypeOK
<1>2. ASSUME NEW id \in Ids, Resolve(id) PROVE TypeOK'
  <2>1. view' \in Instance \cup {NoPrompt}
    BY <1>2, ApplyType DEF Resolve, ObserveResolve, Emit, TypeOK
  <2> QED
    BY <1>2, <2>1, LifecycleAssumption DEF Resolve, ObserveResolve, Emit, TypeOK
<1>3. ASSUME UNCHANGED vars PROVE TypeOK'
  BY <1>3 DEF vars, lifecycle, history, TypeOK
<1> QED
  BY <1>1, <1>2, <1>3 DEF Next

-----------------------------------------------------------------------------
(***************************************************************************)
(* The inductive invariant, one step per path through process, and one per *)
(* conjunct the path can disturb.                                          *)
(***************************************************************************)
LEMMA ProcessInv ==
    ASSUME TypeOK, LifecycleInv, TypeOK',
           NEW c \in Candidates \cup {NoPrompt}, NEW copied \in BOOLEAN,
           Process(c, copied), ObserveSnapshot(c)
    PROVE  LifecycleInv'
<1> USE LifecycleAssumption, IdOfType, InstanceTypes, NotNoPrompt
    DEF ClearSuppression, Emit, Incoming, IsSuppressed
<1>1. CASE PresentFirst(c, copied)
  <2>1. ViewMatchesActive'
    BY <1>1, ApplyShows, ApplyNothing
       DEF PresentFirst, ObserveSnapshot, LifecycleInv, ViewMatchesActive, TypeOK
  <2> QED
    BY <1>1, <2>1 DEF PresentFirst, ObserveSnapshot, LifecycleInv, TypeOK
<1>2. CASE StayIdle(c)
  <2>1. ViewMatchesActive'
    BY <1>2, ApplyNothing
       DEF StayIdle, ObserveSnapshot, LifecycleInv, ViewMatchesActive, TypeOK
  <2> QED
    BY <1>2, <2>1 DEF StayIdle, ObserveSnapshot, LifecycleInv, TypeOK
<1>3. CASE CountAbsence(c)
  <2>1. ViewMatchesActive'
    BY <1>3, ApplyNothing, ApplyGoneOnly
       DEF CountAbsence, CountAbsenceTo, ObserveSnapshot, LifecycleInv,
           ViewMatchesActive, TypeOK
  <2> QED
    BY <1>3, <2>1
       DEF CountAbsence, CountAbsenceTo, ObserveSnapshot, LifecycleInv, TypeOK
<1>4. CASE Redraw(c)
  <2>1. ViewMatchesActive'
    BY <1>4, ApplyNothing
       DEF Redraw, ObserveSnapshot, LifecycleInv, ViewMatchesActive, TypeOK
  <2> QED
    BY <1>4, <2>1 DEF Redraw, ObserveSnapshot, LifecycleInv, TypeOK, IdOf
<1>5. CASE Revise(c, copied)
  <2>1. ViewMatchesActive'
    BY <1>5, ApplyNothing, ApplyShows
       DEF Revise, ObserveSnapshot, LifecycleInv, ViewMatchesActive, TypeOK
  <2> QED
    BY <1>5, <2>1 DEF Revise, ObserveSnapshot, LifecycleInv, TypeOK, IdOf
<1>6. CASE Replace(c, copied)
  <2>1. ViewMatchesActive'
    BY <1>6, ApplyGoneOnly, ApplyShows
       DEF Replace, ObserveSnapshot, LifecycleInv, ViewMatchesActive, TypeOK
  <2> QED
    BY <1>6, <2>1 DEF Replace, ObserveSnapshot, LifecycleInv, TypeOK
<1> QED
  BY <1>1, <1>2, <1>3, <1>4, <1>5, <1>6 DEF Process

LEMMA ResolveInv ==
    ASSUME TypeOK, LifecycleInv, TypeOK', NEW id \in Ids, Resolve(id)
    PROVE  LifecycleInv'
<1> USE LifecycleAssumption, IdOfType, NotNoPrompt DEF Resolve, ObserveResolve, Emit
<1>1. ViewMatchesActive'
  BY ApplyNothing, ApplyGoneOnly DEF LifecycleInv, ViewMatchesActive, TypeOK
<1> QED
  BY <1>1 DEF LifecycleInv, TypeOK

LEMMA InvStep == IInv /\ [Next]_vars => IInv'
<1> SUFFICES ASSUME TypeOK, LifecycleInv, [Next]_vars PROVE IInv'
  BY DEF IInv
<1>1. TypeOK'
  BY TypeStep
<1>2. ASSUME NEW c \in Candidates \cup {NoPrompt}, Snapshot(c) PROVE LifecycleInv'
  <2>1. PICK built \in AllocOutcomes, copied \in AllocOutcomes :
          LET seen == IF built THEN c ELSE NoPrompt
          IN Process(seen, copied) /\ ObserveSnapshot(seen)
    BY <1>2 DEF Snapshot
  <2> DEFINE seen == IF built THEN c ELSE NoPrompt
  <2>2. seen \in Candidates \cup {NoPrompt} /\ copied \in BOOLEAN
    BY LifecycleAssumption
  <2>3. Process(seen, copied) /\ ObserveSnapshot(seen)
    BY <2>1
  <2> HIDE DEF seen
  <2> QED
    BY <1>1, <2>2, <2>3, ProcessInv
<1>3. ASSUME NEW id \in Ids, Resolve(id) PROVE LifecycleInv'
  BY <1>1, <1>3, ResolveInv
<1>4. ASSUME UNCHANGED vars PROVE LifecycleInv'
  BY <1>4 DEF vars, lifecycle, history, LifecycleInv, ViewMatchesActive
<1> QED
  BY <1>1, <1>2, <1>3, <1>4 DEF Next, IInv

-----------------------------------------------------------------------------
(***************************************************************************)
(* The invariant of every reachable state, and what it implies.            *)
(***************************************************************************)
THEOREM Invariance == Spec => []IInv
  BY InitInv, InvStep, PTL DEF Spec

\* The types of the lifecycle's state hold in every reachable state.
THEOREM TypeCorrectness == Spec => []TypeOK
<1>1. IInv => TypeOK
  BY DEF IInv
<1> QED
  BY <1>1, Invariance, PTL

\* A consumer that applied every event shows the agent's active instance.
THEOREM ConsumerMirrorsAgent == Spec => []ViewMatchesActive
<1>1. IInv => ViewMatchesActive
  BY DEF IInv, LifecycleInv
<1> QED
  BY <1>1, Invariance, PTL

\* No overlay outlives its prompt by AbsenceSnapshots snapshots.
THEOREM OverlayFreshness == Spec => []OverlayIsFresh
<1>1. IInv => OverlayIsFresh
  BY LifecycleAssumption DEF IInv, LifecycleInv, TypeOK, OverlayIsFresh
<1> QED
  BY <1>1, Invariance, PTL

\* A resolved prompt that every snapshot since has shown is not presented again,
\* unless its answer was overtaken by that of another instance, or came while
\* another one was active.
THEOREM ResolvedQuiet == Spec => []ResolvedStaysQuiet
<1>1. IInv => ResolvedStaysQuiet
  BY IdOfType DEF IInv, TypeOK, LifecycleInv, ResolvedStaysQuiet
<1> QED
  BY <1>1, Invariance, PTL

\* Whatever was resolved before, a distinct prompt on the screen is shown.
THEOREM DistinctPrompt == Spec => DistinctPromptIsShown
<1> DEFINE Shows(c) == Process(c, TRUE) /\ resolvedId # InstanceId[c] =>
                          active' # NoPrompt /\ IdOf(active') = InstanceId[c]
<1>1. ASSUME TypeOK, NEW c \in Candidates PROVE Shows(c)
  <2> SUFFICES ASSUME Process(c, TRUE), resolvedId # InstanceId[c]
               PROVE  active' # NoPrompt /\ IdOf(active') = InstanceId[c]
    OBVIOUS
  <2> USE NotNoPrompt, InstanceTypes
  <2>1. Incoming(c)
    BY DEF Incoming, IsSuppressed
  <2>2. PresentFirst(c, TRUE) \/ Redraw(c) \/ Revise(c, TRUE) \/ Replace(c, TRUE)
    BY <2>1 DEF Process, StayIdle, CountAbsence, CountAbsenceTo
  <2>3. CASE PresentFirst(c, TRUE)
    BY <2>3 DEF PresentFirst
  <2>4. CASE Redraw(c)
    BY <2>4 DEF Redraw, IdOf
  <2>5. CASE Revise(c, TRUE)
    <3>1. active' = [candidate |-> c, revision |-> active.revision + 1]
      BY <2>5 DEF Revise
    <3>2. active'.candidate = c
      BY <3>1
    <3>3. active' # NoPrompt
      BY <1>1, <2>5, <3>1 DEF Revise, TypeOK
    <3> QED
      BY <3>2, <3>3 DEF IdOf
  <2>6. CASE Replace(c, TRUE)
    BY <2>6 DEF Replace
  <2> QED
    BY <2>2, <2>3, <2>4, <2>5, <2>6
<1>2. TypeOK /\ [Next]_vars => [\A c \in Candidates : Shows(c)]_vars
  BY <1>1
<1> QED
  BY <1>2, TypeCorrectness, PTL DEF Spec, DistinctPromptIsShown

\* GONE is emitted for an instance only when it was resolved, replaced on the
\* screen, or absent for AbsenceSnapshots snapshots.
THEOREM GoneEarned == Spec => GoneIsEarned
<1> DEFINE Earned(id) ==
       \/ resolvedId' = id
       \/ \E other \in Ids \ {id} : unseen'[other] = 0 /\ ~IsSuppressed(other)
       \/ unseen'[id] = AbsenceSnapshots
<1>1. ASSUME IInv, NEW c \in Candidates \cup {NoPrompt}, NEW copied \in BOOLEAN,
             Process(c, copied), ObserveSnapshot(c), NEW id \in Ids, gone' = id
      PROVE  Earned(id)
  <2> USE <1>1, LifecycleAssumption, IdOfType, NotNoPrompt DEF Emit, IInv, TypeOK
  <2>1. CASE CountAbsence(c)
    <3>1. absence + 1 >= AbsenceSnapshots /\ id = IdOf(active) /\ active # NoPrompt
      BY <2>1 DEF CountAbsence, CountAbsenceTo
    <3>2. c # NoPrompt => InstanceId[c] # id
      BY <2>1, <3>1
         DEF CountAbsence, CountAbsenceTo, Incoming, IsSuppressed, LifecycleInv
    <3>3. unseen[id] = absence
      BY <3>1 DEF LifecycleInv
    <3> QED
      BY <3>1, <3>2, <3>3 DEF ObserveSnapshot
  <2>2. CASE Replace(c, copied)
    <3>1. c \in Candidates /\ InstanceId[c] \in Ids \ {id} /\ ~IsSuppressed(InstanceId[c])
      BY <2>2 DEF Replace, Incoming
    <3>2. unseen'[InstanceId[c]] = 0
      BY <3>1 DEF ObserveSnapshot
    <3> QED
      BY <3>1, <3>2
  <2>3. CASE PresentFirst(c, copied) \/ StayIdle(c) \/ Redraw(c) \/ Revise(c, copied)
    BY <2>3 DEF PresentFirst, StayIdle, Redraw, Revise
  <2> QED
    BY <2>1, <2>2, <2>3 DEF Process
<1>2. ASSUME IInv, Next PROVE \A id \in Ids : gone' = id => Earned(id)
  <2>1. ASSUME NEW id \in Ids, Resolve(id)
        PROVE  \A other \in Ids : gone' = other => Earned(other)
    BY <2>1, LifecycleAssumption DEF Resolve, Emit
  <2>2. ASSUME NEW c \in Candidates \cup {NoPrompt}, Snapshot(c)
        PROVE  \A id \in Ids : gone' = id => Earned(id)
    <3>1. PICK built \in AllocOutcomes, copied \in AllocOutcomes :
            LET seen == IF built THEN c ELSE NoPrompt
            IN Process(seen, copied) /\ ObserveSnapshot(seen)
      BY <2>2 DEF Snapshot
    <3> DEFINE seen == IF built THEN c ELSE NoPrompt
    <3>2. seen \in Candidates \cup {NoPrompt} /\ copied \in BOOLEAN
      BY LifecycleAssumption
    <3>3. Process(seen, copied) /\ ObserveSnapshot(seen)
      BY <3>1
    <3> HIDE DEF seen, Earned
    <3> QED
      BY <1>1, <1>2, <3>2, <3>3
  <2> HIDE DEF Earned
  <2> QED
    BY <1>2, <2>1, <2>2 DEF Next
<1>3. IInv /\ [Next]_vars => [\A id \in Ids : gone' = id => Earned(id)]_vars
  <2> HIDE DEF Earned
  <2> QED
    BY <1>2
<1> QED
  BY <1>3, Invariance, PTL DEF Spec, GoneIsEarned

-----------------------------------------------------------------------------
(***************************************************************************)
(* Refinement.  Under the invariant the overlay of the consumer is the     *)
(* active instance, so each path through process or resolve is one step of *)
(* PromptEvents or leaves the overlay alone.                               *)
(***************************************************************************)
LEMMA OverlayIsActive == LifecycleInv => Overlay = active
  BY DEF LifecycleInv, ViewMatchesActive, Overlay

LEMMA ProcessRefines ==
    ASSUME TypeOK, NEW c \in Candidates \cup {NoPrompt}, NEW copied \in BOOLEAN,
           Process(c, copied), Overlay = active, Overlay' = active'
    PROVE  Events!Next \/ Overlay' = Overlay
<1> USE LifecycleAssumption, NotNoPrompt, InstanceTypes DEF TypeOK
<1>1. CASE PresentFirst(c, copied)
  <2>1. c \in Candidates /\ Overlay = NoPrompt
    BY <1>1 DEF PresentFirst, Incoming
  <2> QED
    BY <1>1, <2>1 DEF PresentFirst, Events!Next, Events!Show, Events!Fresh, New
<1>2. CASE StayIdle(c)
  BY <1>2 DEF StayIdle
<1>3. CASE CountAbsence(c)
  BY <1>3 DEF CountAbsence, CountAbsenceTo, Events!Next, Events!Hide
<1>4. CASE Redraw(c)
  BY <1>4 DEF Redraw
<1>5. CASE Revise(c, copied)
  <2>1. c \in Candidates /\ Overlay # NoPrompt /\ c # Overlay.candidate
        /\ InstanceId[c] = InstanceId[Overlay.candidate]
    BY <1>5 DEF Revise, Incoming, IdOf
  <2>2. \/ Overlay' = [candidate |-> c, revision |-> Overlay.revision + 1]
        \/ Overlay' = NoPrompt
    BY <1>5 DEF Revise
  <2> QED
    BY <2>1, <2>2 DEF Events!Next, Events!Revise, Events!Hide
<1>6. CASE Replace(c, copied)
  <2>1. c \in Candidates /\ Overlay # NoPrompt
        /\ InstanceId[c] # InstanceId[Overlay.candidate]
    BY <1>6 DEF Replace, Incoming, IdOf
  <2>2. Overlay' = New(c) \/ Overlay' = NoPrompt
    BY <1>6 DEF Replace
  <2> QED
    BY <2>1, <2>2 DEF Events!Next, Events!Swap, Events!Hide, Events!Fresh, New
<1> QED
  BY <1>1, <1>2, <1>3, <1>4, <1>5, <1>6 DEF Process

\* The lifecycle implements PromptEvents.
THEOREM Refinement == Spec => ImplementsEvents
<1>1. Init => Events!Init
  BY DEF Init, Events!Init, Overlay
<1>2. IInv /\ IInv' /\ [Next]_vars => [Events!Next]_Overlay
  <2> SUFFICES ASSUME IInv, IInv', [Next]_vars
               PROVE  Events!Next \/ Overlay' = Overlay
    OBVIOUS
  <2>1. Overlay = active
    BY OverlayIsActive DEF IInv
  <2>2. Overlay' = active'
    BY DEF IInv, LifecycleInv, ViewMatchesActive, Overlay
  <2>3. ASSUME NEW c \in Candidates \cup {NoPrompt}, Snapshot(c)
        PROVE  Events!Next \/ Overlay' = Overlay
    <3>1. PICK built \in AllocOutcomes, copied \in AllocOutcomes :
            Process(IF built THEN c ELSE NoPrompt, copied)
      BY <2>3 DEF Snapshot
    <3>2. (IF built THEN c ELSE NoPrompt) \in Candidates \cup {NoPrompt}
          /\ copied \in BOOLEAN
      BY LifecycleAssumption
    <3> QED
      BY <2>1, <2>2, <3>1, <3>2, ProcessRefines DEF IInv
  <2>4. ASSUME NEW id \in Ids, Resolve(id)
        PROVE  Events!Next \/ Overlay' = Overlay
    BY <2>1, <2>2, <2>4 DEF Resolve, Events!Next, Events!Hide
  <2>5. CASE UNCHANGED vars
    BY <2>5 DEF vars, lifecycle, history, Overlay
  <2> QED
    BY <2>3, <2>4, <2>5 DEF Next
<1> QED
  BY <1>1, <1>2, Invariance, PTL DEF Spec, ImplementsEvents, Events!Spec
=============================================================================

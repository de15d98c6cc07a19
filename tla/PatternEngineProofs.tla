------------------------- MODULE PatternEngineProofs -------------------------
(***************************************************************************)
(* Proofs about the overlay of the iOS app, for any prompts, any number of *)
(* events under way and every order of events, timers, answers and losses  *)
(* of the connection.                                                      *)
(*                                                                         *)
(* That the overlay is the agent's prompt once the wire is empty follows   *)
(* from what holds while it is not: the events under way lead from what    *)
(* the app has been told to what the agent shows.  What they lead to is    *)
(* said position by position, each event fitting the one before it.        *)
(***************************************************************************)
EXTENDS PatternEngine, SequenceTheorems, TLAPS

Prompts == Overlay \cup {NoPrompt}

Events == [type : {"GONE"}, id : Ids] \cup [type : {"PRESENT", "UPDATE"}, instance : Overlay]

Types ==
    /\ shown \in Prompts
    /\ wire \in Seq(Events)
    /\ sync = "copied" => copy \in Overlay
    /\ match \in Prompts
    /\ clear \in Ids \cup {NoId}
    /\ stray \in {"no", "yes"}

\* What an event tells: the prompt that is active after it.
After(e) == IF e.type = "GONE" THEN NoPrompt ELSE e.instance

\* Event e fits an agent whose active prompt is b.  A PRESENT may repeat the
\* active prompt: the monitor's copy does.
Fits(b, e) ==
    /\ e.type = "PRESENT" => b \in {NoPrompt, e.instance}
    /\ e.type = "UPDATE" => Has(b, IdOf(e.instance))
    /\ e.type = "GONE" => Has(b, e.id)

\* The events of w, in order, lead from prompt b to prompt s.
Leads(b, w, s) ==
    /\ IF w = <<>> THEN b = s ELSE Fits(b, w[1]) /\ After(w[Len(w)]) = s
    /\ \A k \in 1 .. Len(w) - 1 : Fits(After(w[k]), w[k + 1])

\* What the app has been told: its overlay, unless it has none or one that a
\* delayed GONE is about to take away.
Told(b) == match # NoPrompt => match = b \/ clear = IdOf(match)

WireInv == stray = "no" => \E b \in Prompts : Told(b) /\ Leads(b, wire, shown)

EInv == Types /\ WireInv

-----------------------------------------------------------------------------
(* The wire                                                                *)

LEMMA NothingLeadsNowhere == ASSUME NEW s PROVE Leads(s, <<>>, s)
  BY DEF Leads

\* An event that fits the agent's prompt makes the wire one longer.
LEMMA OneMore ==
  ASSUME NEW b \in Prompts, NEW w \in Seq(Events), NEW s \in Prompts, NEW e \in Events,
         Leads(b, w, s), Fits(s, e)
  PROVE  /\ w \o <<e>> \in Seq(Events)
         /\ Leads(b, w \o <<e>>, After(e))
<1> DEFINE v == w \o <<e>>
<1>1. <<e>> \in Seq(Events) /\ Len(<<e>>) = 1 /\ <<e>>[1] = e
  OBVIOUS
<1>2. /\ v \in Seq(Events)
      /\ Len(v) = Len(w) + 1
      /\ Len(w) \in Nat
      /\ \A i \in 1 .. Len(w) + 1 : v[i] = IF i <= Len(w) THEN w[i] ELSE <<e>>[i - Len(w)]
  BY <1>1, ConcatProperties, LenProperties
<1>3. v[Len(v)] = e /\ \A i \in 1 .. Len(w) : v[i] = w[i]
  BY <1>1, <1>2
<1>4. v # <<>>
  BY <1>2
<1>5. CASE w = <<>>
  BY <1>2, <1>3, <1>4, <1>5 DEF Leads
<1>6. CASE w # <<>>
  <2>1. Len(w) > 0
    BY <1>6, EmptySeq
  <2>2. Fits(b, v[1])
    BY <1>3, <1>6, <2>1, <1>2 DEF Leads
  <2>3. ASSUME NEW k \in 1 .. Len(v) - 1 PROVE Fits(After(v[k]), v[k + 1])
    <3>1. CASE k = Len(w)
      BY <1>2, <1>3, <1>6, <2>1, <3>1 DEF Leads
    <3>2. CASE k # Len(w)
      BY <1>2, <1>3, <1>6, <2>1, <3>2 DEF Leads
    <3> QED
      BY <3>1, <3>2
  <2> QED
    BY <1>2, <1>3, <1>4, <2>2, <2>3 DEF Leads
<1> QED
  BY <1>2, <1>5, <1>6

\* Once the first event is read the rest leads on from what it tells.
LEMMA OneLess ==
  ASSUME NEW b \in Prompts, NEW w \in Seq(Events), NEW s \in Prompts,
         w # <<>>, Leads(b, w, s)
  PROVE  /\ Head(w) \in Events
         /\ Tail(w) \in Seq(Events)
         /\ Fits(b, Head(w))
         /\ Leads(After(Head(w)), Tail(w), s)
<1> DEFINE v == Tail(w)
<1>1. /\ Head(w) \in Events
      /\ v \in Seq(Events)
      /\ Len(v) = Len(w) - 1
      /\ \A i \in 1 .. Len(v) : v[i] = w[i + 1]
      /\ Len(w) \in Nat \ {0}
      /\ Head(w) = w[1]
  BY HeadTailProperties, EmptySeq
<1>2. CASE v = <<>>
  <2>1. Len(w) = 1
    BY <1>1, <1>2
  <2>2. After(Head(w)) = s /\ Fits(b, Head(w))
    BY <1>1, <2>1 DEF Leads
  <2> QED
    BY <1>1, <1>2, <2>2, NothingLeadsNowhere
<1>3. CASE v # <<>>
  <2>1. Len(v) > 0
    BY <1>1, <1>3, EmptySeq
  <2>2. v[1] = w[2] /\ v[Len(v)] = w[Len(w)]
    BY <1>1, <2>1
  <2>3. Fits(After(w[1]), w[2])
    BY <1>1, <2>1 DEF Leads
  <2>4. ASSUME NEW k \in 1 .. Len(v) - 1 PROVE Fits(After(v[k]), v[k + 1])
    BY <1>1, <2>1 DEF Leads
  <2> QED
    BY <1>1, <1>3, <2>2, <2>3, <2>4 DEF Leads
<1> QED
  BY <1>1, <1>2, <1>3 DEF Leads

\* What the agent sends are events, and each tells what it is meant to tell.
LEMMA WellFormed ==
  ASSUME NEW i \in Overlay
  PROVE  /\ Gone(i) \in Events /\ After(Gone(i)) = NoPrompt
         /\ Present(i) \in Events /\ After(Present(i)) = i
         /\ Update(i) \in Events /\ After(Update(i)) = i
         /\ Fits(NoPrompt, Present(i)) /\ Fits(i, Present(i))
         /\ i # NoPrompt => Fits(i, Gone(i))
         /\ IdOf(i) \in Ids
<1>1. IdOf(i) \in Ids
  BY EngineAssumption DEF IdOf, Overlay
<1> QED
  BY <1>1 DEF Gone, Present, Update, Events, After, Fits, Has

-----------------------------------------------------------------------------
(* The steps                                                               *)

LEMMA EInitially == PInit => EInv
  BY NothingLeadsNowhere, EmptySeq DEF PInit, Init, EInv, Types, WireInv, Told, Prompts

LEMMA AgentStepKeeps == EInv /\ AgentStep => EInv'
<1> SUFFICES ASSUME EInv, AgentStep PROVE EInv'
  OBVIOUS
<1>0. /\ Types /\ WireInv
      /\ UNCHANGED <<match, clear, sync, copy>>
  BY DEF EInv, AgentStep, app
<1>1. ASSUME NEW e \in Events, Fits(shown, e), shown' = After(e), Sends(<<e>>),
             UNCHANGED stray, shown' \in Prompts
      PROVE  EInv'
  <2>1. wire' \in Seq(Events)
    <3>1. <<e>> \in Seq(Events)
      OBVIOUS
    <3> QED
      BY <1>0, <1>1, <3>1, ConcatProperties DEF Types, Sends
  <2>2. ASSUME stray = "no" PROVE \E b \in Prompts : Told(b)' /\ Leads(b, wire', shown')
    <3>1. PICK b \in Prompts : Told(b) /\ Leads(b, wire, shown)
      BY <1>0, <2>2 DEF WireInv
    <3>2. Leads(b, wire', shown')
      BY <1>0, <1>1, <3>1, OneMore DEF Types, Sends
    <3>3. Told(b)'
      BY <1>0, <3>1 DEF Told
    <3> QED
      BY <3>2, <3>3
  <2>3. WireInv'
    BY <1>1, <2>2 DEF WireInv
  <2> QED
    BY <1>0, <1>1, <2>1, <2>3 DEF EInv, Types
<1>2. CASE Show /\ Sends(<<Present(shown')>>) /\ UNCHANGED stray
  <2>1. shown = NoPrompt /\ shown' \in Overlay
    BY <1>2 DEF Show, Overlay, Fresh
  <2> QED
    BY <1>1, <1>2, <2>1, WellFormed DEF Prompts
<1>3. CASE Revise /\ Sends(<<Update(shown')>>) /\ UNCHANGED stray
  <2>1. shown \in Overlay /\ shown # NoPrompt
    BY <1>0, <1>3 DEF Revise, Types, Prompts
  <2>2. shown' \in Overlay /\ IdOf(shown') = IdOf(shown)
    BY <1>3, <2>1 DEF Revise, Overlay, IdOf
  <2>3. Fits(shown, Update(shown'))
    BY <2>1, <2>2 DEF Fits, Update, Has
  <2> QED
    BY <1>1, <1>3, <2>2, <2>3, WellFormed DEF Prompts
<1>4. CASE Swap /\ Sends(<<Gone(shown), Present(shown')>>) /\ UNCHANGED stray
  <2>1. shown \in Overlay /\ shown # NoPrompt /\ shown' \in Overlay
    BY <1>0, <1>4 DEF Swap, Types, Prompts, Overlay, Fresh
  <2> DEFINE w == wire \o <<Gone(shown)>>
  <2>2. Gone(shown) \in Events /\ Present(shown') \in Events
    BY <2>1, WellFormed
  <2>3. wire' = w \o <<Present(shown')>> /\ wire' \in Seq(Events)
    <3> DEFINE g == <<Gone(shown)>>
               p == <<Present(shown')>>
               both == <<Gone(shown), Present(shown')>>
    <3>1. g \in Seq(Events) /\ p \in Seq(Events) /\ both \in Seq(Events)
      BY <2>2
    <3>2. g \o p = both
      <4>1. Len(g) = 1 /\ Len(p) = 1 /\ Len(both) = 2
        OBVIOUS
      <4>2. g[1] = both[1] /\ p[1] = both[2]
        OBVIOUS
      <4> HIDE DEF g, p, both
      <4>3. /\ Len(g \o p) = 2 /\ g \o p \in Seq(Events)
            /\ \A i \in 1 .. 2 : (g \o p)[i] = IF i <= 1 THEN g[i] ELSE p[i - 1]
        BY <3>1, <4>1, ConcatProperties
      <4> QED
        BY <3>1, <4>1, <4>2, <4>3, SeqEqual
    <3> QED
      BY <1>0, <1>4, <3>1, <3>2, ConcatAssociative, ConcatProperties DEF Types, Sends
  <2>4. ASSUME stray = "no" PROVE \E b \in Prompts : Told(b)' /\ Leads(b, wire', shown')
    <3>1. PICK b \in Prompts : Told(b) /\ Leads(b, wire, shown)
      BY <1>0, <2>4 DEF WireInv
    <3>2. w \in Seq(Events) /\ Leads(b, w, NoPrompt)
      BY <1>0, <2>1, <3>1, OneMore, WellFormed DEF Types
    <3>3. Leads(b, wire', shown')
      BY <2>1, <2>3, <3>2, OneMore, WellFormed DEF Prompts
    <3>4. Told(b)'
      BY <1>0, <3>1 DEF Told
    <3> QED
      BY <3>3, <3>4
  <2> QED
    BY <1>0, <1>4, <2>1, <2>3, <2>4 DEF EInv, Types, WireInv, Prompts
<1>5. CASE Hide /\ Sends(<<Gone(shown)>>) /\ UNCHANGED stray
  <2>1. shown \in Overlay /\ shown # NoPrompt /\ shown' = NoPrompt
    BY <1>0, <1>5 DEF Hide, Types, Prompts
  <2> QED
    BY <1>1, <1>5, <2>1, WellFormed DEF Prompts
<1>6. CASE Hide /\ Sends(<<>>) /\ stray' = "yes"
  <2>1. wire' = wire /\ shown' = NoPrompt
    BY <1>0, <1>6, ConcatEmptySeq DEF Types, Sends, Hide
  <2> QED
    BY <1>0, <1>6, <2>1 DEF EInv, Types, WireInv, Prompts
<1> QED
  BY <1>2, <1>3, <1>4, <1>5, <1>6 DEF AgentStep

LEMMA SyncSendKeeps == EInv /\ SyncSend => EInv'
<1> SUFFICES ASSUME EInv, SyncSend PROVE EInv'
  OBVIOUS
<1>1. /\ Types /\ WireInv
      /\ copy \in Overlay /\ wire' = wire \o <<Present(copy)>>
      /\ UNCHANGED <<shown, match, clear>>
  BY DEF EInv, SyncSend, Sends, Types, app
<1>2. Present(copy) \in Events
  BY <1>1, WellFormed
<1>3. wire' \in Seq(Events)
  <2>1. <<Present(copy)>> \in Seq(Events)
    BY <1>2
  <2> QED
    BY <1>1, <2>1, ConcatProperties DEF Types
<1>4. Types'
  BY <1>1, <1>3 DEF Types, SyncSend, Stray
<1>5. ASSUME stray' = "no" PROVE \E b \in Prompts : Told(b)' /\ Leads(b, wire', shown')
  <2>1. stray = "no" /\ copy = shown
    BY <1>5 DEF SyncSend, Stray
  <2>2. PICK b \in Prompts : Told(b) /\ Leads(b, wire, shown)
    BY <1>1, <2>1 DEF WireInv
  <2>3. Leads(b, wire', shown')
    BY <1>1, <2>1, <2>2, OneMore, WellFormed DEF Types
  <2>4. Told(b)'
    BY <1>1, <2>2 DEF Told
  <2> QED
    BY <2>3, <2>4
<1> QED
  BY <1>4, <1>5 DEF EInv, WireInv

\* The app applies an event: what it has been told afterwards is what the event
\* tells, also if the event is ignored or its effect delayed.
LEMMA AppFollows ==
  ASSUME Types, NEW e \in Events, NEW b \in Prompts, Told(b), Fits(b, e),
         \/ e.type = "PRESENT" /\ ApplyServerPresent(e.instance)
         \/ e.type = "UPDATE" /\ ApplyServerUpdate(e.instance)
         \/ e.type = "GONE" /\ ApplyServerGone(e.id)
  PROVE  Told(After(e))' /\ match' \in Prompts /\ clear' \in Ids \cup {NoId}
<1>1. CASE e.type = "PRESENT" /\ ApplyServerPresent(e.instance)
  <2>1. e.instance \in Overlay /\ After(e) = e.instance /\ b \in {NoPrompt, e.instance}
    BY <1>1 DEF Events, After, Fits
  <2> QED
    BY <1>1, <2>1 DEF ApplyServerPresent, NoGone, Told, Types, Prompts, app
<1>2. CASE e.type = "UPDATE" /\ ApplyServerUpdate(e.instance)
  <2>1. e.instance \in Overlay /\ After(e) = e.instance /\ Has(b, IdOf(e.instance))
    BY <1>2 DEF Events, After, Fits
  <2> QED
    BY <1>2, <2>1 DEF ApplyServerUpdate, NoGone, Told, Types, Prompts, Has, app
<1>3. CASE e.type = "GONE" /\ ApplyServerGone(e.id)
  <2>1. e.id \in Ids /\ After(e) = NoPrompt /\ Has(b, e.id)
    BY <1>3 DEF Events, After, Fits
  <2> QED
    BY <1>3, <2>1 DEF ApplyServerGone, ClearActiveState, NoGone, Told, Types, Prompts,
       Has, app
<1> QED
  BY <1>1, <1>2, <1>3

LEMMA DeliverKeeps == EInv /\ Deliver => EInv'
<1> SUFFICES ASSUME EInv, Deliver PROVE EInv'
  OBVIOUS
<1> DEFINE e == Head(wire)
<1>1. /\ Types /\ WireInv
      /\ wire # <<>> /\ wire' = Tail(wire)
      /\ UNCHANGED <<shown, sync, copy>>
      /\ \/ e.type = "PRESENT" /\ ApplyServerPresent(e.instance)
         \/ e.type = "UPDATE" /\ ApplyServerUpdate(e.instance)
         \/ e.type = "GONE" /\ ApplyServerGone(e.id)
      /\ stray' \in {stray, "yes"}
  BY DEF EInv, Deliver, Stray
<1>2. e \in Events /\ wire' \in Seq(Events)
  BY <1>1, HeadTailProperties DEF Types
<1>3. match' \in Prompts /\ clear' \in Ids \cup {NoId}
  BY <1>1, <1>2 DEF Types, Prompts, Events, ApplyServerPresent, ApplyServerUpdate,
     ApplyServerGone, ClearActiveState, NoGone, app
<1>4. ASSUME stray' = "no"
      PROVE  \E b \in Prompts : Told(b)' /\ Leads(b, wire', shown')
  <2>1. PICK b \in Prompts : Told(b) /\ Leads(b, wire, shown)
    BY <1>1, <1>4 DEF WireInv
  <2>2. Fits(b, e) /\ Leads(After(e), wire', shown')
    BY <1>1, <2>1, OneLess DEF Types
  <2>3. PICK x \in Events : x = e
    BY <1>2
  <2> HIDE DEF e
  <2>4. Told(After(x))'
    BY <1>1, <2>1, <2>2, <2>3, AppFollows
  <2>5. After(x) \in Prompts
    BY DEF After, Events, Prompts
  <2> QED
    BY <2>2, <2>3, <2>4, <2>5
<1> QED
  BY <1>1, <1>2, <1>3, <1>4 DEF EInv, Types, WireInv

LEMMA EStep == EInv /\ [PNext]_pvars => EInv'
<1> SUFFICES ASSUME EInv, [PNext]_pvars PROVE EInv'
  OBVIOUS
<1> USE DEF EInv
<1>1. CASE SyncCopy
  BY <1>1 DEF SyncCopy, Types, Prompts, WireInv, Told, app, past
<1>2. CASE Timers
  <2>1. CASE VisibleLongEnough
    BY <2>1 DEF VisibleLongEnough, Types, WireInv, Told, stream, past
  <2>2. CASE GoneClear
    BY <2>2 DEF GoneClear, ClearActiveState, NoGone, Has, Types, Prompts, WireInv, Told,
       stream, past
  <2>3. CASE SuppressionEnds
    BY <2>3 DEF SuppressionEnds, Types, WireInv, Told, stream, past
  <2> QED
    BY <1>2, <2>1, <2>2, <2>3 DEF Timers
<1>3. CASE ToggleOverlay
  BY <1>3 DEF ToggleOverlay, Types, WireInv, Told, stream, past
<1>4. CASE Answer
  BY <1>4 DEF Answer, ClearActiveState, NoGone, Types, Prompts, WireInv, Told, stream
<1>5. CASE StreamClosed
  BY <1>5 DEF StreamClosed, ClearActiveState, NoGone, Types, Prompts, WireInv, Told, past
<1>6. CASE Reconnected
  BY <1>6, NothingLeadsNowhere, EmptySeq DEF Reconnected, Types, Prompts, WireInv, Told, app
<1>7. CASE UNCHANGED pvars
  BY <1>7 DEF pvars, app, stream, past, Types, WireInv, Told
<1> QED
  BY AgentStepKeeps, SyncSendKeeps, DeliverKeeps, <1>1, <1>2, <1>3, <1>4, <1>5, <1>6, <1>7
     DEF PNext

(***************************************************************************)
(* With no event under way and no GONE delayed, an overlay is the agent's  *)
(* active prompt, or the connection has seen a stray: for every number of  *)
(* events the wire can hold, whatever was ignored, answered or delayed.    *)
(***************************************************************************)
THEOREM OverlayIsThePrompt == PSpec => []OverlayAgrees
<1>1. EInv => OverlayAgrees
  <2> SUFFICES ASSUME EInv, wire = <<>>, clear = NoId, match # NoPrompt, stray # "yes"
               PROVE  match = shown
    BY DEF OverlayAgrees
  <2>1. PICK b \in Prompts : Told(b) /\ Leads(b, wire, shown)
    BY DEF EInv, Types, WireInv
  <2>2. b = shown
    BY <2>1 DEF Leads
  <2>3. IdOf(match) \in Ids
    BY WellFormed DEF EInv, Types, Prompts
  <2> QED
    BY <2>1, <2>2, <2>3, EngineAssumption DEF Told
<1>2. PSpec => PInit /\ [][PNext]_pvars
  BY PTL DEF PSpec
<1> QED
  BY <1>1, <1>2, EInitially, EStep, PTL
=============================================================================

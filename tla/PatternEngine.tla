---------------------------- MODULE PatternEngine ----------------------------
(***************************************************************************)
(* The overlay of the iOS app                                              *)
(* (clients/ios/TmuxRemote/Patterns/PatternEngine.swift), fed by the       *)
(* agent's prompt events over a control stream.  The agent is the abstract *)
(* PromptEvents, which its prompt lifecycle implements.                    *)
(*                                                                         *)
(* The lifecycle's events arrive in order; the control monitor's copy of   *)
(* the active prompt, sent once when the control stream is new, may be     *)
(* overtaken by them.  The app delays a GONE until the overlay has been    *)
(* visible for a second, and ignores for a while a prompt that has just    *)
(* gone or was just answered.  Its clock is abstracted to the moments when *)
(* those times are over.  An answer is typed into the terminal and sent to *)
(* the agent, where it makes the prompt go away; other clients do so too.  *)
(***************************************************************************)
EXTENDS PromptEvents, Sequences

CONSTANTS Signature,    \* [Candidates -> type and text of the prompt], promptSignature
          NoSignature,
          NoId,
          MaxRevision,  \* bounds, for model checking: on revisions
          MaxWire       \* and on the events under way

ASSUME EngineAssumption == /\ InstanceId \in [Candidates -> Ids]
                           /\ NoId \notin Ids
                           /\ MaxRevision \in Nat \ {0}
                           /\ MaxWire \in Nat

VARIABLES
    wire,       \* events of the control stream that the app has not read
    sync,       \* the monitor's prompt sync: "due", "copied", "done"
    copy,       \* the instance it has copied
    link,       \* "up", or "lost" from the loss of the data stream to the reconnect
    match,      \* activeMatch
    hidden,     \* isOverlayHidden
    age,        \* "new" until minimumVisibleDuration is over since activeSince
    clear,      \* the instance of pendingGoneWorkItem, or NoId
    goneId,     \* goneSuppressedInstanceId while it counts
    answered,   \* resolvedPromptSignature while it counts
    \* History of one connection.
    spent,      \* identities that have gone, or of prompts that read like one
                \* that was answered
    stray       \* "yes" once the agent has dropped an instance without a GONE,
                \* sent a copy that was overtaken, or the app has applied an
                \* event between its reset and the end of the old stream

app == <<match, hidden, age, clear, goneId, answered>>
stream == <<wire, sync, copy, link>>
past == <<spent, stray>>
pvars == <<shown, app, stream, past>>

IdOf(i) == InstanceId[i.candidate]
Has(o, id) == o # NoPrompt /\ IdOf(o) = id

NoGone == clear' = NoId
ClearActiveState == match' = NoPrompt /\ hidden' = "no" /\ age' = "new" /\ NoGone

Spends(id, s) ==
    {InstanceId[c] : c \in {d \in Candidates : InstanceId[d] = id \/ Signature[d] = s}}
Stray(b) == stray' = IF b THEN "yes" ELSE stray

PInit ==
    /\ Init
    /\ wire = <<>> /\ sync = "due" /\ copy = NoPrompt /\ link = "up"
    /\ match = NoPrompt /\ hidden = "no" /\ age = "new" /\ clear = NoId
    /\ goneId = NoId /\ answered = NoSignature
    /\ spent = {} /\ stray = "no"

-----------------------------------------------------------------------------
(* The agent and the control stream                                        *)

Gone(i) == [type |-> "GONE", id |-> IdOf(i)]
Present(i) == [type |-> "PRESENT", instance |-> i]
Update(i) == [type |-> "UPDATE", instance |-> i]

Sends(events) == wire' = wire \o events /\ Len(wire') <= MaxWire

\* One operation of the lifecycle.  An allocation failure in an update drops
\* the active instance without an event.  (That the message of an event cannot
\* be built is left out: it only makes a stray.)
AgentStep ==
    /\ \/ Show /\ Sends(<<Present(shown')>>) /\ UNCHANGED stray
       \/ Revise /\ shown'.revision <= MaxRevision
                 /\ Sends(<<Update(shown')>>) /\ UNCHANGED stray
       \/ Swap /\ Sends(<<Gone(shown), Present(shown')>>) /\ UNCHANGED stray
       \/ Hide /\ Sends(<<Gone(shown)>>) /\ UNCHANGED stray
       \/ Hide /\ Sends(<<>>) /\ stray' = "yes"
    /\ UNCHANGED <<app, sync, copy, link, spent>>

SyncCopy ==
    /\ sync = "due"
    /\ copy' = shown
    /\ sync' = IF shown = NoPrompt THEN "done" ELSE "copied"
    /\ UNCHANGED <<shown, app, wire, link, past>>

SyncSend ==
    /\ sync = "copied"
    /\ Sends(<<Present(copy)>>)
    /\ Stray(copy # shown)
    /\ sync' = "done"
    /\ copy' = NoPrompt
    /\ UNCHANGED <<shown, app, link, spent>>

-----------------------------------------------------------------------------
(* Events                                                                  *)

\* Mutant of Ignored: any prompt is ignored for a while after one has gone.
IgnoredAny(i) == goneId # NoId \/ Signature[i.candidate] = answered

Ignored(i) == goneId = IdOf(i) \/ Signature[i.candidate] = answered

\* A prompt that is ignored leaves a delayed GONE pending.
ApplyServerPresent(i) ==
    IF Ignored(i) THEN UNCHANGED app
    ELSE /\ NoGone
         /\ answered' = NoSignature
         /\ match' = i /\ hidden' = "no" /\ age' = "new"
         /\ UNCHANGED goneId

\* Mutant of ApplyServerUpdate: an overlay that is hidden is not updated.
ApplyServerUpdateVisible(i) ==
    IF ~Has(match, IdOf(i)) \/ hidden = "yes" THEN UNCHANGED app
    ELSE /\ NoGone
         /\ match' = i
         /\ UNCHANGED <<hidden, age, goneId, answered>>

ApplyServerUpdate(i) ==
    IF ~Has(match, IdOf(i)) THEN UNCHANGED app
    ELSE /\ NoGone
         /\ match' = i
         /\ UNCHANGED <<hidden, age, goneId, answered>>

\* Mutant of ApplyServerGone: within the first second a GONE is dropped.
ApplyServerGoneDrops(id) ==
    IF ~Has(match, id) \/ age = "new" THEN UNCHANGED app
    ELSE goneId' = id /\ ClearActiveState /\ UNCHANGED answered

ApplyServerGone(id) ==
    IF ~Has(match, id) THEN UNCHANGED app
    ELSE /\ goneId' = id
         /\ IF age = "new"
              THEN clear' = id /\ UNCHANGED <<match, hidden, age>>
              ELSE ClearActiveState
         /\ UNCHANGED answered

Deliver ==
    /\ wire # <<>>
    /\ wire' = Tail(wire)
    /\ LET e == Head(wire)
       IN /\ \/ e.type = "PRESENT" /\ ApplyServerPresent(e.instance)
             \/ e.type = "UPDATE" /\ ApplyServerUpdate(e.instance)
             \/ e.type = "GONE" /\ ApplyServerGone(e.id)
          /\ spent' = IF e.type = "GONE" THEN spent \cup Spends(e.id, NoSignature)
                                      ELSE spent
    /\ Stray(link = "lost")
    /\ UNCHANGED <<shown, sync, copy, link>>

\* minimumVisibleDuration is over; a GONE that was waiting for it is carried out.
VisibleLongEnough ==
    /\ age = "new" /\ match # NoPrompt
    /\ age' = "old"
    /\ UNCHANGED <<shown, match, hidden, clear, goneId, answered, stream, past>>

GoneClear ==
    /\ clear # NoId /\ age = "old"
    /\ IF Has(match, clear) THEN ClearActiveState
       ELSE NoGone /\ UNCHANGED <<match, hidden, age>>
    /\ UNCHANGED <<shown, goneId, answered, stream, past>>

\* goneSuppressionDuration, resolveSuppressionDuration are over.
SuppressionEnds ==
    /\ \/ goneId # NoId /\ goneId' = NoId /\ UNCHANGED answered
       \/ answered # NoSignature /\ answered' = NoSignature /\ UNCHANGED goneId
    /\ UNCHANGED <<shown, match, hidden, age, clear, stream, past>>

-----------------------------------------------------------------------------
(* The user                                                                *)

\* dismissLocally, restoreOverlay
ToggleOverlay ==
    /\ match # NoPrompt
    /\ hidden' = IF hidden = "no" THEN "yes" ELSE "no"
    /\ UNCHANGED <<shown, match, age, clear, goneId, answered, stream, past>>

\* resolveLocally
Answer ==
    /\ match # NoPrompt /\ hidden = "no"
    /\ answered' = Signature[match.candidate]
    /\ goneId' = IdOf(match)
    /\ ClearActiveState
    /\ spent' = spent \cup Spends(IdOf(match), Signature[match.candidate])
    /\ UNCHANGED <<shown, stream, stray>>

(***************************************************************************)
(* The data stream is lost: handleStreamClosed resets the engine and       *)
(* starts a reconnect, which closes the old control stream only when its   *)
(* task runs.  The new data stream has a new detector.                     *)
(***************************************************************************)
StreamClosed ==
    /\ link = "up"
    /\ link' = "lost"
    /\ ClearActiveState
    /\ goneId' = NoId
    /\ answered' = NoSignature
    /\ UNCHANGED <<shown, wire, sync, copy, past>>

Reconnected ==
    /\ link = "lost"
    /\ link' = "up"
    /\ wire' = <<>> /\ sync' = "due" /\ copy' = NoPrompt
    /\ shown' = NoPrompt
    /\ spent' = Spends(goneId, answered)
    /\ stray' = IF match = NoPrompt THEN "no" ELSE "yes"
    /\ UNCHANGED app

Timers == VisibleLongEnough \/ GoneClear \/ SuppressionEnds

PNext == \/ AgentStep \/ SyncCopy \/ SyncSend
         \/ Deliver \/ Timers
         \/ ToggleOverlay \/ Answer
         \/ StreamClosed \/ Reconnected

(***************************************************************************)
(* The control stream delivers, timers fire, and a reconnect that was      *)
(* begun drops the old stream.                                             *)
(***************************************************************************)
PSpec == PInit /\ [][PNext]_pvars
         /\ WF_pvars(Deliver) /\ WF_pvars(VisibleLongEnough) /\ WF_pvars(GoneClear)
         /\ WF_pvars(Reconnected)

-----------------------------------------------------------------------------

(***************************************************************************)
(* With no event under way and no GONE delayed, an overlay is the agent's  *)
(* active prompt, content and revision, whatever was suppressed, answered, *)
(* hidden or delayed before; unless the connection has seen a stray.       *)
(***************************************************************************)
OverlayAgrees ==
    wire = <<>> /\ clear = NoId /\ match # NoPrompt /\ link = "up"
        => match = shown \/ stray = "yes"

(***************************************************************************)
(* An overlay does not outlive its prompt: the delayed GONE is carried     *)
(* out, or something else takes the overlay's place.                       *)
(***************************************************************************)
OverlayGoesAway ==
    \A id \in Ids :
        (Has(match, id) /\ ~Has(shown, id))
            ~> (~Has(match, id) \/ Has(shown, id) \/ stray = "yes")

(***************************************************************************)
(* Suppression hits only what it is meant for: a prompt that has neither   *)
(* gone before nor reads like one the user has answered on this connection *)
(* gets its overlay.                                                       *)
(***************************************************************************)
NewPromptIsShown ==
    \A id \in Ids :
        (Has(shown, id) /\ id \notin spent)
            ~> (Has(match, id) \/ ~Has(shown, id) \/ id \in spent \/ stray = "yes")

=============================================================================

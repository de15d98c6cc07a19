------------------------- MODULE ControlStreamProofs -------------------------
(***************************************************************************)
(* Proofs about the control streams of the agent, for any number of        *)
(* streams, prompts and changes of the session list, and every             *)
(* interleaving of the core, the reader threads, the monitor, the PTY      *)
(* reader and the shutdown: reference counts are exact, and nobody but a   *)
(* stream's own reader touches a stream that is freed.                     *)
(*                                                                         *)
(* Counting is inductive only together with what every thread has in hand  *)
(* at every label: a thread that starts to collect holds nothing from an   *)
(* earlier round, the stream it writes to is not among those still to do,  *)
(* the targets of a broadcast, which are not retained, are on the list,    *)
(* and nobody but the monitor shortens the list until it has ended.        *)
(***************************************************************************)
EXTENDS ControlStream, FiniteSetTheorems, TLAPS

-----------------------------------------------------------------------------
(* The inductive invariant                                                 *)

Joins == {"joining", "sessionJoin", "promptJoin", "purgeJoin", "deinitJoin"}
Sends == {"next", "writing", "sent", "joining"}
Frames == {"none", "PRESENT", "GONE", "SESSIONS"}

\* Senders other than the monitor: their frame goes to what they retained.
Plain == Streams \cup {"pty"}

Types ==
    /\ listed \in SUBSET Streams /\ freed \in SUBSET Streams
    /\ closing \in SUBSET Streams /\ retained \in SUBSET Streams
    /\ promptSync \in SUBSET Streams /\ sessionSync \in SUBSET Streams
    /\ refs \in [Streams -> Nat]
    /\ target \in [Threads -> Streams \cup {NoThread}]
    /\ todo \in [Owners -> SUBSET Streams]
    /\ msg \in [Senders -> Frames]
    /\ lockA \in Threads \cup {NoThread} /\ lockD \in Threads \cup {NoThread}
    /\ lockL \in Threads \cup {NoThread}
    /\ lockW \in [Streams -> Senders \cup {NoThread}]

\* The labels of each thread.
CoreLabels == {"idle", "wantL", "wantA", "stopped"}
PtyLabels == {"read", "collect", "done"} \cup Sends
MainLabels == {"run", "stopStreams", "stopDevice", "joinMonitor", "dataDeinit",
               "controlDeinit", "deinitNext", "deinitJoin", "done"}
MonitorLabels == {"unborn", "top", "sessionCollect", "broadcast", "next", "writing",
                  "sent", "sessionRelease", "sessionJoin", "promptNext", "promptJoin",
                  "wantD", "wantW", "purge", "purgeJoin", "done"}
ReaderLabels == {"unborn", "read", "wantA", "wantD", "loop", "collect", "done"} \cup Sends

Labels ==
    /\ pc \in [Threads -> CoreLabels \cup PtyLabels \cup MainLabels \cup MonitorLabels
                            \cup ReaderLabels]
    /\ pc["core"] \in CoreLabels
    /\ pc["pty"] \in PtyLabels
    /\ pc["main"] \in MainLabels
    /\ pc["monitor"] \in MonitorLabels
    /\ \A s \in Streams : pc[s] \in ReaderLabels

\* What the PTY reader and the readers have in hand.
SendInv ==
    \A t \in Plain :
        /\ pc[t] \notin Sends => todo[t] = {}
        /\ pc[t] \in {"writing", "sent", "joining"} => /\ target[t] \in Streams
                                                       /\ target[t] \notin todo[t]

\* What the monitor has in hand: in the session phase targets that are on the
\* list, in the prompt phase one stream that it has retained.
MonitorInv ==
    /\ todo["monitor"] \subseteq listed
    /\ todo["monitor"] # {} => /\ pc["monitor"] \in {"next", "writing", "sent"}
                               /\ msg["monitor"] = "SESSIONS"
    /\ pc["monitor"] \in {"broadcast", "next"} => msg["monitor"] = "SESSIONS"
    /\ pc["monitor"] \in {"promptNext", "promptJoin", "wantD", "wantW"} =>
          msg["monitor"] = "PRESENT"
    /\ pc["monitor"] \in {"wantD", "wantW"} => target["monitor"] \in retained
    /\ pc["monitor"] \in {"writing", "sent"} =>
          \/ msg["monitor"] = "SESSIONS" /\ target["monitor"] \in listed
          \/ msg["monitor"] = "PRESENT" /\ target["monitor"] \in retained
    /\ pc["monitor"] \in {"unborn", "top", "sessionCollect", "purge", "purgeJoin", "done"} =>
          retained = {}

\* The shutdown: main goes on when the callbacks, the monitor and the PTY reader
\* have ended, and then takes the list.
MainInv ==
    /\ pc["main"] \notin {"deinitNext", "deinitJoin"} => todo["main"] = {}
    /\ pc["main"] \in {"joinMonitor", "dataDeinit", "controlDeinit", "deinitNext",
                       "deinitJoin", "done"} => pc["core"] = "stopped"
    /\ pc["main"] \in {"dataDeinit", "controlDeinit", "deinitNext", "deinitJoin", "done"} =>
          pc["monitor"] \in {"unborn", "done"}
    /\ pc["main"] \in {"controlDeinit", "deinitNext", "deinitJoin", "done"} =>
          pc["pty"] = "done"
    /\ pc["main"] \in {"deinitNext", "deinitJoin", "done"} => listed = {}

\* A freed stream has no references left, a thread that joins the reader has
\* dropped the last one, and the core lists a stream once.
FreeInv ==
    /\ \A s \in freed : refs[s] = 0
    /\ \A t \in Threads : pc[t] \in Joins => /\ target[t] \in Streams
                                             /\ refs[target[t]] = 0
                                             /\ pc[target[t]] # "unborn"
    /\ pc["core"] = "wantL" => target["core"] \in Streams \ listed

IInv == Types /\ Labels /\ SendInv /\ MonitorInv /\ MainInv /\ FreeInv /\ RefsAreExact

\* For the shutdown: nothing that has lost its last reference is forgotten ...
Left(s) == s \in freed \/ \E t \in Owners : pc[t] \in Joins /\ target[t] = s
LeftInv == \A s \in Streams : pc[s] # "unborn" /\ refs[s] = 0 => Left(s)

\* ... and if clients resolve nothing, a reader only reads, so that no thread
\* drops the last reference to its own stream and leaves itself unjoined.
ReaderInv ==
    ~ClientResolves => \A s \in Streams :
        /\ pc[s] \in {"unborn", "read", "done"}
        /\ s \in freed => pc[s] # "read"

ExitInv == LeftInv /\ ReaderInv

-----------------------------------------------------------------------------
(* Names and counting                                                      *)

LEMMA Names ==
  /\ \A s \in Streams : s \notin {"core", "monitor", "pty", "main", NoThread}
  /\ NoThread \notin Threads
  BY ControlAssumption DEF Threads

Num(b) == IF b THEN 1 ELSE 0

Exact(s) == refs[s] = Cardinality(Holders(s)) + Num(Owned(s))

LEMMA ExactAll == RefsAreExact <=> \A s \in Streams : Exact(s)
  BY DEF RefsAreExact, Exact, Num

LEMMA OwnersFinite == IsFiniteSet(Owners) /\ IsFiniteSet(Senders)
                      /\ Cardinality(Owners) <= Cardinality(Senders) + 1
                      /\ Cardinality(Senders) \in Nat
<1>1. IsFiniteSet(Streams \cup {"monitor"})
  BY ControlAssumption, FS_AddElement
<1>2. IsFiniteSet((Streams \cup {"monitor"}) \cup {"pty"})
  BY <1>1, FS_AddElement
<1>3. Senders = (Streams \cup {"monitor"}) \cup {"pty"}
  BY DEF Senders
<1>4. Owners = Senders \cup {"main"}
  BY DEF Owners
<1>5. IsFiniteSet(Senders) /\ Cardinality(Senders) \in Nat
  BY <1>2, <1>3, FS_CardinalityType
<1> QED
  BY <1>4, <1>5, FS_AddElement

LEMMA HoldersFinite ==
  ASSUME NEW s
  PROVE  /\ IsFiniteSet(Holders(s)) /\ Cardinality(Holders(s)) \in Nat
         /\ \A t \in Owners : Holds(t, s) => Cardinality(Holders(s)) >= 1
<1>1. Holders(s) \in SUBSET Owners
  BY DEF Holders
<1>2. IsFiniteSet(Holders(s)) /\ Cardinality(Holders(s)) \in Nat
  BY <1>1, OwnersFinite, FS_Subset, FS_CardinalityType
<1>3. ASSUME NEW t \in Owners, Holds(t, s) PROVE Cardinality(Holders(s)) >= 1
  <2>1. Holders(s) # {}
    BY <1>3 DEF Holders
  <2> QED
    BY <1>2, <2>1, FS_EmptySet
<1> QED
  BY <1>2, <1>3

\* A step in which only thread t can gain or lose its hold on stream s keeps the
\* count of s exact if the count changes by what t and the list gain or lose.
LEMMA Counting ==
  ASSUME NEW s \in Streams, NEW t \in Owners, Types, Types', Exact(s),
         \A u \in Owners \ {t} : Holds(u, s)' <=> Holds(u, s),
         refs'[s] + Num(Holds(t, s)) + Num(Owned(s))
             = refs[s] + Num(Holds(t, s)') + Num(Owned(s)')
  PROVE  Exact(s)'
<1> DEFINE H == Holders(s)
           G == Holders(s)'
<1>1. IsFiniteSet(H) /\ Cardinality(H) \in Nat /\ IsFiniteSet(Holders(s))
  BY HoldersFinite
<1>2. refs[s] \in Nat /\ refs'[s] \in Nat
  BY DEF Types
<1>3. CASE Holds(t, s)' <=> Holds(t, s)
  <2>1. G = H
    BY <1>3 DEF Holders
  <2> QED
    BY <1>1, <1>2, <1>3, <2>1 DEF Exact, Num
<1>4. CASE Holds(t, s)' /\ ~Holds(t, s)
  <2>1. G = H \cup {t} /\ t \notin H
    BY <1>4 DEF Holders
  <2>2. Cardinality(G) = Cardinality(H) + 1
    BY <1>1, <2>1, FS_AddElement
  <2> QED
    BY <1>1, <1>2, <1>4, <2>2 DEF Exact, Num
<1>5. CASE ~Holds(t, s)' /\ Holds(t, s)
  <2>1. G = H \ {t} /\ t \in H
    BY <1>5 DEF Holders
  <2>2. Cardinality(G) = Cardinality(H) - 1
    BY <1>1, <2>1, FS_RemoveElement
  <2> QED
    BY <1>1, <1>2, <1>5, <2>2 DEF Exact, Num
<1> QED
  BY <1>3, <1>4, <1>5

\* Steps that move a hold at most from one hand of a thread to the other, and
\* the count of the list from the core to the list.
LEMMA Unmoved ==
  ASSUME RefsAreExact, NEW s \in Streams, UNCHANGED refs,
         \A u \in Owners : Holds(u, s)' <=> Holds(u, s),
         Owned(s)' <=> Owned(s)
  PROVE  Exact(s)'
<1>1. Holders(s)' = Holders(s)
  BY DEF Holders
<1>2. Exact(s)
  BY ExactAll
<1> QED
  BY <1>1, <1>2 DEF Exact, Num

\* Whoever is listed, about to be, or held has a reference and is not freed.
LEMMA Counted ==
  ASSUME IInv, NEW s \in Streams
  PROVE  /\ Owned(s) => refs[s] >= 1 /\ s \notin freed
         /\ \A t \in Owners : Holds(t, s) => refs[s] >= 1 /\ s \notin freed
<1>1. Exact(s) /\ refs[s] \in Nat /\ (s \in freed => refs[s] = 0)
  BY ExactAll DEF IInv, Types, FreeInv
<1>2. /\ Cardinality(Holders(s)) \in Nat
      /\ \A t \in Owners : Holds(t, s) => Cardinality(Holders(s)) >= 1
  BY HoldersFinite
<1> QED
  BY <1>1, <1>2 DEF Exact, Num

\* Retaining streams that are listed touches neither a freed stream nor one
\* whose reader is being joined.
LEMMA RetainKeeps ==
  ASSUME IInv, NEW ss \in SUBSET listed, Retain(ss)
  PROVE  \A s \in Streams : refs[s] = 0 => refs'[s] = 0
<1> SUFFICES ASSUME NEW s \in Streams, refs[s] = 0 PROVE refs'[s] = 0
  OBVIOUS
<1>1. s \notin ss
  BY Counted DEF Owned
<1> QED
  BY <1>1 DEF Retain

\* A thread that holds a stream and releases it.
LEMMA ReleaseKeeps ==
  ASSUME IInv, NEW t \in Owners, NEW s \in Streams, refs[s] >= 1,
         pc[t] \notin Joins \cup {"unborn"},
         NEW label, NEW joining,
         Release(t, s, label, joining),
         label \notin Joins \cup {"unborn"}, joining \in Joins,
         target' = [target EXCEPT ![t] = s], listed' \in SUBSET listed
  PROVE  FreeInv'
<1> USE Names DEF IInv, Types, Labels, Owners, Senders, Threads
<1>1. /\ refs' = [refs EXCEPT ![s] = @ - 1]
      /\ pc' = [pc EXCEPT ![t] = pc'[t]]
      /\ refs[s] \in Nat
  BY DEF Release, Goto
<1>2. \A x \in freed' : refs'[x] = 0
  BY <1>1 DEF Release, FreeInv
<1>3. ASSUME NEW u \in Threads, pc'[u] \in Joins
      PROVE  target'[u] \in Streams /\ refs'[target'[u]] = 0 /\ pc'[target'[u]] # "unborn"
  <2>1. CASE u = t
    <3>1. refs[s] = 1 /\ t # s /\ pc[s] \notin {"unborn", "done"}
      BY <1>3, <2>1 DEF Release, Goto
    <3> QED
      BY <1>1, <2>1, <3>1
  <2>2. CASE u # t
    <3>1. pc[u] \in Joins /\ target'[u] = target[u]
      BY <1>1, <1>3, <2>2
    <3>2. target[u] \in Streams /\ refs[target[u]] = 0 /\ pc[target[u]] # "unborn"
      BY <3>1 DEF FreeInv
    <3>3. refs'[target[u]] = 0
      BY <1>1, <3>2
    <3>4. pc'[target[u]] # "unborn"
      BY <1>1, <3>2 DEF Release, Goto, Joins
    <3> QED
      BY <3>1, <3>2, <3>3, <3>4
  <2> QED
    BY <2>1, <2>2
<1>4. pc'["core"] = "wantL" => target'["core"] \in Streams \ listed'
  BY <1>1 DEF FreeInv
<1> QED
  BY <1>2, <1>3, <1>4 DEF FreeInv

-----------------------------------------------------------------------------
(* Every step keeps the invariant: one lemma for each thread.              *)

LEMMA OwnerNames == Plain \subseteq Owners /\ {"monitor", "pty", "main"} \subseteq Owners
  BY DEF Plain, Owners, Senders

\* A reader or the PTY reader sends an event.
LEMMA SendKeeps ==
  ASSUME IInv, NEW t \in Plain, Send(t)
  PROVE  IInv'
<1> USE Names DEF IInv
<1>1. ASSUME CollectTargets(t) PROVE IInv'
  <2>1. Types'
    BY <1>1 DEF CollectTargets, Retain, OpenListed, locks, Types, Owners, Senders, Plain
  <2>2. Labels'
    BY <1>1
       DEF CollectTargets, Goto, Labels, Sends, CoreLabels, PtyLabels, MainLabels,
           MonitorLabels, ReaderLabels, Threads
  <2>3. SendInv'
    BY <1>1 DEF CollectTargets, Goto, Labels, Sends, Threads, Plain, SendInv
  <2>4. MonitorInv'
    BY <1>1 DEF CollectTargets, Goto, Plain, MonitorInv
  <2>5. MainInv'
    BY <1>1 DEF CollectTargets, Goto, Plain, MainInv
  <2>6. FreeInv'
    <3>1. \A s \in Streams : refs[s] = 0 => refs'[s] = 0
      BY <1>1, RetainKeeps DEF CollectTargets, OpenListed
    <3> QED
      BY <1>1, <3>1 DEF CollectTargets, Goto, Types, FreeInv, Joins
  <2>7. RefsAreExact'
    <3> SUFFICES ASSUME NEW s \in Streams PROVE Exact(s)'
      BY DEF RefsAreExact, Exact, Num
    <3>1. \A u \in Owners \ {t} : Holds(u, s)' <=> Holds(u, s)
      BY <1>1 DEF CollectTargets, Goto, Holds, Sending
    <3>2. refs'[s] + Num(Holds(t, s)) + Num(Owned(s))
              = refs[s] + Num(Holds(t, s)') + Num(Owned(s)')
      BY <1>1
         DEF CollectTargets, Retain, Goto, Types, Sends, Owners, Senders, Plain, Holds,
             Sending, Owned, Num, SendInv
    <3>3. Exact(s)
      BY ExactAll
    <3> QED
      BY <2>1, <3>1, <3>2, <3>3, OwnerNames, Counting
  <2> QED
    BY <2>1, <2>2, <2>3, <2>4, <2>5, <2>6, <2>7
<1>2. ASSUME NextTarget(t) PROVE IInv'
  <2>1. Types'
    BY <1>2 DEF NextTarget, StartWrite, objects, Types, Owners, Senders, Threads, Plain
  <2>2. Labels'
    BY <1>2
       DEF NextTarget, StartWrite, Goto, Labels, Sends, CoreLabels, PtyLabels,
           MainLabels, MonitorLabels, ReaderLabels, Threads
  <2>3. SendInv'
    BY <1>2
       DEF NextTarget, StartWrite, Goto, Types, Labels, Sends, Owners, Senders,
           Threads, Plain, SendInv
  <2>4. MonitorInv'
    BY <1>2
       DEF NextTarget, StartWrite, Goto, objects, Labels, Threads, Plain, MonitorInv
  <2>5. MainInv'
    BY <1>2 DEF NextTarget, StartWrite, Goto, objects, Labels, Threads, MainInv
  <2>6. FreeInv'
    BY <1>2 DEF NextTarget, StartWrite, Goto, objects, Labels, Threads, FreeInv, Joins
  <2>7. RefsAreExact'
    <3> SUFFICES ASSUME NEW s \in Streams PROVE Exact(s)'
      BY DEF RefsAreExact, Exact, Num
    <3>1. \A u \in Owners : Holds(u, s)' <=> Holds(u, s)
      BY <1>2
         DEF NextTarget, StartWrite, Goto, Types, Labels, Owners, Senders, Threads,
             Holds, Sending
    <3>2. Owned(s)' <=> Owned(s)
      BY <1>2 DEF NextTarget, StartWrite, Goto, objects, Labels, Threads, Owned
    <3>3. UNCHANGED refs
      BY <1>2 DEF NextTarget, objects
    <3> QED
      BY <3>1, <3>2, <3>3, Unmoved
  <2> QED
    BY <2>1, <2>2, <2>3, <2>4, <2>5, <2>6, <2>7
<1>3. ASSUME EndWrite(t) PROVE IInv'
  <2>1. Types'
    BY <1>3 DEF EndWrite, sends, Types, SendInv
  <2>2. Labels'
    BY <1>3
       DEF EndWrite, Goto, Labels, Sends, CoreLabels, PtyLabels, MainLabels,
           MonitorLabels, ReaderLabels, Threads
  <2>3. SendInv'
    BY <1>3 DEF EndWrite, Goto, sends, Sends, SendInv
  <2>4. MonitorInv'
    BY <1>3 DEF EndWrite, Goto, sends, MonitorInv
  <2>5. MainInv'
    BY <1>3 DEF EndWrite, Goto, sends, MainInv
  <2>6. FreeInv'
    BY <1>3 DEF EndWrite, Goto, sends, FreeInv, Joins
  <2>7. RefsAreExact'
    <3> SUFFICES ASSUME NEW s \in Streams PROVE Exact(s)'
      BY DEF RefsAreExact, Exact, Num
    <3>1. \A u \in Owners : Holds(u, s)' <=> Holds(u, s)
      BY <1>3 DEF EndWrite, Goto, sends, Holds, Sending
    <3>2. Owned(s)' <=> Owned(s)
      BY <1>3 DEF EndWrite, Goto, sends, Owned
    <3>3. UNCHANGED refs
      BY <1>3 DEF EndWrite
    <3> QED
      BY <3>1, <3>2, <3>3, Unmoved
  <2> QED
    BY <2>1, <2>2, <2>3, <2>4, <2>5, <2>6, <2>7
<1>4. ASSUME ReleaseTarget(t) PROVE IInv'
  <2>0. target[t] \in Streams /\ refs[target[t]] >= 1
    BY <1>4, Counted DEF ReleaseTarget, SendInv, Holds, Sending, Owners, Senders, Plain
  <2>1. Types'
    BY <1>4, <2>0 DEF ReleaseTarget, Release, sends, locks, Types
  <2>2. Labels'
    BY <1>4
       DEF ReleaseTarget, Release, Goto, Labels, Sends, CoreLabels, PtyLabels,
           MainLabels, ReaderLabels, Threads
  <2>3. SendInv'
    BY <1>4 DEF ReleaseTarget, Release, Goto, sends, Sends, SendInv
  <2>4. MonitorInv'
    BY <1>4 DEF ReleaseTarget, Release, Goto, sends, MonitorInv
  <2>5. MainInv'
    BY <1>4 DEF ReleaseTarget, Release, Goto, sends, MainInv
  <2>6. FreeInv'
    <3>1. target' = [target EXCEPT ![t] = target[t]]
      BY <1>4 DEF ReleaseTarget, sends, Types
    <3> QED
      BY <1>4, <2>0, <3>1, ReleaseKeeps, OwnerNames DEF ReleaseTarget, Joins
  <2>7. RefsAreExact'
    <3> SUFFICES ASSUME NEW s \in Streams PROVE Exact(s)'
      BY DEF RefsAreExact, Exact, Num
    <3>1. \A u \in Owners \ {t} : Holds(u, s)' <=> Holds(u, s)
      BY <1>4 DEF ReleaseTarget, Release, Goto, sends, Holds, Sending
    <3>2. refs'[s] + Num(Holds(t, s)) + Num(Owned(s))
              = refs[s] + Num(Holds(t, s)') + Num(Owned(s)')
      BY <1>4
         DEF ReleaseTarget, Release, Goto, sends, Types, Labels, Threads, Plain, Holds,
             Sending, Owned, Num, SendInv
    <3>3. Exact(s)
      BY ExactAll
    <3> QED
      BY <2>1, <3>1, <3>2, <3>3, OwnerNames, Counting
  <2> QED
    BY <2>1, <2>2, <2>3, <2>4, <2>5, <2>6, <2>7
<1>5. ASSUME JoinTarget(t) PROVE IInv'
  <2>1. Types'
    BY <1>5 DEF JoinTarget, Join, sends, locks, Types, SendInv
  <2>2. Labels'
    BY <1>5
       DEF JoinTarget, Join, Goto, Labels, Sends, CoreLabels, PtyLabels, MainLabels,
           MonitorLabels, ReaderLabels, Threads
  <2>3. SendInv'
    BY <1>5 DEF JoinTarget, Join, Goto, sends, Sends, SendInv
  <2>4. MonitorInv'
    BY <1>5 DEF JoinTarget, Join, Goto, sends, Plain, MonitorInv
  <2>5. MainInv'
    BY <1>5 DEF JoinTarget, Join, Goto, sends, MainInv
  <2>6. FreeInv'
    BY <1>5 DEF JoinTarget, Join, Goto, sends, Threads, Plain, FreeInv, Joins
  <2>7. RefsAreExact'
    <3> SUFFICES ASSUME NEW s \in Streams PROVE Exact(s)'
      BY DEF RefsAreExact, Exact, Num
    <3>1. \A u \in Owners : Holds(u, s)' <=> Holds(u, s)
      BY <1>5 DEF JoinTarget, Join, Goto, sends, Holds, Sending
    <3>2. Owned(s)' <=> Owned(s)
      BY <1>5 DEF JoinTarget, Join, Goto, sends, Owned
    <3>3. UNCHANGED refs
      BY <1>5 DEF JoinTarget, Join
    <3> QED
      BY <3>1, <3>2, <3>3, Unmoved
  <2> QED
    BY <2>1, <2>2, <2>3, <2>4, <2>5, <2>6, <2>7
<1> QED
  BY <1>1, <1>2, <1>3, <1>4, <1>5 DEF Send

LEMMA PtyKeeps ==
  ASSUME IInv, PtyFeed \/ PtyFed \/ PtyExit
  PROVE  IInv'
<1> USE Names DEF IInv
<1>1. ASSUME PtyFeed PROVE IInv'
  <2>1. Types'
    BY <1>1 DEF PtyFeed, objects, Types, Threads, Frames
  <2>2. Labels'
    BY <1>1 DEF PtyFeed, Goto, Labels, PtyLabels, Threads
  <2>3. SendInv'
    BY <1>1 DEF PtyFeed, Goto, Sends, SendInv
  <2>4. MonitorInv'
    BY <1>1 DEF PtyFeed, Goto, objects, MonitorInv
  <2>5. MainInv'
    BY <1>1 DEF PtyFeed, Goto, MainInv
  <2>6. FreeInv'
    BY <1>1 DEF PtyFeed, Goto, objects, FreeInv, Joins
  <2>7. RefsAreExact'
    <3> SUFFICES ASSUME NEW s \in Streams PROVE Exact(s)'
      BY DEF RefsAreExact, Exact, Num
    <3>1. \A u \in Owners : Holds(u, s)' <=> Holds(u, s)
      BY <1>1 DEF PtyFeed, Goto, Holds, Sending
    <3>2. Owned(s)' <=> Owned(s)
      BY <1>1 DEF PtyFeed, Goto, objects, Owned
    <3>3. UNCHANGED refs
      BY <1>1 DEF PtyFeed, objects
    <3> QED
      BY <3>1, <3>2, <3>3, Unmoved
  <2> QED
    BY <2>1, <2>2, <2>3, <2>4, <2>5, <2>6, <2>7
<1>2. ASSUME PtyFed PROVE IInv'
  <2>1. Types'
    BY <1>2 DEF PtyFed, objects, sends, Types
  <2>2. Labels'
    BY <1>2 DEF PtyFed, Goto, Labels, PtyLabels, Threads
  <2>3. SendInv'
    BY <1>2 DEF PtyFed, Goto, sends, SendInv
  <2>4. MonitorInv'
    BY <1>2 DEF PtyFed, Goto, objects, sends, MonitorInv
  <2>5. MainInv'
    BY <1>2 DEF PtyFed, Goto, sends, MainInv
  <2>6. FreeInv'
    BY <1>2 DEF PtyFed, Goto, objects, sends, FreeInv, Joins
  <2>7. RefsAreExact'
    <3> SUFFICES ASSUME NEW s \in Streams PROVE Exact(s)'
      BY DEF RefsAreExact, Exact, Num
    <3>1. \A u \in Owners : Holds(u, s)' <=> Holds(u, s)
      BY <1>2 DEF PtyFed, Goto, sends, Holds, Sending
    <3>2. Owned(s)' <=> Owned(s)
      BY <1>2 DEF PtyFed, Goto, objects, sends, Owned
    <3>3. UNCHANGED refs
      BY <1>2 DEF PtyFed, objects
    <3> QED
      BY <3>1, <3>2, <3>3, Unmoved
  <2> QED
    BY <2>1, <2>2, <2>3, <2>4, <2>5, <2>6, <2>7
<1>3. ASSUME PtyExit PROVE IInv'
  <2>1. Types'
    BY <1>3 DEF PtyExit, objects, sends, locks, Types
  <2>2. Labels'
    BY <1>3 DEF PtyExit, Goto, Labels, PtyLabels, Threads
  <2>3. SendInv'
    BY <1>3 DEF PtyExit, Goto, sends, Sends, SendInv
  <2>4. MonitorInv'
    BY <1>3 DEF PtyExit, Goto, objects, sends, MonitorInv
  <2>5. MainInv'
    BY <1>3 DEF PtyExit, Goto, sends, MainInv
  <2>6. FreeInv'
    BY <1>3 DEF PtyExit, Goto, objects, sends, FreeInv, Joins
  <2>7. RefsAreExact'
    <3> SUFFICES ASSUME NEW s \in Streams PROVE Exact(s)'
      BY DEF RefsAreExact, Exact, Num
    <3>1. \A u \in Owners : Holds(u, s)' <=> Holds(u, s)
      BY <1>3 DEF PtyExit, Goto, sends, Holds, Sending
    <3>2. Owned(s)' <=> Owned(s)
      BY <1>3 DEF PtyExit, Goto, objects, sends, Owned
    <3>3. UNCHANGED refs
      BY <1>3 DEF PtyExit, objects
    <3> QED
      BY <3>1, <3>2, <3>3, Unmoved
  <2> QED
    BY <2>1, <2>2, <2>3, <2>4, <2>5, <2>6, <2>7
<1> QED
  BY <1>1, <1>2, <1>3

\* The other steps of the reader of stream r.
LEMMA ReaderKeeps ==
  ASSUME IInv, NEW r \in Streams, Reader(r)
  PROVE  IInv'
<1> USE Names DEF IInv
<1>1. ASSUME ReadResolve(r) PROVE IInv'
  <2>1. Types'
    BY <1>1 DEF ReadResolve, objects, sends, locks, Types
  <2>2. Labels'
    BY <1>1 DEF ReadResolve, Goto, Labels, ReaderLabels, Threads
  <2>3. SendInv'
    BY <1>1 DEF ReadResolve, Goto, sends, Sends, SendInv
  <2>4. MonitorInv'
    BY <1>1 DEF ReadResolve, Goto, objects, sends, MonitorInv
  <2>5. MainInv'
    BY <1>1 DEF ReadResolve, Goto, sends, MainInv
  <2>6. FreeInv'
    BY <1>1 DEF ReadResolve, Goto, objects, sends, FreeInv, Joins
  <2>7. RefsAreExact'
    <3> SUFFICES ASSUME NEW s \in Streams PROVE Exact(s)'
      BY DEF RefsAreExact, Exact, Num
    <3>1. \A u \in Owners : Holds(u, s)' <=> Holds(u, s)
      BY <1>1 DEF ReadResolve, Goto, sends, Holds, Sending
    <3>2. Owned(s)' <=> Owned(s)
      BY <1>1 DEF ReadResolve, Goto, objects, Owned
    <3>3. UNCHANGED refs
      BY <1>1 DEF ReadResolve, objects
    <3> QED
      BY <3>1, <3>2, <3>3, Unmoved
  <2> QED
    BY <2>1, <2>2, <2>3, <2>4, <2>5, <2>6, <2>7
<1>2. ASSUME ReaderEnds(r) PROVE IInv'
  <2>1. Types'
    BY <1>2 DEF ReaderEnds, sends, locks, Types
  <2>2. Labels'
    BY <1>2 DEF ReaderEnds, Goto, Labels, ReaderLabels, Threads
  <2>3. SendInv'
    BY <1>2 DEF ReaderEnds, Goto, sends, Sends, SendInv
  <2>4. MonitorInv'
    BY <1>2 DEF ReaderEnds, Goto, sends, MonitorInv
  <2>5. MainInv'
    BY <1>2 DEF ReaderEnds, Goto, sends, MainInv
  <2>6. FreeInv'
    BY <1>2 DEF ReaderEnds, Goto, sends, FreeInv, Joins
  <2>7. RefsAreExact'
    <3> SUFFICES ASSUME NEW s \in Streams PROVE Exact(s)'
      BY DEF RefsAreExact, Exact, Num
    <3>1. \A u \in Owners : Holds(u, s)' <=> Holds(u, s)
      BY <1>2 DEF ReaderEnds, Goto, sends, Holds, Sending
    <3>2. Owned(s)' <=> Owned(s)
      BY <1>2 DEF ReaderEnds, Goto, sends, Owned
    <3>3. UNCHANGED refs
      BY <1>2 DEF ReaderEnds
    <3> QED
      BY <3>1, <3>2, <3>3, Unmoved
  <2> QED
    BY <2>1, <2>2, <2>3, <2>4, <2>5, <2>6, <2>7
<1>3. ASSUME ResolveLockA(r) PROVE IInv'
  <2>1. Types'
    BY <1>3 DEF ResolveLockA, objects, sends, Types, Threads
  <2>2. Labels'
    BY <1>3 DEF ResolveLockA, Goto, Labels, ReaderLabels, Threads
  <2>3. SendInv'
    BY <1>3 DEF ResolveLockA, Goto, sends, Labels, Sends, Threads, Plain, SendInv
  <2>4. MonitorInv'
    BY <1>3 DEF ResolveLockA, Goto, objects, sends, Labels, Threads, MonitorInv
  <2>5. MainInv'
    BY <1>3 DEF ResolveLockA, Goto, objects, sends, Labels, Threads, MainInv
  <2>6. FreeInv'
    BY <1>3 DEF ResolveLockA, Goto, objects, sends, Labels, Threads, FreeInv, Joins
  <2>7. RefsAreExact'
    <3> SUFFICES ASSUME NEW s \in Streams PROVE Exact(s)'
      BY DEF RefsAreExact, Exact, Num
    <3>1. \A u \in Owners : Holds(u, s)' <=> Holds(u, s)
      BY <1>3
         DEF ResolveLockA, Goto, sends, Labels, Owners, Senders, Threads, Holds,
             Sending
    <3>2. Owned(s)' <=> Owned(s)
      BY <1>3 DEF ResolveLockA, Goto, objects, sends, Labels, Threads, Owned
    <3>3. UNCHANGED refs
      BY <1>3 DEF ResolveLockA, objects
    <3> QED
      BY <3>1, <3>2, <3>3, Unmoved
  <2> QED
    BY <2>1, <2>2, <2>3, <2>4, <2>5, <2>6, <2>7
<1>4. ASSUME ResolveLockD(r) PROVE IInv'
  <2>1. Types'
    BY <1>4 DEF ResolveLockD, objects, Types, Threads, Frames
  <2>2. Labels'
    BY <1>4 DEF ResolveLockD, Goto, Labels, ReaderLabels, Threads
  <2>3. SendInv'
    BY <1>4 DEF ResolveLockD, Goto, Labels, Sends, Threads, Plain, SendInv
  <2>4. MonitorInv'
    BY <1>4 DEF ResolveLockD, Goto, objects, Types, Labels, Senders, Threads, MonitorInv
  <2>5. MainInv'
    BY <1>4 DEF ResolveLockD, Goto, objects, Labels, Threads, MainInv
  <2>6. FreeInv'
    BY <1>4 DEF ResolveLockD, Goto, objects, Labels, Threads, FreeInv, Joins
  <2>7. RefsAreExact'
    <3> SUFFICES ASSUME NEW s \in Streams PROVE Exact(s)'
      BY DEF RefsAreExact, Exact, Num
    <3>1. \A u \in Owners : Holds(u, s)' <=> Holds(u, s)
      BY <1>4 DEF ResolveLockD, Goto, Labels, Owners, Senders, Threads, Holds, Sending
    <3>2. Owned(s)' <=> Owned(s)
      BY <1>4 DEF ResolveLockD, Goto, objects, Labels, Threads, Owned
    <3>3. UNCHANGED refs
      BY <1>4 DEF ResolveLockD, objects
    <3> QED
      BY <3>1, <3>2, <3>3, Unmoved
  <2> QED
    BY <2>1, <2>2, <2>3, <2>4, <2>5, <2>6, <2>7
<1>5. ASSUME ResolveDone(r) PROVE IInv'
  <2>1. Types'
    BY <1>5 DEF ResolveDone, objects, sends, Types
  <2>2. Labels'
    BY <1>5 DEF ResolveDone, Goto, Labels, ReaderLabels, Threads
  <2>3. SendInv'
    BY <1>5 DEF ResolveDone, Goto, sends, SendInv
  <2>4. MonitorInv'
    BY <1>5 DEF ResolveDone, Goto, objects, sends, MonitorInv
  <2>5. MainInv'
    BY <1>5 DEF ResolveDone, Goto, objects, sends, MainInv
  <2>6. FreeInv'
    BY <1>5 DEF ResolveDone, Goto, objects, sends, FreeInv, Joins
  <2>7. RefsAreExact'
    <3> SUFFICES ASSUME NEW s \in Streams PROVE Exact(s)'
      BY DEF RefsAreExact, Exact, Num
    <3>1. \A u \in Owners : Holds(u, s)' <=> Holds(u, s)
      BY <1>5 DEF ResolveDone, Goto, sends, Holds, Sending
    <3>2. Owned(s)' <=> Owned(s)
      BY <1>5 DEF ResolveDone, Goto, objects, sends, Owned
    <3>3. UNCHANGED refs
      BY <1>5 DEF ResolveDone, objects
    <3> QED
      BY <3>1, <3>2, <3>3, Unmoved
  <2> QED
    BY <2>1, <2>2, <2>3, <2>4, <2>5, <2>6, <2>7
<1>6. ASSUME ReaderLoop(r) PROVE IInv'
  <2>1. Types'
    BY <1>6 DEF ReaderLoop, objects, sends, locks, Types
  <2>2. Labels'
    BY <1>6 DEF ReaderLoop, Goto, Labels, ReaderLabels, Threads
  <2>3. SendInv'
    BY <1>6 DEF ReaderLoop, Goto, sends, Labels, Sends, Threads, Plain, SendInv
  <2>4. MonitorInv'
    BY <1>6 DEF ReaderLoop, Goto, objects, sends, Labels, Threads, MonitorInv
  <2>5. MainInv'
    BY <1>6 DEF ReaderLoop, Goto, objects, sends, Labels, Threads, MainInv
  <2>6. FreeInv'
    BY <1>6 DEF ReaderLoop, Goto, objects, sends, Labels, Threads, FreeInv, Joins
  <2>7. RefsAreExact'
    <3> SUFFICES ASSUME NEW s \in Streams PROVE Exact(s)'
      BY DEF RefsAreExact, Exact, Num
    <3>1. \A u \in Owners : Holds(u, s)' <=> Holds(u, s)
      BY <1>6
         DEF ReaderLoop, Goto, sends, Labels, Owners, Senders, Threads, Holds, Sending
    <3>2. Owned(s)' <=> Owned(s)
      BY <1>6 DEF ReaderLoop, Goto, objects, sends, Labels, Threads, Owned
    <3>3. UNCHANGED refs
      BY <1>6 DEF ReaderLoop, objects
    <3> QED
      BY <3>1, <3>2, <3>3, Unmoved
  <2> QED
    BY <2>1, <2>2, <2>3, <2>4, <2>5, <2>6, <2>7
<1> QED
  BY <1>1, <1>2, <1>3, <1>4, <1>5, <1>6, SendKeeps
     DEF Reader, ReadFails, ReadBadFrame, Plain

LEMMA MonitorKeeps ==
  ASSUME IInv, Monitor
  PROVE  IInv'
<1> USE Names DEF IInv
<1>1. ASSUME MonitorRound PROVE IInv'
  <2>1. Types'
    BY <1>1 DEF MonitorRound, objects, sends, locks, Types
  <2>2. Labels'
    BY <1>1 DEF MonitorRound, Goto, Labels, MonitorLabels, Threads
  <2>3. SendInv'
    BY <1>1 DEF MonitorRound, Goto, sends, Labels, Threads, Plain, SendInv
  <2>4. MonitorInv'
    BY <1>1 DEF MonitorRound, Goto, sends, Labels, MonitorInv
  <2>5. MainInv'
    BY <1>1 DEF MonitorRound, Goto, sends, Labels, Threads, MainInv
  <2>6. FreeInv'
    BY <1>1 DEF MonitorRound, Goto, objects, sends, Labels, Threads, FreeInv, Joins
  <2>7. RefsAreExact'
    <3> SUFFICES ASSUME NEW s \in Streams PROVE Exact(s)'
      BY DEF RefsAreExact, Exact, Num
    <3>1. \A u \in Owners : Holds(u, s)' <=> Holds(u, s)
      BY <1>1
         DEF MonitorRound, Goto, sends, Labels, Owners, Senders, Threads, Holds,
             Sending
    <3>2. Owned(s)' <=> Owned(s)
      BY <1>1 DEF MonitorRound, Goto, objects, sends, Labels, Threads, Owned
    <3>3. UNCHANGED refs
      BY <1>1 DEF MonitorRound, objects
    <3> QED
      BY <3>1, <3>2, <3>3, Unmoved
  <2> QED
    BY <2>1, <2>2, <2>3, <2>4, <2>5, <2>6, <2>7
<1>2. ASSUME SessionCollect PROVE IInv'
  <2>1. Types'
    BY <1>2 DEF SessionCollect, Retain, locks, Types, Owners, Senders, Frames
  <2>2. Labels'
    BY <1>2 DEF SessionCollect, Goto, Labels, MonitorLabels, Threads
  <2>3. SendInv'
    BY <1>2 DEF SessionCollect, Goto, Plain, SendInv
  <2>4. MonitorInv'
    BY <1>2
       DEF SessionCollect, OpenListed, Goto, Types, Labels, Senders, Threads,
           MonitorInv
  <2>5. MainInv'
    BY <1>2 DEF SessionCollect, Goto, MainInv
  <2>6. FreeInv'
    <3>1. \A s \in Streams : refs[s] = 0 => refs'[s] = 0
      BY <1>2, RetainKeeps DEF SessionCollect, OpenListed
    <3> QED
      BY <1>2, <3>1 DEF SessionCollect, Goto, Types, FreeInv, Joins
  <2>7. RefsAreExact'
    <3> SUFFICES ASSUME NEW s \in Streams PROVE Exact(s)'
      BY DEF RefsAreExact, Exact, Num
    <3>1. \A u \in Owners \ {"monitor"} : Holds(u, s)' <=> Holds(u, s)
      BY <1>2 DEF SessionCollect, Goto, Holds, Sending
    <3>2. refs'[s] + Num(Holds("monitor", s)) + Num(Owned(s))
              = refs[s] + Num(Holds("monitor", s)') + Num(Owned(s)')
      BY <1>2 DEF SessionCollect, Retain, Goto, Types, Holds, Owned, Num, MonitorInv
    <3>3. Exact(s)
      BY ExactAll
    <3> QED
      BY <2>1, <3>1, <3>2, <3>3, OwnerNames, Counting
  <2> QED
    BY <2>1, <2>2, <2>3, <2>4, <2>5, <2>6, <2>7
<1>3. ASSUME Broadcast PROVE IInv'
  <2>1. Types'
    BY <1>3 DEF Broadcast, OpenListed, objects, locks, Types
  <2>2. Labels'
    BY <1>3 DEF Broadcast, Goto, Labels, MonitorLabels, Threads
  <2>3. SendInv'
    BY <1>3 DEF Broadcast, Goto, Plain, SendInv
  <2>4. MonitorInv'
    BY <1>3 DEF Broadcast, OpenListed, Goto, objects, Labels, Threads, MonitorInv
  <2>5. MainInv'
    BY <1>3 DEF Broadcast, Goto, MainInv
  <2>6. FreeInv'
    BY <1>3 DEF Broadcast, Goto, objects, FreeInv, Joins
  <2>7. RefsAreExact'
    <3> SUFFICES ASSUME NEW s \in Streams PROVE Exact(s)'
      BY DEF RefsAreExact, Exact, Num
    <3>1. \A u \in Owners : Holds(u, s)' <=> Holds(u, s)
      BY <1>3 DEF Broadcast, Goto, Holds, Sending
    <3>2. Owned(s)' <=> Owned(s)
      BY <1>3 DEF Broadcast, Goto, objects, Owned
    <3>3. UNCHANGED refs
      BY <1>3 DEF Broadcast, objects
    <3> QED
      BY <3>1, <3>2, <3>3, Unmoved
  <2> QED
    BY <2>1, <2>2, <2>3, <2>4, <2>5, <2>6, <2>7
<1>4. ASSUME SessionsSent PROVE IInv'
  <2>1. Types'
    BY <1>4 DEF SessionsSent, objects, sends, locks, Types
  <2>2. Labels'
    BY <1>4 DEF SessionsSent, Goto, Labels, MonitorLabels, Threads
  <2>3. SendInv'
    BY <1>4 DEF SessionsSent, Goto, sends, SendInv
  <2>4. MonitorInv'
    BY <1>4 DEF SessionsSent, Goto, sends, MonitorInv
  <2>5. MainInv'
    BY <1>4 DEF SessionsSent, Goto, sends, MainInv
  <2>6. FreeInv'
    BY <1>4 DEF SessionsSent, Goto, objects, sends, FreeInv, Joins
  <2>7. RefsAreExact'
    <3> SUFFICES ASSUME NEW s \in Streams PROVE Exact(s)'
      BY DEF RefsAreExact, Exact, Num
    <3>1. \A u \in Owners : Holds(u, s)' <=> Holds(u, s)
      BY <1>4 DEF SessionsSent, Goto, sends, Holds, Sending
    <3>2. Owned(s)' <=> Owned(s)
      BY <1>4 DEF SessionsSent, Goto, objects, sends, Owned
    <3>3. UNCHANGED refs
      BY <1>4 DEF SessionsSent, objects
    <3> QED
      BY <3>1, <3>2, <3>3, Unmoved
  <2> QED
    BY <2>1, <2>2, <2>3, <2>4, <2>5, <2>6, <2>7
<1>5. ASSUME PromptCollect PROVE IInv'
  <2>1. Types'
    BY <1>5 DEF PromptCollect, Retain, locks, Types, Senders, Frames
  <2>2. Labels'
    BY <1>5 DEF PromptCollect, Goto, Labels, MonitorLabels, Threads
  <2>3. SendInv'
    BY <1>5 DEF PromptCollect, Goto, Plain, SendInv
  <2>4. MonitorInv'
    BY <1>5 DEF PromptCollect, Goto, Types, Senders, MonitorInv
  <2>5. MainInv'
    BY <1>5 DEF PromptCollect, Goto, MainInv
  <2>6. FreeInv'
    <3>1. \A s \in Streams : refs[s] = 0 => refs'[s] = 0
      BY <1>5, RetainKeeps DEF PromptCollect, OpenListed
    <3> QED
      BY <1>5, <3>1 DEF PromptCollect, Goto, Types, FreeInv, Joins
  <2>7. RefsAreExact'
    <3> SUFFICES ASSUME NEW s \in Streams PROVE Exact(s)'
      BY DEF RefsAreExact, Exact, Num
    <3>1. \A u \in Owners \ {"monitor"} : Holds(u, s)' <=> Holds(u, s)
      BY <1>5 DEF PromptCollect, Goto, Holds, Sending
    <3>2. refs'[s] + Num(Holds("monitor", s)) + Num(Owned(s))
              = refs[s] + Num(Holds("monitor", s)') + Num(Owned(s)')
      BY <1>5 DEF PromptCollect, Retain, Goto, Types, Holds, Owned, Num
    <3>3. Exact(s)
      BY ExactAll
    <3> QED
      BY <2>1, <3>1, <3>2, <3>3, OwnerNames, Counting
  <2> QED
    BY <2>1, <2>2, <2>3, <2>4, <2>5, <2>6, <2>7
<1>6. ASSUME PromptNext PROVE IInv'
  <2>1. Types'
    BY <1>6 DEF PromptNext, objects, Types, Threads
  <2>2. Labels'
    BY <1>6 DEF PromptNext, Goto, Labels, MonitorLabels, Threads
  <2>3. SendInv'
    BY <1>6 DEF PromptNext, Goto, Plain, SendInv
  <2>4. MonitorInv'
    BY <1>6 DEF PromptNext, Goto, Types, Threads, MonitorInv
  <2>5. MainInv'
    BY <1>6 DEF PromptNext, Goto, MainInv
  <2>6. FreeInv'
    BY <1>6 DEF PromptNext, Goto, objects, FreeInv, Joins
  <2>7. RefsAreExact'
    <3> SUFFICES ASSUME NEW s \in Streams PROVE Exact(s)'
      BY DEF RefsAreExact, Exact, Num
    <3>1. \A u \in Owners : Holds(u, s)' <=> Holds(u, s)
      BY <1>6 DEF PromptNext, Goto, Holds, Sending
    <3>2. Owned(s)' <=> Owned(s)
      BY <1>6 DEF PromptNext, Goto, objects, Owned
    <3>3. UNCHANGED refs
      BY <1>6 DEF PromptNext, objects
    <3> QED
      BY <3>1, <3>2, <3>3, Unmoved
  <2> QED
    BY <2>1, <2>2, <2>3, <2>4, <2>5, <2>6, <2>7
<1>7. ASSUME PromptCopy PROVE IInv'
  <2>1. Types'
    BY <1>7 DEF PromptCopy, objects, sends, Types
  <2>2. Labels'
    BY <1>7 DEF PromptCopy, Goto, Labels, MonitorLabels, Threads
  <2>3. SendInv'
    BY <1>7 DEF PromptCopy, Goto, sends, Plain, SendInv
  <2>4. MonitorInv'
    BY <1>7 DEF PromptCopy, Goto, sends, MonitorInv
  <2>5. MainInv'
    BY <1>7 DEF PromptCopy, Goto, sends, MainInv
  <2>6. FreeInv'
    BY <1>7 DEF PromptCopy, Goto, objects, sends, FreeInv, Joins
  <2>7. RefsAreExact'
    <3> SUFFICES ASSUME NEW s \in Streams PROVE Exact(s)'
      BY DEF RefsAreExact, Exact, Num
    <3>1. \A u \in Owners : Holds(u, s)' <=> Holds(u, s)
      BY <1>7 DEF PromptCopy, Goto, sends, Holds, Sending
    <3>2. Owned(s)' <=> Owned(s)
      BY <1>7 DEF PromptCopy, Goto, objects, sends, Owned
    <3>3. UNCHANGED refs
      BY <1>7 DEF PromptCopy, objects
    <3> QED
      BY <3>1, <3>2, <3>3, Unmoved
  <2> QED
    BY <2>1, <2>2, <2>3, <2>4, <2>5, <2>6, <2>7
<1>8. ASSUME PromptSend PROVE IInv'
  <2>1. Types'
    BY <1>8 DEF PromptSend, StartWrite, objects, sends, Types, Senders
  <2>2. Labels'
    BY <1>8 DEF PromptSend, StartWrite, Goto, Labels, MonitorLabels, Threads
  <2>3. SendInv'
    BY <1>8 DEF PromptSend, StartWrite, Goto, sends, Labels, Threads, Plain, SendInv
  <2>4. MonitorInv'
    BY <1>8 DEF PromptSend, StartWrite, Goto, sends, Labels, MonitorInv
  <2>5. MainInv'
    BY <1>8 DEF PromptSend, StartWrite, Goto, sends, Labels, Threads, MainInv
  <2>6. FreeInv'
    BY <1>8
       DEF PromptSend, StartWrite, Goto, objects, sends, Labels, Threads, FreeInv,
           Joins
  <2>7. RefsAreExact'
    <3> SUFFICES ASSUME NEW s \in Streams PROVE Exact(s)'
      BY DEF RefsAreExact, Exact, Num
    <3>1. \A u \in Owners : Holds(u, s)' <=> Holds(u, s)
      BY <1>8
         DEF PromptSend, StartWrite, Goto, sends, Labels, Owners, Senders, Threads,
             Holds, Sending
    <3>2. Owned(s)' <=> Owned(s)
      BY <1>8 DEF PromptSend, StartWrite, Goto, objects, sends, Labels, Threads, Owned
    <3>3. UNCHANGED refs
      BY <1>8 DEF PromptSend, objects
    <3> QED
      BY <3>1, <3>2, <3>3, Unmoved
  <2> QED
    BY <2>1, <2>2, <2>3, <2>4, <2>5, <2>6, <2>7
<1>9. ASSUME PurgeLock PROVE IInv'
  <2>1. Types'
    BY <1>9 DEF PurgeLock, objects, sends, Types, Threads
  <2>2. Labels'
    BY <1>9 DEF PurgeLock, Goto, Labels, MonitorLabels, Threads
  <2>3. SendInv'
    BY <1>9 DEF PurgeLock, Goto, sends, Plain, SendInv
  <2>4. MonitorInv'
    BY <1>9 DEF PurgeLock, Goto, sends, MonitorInv
  <2>5. MainInv'
    BY <1>9 DEF PurgeLock, Goto, sends, MainInv
  <2>6. FreeInv'
    BY <1>9 DEF PurgeLock, Goto, objects, sends, FreeInv, Joins
  <2>7. RefsAreExact'
    <3> SUFFICES ASSUME NEW s \in Streams PROVE Exact(s)'
      BY DEF RefsAreExact, Exact, Num
    <3>1. \A u \in Owners : Holds(u, s)' <=> Holds(u, s)
      BY <1>9 DEF PurgeLock, Goto, sends, Holds, Sending
    <3>2. Owned(s)' <=> Owned(s)
      BY <1>9 DEF PurgeLock, Goto, objects, sends, Owned
    <3>3. UNCHANGED refs
      BY <1>9 DEF PurgeLock, objects
    <3> QED
      BY <3>1, <3>2, <3>3, Unmoved
  <2> QED
    BY <2>1, <2>2, <2>3, <2>4, <2>5, <2>6, <2>7
<1>10. ASSUME PurgeEnd PROVE IInv'
  <2>1. Types'
    BY <1>10 DEF PurgeEnd, objects, sends, Types
  <2>2. Labels'
    BY <1>10 DEF PurgeEnd, Goto, Labels, MonitorLabels, Threads
  <2>3. SendInv'
    BY <1>10 DEF PurgeEnd, Goto, sends, Plain, SendInv
  <2>4. MonitorInv'
    BY <1>10 DEF PurgeEnd, Goto, sends, MonitorInv
  <2>5. MainInv'
    BY <1>10 DEF PurgeEnd, Goto, sends, MainInv
  <2>6. FreeInv'
    BY <1>10 DEF PurgeEnd, Goto, objects, sends, FreeInv, Joins
  <2>7. RefsAreExact'
    <3> SUFFICES ASSUME NEW s \in Streams PROVE Exact(s)'
      BY DEF RefsAreExact, Exact, Num
    <3>1. \A u \in Owners : Holds(u, s)' <=> Holds(u, s)
      BY <1>10 DEF PurgeEnd, Goto, sends, Holds, Sending
    <3>2. Owned(s)' <=> Owned(s)
      BY <1>10 DEF PurgeEnd, Goto, objects, sends, Owned
    <3>3. UNCHANGED refs
      BY <1>10 DEF PurgeEnd, objects
    <3> QED
      BY <3>1, <3>2, <3>3, Unmoved
  <2> QED
    BY <2>1, <2>2, <2>3, <2>4, <2>5, <2>6, <2>7
<1>11. ASSUME MonitorJoin PROVE IInv'
  <2>1. Types'
    BY <1>11 DEF MonitorJoin, Join, sends, locks, Types, Threads, FreeInv, Joins
  <2>2. Labels'
    BY <1>11 DEF MonitorJoin, Join, Goto, Labels, MonitorLabels, Threads
  <2>3. SendInv'
    BY <1>11 DEF MonitorJoin, Join, Goto, sends, Plain, SendInv
  <2>4. MonitorInv'
    BY <1>11 DEF MonitorJoin, Join, Goto, sends, MonitorInv
  <2>5. MainInv'
    BY <1>11 DEF MonitorJoin, Join, Goto, sends, MainInv
  <2>6. FreeInv'
    BY <1>11 DEF MonitorJoin, Join, Goto, sends, Threads, FreeInv, Joins
  <2>7. RefsAreExact'
    <3> SUFFICES ASSUME NEW s \in Streams PROVE Exact(s)'
      BY DEF RefsAreExact, Exact, Num
    <3>1. \A u \in Owners : Holds(u, s)' <=> Holds(u, s)
      BY <1>11 DEF MonitorJoin, Join, Goto, sends, Holds, Sending
    <3>2. Owned(s)' <=> Owned(s)
      BY <1>11 DEF MonitorJoin, Join, Goto, sends, Owned
    <3>3. UNCHANGED refs
      BY <1>11 DEF MonitorJoin, Join
    <3> QED
      BY <3>1, <3>2, <3>3, Unmoved
  <2> QED
    BY <2>1, <2>2, <2>3, <2>4, <2>5, <2>6, <2>7
<1>12. ASSUME NextTarget("monitor") PROVE IInv'
  <2>1. Types'
    BY <1>12 DEF NextTarget, StartWrite, objects, Types, Owners, Senders, Threads
  <2>2. Labels'
    BY <1>12 DEF NextTarget, StartWrite, Goto, Labels, MonitorLabels, Threads
  <2>3. SendInv'
    BY <1>12 DEF NextTarget, StartWrite, Goto, Labels, Threads, Plain, SendInv
  <2>4. MonitorInv'
    BY <1>12 DEF NextTarget, StartWrite, Goto, objects, Types, Labels, MonitorInv
  <2>5. MainInv'
    BY <1>12 DEF NextTarget, StartWrite, Goto, Labels, Threads, MainInv
  <2>6. FreeInv'
    BY <1>12 DEF NextTarget, StartWrite, Goto, objects, Labels, Threads, FreeInv, Joins
  <2>7. RefsAreExact'
    <3> SUFFICES ASSUME NEW s \in Streams PROVE Exact(s)'
      BY DEF RefsAreExact, Exact, Num
    <3>1. \A u \in Owners : Holds(u, s)' <=> Holds(u, s)
      BY <1>12
         DEF NextTarget, StartWrite, Goto, Labels, Owners, Senders, Threads, Holds,
             Sending
    <3>2. Owned(s)' <=> Owned(s)
      BY <1>12 DEF NextTarget, StartWrite, Goto, objects, Labels, Threads, Owned
    <3>3. UNCHANGED refs
      BY <1>12 DEF NextTarget, objects
    <3> QED
      BY <3>1, <3>2, <3>3, Unmoved
  <2> QED
    BY <2>1, <2>2, <2>3, <2>4, <2>5, <2>6, <2>7
<1>13. ASSUME EndWrite("monitor") PROVE IInv'
  <2>1. Types'
    BY <1>13 DEF EndWrite, sends, Types, MonitorInv
  <2>2. Labels'
    BY <1>13 DEF EndWrite, Goto, Labels, MonitorLabels, Threads
  <2>3. SendInv'
    BY <1>13 DEF EndWrite, Goto, sends, Plain, SendInv
  <2>4. MonitorInv'
    BY <1>13 DEF EndWrite, Goto, sends, MonitorInv
  <2>5. MainInv'
    BY <1>13 DEF EndWrite, Goto, sends, MainInv
  <2>6. FreeInv'
    BY <1>13 DEF EndWrite, Goto, sends, FreeInv, Joins
  <2>7. RefsAreExact'
    <3> SUFFICES ASSUME NEW s \in Streams PROVE Exact(s)'
      BY DEF RefsAreExact, Exact, Num
    <3>1. \A u \in Owners : Holds(u, s)' <=> Holds(u, s)
      BY <1>13 DEF EndWrite, Goto, sends, Holds, Sending
    <3>2. Owned(s)' <=> Owned(s)
      BY <1>13 DEF EndWrite, Goto, sends, Owned
    <3>3. UNCHANGED refs
      BY <1>13 DEF EndWrite
    <3> QED
      BY <3>1, <3>2, <3>3, Unmoved
  <2> QED
    BY <2>1, <2>2, <2>3, <2>4, <2>5, <2>6, <2>7
<1>14. ASSUME MonitorSent, msg["monitor"] = "SESSIONS" PROVE IInv'
  <2>1. Types'
    BY <1>14 DEF MonitorSent, locks, Types
  <2>2. Labels'
    BY <1>14 DEF MonitorSent, Goto, Labels, MonitorLabels, Threads
  <2>3. SendInv'
    BY <1>14 DEF MonitorSent, Goto, Labels, Threads, Plain, SendInv
  <2>4. MonitorInv'
    BY <1>14 DEF MonitorSent, Goto, Labels, MonitorInv
  <2>5. MainInv'
    BY <1>14 DEF MonitorSent, Goto, Labels, Threads, MainInv
  <2>6. FreeInv'
    BY <1>14 DEF MonitorSent, Goto, Labels, Threads, FreeInv, Joins
  <2>7. RefsAreExact'
    <3> SUFFICES ASSUME NEW s \in Streams PROVE Exact(s)'
      BY DEF RefsAreExact, Exact, Num
    <3>1. \A u \in Owners : Holds(u, s)' <=> Holds(u, s)
      BY <1>14 DEF MonitorSent, Goto, Labels, Owners, Senders, Threads, Holds, Sending
    <3>2. Owned(s)' <=> Owned(s)
      BY <1>14 DEF MonitorSent, Goto, Labels, Threads, Owned
    <3>3. UNCHANGED refs
      BY <1>14 DEF MonitorSent
    <3> QED
      BY <3>1, <3>2, <3>3, Unmoved
  <2> QED
    BY <2>1, <2>2, <2>3, <2>4, <2>5, <2>6, <2>7
<1>15. ASSUME MonitorSent, msg["monitor"] # "SESSIONS" PROVE IInv'
  <2>0. target["monitor"] \in Streams /\ refs[target["monitor"]] >= 1
    BY <1>15, Counted DEF MonitorSent, MonitorInv, Holds, Types, Owners, Senders
  <2>1. Types'
    BY <1>15, <2>0 DEF MonitorSent, Release, locks, Types
  <2>2. Labels'
    BY <1>15 DEF MonitorSent, Release, Goto, Labels, MonitorLabels, Threads
  <2>3. SendInv'
    BY <1>15 DEF MonitorSent, Release, Goto, Labels, Threads, Plain, SendInv
  <2>4. MonitorInv'
    BY <1>15 DEF MonitorSent, Release, Goto, Labels, Threads, MonitorInv
  <2>5. MainInv'
    BY <1>15 DEF MonitorSent, Release, Goto, Labels, Threads, MainInv
  <2>6. FreeInv'
    <3>1. target' = [target EXCEPT !["monitor"] = target["monitor"]]
      BY <1>15 DEF MonitorSent, Types
    <3> QED
      BY <1>15, <2>0, <3>1, ReleaseKeeps, OwnerNames DEF MonitorSent, Joins
  <2>7. RefsAreExact'
    <3> SUFFICES ASSUME NEW s \in Streams PROVE Exact(s)'
      BY DEF RefsAreExact, Exact, Num
    <3>1. \A u \in Owners \ {"monitor"} : Holds(u, s)' <=> Holds(u, s)
      BY <1>15
         DEF MonitorSent, Release, Goto, Labels, Owners, Senders, Threads, Holds,
             Sending
    <3>2. refs'[s] + Num(Holds("monitor", s)) + Num(Owned(s))
              = refs[s] + Num(Holds("monitor", s)') + Num(Owned(s)')
      BY <1>15
         DEF MonitorSent, Release, Goto, Types, Labels, Threads, Holds, Owned, Num,
             MonitorInv
    <3>3. Exact(s)
      BY ExactAll
    <3> QED
      BY <2>1, <3>1, <3>2, <3>3, OwnerNames, Counting
  <2> QED
    BY <2>1, <2>2, <2>3, <2>4, <2>5, <2>6, <2>7
<1>16. ASSUME SessionRelease PROVE IInv'
  <2>1. PICK x \in retained : /\ target' = [target EXCEPT !["monitor"] = x]
                             /\ retained' = retained \ {x}
                             /\ Release("monitor", x, "sessionRelease", "sessionJoin")
    BY <1>16 DEF SessionRelease
  <2>0. x \in Streams /\ refs[x] >= 1
    BY <1>16, <2>1, Counted DEF Holds, Types, Owners, Senders
  <2>2. Types'
    BY <1>16, <2>0, <2>1 DEF SessionRelease, Release, locks, Types, Threads
  <2>3. Labels'
    BY <1>16, <2>1 DEF Release, Goto, Labels, MonitorLabels, Threads
  <2>4. SendInv'
    BY <1>16, <2>1 DEF SessionRelease, Release, Goto, Plain, SendInv
  <2>5. MonitorInv'
    BY <1>16, <2>1 DEF SessionRelease, Release, Goto, MonitorInv
  <2>6. MainInv'
    BY <1>16, <2>1 DEF SessionRelease, Release, Goto, MainInv
  <2>7. FreeInv'
    BY <1>16, <2>0, <2>1, ReleaseKeeps, OwnerNames DEF SessionRelease, Joins
  <2>8. RefsAreExact'
    <3> SUFFICES ASSUME NEW s \in Streams PROVE Exact(s)'
      BY DEF RefsAreExact, Exact, Num
    <3>1. \A u \in Owners \ {"monitor"} : Holds(u, s)' <=> Holds(u, s)
      BY <1>16, <2>1 DEF SessionRelease, Release, Goto, Holds, Sending
    <3>2. refs'[s] + Num(Holds("monitor", s)) + Num(Owned(s))
              = refs[s] + Num(Holds("monitor", s)') + Num(Owned(s)')
      BY <1>16, <2>1 DEF SessionRelease, Release, Goto, Types, Holds, Owned, Num
    <3>3. Exact(s)
      BY ExactAll
    <3> QED
      BY <2>2, <3>1, <3>2, <3>3, OwnerNames, Counting
  <2> QED
    BY <2>2, <2>3, <2>4, <2>5, <2>6, <2>7, <2>8
<1>17. ASSUME PurgeDead PROVE IInv'
  <2>1. PICK x \in listed \cap closing : /\ listed' = listed \ {x}
                                        /\ target' = [target EXCEPT !["monitor"] = x]
                                        /\ Release("monitor", x, "purge", "purgeJoin")
    BY <1>17 DEF PurgeDead
  <2>0. x \in Streams /\ refs[x] >= 1
    BY <1>17, <2>1, Counted DEF Owned, Types
  <2>2. Types'
    BY <1>17, <2>0, <2>1 DEF PurgeDead, Release, locks, Types, Threads
  <2>3. Labels'
    BY <1>17, <2>1 DEF Release, Goto, Labels, MonitorLabels, Threads
  <2>4. SendInv'
    BY <1>17, <2>1 DEF PurgeDead, Release, Goto, Plain, SendInv
  <2>5. MonitorInv'
    BY <1>17, <2>1 DEF PurgeDead, Release, Goto, MonitorInv
  <2>6. MainInv'
    BY <1>17, <2>1 DEF PurgeDead, Release, Goto, MainInv
  <2>7. FreeInv'
    BY <1>17, <2>0, <2>1, ReleaseKeeps, OwnerNames DEF PurgeDead, Joins
  <2>8. RefsAreExact'
    <3> SUFFICES ASSUME NEW s \in Streams PROVE Exact(s)'
      BY DEF RefsAreExact, Exact, Num
    <3>1. \A u \in Owners \ {"monitor"} : Holds(u, s)' <=> Holds(u, s)
      BY <1>17, <2>1 DEF PurgeDead, Release, Goto, Holds, Sending
    <3>2. refs'[s] + Num(Holds("monitor", s)) + Num(Owned(s))
              = refs[s] + Num(Holds("monitor", s)') + Num(Owned(s)')
      BY <1>17, <2>1 DEF PurgeDead, Release, Goto, Types, Holds, Owned, Num, FreeInv
    <3>3. Exact(s)
      BY ExactAll
    <3> QED
      BY <2>2, <3>1, <3>2, <3>3, OwnerNames, Counting
  <2> QED
    BY <2>2, <2>3, <2>4, <2>5, <2>6, <2>7, <2>8
<1> QED
  BY <1>1, <1>2, <1>3, <1>4, <1>5, <1>6, <1>7, <1>8, <1>9, <1>10, <1>11, <1>12, <1>13,
     <1>14, <1>15, <1>16, <1>17
     DEF Monitor

\* The callbacks of the core, and the world behind it.
LEMMA WorldKeeps ==
  ASSUME IInv, World \/ Core
  PROVE  IInv'
<1> USE Names DEF IInv
<1>1. ASSUME NEW r \in Streams, StreamAccepted(r) PROVE IInv'
  <2>0. ~Owned(r)
    BY <1>1, Counted DEF StreamAccepted
  <2>1. Types'
    BY <1>1 DEF StreamAccepted, locks, Types
  <2>2. Labels'
    BY <1>1 DEF StreamAccepted, Labels, CoreLabels, ReaderLabels, Threads
  <2>3. SendInv'
    BY <1>1 DEF StreamAccepted, Types, Labels, Sends, Threads, Plain, SendInv
  <2>4. MonitorInv'
    BY <1>1 DEF StreamAccepted, Types, Labels, Threads, MonitorInv
  <2>5. MainInv'
    BY <1>1 DEF StreamAccepted, Labels, Threads, MainInv
  <2>6. FreeInv'
    BY <1>1, <2>0 DEF StreamAccepted, Types, Labels, Threads, FreeInv, Joins, Owned
  <2>7. RefsAreExact'
    <3> SUFFICES ASSUME NEW s \in Streams PROVE Exact(s)'
      BY DEF RefsAreExact, Exact, Num
    <3>1. \A u \in Owners \ {"main"} : Holds(u, s)' <=> Holds(u, s)
      BY <1>1, <2>0
         DEF StreamAccepted, Types, Labels, Owners, Senders, Threads, Holds, Sending
    <3>2. refs'[s] + Num(Holds("main", s)) + Num(Owned(s))
              = refs[s] + Num(Holds("main", s)') + Num(Owned(s)')
      BY <1>1, <2>0
         DEF StreamAccepted, Types, Labels, Threads, Holds, Sending, Owned, Num
    <3>3. Exact(s)
      BY ExactAll
    <3> QED
      BY <2>1, <3>1, <3>2, <3>3, OwnerNames, Counting
  <2> QED
    BY <2>1, <2>2, <2>3, <2>4, <2>5, <2>6, <2>7
<1>2. ASSUME StreamListed PROVE IInv'
  <2>1. Types'
    BY <1>2 DEF StreamListed, sends, locks, Types, FreeInv
  <2>2. Labels'
    BY <1>2 DEF StreamListed, Labels, CoreLabels, MonitorLabels, Threads
  <2>3. SendInv'
    BY <1>2 DEF StreamListed, sends, Labels, Threads, Plain, SendInv
  <2>4. MonitorInv'
    BY <1>2 DEF StreamListed, sends, Labels, Threads, MonitorInv
  <2>5. MainInv'
    BY <1>2 DEF StreamListed, sends, Labels, Threads, MainInv
  <2>6. FreeInv'
    BY <1>2 DEF StreamListed, sends, Labels, Threads, FreeInv, Joins
  <2>7. RefsAreExact'
    <3> SUFFICES ASSUME NEW s \in Streams PROVE Exact(s)'
      BY DEF RefsAreExact, Exact, Num
    <3>1. \A u \in Owners : Holds(u, s)' <=> Holds(u, s)
      BY <1>2 DEF StreamListed, sends, Labels, Owners, Senders, Threads, Holds, Sending
    <3>2. Owned(s)' <=> Owned(s)
      BY <1>2 DEF StreamListed, sends, Owned
    <3>3. UNCHANGED refs
      BY <1>2 DEF StreamListed
    <3> QED
      BY <3>1, <3>2, <3>3, Unmoved
  <2> QED
    BY <2>1, <2>2, <2>3, <2>4, <2>5, <2>6, <2>7
<1>3. ASSUME DataCallback \/ DataCallbackDone PROVE IInv'
  <2>1. Types'
    BY <1>3 DEF DataCallback, DataCallbackDone, objects, sends, locks, Types
  <2>2. Labels'
    BY <1>3 DEF DataCallback, DataCallbackDone, Goto, Labels, CoreLabels, Threads
  <2>3. SendInv'
    BY <1>3
       DEF DataCallback, DataCallbackDone, Goto, sends, Labels, Threads, Plain, SendInv
  <2>4. MonitorInv'
    BY <1>3
       DEF DataCallback, DataCallbackDone, Goto, objects, sends, Labels, Threads,
           MonitorInv
  <2>5. MainInv'
    BY <1>3 DEF DataCallback, DataCallbackDone, Goto, sends, Labels, Threads, MainInv
  <2>6. FreeInv'
    BY <1>3
       DEF DataCallback, DataCallbackDone, Goto, objects, sends, Labels, Threads,
           FreeInv, Joins
  <2>7. RefsAreExact'
    <3> SUFFICES ASSUME NEW s \in Streams PROVE Exact(s)'
      BY DEF RefsAreExact, Exact, Num
    <3>1. \A u \in Owners : Holds(u, s)' <=> Holds(u, s)
      BY <1>3
         DEF DataCallback, DataCallbackDone, Goto, sends, Labels, Owners, Senders,
             Threads, Holds, Sending
    <3>2. Owned(s)' <=> Owned(s)
      BY <1>3 DEF DataCallback, DataCallbackDone, Goto, objects, Labels, Owned
    <3>3. UNCHANGED refs
      BY <1>3 DEF DataCallback, DataCallbackDone, objects
    <3> QED
      BY <3>1, <3>2, <3>3, Unmoved
  <2> QED
    BY <2>1, <2>2, <2>3, <2>4, <2>5, <2>6, <2>7
<1>4. ASSUME Disconnect \/ SessionChange PROVE IInv'
  <2>1. Types'
    BY <1>4 DEF Disconnect, SessionChange, objects, sends, locks, Types
  <2>2. Labels'
    BY <1>4 DEF Disconnect, SessionChange, Labels
  <2>3. SendInv'
    BY <1>4 DEF Disconnect, SessionChange, sends, SendInv
  <2>4. MonitorInv'
    BY <1>4 DEF Disconnect, SessionChange, objects, sends, MonitorInv
  <2>5. MainInv'
    BY <1>4 DEF Disconnect, SessionChange, objects, sends, MainInv
  <2>6. FreeInv'
    BY <1>4 DEF Disconnect, SessionChange, objects, sends, FreeInv
  <2>7. RefsAreExact'
    <3> SUFFICES ASSUME NEW s \in Streams PROVE Exact(s)'
      BY DEF RefsAreExact, Exact, Num
    <3>1. \A u \in Owners : Holds(u, s)' <=> Holds(u, s)
      BY <1>4 DEF Disconnect, SessionChange, sends, Holds, Sending
    <3>2. Owned(s)' <=> Owned(s)
      BY <1>4 DEF Disconnect, SessionChange, objects, sends, Owned
    <3>3. UNCHANGED refs
      BY <1>4 DEF Disconnect, SessionChange, objects
    <3> QED
      BY <3>1, <3>2, <3>3, Unmoved
  <2> QED
    BY <2>1, <2>2, <2>3, <2>4, <2>5, <2>6, <2>7
<1> QED
  BY <1>1, <1>2, <1>3, <1>4 DEF World, Core

LEMMA MainKeeps ==
  ASSUME IInv, Main
  PROVE  IInv'
<1> USE Names DEF IInv
<1>1. ASSUME StopDataStreams PROVE IInv'
  <2>1. Types'
    BY <1>1 DEF StopDataStreams, objects, sends, locks, Types
  <2>2. Labels'
    BY <1>1 DEF StopDataStreams, Goto, Labels, MainLabels, Threads
  <2>3. SendInv'
    BY <1>1 DEF StopDataStreams, Goto, sends, Plain, SendInv
  <2>4. MonitorInv'
    BY <1>1 DEF StopDataStreams, Goto, objects, sends, MonitorInv
  <2>5. MainInv'
    BY <1>1 DEF StopDataStreams, Goto, sends, MainInv
  <2>6. FreeInv'
    BY <1>1 DEF StopDataStreams, Goto, objects, sends, FreeInv, Joins
  <2>7. RefsAreExact'
    <3> SUFFICES ASSUME NEW s \in Streams PROVE Exact(s)'
      BY DEF RefsAreExact, Exact, Num
    <3>1. \A u \in Owners : Holds(u, s)' <=> Holds(u, s)
      BY <1>1 DEF StopDataStreams, Goto, sends, Holds, Sending
    <3>2. Owned(s)' <=> Owned(s)
      BY <1>1 DEF StopDataStreams, Goto, objects, sends, Owned
    <3>3. UNCHANGED refs
      BY <1>1 DEF StopDataStreams, objects
    <3> QED
      BY <3>1, <3>2, <3>3, Unmoved
  <2> QED
    BY <2>1, <2>2, <2>3, <2>4, <2>5, <2>6, <2>7
<1>2. ASSUME StopControlStreams PROVE IInv'
  <2>1. Types'
    BY <1>2 DEF StopControlStreams, sends, locks, Types
  <2>2. Labels'
    BY <1>2 DEF StopControlStreams, Goto, Labels, MainLabels, Threads
  <2>3. SendInv'
    BY <1>2 DEF StopControlStreams, Goto, sends, Plain, SendInv
  <2>4. MonitorInv'
    BY <1>2 DEF StopControlStreams, Goto, sends, MonitorInv
  <2>5. MainInv'
    BY <1>2 DEF StopControlStreams, Goto, sends, MainInv
  <2>6. FreeInv'
    BY <1>2 DEF StopControlStreams, Goto, sends, FreeInv, Joins
  <2>7. RefsAreExact'
    <3> SUFFICES ASSUME NEW s \in Streams PROVE Exact(s)'
      BY DEF RefsAreExact, Exact, Num
    <3>1. \A u \in Owners : Holds(u, s)' <=> Holds(u, s)
      BY <1>2 DEF StopControlStreams, Goto, sends, Holds, Sending
    <3>2. Owned(s)' <=> Owned(s)
      BY <1>2 DEF StopControlStreams, Goto, sends, Owned
    <3>3. UNCHANGED refs
      BY <1>2 DEF StopControlStreams
    <3> QED
      BY <3>1, <3>2, <3>3, Unmoved
  <2> QED
    BY <2>1, <2>2, <2>3, <2>4, <2>5, <2>6, <2>7
<1>3. ASSUME StopDevice PROVE IInv'
  <2>1. Types'
    BY <1>3 DEF StopDevice, sends, locks, Types
  <2>2. Labels'
    BY <1>3 DEF StopDevice, Labels, CoreLabels, MainLabels, Threads
  <2>3. SendInv'
    BY <1>3 DEF StopDevice, sends, Labels, Threads, Plain, SendInv
  <2>4. MonitorInv'
    BY <1>3 DEF StopDevice, sends, Labels, Threads, MonitorInv
  <2>5. MainInv'
    BY <1>3 DEF StopDevice, sends, Labels, Threads, MainInv
  <2>6. FreeInv'
    BY <1>3 DEF StopDevice, sends, Labels, Threads, FreeInv, Joins
  <2>7. RefsAreExact'
    <3> SUFFICES ASSUME NEW s \in Streams PROVE Exact(s)'
      BY DEF RefsAreExact, Exact, Num
    <3>1. \A u \in Owners : Holds(u, s)' <=> Holds(u, s)
      BY <1>3 DEF StopDevice, sends, Labels, Owners, Senders, Threads, Holds, Sending
    <3>2. Owned(s)' <=> Owned(s)
      BY <1>3 DEF StopDevice, Labels, Threads, Owned
    <3>3. UNCHANGED refs
      BY <1>3 DEF StopDevice
    <3> QED
      BY <3>1, <3>2, <3>3, Unmoved
  <2> QED
    BY <2>1, <2>2, <2>3, <2>4, <2>5, <2>6, <2>7
<1>4. ASSUME JoinMonitor PROVE IInv'
  <2>1. Types'
    BY <1>4 DEF JoinMonitor, objects, sends, locks, Types
  <2>2. Labels'
    BY <1>4 DEF JoinMonitor, Goto, Labels, MainLabels, Threads
  <2>3. SendInv'
    BY <1>4 DEF JoinMonitor, Goto, sends, Plain, SendInv
  <2>4. MonitorInv'
    BY <1>4 DEF JoinMonitor, Goto, sends, MonitorInv
  <2>5. MainInv'
    BY <1>4 DEF JoinMonitor, Goto, sends, MainInv
  <2>6. FreeInv'
    BY <1>4 DEF JoinMonitor, Goto, objects, sends, FreeInv, Joins
  <2>7. RefsAreExact'
    <3> SUFFICES ASSUME NEW s \in Streams PROVE Exact(s)'
      BY DEF RefsAreExact, Exact, Num
    <3>1. \A u \in Owners : Holds(u, s)' <=> Holds(u, s)
      BY <1>4 DEF JoinMonitor, Goto, sends, Holds, Sending
    <3>2. Owned(s)' <=> Owned(s)
      BY <1>4 DEF JoinMonitor, Goto, objects, sends, Owned
    <3>3. UNCHANGED refs
      BY <1>4 DEF JoinMonitor, objects
    <3> QED
      BY <3>1, <3>2, <3>3, Unmoved
  <2> QED
    BY <2>1, <2>2, <2>3, <2>4, <2>5, <2>6, <2>7
<1>5. ASSUME DataDeinit PROVE IInv'
  <2>1. Types'
    BY <1>5 DEF DataDeinit, objects, sends, locks, Types
  <2>2. Labels'
    BY <1>5 DEF DataDeinit, Goto, Labels, MainLabels, Threads
  <2>3. SendInv'
    BY <1>5 DEF DataDeinit, Goto, sends, Plain, SendInv
  <2>4. MonitorInv'
    BY <1>5 DEF DataDeinit, Goto, objects, sends, MonitorInv
  <2>5. MainInv'
    BY <1>5 DEF DataDeinit, Goto, sends, MainInv
  <2>6. FreeInv'
    BY <1>5 DEF DataDeinit, Goto, objects, sends, FreeInv, Joins
  <2>7. RefsAreExact'
    <3> SUFFICES ASSUME NEW s \in Streams PROVE Exact(s)'
      BY DEF RefsAreExact, Exact, Num
    <3>1. \A u \in Owners : Holds(u, s)' <=> Holds(u, s)
      BY <1>5 DEF DataDeinit, Goto, sends, Holds, Sending
    <3>2. Owned(s)' <=> Owned(s)
      BY <1>5 DEF DataDeinit, Goto, objects, sends, Owned
    <3>3. UNCHANGED refs
      BY <1>5 DEF DataDeinit, objects
    <3> QED
      BY <3>1, <3>2, <3>3, Unmoved
  <2> QED
    BY <2>1, <2>2, <2>3, <2>4, <2>5, <2>6, <2>7
<1>6. ASSUME ControlDeinit PROVE IInv'
  <2>1. Types'
    BY <1>6 DEF ControlDeinit, locks, Types
  <2>2. Labels'
    BY <1>6 DEF ControlDeinit, Goto, Labels, MainLabels, Threads
  <2>3. SendInv'
    BY <1>6 DEF ControlDeinit, Goto, Plain, SendInv
  <2>4. MonitorInv'
    BY <1>6 DEF ControlDeinit, Goto, MonitorInv, MainInv
  <2>5. MainInv'
    BY <1>6 DEF ControlDeinit, Goto, Labels, Threads, MainInv
  <2>6. FreeInv'
    BY <1>6 DEF ControlDeinit, Goto, FreeInv, Joins
  <2>7. RefsAreExact'
    <3> SUFFICES ASSUME NEW s \in Streams PROVE Exact(s)'
      BY DEF RefsAreExact, Exact, Num
    <3>1. \A u \in Owners \ {"main"} : Holds(u, s)' <=> Holds(u, s)
      BY <1>6 DEF ControlDeinit, Goto, Holds, Sending
    <3>2. refs'[s] + Num(Holds("main", s)) + Num(Owned(s))
              = refs[s] + Num(Holds("main", s)') + Num(Owned(s)')
      BY <1>6
         DEF ControlDeinit, Goto, Types, Owners, Holds, Sending, Owned, Num, MainInv
    <3>3. Exact(s)
      BY ExactAll
    <3> QED
      BY <2>1, <3>1, <3>2, <3>3, OwnerNames, Counting
  <2> QED
    BY <2>1, <2>2, <2>3, <2>4, <2>5, <2>6, <2>7
<1>7. ASSUME DeinitJoin PROVE IInv'
  <2>1. Types'
    BY <1>7 DEF DeinitJoin, Join, sends, locks, Types, Threads, FreeInv, Joins
  <2>2. Labels'
    BY <1>7 DEF DeinitJoin, Join, Goto, Labels, MainLabels, Threads
  <2>3. SendInv'
    BY <1>7 DEF DeinitJoin, Join, Goto, sends, Plain, SendInv
  <2>4. MonitorInv'
    BY <1>7 DEF DeinitJoin, Join, Goto, sends, MonitorInv
  <2>5. MainInv'
    BY <1>7 DEF DeinitJoin, Join, Goto, MainInv
  <2>6. FreeInv'
    BY <1>7 DEF DeinitJoin, Join, Goto, sends, Threads, FreeInv, Joins
  <2>7. RefsAreExact'
    <3> SUFFICES ASSUME NEW s \in Streams PROVE Exact(s)'
      BY DEF RefsAreExact, Exact, Num
    <3>1. \A u \in Owners : Holds(u, s)' <=> Holds(u, s)
      BY <1>7 DEF DeinitJoin, Join, Goto, sends, Holds, Sending
    <3>2. Owned(s)' <=> Owned(s)
      BY <1>7 DEF DeinitJoin, Join, Goto, sends, Owned
    <3>3. UNCHANGED refs
      BY <1>7 DEF DeinitJoin, Join
    <3> QED
      BY <3>1, <3>2, <3>3, Unmoved
  <2> QED
    BY <2>1, <2>2, <2>3, <2>4, <2>5, <2>6, <2>7
<1>8. ASSUME Exit PROVE IInv'
  <2>1. Types'
    BY <1>8 DEF Exit, objects, sends, locks, Types
  <2>2. Labels'
    BY <1>8 DEF Exit, Goto, Labels, MainLabels, Threads
  <2>3. SendInv'
    BY <1>8 DEF Exit, Goto, sends, SendInv
  <2>4. MonitorInv'
    BY <1>8 DEF Exit, Goto, objects, sends, MonitorInv
  <2>5. MainInv'
    BY <1>8 DEF Exit, Goto, objects, sends, MainInv
  <2>6. FreeInv'
    BY <1>8 DEF Exit, Goto, objects, sends, FreeInv, Joins
  <2>7. RefsAreExact'
    <3> SUFFICES ASSUME NEW s \in Streams PROVE Exact(s)'
      BY DEF RefsAreExact, Exact, Num
    <3>1. \A u \in Owners : Holds(u, s)' <=> Holds(u, s)
      BY <1>8 DEF Exit, Goto, sends, Holds, Sending
    <3>2. Owned(s)' <=> Owned(s)
      BY <1>8 DEF Exit, Goto, objects, sends, Owned
    <3>3. UNCHANGED refs
      BY <1>8 DEF Exit, objects
    <3> QED
      BY <3>1, <3>2, <3>3, Unmoved
  <2> QED
    BY <2>1, <2>2, <2>3, <2>4, <2>5, <2>6, <2>7
<1>9. ASSUME DeinitRelease PROVE IInv'
  <2>1. PICK x \in todo["main"] : /\ todo' = [todo EXCEPT !["main"] = @ \ {x}]
                                 /\ target' = [target EXCEPT !["main"] = x]
                                 /\ Release("main", x, "deinitNext", "deinitJoin")
    BY <1>9 DEF DeinitRelease
  <2>0. x \in Streams /\ refs[x] >= 1
    BY <1>9, <2>1, Counted DEF Holds, Types, Owners
  <2>2. Types'
    BY <1>9, <2>0, <2>1 DEF DeinitRelease, Release, locks, Types, Owners, Threads
  <2>3. Labels'
    BY <1>9, <2>1 DEF Release, Goto, Labels, MainLabels, Threads
  <2>4. SendInv'
    BY <1>9, <2>1 DEF Release, Goto, Plain, SendInv
  <2>5. MonitorInv'
    BY <1>9, <2>1 DEF DeinitRelease, Release, Goto, MonitorInv
  <2>6. MainInv'
    BY <1>9, <2>1 DEF DeinitRelease, Release, Goto, MainInv
  <2>7. FreeInv'
    BY <1>9, <2>0, <2>1, ReleaseKeeps, OwnerNames DEF DeinitRelease, Joins
  <2>8. RefsAreExact'
    <3> SUFFICES ASSUME NEW s \in Streams PROVE Exact(s)'
      BY DEF RefsAreExact, Exact, Num
    <3>1. \A u \in Owners \ {"main"} : Holds(u, s)' <=> Holds(u, s)
      BY <1>9, <2>1 DEF DeinitRelease, Release, Goto, Holds, Sending
    <3>2. refs'[s] + Num(Holds("main", s)) + Num(Owned(s))
              = refs[s] + Num(Holds("main", s)') + Num(Owned(s)')
      BY <1>9, <2>1
         DEF DeinitRelease, Release, Goto, Types, Owners, Holds, Sending, Owned, Num
    <3>3. Exact(s)
      BY ExactAll
    <3> QED
      BY <2>2, <3>1, <3>2, <3>3, OwnerNames, Counting
  <2> QED
    BY <2>2, <2>3, <2>4, <2>5, <2>6, <2>7, <2>8
<1> QED
  BY <1>1, <1>2, <1>3, <1>4, <1>5, <1>6, <1>7, <1>8, <1>9 DEF Main

LEMMA Initially == Init => IInv
<1> SUFFICES ASSUME Init PROVE IInv
  OBVIOUS
<1> USE Names DEF Init, Threads, Owners, Senders
<1>1. Types
  BY DEF Types, Frames
<1>2. Labels /\ SendInv /\ MonitorInv /\ MainInv /\ FreeInv
  BY DEF Labels, CoreLabels, PtyLabels, MainLabels, MonitorLabels, ReaderLabels,
         SendInv, MonitorInv, MainInv, FreeInv, Plain, Joins
<1>3. RefsAreExact
  <2> SUFFICES ASSUME NEW s \in Streams PROVE Exact(s)
    BY ExactAll
  <2>1. Holders(s) = {}
    BY DEF Holders, Holds, Sending
  <2>2. ~Owned(s)
    BY DEF Owned
  <2> QED
    BY <2>1, <2>2, FS_EmptySet DEF Exact, Num
<1> QED
  BY <1>1, <1>2, <1>3 DEF IInv

LEMMA Step == IInv /\ [Next]_vars => IInv'
<1> SUFFICES ASSUME IInv, [Next]_vars PROVE IInv'
  OBVIOUS
<1>1. ASSUME Pty PROVE IInv'
  BY <1>1, PtyKeeps, SendKeeps DEF Pty, Plain
<1>2. CASE UNCHANGED vars
  BY <1>2
     DEF vars, objects, sends, locks, IInv, Types, Labels, SendInv, MonitorInv,
         MainInv, FreeInv, RefsAreExact, Holders, Holds, Sending, Owned
<1> QED
  BY <1>1, <1>2, WorldKeeps, MonitorKeeps, ReaderKeeps, MainKeeps DEF Next

LEMMA Invariant == Spec => []IInv
  BY Initially, Step, PTL DEF Spec

-----------------------------------------------------------------------------
(* What follows                                                            *)

(***************************************************************************)
(* The reference count of every control stream is the number of its owners *)
(* in every state: no retain or release is missing or made twice on any    *)
(* path of the senders, the monitor, the purge or the shutdown.            *)
(***************************************************************************)
THEOREM ExactReferences == Spec => []RefsAreExact
<1>1. IInv => RefsAreExact
  BY DEF IInv
<1> QED
  BY <1>1, Invariant, PTL

\* The types, and that no count exceeds one for the list and one per sender.
THEOREM TypeCorrectness == Spec => []TypeOK
<1>1. ASSUME IInv PROVE TypeOK
  <2>1. ASSUME NEW s \in Streams PROVE refs[s] \in 0 .. Cardinality(Senders) + 1
    <3>1. /\ Exact(s) /\ Cardinality(Holders(s)) \in Nat
          /\ Cardinality(Senders) \in Nat
      BY <1>1, ExactAll, HoldersFinite, OwnersFinite DEF IInv
    <3>2. Holders(s) \in SUBSET Owners
      BY DEF Holders
    <3>3. CASE Owned(s)
      <4>1. ~Holds("main", s)
        BY <1>1, <3>3, Names
           DEF IInv, MainInv, Labels, MainLabels, Owned, Holds, Sending
      <4>2. Holders(s) \in SUBSET Senders
        BY <4>1 DEF Holders, Owners
      <4>3. Cardinality(Holders(s)) <= Cardinality(Senders)
        BY <4>2, OwnersFinite, FS_Subset
      <4> QED
        BY <3>1, <3>3, <4>3 DEF Exact, Num
    <3>4. CASE ~Owned(s)
      <4>1. Cardinality(Holders(s)) <= Cardinality(Senders) + 1
        <5>1. Cardinality(Holders(s)) <= Cardinality(Owners)
          BY <3>2, OwnersFinite, FS_Subset
        <5>2. Cardinality(Owners) \in Nat
          BY OwnersFinite, FS_CardinalityType
        <5> QED
          BY <3>1, <5>1, <5>2, OwnersFinite
      <4> QED
        BY <3>1, <3>4, <4>1 DEF Exact, Num
    <3> QED
      BY <3>3, <3>4
  <2>2. refs \in [Streams -> 0 .. Cardinality(Senders) + 1]
    BY <1>1, <2>1 DEF IInv, Types
  <2> QED
    BY <1>1, <2>2 DEF IInv, Types, TypeOK
<1> QED
  BY <1>1, Invariant, PTL

(***************************************************************************)
(* No thread but a stream's own reader ever touches a freed stream.  The   *)
(* targets of a broadcast, which are not retained, are safe because they   *)
(* are on the list and only the monitor itself takes them off it, until    *)
(* main does so after the monitor has ended.                               *)
(***************************************************************************)
THEOREM NeverUsedAfterFree == Spec => []NoUseAfterFree
<1>1. ASSUME IInv PROVE NoUseAfterFree
  <2>1. \A s \in Streams : Owned(s) => s \notin freed
    BY <1>1, Counted
  <2>2. \A s \in Streams, t \in Owners : Holds(t, s) => s \notin freed
    BY <1>1, Counted
  <2>3. listed \cap freed = {} /\ retained \cap freed = {}
    BY <1>1, <2>1, <2>2, OwnerNames DEF IInv, Types, Owned, Holds
  <2>4. ASSUME NEW t \in Owners PROVE (todo[t] \cup Sending(t)) \cap freed = {}
    <3>1. CASE t = "monitor"
      <4>1. todo["monitor"] \cup Sending("monitor") \subseteq listed \cup retained
        BY <1>1 DEF IInv, MonitorInv, Sending
      <4> QED
        BY <2>3, <3>1, <4>1
    <3>2. CASE t # "monitor"
      BY <1>1, <2>2, <3>2 DEF IInv, Types, Holds
    <3> QED
      BY <3>1, <3>2
  <2> QED
    BY <2>3, <2>4 DEF NoUseAfterFree
<1> QED
  BY <1>1, Invariant, PTL

LEMMA ExitStep == IInv /\ ExitInv /\ [Next]_vars => ExitInv'
<1> SUFFICES ASSUME IInv, ExitInv, [Next]_vars PROVE ExitInv'
  OBVIOUS
<1> USE Names DEF IInv, ExitInv
<1>1. ASSUME NEW t \in Plain, CollectTargets(t) PROVE ExitInv'
  <2>1. LeftInv'
    BY <1>1 DEF CollectTargets, Retain, Goto, LeftInv, Left, Joins, Types
  <2>2. ReaderInv'
    BY <1>1 DEF CollectTargets, Goto, ReaderInv
  <2> QED
    BY <2>1, <2>2
<1>2. ASSUME NEW t \in Plain, NextTarget(t) PROVE ExitInv'
  <2>1. LeftInv'
    BY <1>2
       DEF NextTarget, StartWrite, Goto, objects, LeftInv, Left, Joins, Labels, Owners,
           Senders, Threads
  <2>2. ReaderInv'
    BY <1>2 DEF NextTarget, StartWrite, Goto, objects, ReaderInv, Labels, Threads
  <2> QED
    BY <2>1, <2>2
<1>3. ASSUME NEW t \in Plain, EndWrite(t) PROVE ExitInv'
  <2>1. LeftInv'
    BY <1>3 DEF EndWrite, Goto, sends, LeftInv, Left, Joins
  <2>2. ReaderInv'
    BY <1>3 DEF EndWrite, Goto, ReaderInv
  <2> QED
    BY <2>1, <2>2
<1>4. ASSUME NEW t \in Plain, ReleaseTarget(t) PROVE ExitInv'
  <2>1. LeftInv'
    BY <1>4
       DEF ReleaseTarget, Release, Goto, sends, LeftInv, Left, Joins, Labels, Owners,
           Senders, Threads, Plain
  <2>2. ReaderInv'
    BY <1>4 DEF ReleaseTarget, Release, Goto, ReaderInv
  <2> QED
    BY <2>1, <2>2
<1>5. ASSUME NEW t \in Plain, JoinTarget(t) PROVE ExitInv'
  <2>1. LeftInv'
    BY <1>5 DEF JoinTarget, Join, Goto, sends, LeftInv, Left
  <2>2. ReaderInv'
    BY <1>5 DEF JoinTarget, Join, Goto, ReaderInv
  <2> QED
    BY <2>1, <2>2
<1>6. ASSUME PtyFeed \/ PtyFed \/ PtyExit PROVE ExitInv'
  <2>1. LeftInv'
    BY <1>6
       DEF PtyFeed, PtyFed, PtyExit, Goto, objects, sends, LeftInv, Left, Joins,
           Labels, Owners, Senders, Threads
  <2>2. ReaderInv'
    BY <1>6 DEF PtyFeed, PtyFed, PtyExit, Goto, objects, ReaderInv, Labels, Threads
  <2> QED
    BY <2>1, <2>2
<1>7. ASSUME NEW r \in Streams, ReadResolve(r) PROVE ExitInv'
  <2>1. LeftInv'
    BY <1>7 DEF ReadResolve, Goto, objects, sends, LeftInv, Left, Joins
  <2>2. ReaderInv'
    BY <1>7 DEF ReadResolve, ReaderInv
  <2> QED
    BY <2>1, <2>2
<1>8. ASSUME NEW r \in Streams, ReaderEnds(r) PROVE ExitInv'
  <2>1. LeftInv'
    BY <1>8 DEF ReaderEnds, Goto, sends, LeftInv, Left, Joins
  <2>2. ReaderInv'
    BY <1>8 DEF ReaderEnds, Goto, ReaderInv
  <2> QED
    BY <2>1, <2>2
<1>9. ASSUME NEW r \in Streams, ResolveLockA(r) \/ ResolveLockD(r) \/ ResolveDone(r) \/ ReaderLoop(r) PROVE ExitInv'
  <2>1. LeftInv'
    BY <1>9
       DEF ResolveLockA, ResolveLockD, ResolveDone, ReaderLoop, Goto, objects, sends,
           LeftInv, Left, Joins, Labels, Owners, Senders, Threads
  <2>2. ReaderInv'
    BY <1>9 DEF ResolveLockA, ResolveLockD, ResolveDone, ReaderLoop, ReaderInv
  <2> QED
    BY <2>1, <2>2
<1>10. ASSUME MonitorRound \/ Broadcast \/ SessionsSent PROVE ExitInv'
  <2>1. LeftInv'
    BY <1>10
       DEF MonitorRound, Broadcast, SessionsSent, Goto, objects, sends, LeftInv, Left,
           Joins, Labels, Owners, Senders, Threads
  <2>2. ReaderInv'
    BY <1>10
       DEF MonitorRound, Broadcast, SessionsSent, Goto, objects, ReaderInv, Labels,
           Threads
  <2> QED
    BY <2>1, <2>2
<1>11. ASSUME SessionCollect \/ PromptCollect PROVE ExitInv'
  <2>1. LeftInv'
    BY <1>11
       DEF SessionCollect, PromptCollect, Retain, Goto, LeftInv, Left, Joins, Types,
           Labels, Owners, Senders, Threads
  <2>2. ReaderInv'
    BY <1>11 DEF SessionCollect, PromptCollect, Goto, ReaderInv, Labels, Threads
  <2> QED
    BY <2>1, <2>2
<1>12. ASSUME PromptNext \/ PromptCopy \/ PromptSend PROVE ExitInv'
  <2>1. LeftInv'
    BY <1>12
       DEF PromptNext, PromptCopy, PromptSend, StartWrite, Goto, objects, sends,
           LeftInv, Left, Joins, Types, Labels, Owners, Senders, Threads
  <2>2. ReaderInv'
    BY <1>12
       DEF PromptNext, PromptCopy, PromptSend, StartWrite, Goto, objects, ReaderInv,
           Labels, Threads
  <2> QED
    BY <2>1, <2>2
<1>13. ASSUME PurgeLock \/ PurgeEnd PROVE ExitInv'
  <2>1. LeftInv'
    BY <1>13
       DEF PurgeLock, PurgeEnd, Goto, objects, sends, LeftInv, Left, Joins, Labels,
           Owners, Senders, Threads
  <2>2. ReaderInv'
    BY <1>13 DEF PurgeLock, PurgeEnd, Goto, objects, ReaderInv, Labels, Threads
  <2> QED
    BY <2>1, <2>2
<1>14. ASSUME MonitorJoin PROVE ExitInv'
  <2>1. LeftInv'
    BY <1>14 DEF MonitorJoin, Join, Goto, sends, LeftInv, Left
  <2>2. ReaderInv'
    BY <1>14 DEF MonitorJoin, Join, Goto, ReaderInv
  <2> QED
    BY <2>1, <2>2
<1>15. ASSUME NextTarget("monitor") \/ EndWrite("monitor") PROVE ExitInv'
  <2>1. LeftInv'
    BY <1>15
       DEF NextTarget, StartWrite, EndWrite, Goto, objects, sends, LeftInv, Left,
           Joins, Types, Labels, Owners, Senders, Threads
  <2>2. ReaderInv'
    BY <1>15
       DEF NextTarget, StartWrite, EndWrite, Goto, objects, ReaderInv, Labels, Threads
  <2> QED
    BY <2>1, <2>2
<1>16. ASSUME MonitorSent PROVE ExitInv'
  <2>1. LeftInv'
    BY <1>16
       DEF MonitorSent, Release, Goto, LeftInv, Left, Joins, Types, Labels, Owners,
           Senders, Threads
  <2>2. ReaderInv'
    BY <1>16 DEF MonitorSent, Release, Goto, ReaderInv, Labels, Threads
  <2> QED
    BY <2>1, <2>2
<1>17. ASSUME SessionRelease PROVE ExitInv'
  <2>1. LeftInv'
    BY <1>17
       DEF SessionRelease, Release, Goto, LeftInv, Left, Joins, Types, Labels, Owners,
           Senders, Threads
  <2>2. ReaderInv'
    BY <1>17 DEF SessionRelease, Release, Goto, ReaderInv
  <2> QED
    BY <2>1, <2>2
<1>18. ASSUME PurgeDead PROVE ExitInv'
  <2>1. LeftInv'
    BY <1>18
       DEF PurgeDead, Release, Goto, LeftInv, Left, Joins, Types, Labels, Owners,
           Senders, Threads
  <2>2. ReaderInv'
    BY <1>18 DEF PurgeDead, Release, Goto, ReaderInv
  <2> QED
    BY <2>1, <2>2
<1>19. ASSUME NEW r \in Streams, StreamAccepted(r) PROVE ExitInv'
  <2>1. LeftInv'
    BY <1>19
       DEF StreamAccepted, LeftInv, Left, Joins, Types, Labels, Owners, Senders,
           Threads
  <2>2. ReaderInv'
    BY <1>19 DEF StreamAccepted, ReaderInv, Labels, Threads
  <2> QED
    BY <2>1, <2>2
<1>20. ASSUME StreamListed PROVE ExitInv'
  <2>1. LeftInv'
    BY <1>20
       DEF StreamListed, sends, LeftInv, Left, Joins, Labels, Owners, Senders, Threads
  <2>2. ReaderInv'
    BY <1>20 DEF StreamListed, ReaderInv, Labels, Threads
  <2> QED
    BY <2>1, <2>2
<1>21. ASSUME DataCallback \/ DataCallbackDone \/ Disconnect \/ SessionChange PROVE ExitInv'
  <2>1. LeftInv'
    BY <1>21
       DEF DataCallback, DataCallbackDone, Disconnect, SessionChange, Goto, objects,
           sends, LeftInv, Left, Labels, Owners, Senders, Threads
  <2>2. ReaderInv'
    BY <1>21
       DEF DataCallback, DataCallbackDone, Disconnect, SessionChange, Goto, objects,
           ReaderInv, Labels, Threads
  <2> QED
    BY <2>1, <2>2
<1>22. ASSUME StopDataStreams \/ StopControlStreams \/ StopDevice PROVE ExitInv'
  <2>1. LeftInv'
    BY <1>22
       DEF StopDataStreams, StopControlStreams, StopDevice, Goto, objects, sends,
           LeftInv, Left, Joins, Labels, Owners, Senders, Threads
  <2>2. ReaderInv'
    BY <1>22
       DEF StopDataStreams, StopControlStreams, StopDevice, Goto, objects, ReaderInv,
           Labels, Threads
  <2> QED
    BY <2>1, <2>2
<1>23. ASSUME JoinMonitor \/ DataDeinit \/ ControlDeinit \/ Exit PROVE ExitInv'
  <2>1. LeftInv'
    BY <1>23
       DEF JoinMonitor, DataDeinit, ControlDeinit, Exit, Goto, objects, sends, LeftInv,
           Left, Joins, Labels, Owners, Senders, Threads
  <2>2. ReaderInv'
    BY <1>23
       DEF JoinMonitor, DataDeinit, ControlDeinit, Exit, Goto, objects, ReaderInv,
           Labels, Threads
  <2> QED
    BY <2>1, <2>2
<1>24. ASSUME DeinitRelease PROVE ExitInv'
  <2>1. LeftInv'
    BY <1>24
       DEF DeinitRelease, Release, Goto, LeftInv, Left, Joins, Types, Labels, Owners,
           Threads
  <2>2. ReaderInv'
    BY <1>24 DEF DeinitRelease, Release, Goto, ReaderInv
  <2> QED
    BY <2>1, <2>2
<1>25. ASSUME DeinitJoin PROVE ExitInv'
  <2>1. LeftInv'
    BY <1>25 DEF DeinitJoin, Join, Goto, sends, LeftInv, Left
  <2>2. ReaderInv'
    BY <1>25 DEF DeinitJoin, Join, Goto, ReaderInv
  <2> QED
    BY <2>1, <2>2
<1>26. CASE UNCHANGED vars
  BY <1>26 DEF vars, objects, sends, LeftInv, Left, ReaderInv
<1> QED
  BY <1>1, <1>2, <1>3, <1>4, <1>5, <1>6, <1>7, <1>8, <1>9, <1>10, <1>11, <1>12, <1>13,
     <1>14, <1>15, <1>16, <1>17, <1>18, <1>19, <1>20, <1>21, <1>22, <1>23, <1>24,
     <1>25, <1>26
     DEF Next, World, Core, Monitor, Pty, Reader, ReadFails, ReadBadFrame, Send, Main,
         Plain

(***************************************************************************)
(* If clients resolve nothing, a shutdown that comes to its end leaves no  *)
(* control stream behind, for any number of streams: every one that was    *)
(* accepted is freed, its reader joined, and no reference is left.  (With  *)
(* a client that resolves it is false: main may return while a reader      *)
(* still sends.)                                                           *)
(***************************************************************************)
THEOREM CleanShutdown == ~ClientResolves => (Spec => []CleanExit)
<1> SUFFICES ASSUME ~ClientResolves PROVE Spec => []CleanExit
  OBVIOUS
<1>1. Init => ExitInv
  BY Names DEF Init, ExitInv, LeftInv, ReaderInv, Threads
<1>2. ASSUME IInv, ExitInv PROVE CleanExit
  <2> SUFFICES ASSUME pc["main"] = "done", NEW s \in Streams
               PROVE  /\ refs[s] = 0
                      /\ pc[s] \in {"unborn", "done"}
                      /\ pc[s] = "done" => s \in freed
    BY DEF CleanExit
  <2> USE <1>2, Names DEF IInv, ExitInv
  <2>1. \A r \in Streams : pc[r] \in {"unborn", "read", "done"}
    BY DEF ReaderInv
  <2>2. /\ pc["core"] = "stopped" /\ pc["monitor"] \in {"unborn", "done"}
        /\ pc["pty"] = "done" /\ listed = {} /\ todo["main"] = {}
    BY DEF MainInv
  <2>3. ~Owned(s)
    BY <2>2 DEF Owned
  <2>4. Holders(s) = {}
    BY <2>1, <2>2
       DEF Holders, Holds, Sending, Owners, Senders, SendInv, Plain, Sends, MonitorInv
  <2>5. refs[s] = 0
    BY <2>3, <2>4, ExactAll, FS_EmptySet DEF Exact, Num
  <2>6. \A t \in Owners : pc[t] \notin Joins
    BY <2>1, <2>2 DEF Owners, Senders, Joins
  <2>7. pc[s] # "unborn" => s \in freed
    BY <2>5, <2>6 DEF LeftInv, Left
  <2> QED
    BY <2>1, <2>5, <2>7 DEF ReaderInv
<1> QED
  BY <1>1, <1>2, Invariant, ExitStep, PTL DEF Spec

=============================================================================

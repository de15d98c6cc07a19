-------------------------- MODULE DataStreamProofs --------------------------
(***************************************************************************)
(* Proofs about the session map and the stream objects under everything    *)
(* that happens to the data streams, for any number of slots, connections, *)
(* sessions and streams.                                                   *)
(***************************************************************************)
EXTENDS DataStream, TLAPS

MapInv == entries \in Maps /\ OneEntryPerConnection

\* In a map with unique entries the first slot of a connection is the only one.
LEMMA FirstSlot ==
    ASSUME NEW m, Unique(m), NEW c, SlotsOf(m, c) # {}
    PROVE  /\ First(SlotsOf(m, c)) \in SlotsOf(m, c)
           /\ SlotsOf(m, c) = {First(SlotsOf(m, c))}
<1>1. PICK i \in SlotsOf(m, c) : TRUE
  OBVIOUS
<1>2. SlotsOf(m, c) = {i}
  BY <1>1 DEF Unique, SlotsOf
<1>3. i \in Nat
  BY <1>1, SlotsAssumption DEF SlotsOf, Slots
<1>4. First({i}) = i
  BY <1>3 DEF First
<1> QED
  BY <1>2, <1>4

\* tmuxremote_session_set keeps the entries unique, whichever slot it takes, and
\* what it has stored is the connection's only entry.
LEMMA SetKeepsUnique ==
    ASSUME NEW m \in Maps, Unique(m), NEW c \in Conns, NEW n \in Names
    PROVE  /\ SessionSet(m, c, n) \in Maps /\ Unique(SessionSet(m, c, n))
           /\ ~HasSlot(m, c) => SessionSet(m, c, n) = m
           /\ HasSlot(m, c) => \A k \in Slots :
                LET x == SessionSet(m, c, n)[k]
                IN x # NoEntry => \/ x.ref = c /\ x.name = n
                                  \/ x = m[k] /\ x.ref # c
<1> DEFINE e == [ref |-> c, name |-> n]
           i == First(IF SlotsOf(m, c) # {} THEN SlotsOf(m, c) ELSE FreeSlots(m))
           w == [m EXCEPT ![i] = e]
<1>1. e \in Entry /\ e.ref = c /\ e.name = n
  BY DEF Entry
<1>2. w \in Maps /\ \A k \in Slots : w[k] = IF k = i THEN e ELSE m[k]
  BY <1>1 DEF Maps
<1>3. \A k \in Slots : k # i /\ m[k] # NoEntry => m[k].ref # c
  <2>1. CASE SlotsOf(m, c) # {}
    <3>1. SlotsOf(m, c) = {First(SlotsOf(m, c))}
      BY <2>1, FirstSlot
    <3>2. SlotsOf(m, c) = {i}
      BY <2>1, <3>1
    <3> QED
      BY <3>2 DEF SlotsOf
  <2>2. CASE SlotsOf(m, c) = {}
    BY <2>2 DEF SlotsOf
  <2> QED
    BY <2>1, <2>2
<1> HIDE DEF e, i
<1>4. Unique(w)
  BY <1>1, <1>2, <1>3 DEF Unique
<1>5. SessionSet(m, c, n) = IF HasSlot(m, c) THEN w ELSE m
  BY DEF SessionSet, e, i
<1> HIDE DEF w
<1>6. \A k \in Slots : w[k] # NoEntry => \/ w[k].ref = c /\ w[k].name = n
                                         \/ w[k] = m[k] /\ w[k].ref # c
  <2> SUFFICES ASSUME NEW k \in Slots, w[k] # NoEntry
               PROVE  \/ w[k].ref = c /\ w[k].name = n
                      \/ w[k] = m[k] /\ w[k].ref # c
    OBVIOUS
  <2>1. CASE k = i
    BY <1>1, <1>2, <2>1
  <2>2. CASE k # i
    BY <1>2, <1>3, <2>2
  <2> QED
    BY <2>1, <2>2
<1> QED
  BY <1>2, <1>4, <1>5, <1>6

\* So does tmuxremote_session_remove.
LEMMA RemoveKeepsUnique ==
    ASSUME NEW m \in Maps, Unique(m), NEW c
    PROVE  SessionRemove(m, c) \in Maps /\ Unique(SessionRemove(m, c))
  BY DEF SessionRemove, Maps, Unique

\* cleanup_active_stream, by whoever runs it.
LEMMA CleanupKeepsUnique ==
    ASSUME MapInv, NEW s, NEW r, Cleanup(s, r)
    PROVE  MapInv'
  BY RemoveKeepsUnique DEF MapInv, OneEntryPerConnection, Cleanup

\* The threads of a stream and stream_accepted leave everything but the objects
\* alone.
LEMMA MapUntouched ==
    ASSUME NEW s \in Streams,
           \/ Accepted(s) \/ Setup(s) \/ PtyReader(s) \/ StreamReader(s)
           \/ CleanupThread(s) \/ DeinitKill(s) \/ DeinitFree(s)
           \/ PtyOutput(s) \/ ClientSends(s) \/ ChildExits(s)
    PROVE  UNCHANGED <<entries, conns, main, wanted>> /\ due' \subseteq due
<1>1. CASE Accepted(s)
  BY <1>1 DEF Accepted
<1>2. CASE Setup(s)
  BY <1>2 DEF Setup, SetupCheck, SetupFork, SetupPtyReader, SetupStreamReader, Becomes
<1>3. CASE PtyReader(s) \/ PtyOutput(s)
  BY <1>3 DEF PtyReader, PtyLoop, PtyEof, PtyWrite, PtyOutput, Becomes
<1>4. CASE StreamReader(s) \/ ClientSends(s)
  BY <1>4 DEF StreamReader, InputLoop, InputFails, InputWrite, ClientSends, Becomes
<1>5. CASE CleanupThread(s) \/ DeinitKill(s) \/ DeinitFree(s) \/ ChildExits(s)
  BY <1>5 DEF CleanupThread, CleanupKill, CleanupFree, DeinitKill, DeinitFree,
              ChildExits, Becomes
<1> QED
  BY <1>1, <1>2, <1>3, <1>4, <1>5

LEMMA MapInit == Init => MapInv
  BY DEF Init, MapInv, OneEntryPerConnection, EmptyMap, Maps, Unique

LEMMA MapNext == MapInv /\ [Next]_vars => MapInv'
<1> SUFFICES ASSUME MapInv, [Next]_vars PROVE MapInv'
  OBVIOUS
<1>1. ASSUME UNCHANGED entries PROVE MapInv'
  BY <1>1 DEF MapInv, OneEntryPerConnection
<1>2. ASSUME NEW c \in Conns, NEW n \in Names, Attach(c, n) PROVE MapInv'
  BY <1>2, SetKeepsUnique DEF MapInv, OneEntryPerConnection, Attach
<1>3. ASSUME NEW s \in Streams, AcceptFailed(s) \/ StreamClosed(s) \/ CleanupDirectly(s)
      PROVE  MapInv'
  BY <1>3, CleanupKeepsUnique DEF AcceptFailed, StreamClosed, CleanupDirectly
<1>4. ASSUME NEW c \in Conns, Connect(c) \/ Disconnect(c) PROVE UNCHANGED entries
  BY <1>4 DEF Connect, Disconnect
<1>5. ASSUME NEW s \in Streams, NEW c \in Conns, OpenStream(s, c) PROVE UNCHANGED entries
  BY <1>5 DEF OpenStream, Becomes
<1>6. ASSUME NEW s \in Streams,
             \/ Accepted(s) \/ Setup(s) \/ PtyReader(s) \/ StreamReader(s)
             \/ CleanupThread(s) \/ DeinitKill(s) \/ DeinitFree(s)
             \/ PtyOutput(s) \/ ClientSends(s) \/ ChildExits(s)
      PROVE  UNCHANGED entries
  BY <1>6, MapUntouched
<1>7. CASE Main
  BY <1>7, <1>1 DEF Main, ListenerStop, DeviceStop, MainExit
<1>8. CASE UNCHANGED vars
  BY <1>8, <1>1 DEF vars
<1> QED
  BY <1>1, <1>2, <1>3, <1>4, <1>5, <1>6, <1>7, <1>8 DEF Next, Stream

\* However attach requests, accepted streams and cleanups interleave, the session
\* map holds at most one target for each connection.
THEOREM OneTargetPerConnection == Spec => []OneEntryPerConnection
<1>1. MapInv => OneEntryPerConnection
  BY DEF MapInv
<1> QED
  BY <1>1, MapInit, MapNext, PTL DEF Spec

(***************************************************************************)
(* The stream objects.  An object's invariant relates the program counters *)
(* of its five threads to its flags; it depends on main only through the   *)
(* shutdown, and each step changes one object, so that the proofs are      *)
(* about a single record r and what a thread makes of it.                  *)
(***************************************************************************)
\* The readers run only after the setup thread has got as far as to start them,
\* the child has a pid that main or the cleanup thread can wait for, whoever may
\* still close the stream finds closeStarted set once the core has cleaned up,
\* and the cleanup thread and main's deinit never work on the same object.
ObjectInv(r, m) ==
    /\ r.pty # "none" => r.setup \in {"reading", "done"}
    /\ r.input # "none" => r.setup = "done"
    /\ r.childPid => r.setup \in {"reading", "done"}
    /\ r.setup \in {"none", "start", "fork"} => r.child = "none"
    /\ r.setup \in {"reading", "done"} => r.child = "none" \/ r.childPid
    /\ r.core \in {"unborn", "accepting"} =>
          r.setup = "none" /\ ~r.closeStarted
    /\ r.closes # 0 => r.closeStarted
    /\ r.core \in {"cleaning", "cleaned"} =>
          r.closes = 0 /\ (r.closeStarted \/ r.setup = "none")
    /\ r.core = "cleaning" => m = "run"
    /\ r.core = "cleaned" => r.clean # "none"
    /\ r.clean \in {"joinSetup", "joinReaders", "failed"} => r.core = "cleaned"
    /\ r.clean \in {"mainJoins", "done"} => r.core = "cleaned" \/ m \in {"deinit", "done"}
    /\ r.core = "unborn" => r.clean = "none"
    /\ r.clean = "joinReaders" => Ended(r.setup)
    /\ r.listed => r.clean = "none" /\ r.core # "unborn"
    /\ r.freed => /\ r.clean = "done" /\ Ended(r.setup) /\ Ended(r.pty) /\ Ended(r.input)
                  /\ r.child \in {"none", "reaped"}

Sound(r) == r \in StreamObject /\ ObjectInv(r, main)

\* What a step of any thread but the accept callback makes of a stream object.
Steps(r, rs) == \A u \in rs : Sound(u) /\ (r.setup = "none" => u.setup = "none")

LEMMA CloseSound ==
    ASSUME NEW r, Sound(r), r.core = "open" \/ r.setup # "none"
    PROVE  Steps(r, CloseOnce(r))
<1> SUFFICES ASSUME NEW u \in CloseOnce(r)
             PROVE  u \in StreamObject /\ ObjectInv(u, main) /\ u.setup = r.setup
  BY DEF Steps, Sound
<1> DEFINE v == [r EXCEPT !.closeStarted = TRUE, !.closes = 1]
           w == [r EXCEPT !.closeStarted = TRUE, !.core = "cleaning"]
<1>1. r \in StreamObject /\ ObjectInv(r, main)
  BY DEF Sound
<1>2. CASE u = r
  BY <1>1, <1>2
<1>3. CASE u = v /\ ~r.closeStarted
  <2>1. v \in StreamObject
    BY <1>1 DEF StreamObject
  <2>2. ObjectInv(v, main)
    BY <1>1, <1>3 DEF ObjectInv, StreamObject, Ended
  <2> QED
    BY <1>1, <1>3, <2>1, <2>2 DEF StreamObject
<1>4. CASE u = w /\ ~r.closeStarted /\ main = "run"
  <2>1. w \in StreamObject
    BY <1>1 DEF StreamObject
  <2>2. ObjectInv(w, main)
    BY <1>1, <1>4 DEF ObjectInv, StreamObject, Ended
  <2> QED
    BY <1>1, <1>4, <2>1, <2>2 DEF StreamObject
<1> QED
  BY <1>2, <1>3, <1>4 DEF CloseOnce, MayFail

LEMMA FailedType ==
    ASSUME NEW r \in StreamObject, NEW k \in {"none", "running", "exited", "reaped"}
    PROVE  [r EXCEPT !.closing = TRUE, !.listed = FALSE, !.core = "cleaned",
                     !.clean = "failed", !.child = k] \in StreamObject
  BY DEF StreamObject

\* cleanup_active_stream, with and without a cleanup thread.
LEMMA CleanSound ==
    ASSUME NEW r \in StreamObject, ObjectInv(r, main), CoreRuns,
           r.core # "unborn", r.core # "cleaned", r.closes = 0,
           r.setup = "none" \/ r.closeStarted
    PROVE  Steps(r, CleanedUp(r))
<1> SUFFICES ASSUME NEW u \in CleanedUp(r)
             PROVE  u \in StreamObject /\ ObjectInv(u, main) /\ u.setup = r.setup
  BY DEF Steps, Sound
<1> DEFINE v == [r EXCEPT !.closing = TRUE, !.listed = FALSE, !.core = "cleaned",
                     !.clean = "joinSetup"]
           w == [r EXCEPT !.closing = TRUE, !.listed = FALSE, !.core = "cleaned",
                     !.clean = "failed", !.child = Killed(r)]
<1>2. CASE u = v
  <2>1. v \in StreamObject
    BY DEF StreamObject
  <2>2. ObjectInv(v, main)
    BY DEF ObjectInv, StreamObject, Ended, CoreRuns
  <2> QED
    BY <1>2, <2>1, <2>2 DEF StreamObject
<1>3. CASE u = w
  <2>1. PICK k \in {"none", "running", "exited", "reaped"} :
            k = Killed(r) /\ (k = r.child \/ (k = "exited" /\ r.child = "running"))
    BY DEF StreamObject, Killed
  <2>2. w = [r EXCEPT !.closing = TRUE, !.listed = FALSE, !.core = "cleaned",
                      !.clean = "failed", !.child = k]
    BY <2>1
  <2> HIDE DEF w
  <2>3. w \in StreamObject
    BY <2>1, <2>2, FailedType
  <2>4. ObjectInv(w, main)
    BY <2>1, <2>2 DEF ObjectInv, StreamObject, Ended, CoreRuns
  <2> QED
    BY <1>3, <2>2, <2>3, <2>4 DEF StreamObject
<1> QED
  BY <1>2, <1>3 DEF CleanedUp, MayFail

StreamsInv == str \in [Streams -> StreamObject] /\ \A s \in Streams : Sound(str[s])

\* No setup thread is started.
NoStart == \A s \in Streams : str[s].setup = "none" => str'[s].setup = "none"

LEMMA BecomesSound ==
    ASSUME StreamsInv, NEW s \in Streams, NEW rs, Steps(str[s], rs), Becomes(s, rs)
    PROVE  StreamsInv' /\ NoStart
<1>1. PICK u \in rs : str' = [str EXCEPT ![s] = u] /\ main' = main
  BY DEF Becomes
<1>2. u \in StreamObject /\ ObjectInv(u, main) /\ (str[s].setup = "none" => u.setup = "none")
  BY <1>1 DEF Steps, Sound
<1>3. \A t \in Streams : str'[t] = IF t = s THEN u ELSE str[t]
  BY <1>1 DEF StreamsInv
<1>4. str' \in [Streams -> StreamObject]
  BY <1>1, <1>2 DEF StreamsInv
<1>5. \A t \in Streams : Sound(str[t])'
  BY <1>1, <1>2, <1>3, <1>4 DEF StreamsInv, Sound
<1> QED
  BY <1>2, <1>3, <1>4, <1>5 DEF StreamsInv, NoStart

LEMMA CleanupSound ==
    ASSUME StreamsInv, NEW s \in Streams, NEW r, Steps(str[s], CleanedUp(r)), Cleanup(s, r)
    PROVE  StreamsInv' /\ NoStart
<1>1. PICK u \in CleanedUp(r) : str' = [str EXCEPT ![s] = u] /\ main' = main
  BY DEF Cleanup
<1>2. u \in StreamObject /\ ObjectInv(u, main) /\ (str[s].setup = "none" => u.setup = "none")
  BY <1>1 DEF Steps, Sound
<1>3. \A t \in Streams : str'[t] = IF t = s THEN u ELSE str[t]
  BY <1>1 DEF StreamsInv
<1>4. str' \in [Streams -> StreamObject]
  BY <1>1, <1>2 DEF StreamsInv
<1>5. \A t \in Streams : Sound(str[t])'
  BY <1>1, <1>2, <1>3, <1>4 DEF StreamsInv, Sound
<1> QED
  BY <1>2, <1>3, <1>4, <1>5 DEF StreamsInv, NoStart

LEMMA KilledSound ==
    ASSUME NEW r \in StreamObject
    PROVE  /\ Killed(r) \in {"none", "running", "exited", "reaped"}
           /\ Killed(r) = r.child \/ (Killed(r) = "exited" /\ r.child = "running")
  BY DEF StreamObject, Killed

LEMMA SetupSound ==
    ASSUME StreamsInv, NEW s \in Streams, Setup(s)
    PROVE  StreamsInv' /\ NoStart
<1> DEFINE r == str[s]
<1>0. r \in StreamObject /\ ObjectInv(r, main)
  BY DEF StreamsInv, Sound
<1> HIDE DEF r
<1>1. CASE SetupCheck(s)
  <2>1. PICK k \in {"done", "fork"} : Becomes(s, {[r EXCEPT !.setup = k]})
    BY <1>1 DEF SetupCheck, r
  <2> DEFINE u == [r EXCEPT !.setup = k]
  <2>2. u \in StreamObject
    BY <1>0, <2>1 DEF StreamObject
  <2>3. r.setup = "start"
    BY <1>1 DEF SetupCheck, r
  <2>4. ObjectInv(u, main)
    BY <1>0, <2>1, <2>3 DEF ObjectInv, StreamObject, Ended
  <2>5. Steps(r, {u})
    BY <2>2, <2>3, <2>4 DEF Steps, Sound
  <2> QED
    BY <2>1, <2>5, BecomesSound DEF r
<1>2. CASE SetupFork(s)
  <2> DEFINE u == [r EXCEPT !.ptyFd = TRUE, !.child = "running", !.setup = "forked"]
             v == [r EXCEPT !.setup = "done"]
  <2>1. r.setup = "fork" /\ Becomes(s, {u} \cup MayFail(CloseOnce(v)))
    BY <1>2 DEF SetupFork, r
  <2>2. Sound(u)
    <3>1. u \in StreamObject
      BY <1>0 DEF StreamObject
    <3>2. ObjectInv(u, main)
      BY <1>0, <2>1 DEF ObjectInv, StreamObject, Ended
    <3> QED
      BY <3>1, <3>2 DEF Sound
  <2>3. Sound(v) /\ v.setup = "done"
    <3>1. v \in StreamObject
      BY <1>0 DEF StreamObject
    <3>2. ObjectInv(v, main) /\ v.setup = "done"
      BY <1>0, <2>1 DEF ObjectInv, StreamObject, Ended
    <3> QED
      BY <3>1, <3>2 DEF Sound
  <2>4. Steps(v, CloseOnce(v))
    BY <2>3, CloseSound
  <2> HIDE DEF u, v
  <2>5. Steps(r, {u} \cup MayFail(CloseOnce(v)))
    BY <2>1, <2>2, <2>4 DEF Steps, MayFail
  <2> QED
    BY <2>1, <2>5, BecomesSound DEF r
<1>3. CASE SetupPtyReader(s)
  <2> DEFINE q == [r EXCEPT !.childPid = TRUE]
             u == [q EXCEPT !.pty = "loop", !.setup = "reading"]
             v == [q EXCEPT !.child = Killed(q), !.ptyFd = FALSE, !.setup = "done"]
  <2>1. q.setup = "forked" /\ Becomes(s, {u} \cup MayFail(CloseOnce(v)))
    BY <1>3 DEF SetupPtyReader, r
  <2>2. q \in StreamObject
    BY <1>0 DEF StreamObject
  <2>3. r.setup = "forked"
    BY <2>1, <1>0 DEF StreamObject
  <2>4. Sound(u)
    <3>1. u \in StreamObject
      BY <1>0 DEF StreamObject
    <3>2. ObjectInv(u, main)
      BY <1>0, <2>3 DEF ObjectInv, StreamObject, Ended
    <3> QED
      BY <3>1, <3>2 DEF Sound
  <2>5. Sound(v) /\ v.setup = "done"
    <3>1. PICK k \in {"none", "running", "exited", "reaped"} : k = Killed(q)
      BY <2>2, KilledSound
    <3>2. v = [r EXCEPT !.childPid = TRUE, !.child = k, !.ptyFd = FALSE, !.setup = "done"]
      BY <1>0, <3>1 DEF StreamObject
    <3> HIDE DEF q
    <3>3. v \in StreamObject
      <4>1. k \in {"none", "running", "exited", "reaped"}
        BY <3>1
      <4>2. [q EXCEPT !.child = k, !.ptyFd = FALSE, !.setup = "done"] \in StreamObject
        BY <2>2, <4>1 DEF StreamObject
      <4> QED
        BY <3>1, <4>2
    <3> HIDE DEF v
    <3>4. ObjectInv(v, main) /\ v.setup = "done"
      BY <1>0, <2>3, <3>1, <3>2 DEF ObjectInv, StreamObject, Ended
    <3> QED
      BY <3>3, <3>4 DEF Sound
  <2>6. Steps(v, CloseOnce(v))
    BY <2>5, CloseSound
  <2> HIDE DEF u, v
  <2>7. Steps(r, {u} \cup MayFail(CloseOnce(v)))
    BY <2>3, <2>4, <2>6 DEF Steps, MayFail
  <2> QED
    BY <2>1, <2>7, BecomesSound DEF r
<1>4. CASE SetupStreamReader(s)
  <2> DEFINE q == [r EXCEPT !.setup = "done"]
             u == [q EXCEPT !.input = "loop"]
             v == [q EXCEPT !.closing = TRUE, !.ptyFd = FALSE]
  <2>1. r.setup = "reading" /\ Becomes(s, {u} \cup MayFail(CloseOnce(v)))
    BY <1>4 DEF SetupStreamReader, r
  <2>2. Sound(u)
    <3>1. u \in StreamObject
      BY <1>0 DEF StreamObject
    <3>2. ObjectInv(u, main)
      BY <1>0, <2>1 DEF ObjectInv, StreamObject, Ended
    <3> QED
      BY <3>1, <3>2 DEF Sound
  <2>3. Sound(v) /\ v.setup = "done"
    <3>1. v \in StreamObject
      BY <1>0 DEF StreamObject
    <3>2. ObjectInv(v, main) /\ v.setup = "done"
      BY <1>0, <2>1 DEF ObjectInv, StreamObject, Ended
    <3> QED
      BY <3>1, <3>2 DEF Sound
  <2>4. Steps(v, CloseOnce(v))
    BY <2>3, CloseSound
  <2> HIDE DEF u, v
  <2>5. Steps(r, {u} \cup MayFail(CloseOnce(v)))
    BY <2>1, <2>2, <2>4 DEF Steps, MayFail
  <2> QED
    BY <2>1, <2>5, BecomesSound DEF r
<1> QED
  BY <1>1, <1>2, <1>3, <1>4 DEF Setup

\* The exit of either reader thread.
LEMMA ReaderExits ==
    ASSUME NEW r \in StreamObject, ObjectInv(r, main)
    PROVE  /\ r.pty \notin {"none", "done"} => Steps(r, PtyExit(r))
           /\ r.input \notin {"none", "done"} => Steps(r, InputExit(r))
<1>1. ASSUME r.pty \notin {"none", "done"} PROVE Steps(r, PtyExit(r))
  <2> DEFINE u == [r EXCEPT !.closing = TRUE, !.pty = "done"]
  <2>1. u \in StreamObject
    BY DEF StreamObject
  <2>2. ObjectInv(u, main) /\ u.setup = r.setup /\ u.setup # "none"
    BY <1>1 DEF ObjectInv, StreamObject, Ended
  <2>3. PtyExit(r) = CloseOnce(u)
    BY DEF PtyExit
  <2> HIDE DEF u
  <2>4. Steps(u, CloseOnce(u))
    BY <2>1, <2>2, CloseSound DEF Sound
  <2> QED
    BY <2>2, <2>3, <2>4 DEF Steps
<1>2. ASSUME r.input \notin {"none", "done"} PROVE Steps(r, InputExit(r))
  <2> DEFINE u == [r EXCEPT !.closing = TRUE, !.input = "done"]
  <2>1. u \in StreamObject
    BY DEF StreamObject
  <2>2. ObjectInv(u, main) /\ u.setup = r.setup /\ u.setup # "none"
    BY <1>2 DEF ObjectInv, StreamObject, Ended
  <2>3. InputExit(r) = CloseOnce(u)
    BY DEF InputExit
  <2> HIDE DEF u
  <2>4. Steps(u, CloseOnce(u))
    BY <2>1, <2>2, CloseSound DEF Sound
  <2> QED
    BY <2>2, <2>3, <2>4 DEF Steps
<1> QED
  BY <1>1, <1>2

\* Each reader goes round its loop, or exits.
LEMMA ReadersSound ==
    ASSUME StreamsInv, NEW s \in Streams,
           PtyReader(s) \/ PtyOutput(s) \/ StreamReader(s) \/ ClientSends(s)
    PROVE  StreamsInv' /\ NoStart
<1> DEFINE r == str[s]
<1>0. r \in StreamObject /\ ObjectInv(r, main)
  BY DEF StreamsInv, Sound
<1>1. CASE PtyReader(s) \/ PtyOutput(s)
  <2>1. r.pty \notin {"none", "done"}
    BY <1>1 DEF PtyReader, PtyLoop, PtyEof, PtyWrite, PtyOutput
  <2>2. \A k \in {"loop", "read", "write"} : Steps(r, {[r EXCEPT !.pty = k]})
    <3> SUFFICES ASSUME NEW k \in {"loop", "read", "write"} PROVE Steps(r, {[r EXCEPT !.pty = k]})
      OBVIOUS
    <3> DEFINE u == [r EXCEPT !.pty = k]
    <3> HIDE DEF r
    <3>1. u \in StreamObject
      BY <1>0 DEF StreamObject
    <3>2. ObjectInv(u, main) /\ u.setup = r.setup
      BY <1>0, <2>1 DEF ObjectInv, StreamObject, Ended
    <3> QED
      BY <3>1, <3>2 DEF Steps, Sound
  <2>3. Steps(r, PtyExit(r))
    BY <1>0, <2>1, ReaderExits
  <2>4. Steps(r, {})
    BY DEF Steps
  <2>5. PICK rs : Steps(r, rs) /\ Becomes(s, rs)
    <3>1. CASE PtyLoop(s)
      BY <2>2, <2>3, <3>1 DEF PtyLoop
    <3>2. CASE PtyEof(s)
      BY <2>3, <3>2 DEF PtyEof
    <3>3. CASE PtyWrite(s)
      <4>1. Steps(r, PtyExit(r) \cup IF Up(r) THEN {[r EXCEPT !.pty = "loop"]} ELSE {})
        BY <2>2, <2>3 DEF Steps
      <4> QED
        BY <3>3, <4>1 DEF PtyWrite
    <3>4. CASE PtyOutput(s)
      BY <2>2, <3>4 DEF PtyOutput
    <3> QED
      BY <1>1, <3>1, <3>2, <3>3, <3>4 DEF PtyReader
  <2> QED
    BY <2>5, BecomesSound
<1>2. CASE StreamReader(s) \/ ClientSends(s)
  <2>1. r.input \notin {"none", "done"}
    BY <1>2 DEF StreamReader, InputLoop, InputFails, InputWrite, ClientSends
  <2>2. \A k \in {"loop", "read", "write"} : Steps(r, {[r EXCEPT !.input = k]})
    <3> SUFFICES ASSUME NEW k \in {"loop", "read", "write"} PROVE Steps(r, {[r EXCEPT !.input = k]})
      OBVIOUS
    <3> DEFINE u == [r EXCEPT !.input = k]
    <3> HIDE DEF r
    <3>1. u \in StreamObject
      BY <1>0 DEF StreamObject
    <3>2. ObjectInv(u, main) /\ u.setup = r.setup
      BY <1>0, <2>1 DEF ObjectInv, StreamObject, Ended
    <3> QED
      BY <3>1, <3>2 DEF Steps, Sound
  <2>3. Steps(r, InputExit(r))
    BY <1>0, <2>1, ReaderExits
  <2>4. PICK rs : Steps(r, rs) /\ Becomes(s, rs)
    <3>1. CASE InputLoop(s)
      BY <2>2, <2>3, <3>1 DEF InputLoop
    <3>2. CASE InputFails(s)
      BY <2>3, <3>2 DEF InputFails
    <3>3. CASE InputWrite(s)
      <4>1. Steps(r, {[r EXCEPT !.input = "loop"]}
                       \cup IF r.ptyFd /\ r.child = "running" THEN {} ELSE InputExit(r))
        BY <2>2, <2>3 DEF Steps
      <4> QED
        BY <3>3, <4>1 DEF InputWrite
    <3>4. CASE ClientSends(s)
      <4>1. Steps(r, {[r EXCEPT !.input = "write"]} \cup InputExit(r))
        BY <2>2, <2>3 DEF Steps
      <4> QED
        BY <3>4, <4>1 DEF ClientSends
    <3> QED
      BY <1>2, <3>1, <3>2, <3>3, <3>4 DEF StreamReader
  <2> QED
    BY <2>4, BecomesSound
<1> QED
  BY <1>1, <1>2

\* The cleanup thread, main's deinit, and the child's own exit.
LEMMA ReleaseSound ==
    ASSUME StreamsInv, NEW s \in Streams,
           CleanupThread(s) \/ DeinitKill(s) \/ DeinitFree(s) \/ ChildExits(s)
    PROVE  StreamsInv' /\ NoStart
<1> DEFINE r == str[s]
<1>0. r \in StreamObject /\ ObjectInv(r, main)
  BY DEF StreamsInv, Sound
<1>k. PICK k \in {"none", "running", "exited", "reaped"} :
          k = Killed(r) /\ (k = r.child \/ (k = "exited" /\ r.child = "running"))
  BY <1>0, KilledSound
<1>t. k \in {"none", "running", "exited", "reaped"}
  BY <1>k
<1>1. CASE CleanupKill(s)
  <2> DEFINE u == [r EXCEPT !.ptyFd = FALSE, !.child = k, !.clean = "joinReaders"]
  <2>1. r.clean = "joinSetup" /\ Ended(r.setup) /\ Becomes(s, {u})
    BY <1>1, <1>k DEF CleanupKill
  <2> HIDE DEF r
  <2>2. u \in StreamObject
    BY <1>0, <1>t DEF StreamObject
  <2>3. ObjectInv(u, main) /\ u.setup = r.setup
    BY <1>0, <1>k, <2>1 DEF ObjectInv, StreamObject, Ended
  <2>4. Steps(r, {u})
    BY <2>2, <2>3 DEF Steps, Sound
  <2> QED
    BY <2>1, <2>4, BecomesSound DEF r
<1>2. CASE CleanupFree(s) \/ DeinitFree(s)
  <2>1. r.clean \in {"joinReaders", "mainJoins"} /\ CanFree(r) /\ Becomes(s, {Freed(r)})
    BY <1>2 DEF CleanupFree, DeinitFree, Joining
  <2> HIDE DEF r
  <2>2. PICK c \in {"none", "running", "exited", "reaped"} :
            c = IF r.childPid THEN "reaped" ELSE r.child
    BY <1>0 DEF StreamObject
  <2>3. c \in {"none", "running", "exited", "reaped"}
    BY <2>2
  <2> DEFINE u == [r EXCEPT !.child = c, !.clean = "done", !.freed = TRUE]
  <2>4. u \in StreamObject
    BY <1>0, <2>3 DEF StreamObject
  <2>5. c \in {"none", "reaped"}
    BY <1>0, <2>1, <2>2 DEF ObjectInv, StreamObject, CanFree, Ended
  <2>6. ObjectInv(u, main) /\ u.setup = r.setup
    BY <1>0, <2>1, <2>2, <2>5 DEF ObjectInv, StreamObject, CanFree, Ended
  <2>7. Freed(r) = u
    BY <1>0, <2>2 DEF Freed, StreamObject
  <2> HIDE DEF u
  <2>8. Steps(r, {Freed(r)})
    BY <2>4, <2>6, <2>7 DEF Steps, Sound
  <2> QED
    BY <2>1, <2>8, BecomesSound DEF r
<1>3. CASE DeinitKill(s)
  <2> DEFINE u == [r EXCEPT !.listed = FALSE, !.closing = TRUE, !.ptyFd = FALSE,
                            !.child = k, !.clean = "mainJoins"]
  <2>1. main = "deinit" /\ r.listed /\ Becomes(s, {u})
    BY <1>3, <1>k DEF DeinitKill
  <2> HIDE DEF r
  <2>2. u \in StreamObject
    BY <1>0, <1>t DEF StreamObject
  <2>3. ObjectInv(u, main) /\ u.setup = r.setup
    BY <1>0, <1>k, <2>1 DEF ObjectInv, StreamObject, Ended
  <2>4. Steps(r, {u})
    BY <2>2, <2>3 DEF Steps, Sound
  <2> QED
    BY <2>1, <2>4, BecomesSound DEF r
<1>4. CASE ChildExits(s)
  <2> DEFINE u == [r EXCEPT !.child = "exited"]
  <2>1. r.child = "running" /\ Becomes(s, {u})
    BY <1>4 DEF ChildExits
  <2> HIDE DEF r
  <2>2. u \in StreamObject
    BY <1>0 DEF StreamObject
  <2>3. ObjectInv(u, main) /\ u.setup = r.setup
    BY <1>0, <2>1 DEF ObjectInv, StreamObject, Ended
  <2>4. Steps(r, {u})
    BY <2>2, <2>3 DEF Steps, Sound
  <2> QED
    BY <2>1, <2>4, BecomesSound DEF r
<1> QED
  BY <1>1, <1>2, <1>3, <1>4 DEF CleanupThread

\* stream_callback, and the callbacks that clean a stream up.
LEMMA CoreSound ==
    ASSUME StreamsInv, NEW s \in Streams,
           \/ \E c \in Conns : OpenStream(s, c)
           \/ AcceptFailed(s) \/ StreamClosed(s) \/ CleanupDirectly(s)
    PROVE  StreamsInv' /\ NoStart
<1> DEFINE r == str[s]
<1>0. r \in StreamObject /\ ObjectInv(r, main)
  BY DEF StreamsInv, Sound
<1>1. ASSUME NEW c \in Conns, OpenStream(s, c) PROVE StreamsInv' /\ NoStart
  <2> DEFINE u == [r EXCEPT !.conn = c, !.listed = TRUE, !.core = "accepting"]
             v == [u EXCEPT !.core = "cleaning"]
  <2>1. main = "run" /\ r.core = "unborn" /\ Becomes(s, {u} \cup MayFail({v}))
    BY <1>1 DEF OpenStream
  <2> HIDE DEF r
  <2>2. u \in StreamObject /\ v \in StreamObject
    BY <1>0 DEF StreamObject
  <2>3. ObjectInv(u, main) /\ u.setup = r.setup
    BY <1>0, <2>1 DEF ObjectInv, StreamObject, Ended
  <2>4. ObjectInv(v, main) /\ v.setup = r.setup
    BY <1>0, <2>1 DEF ObjectInv, StreamObject, Ended
  <2> HIDE DEF u, v
  <2>5. Steps(r, {u} \cup MayFail({v}))
    BY <2>2, <2>3, <2>4 DEF Steps, Sound, MayFail
  <2> QED
    BY <2>1, <2>5, BecomesSound DEF r
<1>2. CASE AcceptFailed(s) \/ CleanupDirectly(s)
  <2>1. /\ r.core \in {"accepting", "cleaning"} /\ Cleanup(s, r)
        /\ r.core = "accepting" => CoreRuns
    BY <1>2 DEF AcceptFailed, CleanupDirectly
  <2>2. CoreRuns /\ r.closes = 0 /\ (r.setup = "none" \/ r.closeStarted)
    BY <1>0, <2>1 DEF ObjectInv, StreamObject, CoreRuns
  <2>3. Steps(r, CleanedUp(r))
    BY <1>0, <2>1, <2>2, CleanSound
  <2> QED
    BY <2>1, <2>3, CleanupSound
<1>3. CASE StreamClosed(s)
  <2> DEFINE u == [r EXCEPT !.closes = @ - 1]
  <2>1. CoreRuns /\ r.closes > 0 /\ Cleanup(s, u)
    BY <1>3 DEF StreamClosed
  <2> HIDE DEF r
  <2>2. r.closes = 1
    BY <1>0, <2>1 DEF StreamObject
  <2>3. u = [r EXCEPT !.closes = 0]
    BY <1>0, <2>2 DEF StreamObject
  <2> HIDE DEF u
  <2>4. u \in StreamObject
    BY <1>0, <2>3 DEF StreamObject
  <2>5. ObjectInv(u, main) /\ u.setup = r.setup
    BY <1>0, <2>2, <2>3 DEF ObjectInv, StreamObject, Ended
  <2>6. u.core \notin {"unborn", "cleaned"} /\ u.closes = 0 /\ u.closeStarted
    BY <1>0, <2>2, <2>3 DEF ObjectInv, StreamObject
  <2>7. Steps(u, CleanedUp(u))
    BY <2>1, <2>4, <2>5, <2>6, CleanSound
  <2>8. Steps(r, CleanedUp(u))
    BY <2>5, <2>7 DEF Steps
  <2> QED
    BY <2>1, <2>8, CleanupSound DEF r
<1> QED
  BY <1>1, <1>2, <1>3

LEMMA GetType ==
    ASSUME MapInv, NEW c
    PROVE  /\ SessionGet(entries, c) \in Names \cup {NoEntry}
           /\ SlotsOf(entries, c) # {} =>
                \E i \in Slots : /\ entries[i] # NoEntry /\ entries[i].ref = c
                                 /\ SessionGet(entries, c) = entries[i].name
<1>1. CASE SlotsOf(entries, c) = {}
  BY <1>1 DEF SessionGet
<1>2. CASE SlotsOf(entries, c) # {}
  <2>1. First(SlotsOf(entries, c)) \in SlotsOf(entries, c)
    BY <1>2, FirstSlot DEF MapInv, OneEntryPerConnection
  <2>2. PICK i \in Slots : i = First(SlotsOf(entries, c)) /\ entries[i] # NoEntry /\ entries[i].ref = c
    BY <2>1 DEF SlotsOf
  <2>3. SessionGet(entries, c) = entries[i].name
    BY <1>2, <2>2 DEF SessionGet
  <2>4. entries[i] \in Entry
    BY <2>2 DEF MapInv, Maps
  <2> QED
    BY <2>2, <2>3, <2>4 DEF Entry
<1> QED
  BY <1>1, <1>2

\* stream_accepted: only here is a setup thread started, and for the session the
\* map holds for the stream's connection.
LEMMA AcceptedSound ==
    ASSUME StreamsInv, MapInv, NEW s \in Streams, Accepted(s)
    PROVE  /\ StreamsInv'
           /\ \A t \in Streams : str[t].setup = "none" /\ str'[t].setup = "start" =>
                /\ t = s
                /\ SessionGet(entries, str[s].conn) # NoEntry
                /\ str'[s].name = SessionGet(entries, str[s].conn)
<1> DEFINE r == str[s]
           target == SessionGet(entries, r.conn)
           o == [r EXCEPT !.core = "open"]
           n == [o EXCEPT !.name = target]
           w == [n EXCEPT !.setup = "start"]
<1>0. r \in StreamObject /\ ObjectInv(r, main)
  BY DEF StreamsInv, Sound
<1>1. PICK u : /\ str' = [str EXCEPT ![s] = u] /\ main' = main
               /\ \/ u \in CloseOnce(o) \cup CloseOnce(n)
                  \/ target # NoEntry /\ u = w
  BY DEF Accepted, MayFail
<1>2. r.core = "accepting" /\ CoreRuns
  BY DEF Accepted
<1>3. target \in Names \cup {NoEntry}
  BY GetType
<1> HIDE DEF r, target
<1>4. o \in StreamObject /\ n \in StreamObject /\ w \in StreamObject
  <2>1. o \in StreamObject
    BY <1>0 DEF StreamObject
  <2> HIDE DEF o
  <2>2. n \in StreamObject
    BY <1>3, <2>1 DEF StreamObject
  <2> HIDE DEF n
  <2>3. w \in StreamObject
    BY <2>2 DEF StreamObject
  <2> QED
    BY <2>1, <2>2, <2>3
<1>5. ObjectInv(o, main) /\ o.core = "open" /\ o.setup = "none"
  BY <1>0, <1>2 DEF ObjectInv, StreamObject, Ended, CoreRuns
<1>6. ObjectInv(n, main) /\ n.core = "open" /\ n.setup = "none"
  BY <1>0, <1>2 DEF ObjectInv, StreamObject, Ended, CoreRuns
<1>7. ObjectInv(w, main) /\ w.name = target
  BY <1>0, <1>2 DEF ObjectInv, StreamObject, Ended, CoreRuns
<1> HIDE DEF o, n, w
<1>8. Steps(o, CloseOnce(o)) /\ Steps(n, CloseOnce(n))
  BY <1>4, <1>5, <1>6, CloseSound DEF Sound
<1>9. /\ u \in StreamObject /\ ObjectInv(u, main)
      /\ u.setup = "none" \/ (target # NoEntry /\ u.name = target)
  BY <1>1, <1>4, <1>5, <1>6, <1>7, <1>8 DEF Steps, Sound
<1>10. \A t \in Streams : str'[t] = IF t = s THEN u ELSE str[t]
  BY <1>1 DEF StreamsInv
<1>11. str' \in [Streams -> StreamObject]
  BY <1>1, <1>9 DEF StreamsInv
<1>12. \A t \in Streams : Sound(str[t])'
  BY <1>1, <1>9, <1>10, <1>11 DEF StreamsInv, Sound
<1> QED
  BY <1>9, <1>10, <1>11, <1>12 DEF StreamsInv, r, target

\* tmuxremote_stream_listener_stop and the rest of main's shutdown.
LEMMA MainSound ==
    ASSUME StreamsInv, Main
    PROVE  StreamsInv' /\ NoStart
<1>1. CASE ListenerStop
  <2>1. main = "run" /\ main' = "stopping"
    BY <1>1 DEF ListenerStop
  <2>2. ASSUME NEW s \in Streams
        PROVE  /\ str'[s] \in StreamObject /\ ObjectInv(str'[s], main')
               /\ str'[s].setup = str[s].setup
    <3> DEFINE r == str[s]
               u == [r EXCEPT !.closing = TRUE, !.child = Killed(r)]
    <3>1. r \in StreamObject /\ ObjectInv(r, main) /\ r.core # "cleaning"
      BY <1>1 DEF StreamsInv, Sound, ListenerStop
    <3>2. str'[s] = u \/ str'[s] = r
      BY <1>1 DEF ListenerStop
    <3>3. PICK k \in {"none", "running", "exited", "reaped"} :
              k = Killed(r) /\ (k = r.child \/ (k = "exited" /\ r.child = "running"))
      BY <3>1, KilledSound
    <3>4. k \in {"none", "running", "exited", "reaped"} /\ u = [r EXCEPT !.closing = TRUE, !.child = k]
      BY <3>3
    <3> HIDE DEF u, r
    <3>5. u \in StreamObject
      BY <3>1, <3>4 DEF StreamObject
    <3>6. ObjectInv(u, main') /\ u.setup = r.setup
      BY <2>1, <3>1, <3>3, <3>4 DEF ObjectInv, StreamObject, Ended
    <3>7. ObjectInv(r, main')
      BY <2>1, <3>1 DEF ObjectInv
    <3> QED
      BY <3>1, <3>2, <3>5, <3>6, <3>7 DEF r
  <2>3. str' = [s \in Streams |-> str'[s]]
    BY <1>1 DEF ListenerStop
  <2> QED
    BY <2>2, <2>3 DEF StreamsInv, Sound, NoStart
<1>2. CASE DeviceStop \/ MainExit
  <2>1. str' = str /\ main # "run" /\ main' \in {"deinit", "done"}
    BY <1>2 DEF DeviceStop, MainExit
  <2>2. ASSUME NEW s \in Streams PROVE ObjectInv(str[s], main')
    <3>1. ObjectInv(str[s], main)
      BY DEF StreamsInv, Sound
    <3> QED
      BY <2>1, <3>1 DEF ObjectInv
  <2> QED
    BY <2>1, <2>2 DEF StreamsInv, Sound, NoStart
<1> QED
  BY <1>1, <1>2 DEF Main

(***************************************************************************)
(* The inductive invariant of the whole module, and its theorems.          *)
(***************************************************************************)
\* An entry of the session map is what its connection has asked for last.
TargetsInv ==
    /\ MapInv
    /\ wanted \in [Conns -> Names \cup {NoEntry}]
    /\ \A i \in Slots : entries[i] # NoEntry => entries[i].name = wanted[entries[i].ref]

LEMMA TargetsNext == TargetsInv /\ [Next]_vars => TargetsInv'
<1> SUFFICES ASSUME TargetsInv, [Next]_vars PROVE TargetsInv'
  OBVIOUS
<1>1. MapInv'
  BY MapNext DEF TargetsInv
<1>2. ASSUME UNCHANGED <<entries, wanted>> PROVE TargetsInv'
  BY <1>1, <1>2 DEF TargetsInv
<1>3. ASSUME NEW c \in Conns, NEW n \in Names, Attach(c, n) PROVE TargetsInv'
  <2>1. CASE ~HasSlot(entries, c)
    <3>1. UNCHANGED <<entries, wanted>>
      BY <1>3, <2>1, SetKeepsUnique DEF Attach, TargetsInv, MapInv, OneEntryPerConnection
    <3> QED
      BY <3>1, <1>2
  <2>2. CASE HasSlot(entries, c)
    <3>1. wanted' = [wanted EXCEPT ![c] = n] /\ entries' = SessionSet(entries, c, n)
      BY <1>3, <2>2 DEF Attach
    <3>2. \A k \in Slots : entries'[k] # NoEntry =>
              \/ entries'[k].ref = c /\ entries'[k].name = n
              \/ entries'[k] = entries[k] /\ entries'[k].ref # c
      BY <2>2, <3>1, SetKeepsUnique DEF TargetsInv, MapInv, OneEntryPerConnection
    <3>3. \A k \in Slots : entries'[k] # NoEntry => entries'[k].ref \in Conns
      BY <1>1 DEF MapInv, Maps, Entry
    <3> QED
      BY <1>1, <3>1, <3>2, <3>3 DEF TargetsInv
  <2> QED
    BY <2>1, <2>2
<1>4. ASSUME NEW s \in Streams, AcceptFailed(s) \/ StreamClosed(s) \/ CleanupDirectly(s)
      PROVE  TargetsInv'
  <2>1. PICK c : entries' = SessionRemove(entries, c) /\ UNCHANGED wanted
    BY <1>4 DEF AcceptFailed, StreamClosed, CleanupDirectly, Cleanup
  <2>2. \A i \in Slots : entries'[i] = NoEntry \/ entries'[i] = entries[i]
    BY <2>1 DEF SessionRemove
  <2> QED
    BY <1>1, <2>1, <2>2 DEF TargetsInv
<1>5. ASSUME NEW c \in Conns, Connect(c) \/ Disconnect(c) PROVE TargetsInv'
  BY <1>2, <1>5 DEF Connect, Disconnect
<1>6. ASSUME NEW s \in Streams, NEW c \in Conns, OpenStream(s, c) PROVE TargetsInv'
  BY <1>2, <1>6 DEF OpenStream, Becomes
<1>7. ASSUME NEW s \in Streams,
             \/ Accepted(s) \/ Setup(s) \/ PtyReader(s) \/ StreamReader(s)
             \/ CleanupThread(s) \/ DeinitKill(s) \/ DeinitFree(s)
             \/ PtyOutput(s) \/ ClientSends(s) \/ ChildExits(s)
      PROVE  TargetsInv'
  BY <1>2, <1>7, MapUntouched
<1>8. CASE Main
  BY <1>2, <1>8 DEF Main, ListenerStop, DeviceStop, MainExit
<1>9. CASE UNCHANGED vars
  BY <1>2, <1>9 DEF vars
<1> QED
  BY <1>3, <1>4, <1>5, <1>6, <1>7, <1>8, <1>9 DEF Next, Stream

LEMMA StreamsInit == Init => StreamsInv /\ TargetsInv
<1> SUFFICES ASSUME Init PROVE StreamsInv /\ TargetsInv
  OBVIOUS
<1>1. NewStream \in StreamObject
  BY DEF NewStream, StreamObject
<1>2. ObjectInv(NewStream, main)
  BY DEF NewStream, ObjectInv, Ended
<1>3. StreamsInv
  BY <1>1, <1>2 DEF Init, StreamsInv, Sound
<1> QED
  BY <1>3, MapInit DEF Init, TargetsInv, EmptyMap

\* One step of anything: the objects stay sound, and a setup thread is started
\* only by stream_accepted, for the session in the map.
StartsRight ==
    \A s \in Streams : str[s].setup = "none" /\ str'[s].setup = "start"
                         => str'[s].name = wanted[str[s].conn]

LEMMA StreamsNext ==
    ASSUME StreamsInv, TargetsInv, [Next]_vars
    PROVE  StreamsInv' /\ StartsRight
<1>1. NoStart => StartsRight
  BY DEF NoStart, StartsRight
<1>2. ASSUME NEW s \in Streams, Accepted(s) PROVE StreamsInv' /\ StartsRight
  <2>1. StreamsInv'
    BY <1>2, AcceptedSound DEF TargetsInv
  <2>2. ASSUME NEW t \in Streams, str[t].setup = "none", str'[t].setup = "start"
        PROVE  str'[t].name = wanted[str[t].conn]
    <3>1. /\ t = s /\ SessionGet(entries, str[s].conn) # NoEntry
          /\ str'[s].name = SessionGet(entries, str[s].conn)
      BY <1>2, <2>2, AcceptedSound DEF TargetsInv
    <3>2. SlotsOf(entries, str[s].conn) # {}
      BY <3>1 DEF SessionGet
    <3>3. PICK i \in Slots : /\ entries[i] # NoEntry /\ entries[i].ref = str[s].conn
                             /\ SessionGet(entries, str[s].conn) = entries[i].name
      BY <3>2, GetType DEF TargetsInv
    <3> QED
      BY <3>1, <3>3 DEF TargetsInv
  <2> QED
    BY <2>1, <2>2 DEF StartsRight
<1>3. ASSUME UNCHANGED <<str, main>> PROVE StreamsInv' /\ StartsRight
  BY <1>1, <1>3 DEF StreamsInv, Sound, NoStart
<1>4. ASSUME NEW c \in Conns, Connect(c) \/ Disconnect(c) \/ \E n \in Names : Attach(c, n)
      PROVE  StreamsInv' /\ StartsRight
  BY <1>3, <1>4 DEF Connect, Disconnect, Attach
<1>5. ASSUME NEW s \in Streams,
             \/ \E c \in Conns : OpenStream(s, c)
             \/ AcceptFailed(s) \/ StreamClosed(s) \/ CleanupDirectly(s)
      PROVE  StreamsInv' /\ StartsRight
  BY <1>1, <1>5, CoreSound
<1>6. ASSUME NEW s \in Streams, Setup(s) PROVE StreamsInv' /\ StartsRight
  BY <1>1, <1>6, SetupSound
<1>7. ASSUME NEW s \in Streams,
             PtyReader(s) \/ PtyOutput(s) \/ StreamReader(s) \/ ClientSends(s)
      PROVE  StreamsInv' /\ StartsRight
  BY <1>1, <1>7, ReadersSound
<1>8. ASSUME NEW s \in Streams,
             CleanupThread(s) \/ DeinitKill(s) \/ DeinitFree(s) \/ ChildExits(s)
      PROVE  StreamsInv' /\ StartsRight
  BY <1>1, <1>8, ReleaseSound
<1>9. CASE Main
  BY <1>1, <1>9, MainSound
<1>10. CASE UNCHANGED vars
  BY <1>3, <1>10 DEF vars
<1>11. ASSUME NEW s \in Streams, Stream(s) \/ PtyOutput(s) \/ ClientSends(s) \/ ChildExits(s)
       PROVE  StreamsInv' /\ StartsRight
  BY <1>2, <1>5, <1>6, <1>7, <1>8, <1>11 DEF Stream
<1> QED
  BY <1>4, <1>5, <1>9, <1>10, <1>11 DEF Next

\* The rest of the types.
FlagsInv == /\ conns \in [Conns -> {"new", "up", "down"}]
            /\ main \in {"run", "stopping", "deinit", "done"}
            /\ due \subseteq Conns

LEMMA FlagsNext == FlagsInv /\ [Next]_vars => FlagsInv'
<1> SUFFICES ASSUME FlagsInv, [Next]_vars PROVE FlagsInv'
  OBVIOUS
<1>1. ASSUME UNCHANGED <<conns, main>>, due' \subseteq due PROVE FlagsInv'
  BY <1>1 DEF FlagsInv
<1>2. ASSUME NEW c \in Conns, Connect(c) \/ Disconnect(c) \/ \E n \in Names : Attach(c, n)
      PROVE  FlagsInv'
  BY <1>2 DEF FlagsInv, Connect, Disconnect, Attach
<1>3. ASSUME NEW s \in Streams,
             \/ \E c \in Conns : OpenStream(s, c)
             \/ AcceptFailed(s) \/ StreamClosed(s) \/ CleanupDirectly(s)
      PROVE  FlagsInv'
  BY <1>1, <1>3 DEF OpenStream, Becomes, AcceptFailed, StreamClosed, CleanupDirectly, Cleanup
<1>4. ASSUME NEW s \in Streams,
             \/ Accepted(s) \/ Setup(s) \/ PtyReader(s) \/ StreamReader(s)
             \/ CleanupThread(s) \/ DeinitKill(s) \/ DeinitFree(s)
             \/ PtyOutput(s) \/ ClientSends(s) \/ ChildExits(s)
      PROVE  FlagsInv'
  BY <1>1, <1>4, MapUntouched
<1>5. CASE Main
  BY <1>5 DEF FlagsInv, Main, ListenerStop, DeviceStop, MainExit
<1>6. CASE UNCHANGED vars
  BY <1>1, <1>6 DEF vars
<1> QED
  BY <1>2, <1>3, <1>4, <1>5, <1>6 DEF Next, Stream

LEMMA Invariance == Spec => [](StreamsInv /\ TargetsInv /\ FlagsInv)
<1>1. Init => FlagsInv
  BY DEF Init, FlagsInv
<1>2. StreamsInv /\ TargetsInv /\ FlagsInv /\ [Next]_vars
        => (StreamsInv /\ TargetsInv /\ FlagsInv)'
  BY StreamsNext, TargetsNext, FlagsNext
<1> QED
  BY <1>1, <1>2, StreamsInit, PTL DEF Spec

\* Types; that closes stays 0 or 1 says that the SDK is asked to close a stream
\* at most once, whichever of the five threads comes first.
THEOREM TypeCorrectness == Spec => []TypeOK
<1>1. StreamsInv /\ TargetsInv /\ FlagsInv => TypeOK
  BY DEF StreamsInv, TargetsInv, FlagsInv, MapInv, TypeOK
<1> QED
  BY <1>1, Invariance, PTL

\* A stream object is freed when no thread, callback or child is left that could
\* use it, for any number of streams and connections and every interleaving of
\* callbacks, setup, readers, cleanup and shutdown.
THEOREM ObjectFreedAlone == Spec => []FreedAlone
<1>1. StreamsInv => FreedAlone
  <2> SUFFICES ASSUME StreamsInv, NEW s \in Streams, str[s].freed
               PROVE  /\ Ended(str[s].setup) /\ Ended(str[s].pty) /\ Ended(str[s].input)
                      /\ ~str[s].listed
                      /\ str[s].child \in {"none", "reaped"}
                      /\ CoreRuns => str[s].closes = 0 /\ str[s].core = "cleaned"
    BY DEF FreedAlone
  <2>1. str[s] \in StreamObject /\ ObjectInv(str[s], main)
    BY DEF StreamsInv, Sound
  <2> QED
    BY <2>1 DEF ObjectInv, StreamObject, CoreRuns
<1> QED
  BY <1>1, Invariance, PTL

\* However attach requests, streams and cleanups interleave, a stream that starts
\* is attached to the session its connection has asked for last.
THEOREM AttachedRight == Spec => RightSession
<1>1. StreamsInv /\ TargetsInv /\ [Next]_vars
        => [\A s \in Streams : str[s].setup = "none" /\ str'[s].setup = "start"
                                 => str'[s].name = wanted[str[s].conn]]_vars
  BY StreamsNext DEF StartsRight
<1> QED
  BY <1>1, Invariance, PTL DEF Spec, RightSession
=============================================================================

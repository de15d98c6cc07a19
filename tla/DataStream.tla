----------------------------- MODULE DataStream -----------------------------
(***************************************************************************)
(* The data streams of the agent (agent/src/tmuxremote_stream.c) with the  *)
(* session map and the attach request they depend on.  Five threads work   *)
(* on one stream object: the Nabto core (accept and close callbacks), the  *)
(* setup thread that forks the tmux client, the PTY reader, the stream     *)
(* reader, and the detached cleanup thread that frees the object.  main    *)
(* stops the listener and frees what is still listed.                      *)
(*                                                                         *)
(* What is read and written is left out; a read or a write ends well or    *)
(* badly.  activeStreamsMutex is held for one step at a time here: the     *)
(* module ControlStream models who waits for it.                           *)
(***************************************************************************)
EXTENDS SessionMap, FiniteSets

CONSTANTS Streams,      \* stream objects
          ResourcesFail \* BOOLEAN: may a fork, a thread or a future fail?

ASSUME DataStreamAssumption == ResourcesFail \in BOOLEAN

VARIABLES entries, \* the session map
          conns,   \* [Conns -> "new", "up" or "down"], the SDK's state
          str,     \* [Streams -> the stream object and its threads]
          main,    \* program counter of main
          wanted,  \* history: the session of each connection's last 201 reply
          due      \* history: connections with an attach that no stream used

vars == <<entries, conns, str, main, wanted, due>>

NewStream ==
    [conn |-> NoEntry, name |-> NoEntry,
     listed |-> FALSE, closing |-> FALSE, closeStarted |-> FALSE, freed |-> FALSE,
     core |-> "unborn", closes |-> 0,
     setup |-> "none", pty |-> "none", input |-> "none", clean |-> "none",
     child |-> "none", childPid |-> FALSE, ptyFd |-> FALSE]

Init == /\ entries = EmptyMap
        /\ conns = [c \in Conns |-> "new"]
        /\ str = [s \in Streams |-> NewStream]
        /\ main = "run"
        /\ wanted = [c \in Conns |-> NoEntry]
        /\ due = {}

Up(r) == conns[r.conn] = "up"
CoreRuns == main \in {"run", "stopping"}
Ended(pc) == pc \in {"none", "done"}

\* Stream s becomes one of the records rs; nothing else changes.
Becomes(s, rs) == /\ \E r \in rs : str' = [str EXCEPT ![s] = r]
                  /\ UNCHANGED <<entries, conns, main, wanted, due>>

\* What may go wrong when resources run out.  Bound: it is over, and dealt with,
\* when the agent is being stopped.
MayFail(rs) == IF ResourcesFail /\ main = "run" THEN rs ELSE {}

-----------------------------------------------------------------------------
\* Mutant of CloseOnce: closeStarted is not looked at.
CloseAgain(r) == {[r EXCEPT !.closeStarted = TRUE, !.closes = @ + 1]}

\* start_stream_close_once: the first caller asks the SDK to close the stream,
\* or, without a future, cleans up itself.
CloseOnce(r) ==
    IF r.closeStarted THEN {r}
    ELSE {[r EXCEPT !.closeStarted = TRUE, !.closes = 1]}
         \cup MayFail({[r EXCEPT !.closeStarted = TRUE, !.core = "cleaning"]})

\* cleanup_active_stream: the stream leaves the session map and the list, and
\* the cleanup thread starts; without it only the child is killed.
Killed(r) == IF r.childPid /\ r.child = "running" THEN "exited" ELSE r.child
CleanedUp(r) ==
    LET u == [r EXCEPT !.closing = TRUE, !.listed = FALSE, !.core = "cleaned"]
    IN {[u EXCEPT !.clean = "joinSetup"]}
       \cup MayFail({[u EXCEPT !.clean = "failed", !.child = Killed(r)]})
Cleanup(s, r) ==
    /\ entries' = SessionRemove(entries, r.conn)
    /\ \E u \in CleanedUp(r) : str' = [str EXCEPT ![s] = u]
    /\ UNCHANGED <<conns, main, wanted, due>>

-----------------------------------------------------------------------------
(***************************************************************************)
(* The clients.                                                            *)
(***************************************************************************)
Connect(c) ==
    /\ main = "run"
    /\ conns[c] = "new"
    /\ conns' = [conns EXCEPT ![c] = "up"]
    /\ UNCHANGED <<entries, str, main, wanted, due>>

Disconnect(c) ==
    /\ conns[c] = "up"
    /\ conns' = [conns EXCEPT ![c] = "down"]
    /\ UNCHANGED <<entries, str, main, wanted, due>>

\* tmuxremote_coap_attach with a session that exists or could be created; the
\* other replies leave no trace.  A full map answers 500.
Attach(c, n) ==
    /\ main = "run"
    /\ conns[c] = "up"
    /\ entries' = SessionSet(entries, c, n)
    /\ IF HasSlot(entries, c)
       THEN wanted' = [wanted EXCEPT ![c] = n] /\ due' = due \cup {c}
       ELSE UNCHANGED <<wanted, due>>
    /\ UNCHANGED <<conns, str, main>>

\* stream_callback: the object is listed before the stream is accepted; without
\* a future it is cleaned up at once.
OpenStream(s, c) ==
    /\ main = "run"
    /\ conns[c] = "up"
    /\ str[s].core = "unborn"
    /\ LET r == [str[s] EXCEPT !.conn = c, !.listed = TRUE, !.core = "accepting"]
       IN Becomes(s, {r} \cup MayFail({[r EXCEPT !.core = "cleaning"]}))

-----------------------------------------------------------------------------
(***************************************************************************)
(* The core's callbacks.                                                   *)
(***************************************************************************)

\* stream_accepted: without the IAM action, without a session target or without
\* a setup thread the stream is closed.
Accepted(s) ==
    LET r == str[s]
        target == SessionGet(entries, r.conn)
        o == [r EXCEPT !.core = "open"]
        n == [o EXCEPT !.name = target]
    IN /\ CoreRuns
       /\ r.core = "accepting" /\ Up(r)
       /\ \E u \in CloseOnce(o) \cup
                   (IF target = NoEntry THEN {}
                    ELSE {[n EXCEPT !.setup = "start"]} \cup MayFail(CloseOnce(n))) :
             /\ str' = [str EXCEPT ![s] = u]
             /\ due' = due \ {r.conn}
       /\ UNCHANGED <<entries, conns, main, wanted>>

AcceptFailed(s) ==
    /\ CoreRuns
    /\ str[s].core = "accepting" /\ ~Up(str[s])
    /\ Cleanup(s, str[s])

\* stream_closed.
StreamClosed(s) ==
    /\ CoreRuns
    /\ str[s].closes > 0
    /\ Cleanup(s, [str[s] EXCEPT !.closes = @ - 1])

CleanupDirectly(s) ==
    /\ str[s].core = "cleaning"
    /\ Cleanup(s, str[s])

-----------------------------------------------------------------------------
(***************************************************************************)
(* stream_setup_thread.                                                    *)
(***************************************************************************)
SetupCheck(s) ==
    /\ str[s].setup = "start"
    /\ Becomes(s, {[str[s] EXCEPT !.setup = IF str[s].closing THEN "done" ELSE "fork"]})

\* forkpty stores the descriptor; the pid is stored after it has returned.
SetupFork(s) ==
    LET r == str[s] IN
    /\ r.setup = "fork"
    /\ Becomes(s, {[r EXCEPT !.ptyFd = TRUE, !.child = "running", !.setup = "forked"]}
                  \cup MayFail(CloseOnce([r EXCEPT !.setup = "done"])))

\* The two reader threads; each failure closes the descriptor and the stream.
SetupPtyReader(s) ==
    LET r == [str[s] EXCEPT !.childPid = TRUE] IN
    /\ r.setup = "forked"
    /\ Becomes(s, {[r EXCEPT !.pty = "loop", !.setup = "reading"]}
                  \cup MayFail(CloseOnce([r EXCEPT !.child = Killed(r), !.ptyFd = FALSE,
                                                   !.setup = "done"])))

SetupStreamReader(s) ==
    LET r == [str[s] EXCEPT !.setup = "done"] IN
    /\ str[s].setup = "reading"
    /\ Becomes(s, {[r EXCEPT !.input = "loop"]}
                  \cup MayFail(CloseOnce([r EXCEPT !.closing = TRUE, !.ptyFd = FALSE])))

Setup(s) == SetupCheck(s) \/ SetupFork(s) \/ SetupPtyReader(s) \/ SetupStreamReader(s)

-----------------------------------------------------------------------------
(***************************************************************************)
(* pty_reader_thread.  A read that blocks ends when the tmux client is     *)
(* gone, not when another thread closes the descriptor.                    *)
(***************************************************************************)
PtyExit(r) == CloseOnce([r EXCEPT !.closing = TRUE, !.pty = "done"])

PtyLoop(s) ==
    LET r == str[s] IN
    /\ r.pty = "loop"
    /\ Becomes(s, IF r.closing \/ ~r.ptyFd THEN PtyExit(r) ELSE {[r EXCEPT !.pty = "read"]})

PtyOutput(s) ==
    /\ str[s].pty = "read" /\ str[s].child = "running"
    /\ Becomes(s, {[str[s] EXCEPT !.pty = "write"]})

PtyEof(s) ==
    /\ str[s].pty = "read" /\ str[s].child # "running"
    /\ Becomes(s, PtyExit(str[s]))

\* wait_stream_future: the write is done, or fails with the connection, or is
\* aborted because the stream is closing or 15 seconds have passed.
PtyWrite(s) ==
    LET r == str[s] IN
    /\ r.pty = "write"
    /\ Becomes(s, PtyExit(r) \cup IF Up(r) THEN {[r EXCEPT !.pty = "loop"]} ELSE {})

PtyReader(s) == PtyLoop(s) \/ PtyEof(s) \/ PtyWrite(s)

(***************************************************************************)
(* stream_reader_thread.                                                   *)
(***************************************************************************)
InputExit(r) == CloseOnce([r EXCEPT !.closing = TRUE, !.input = "done"])

InputLoop(s) ==
    LET r == str[s] IN
    /\ r.input = "loop"
    /\ Becomes(s, IF r.closing THEN InputExit(r) ELSE {[r EXCEPT !.input = "read"]})

\* The client sends keys, or closes the stream.
ClientSends(s) ==
    LET r == str[s] IN
    /\ r.input = "read" /\ Up(r)
    /\ Becomes(s, {[r EXCEPT !.input = "write"]} \cup InputExit(r))

\* wait_stream_future: the read fails with the connection, and is aborted within
\* 250 ms of closing being set.
InputFails(s) ==
    LET r == str[s] IN
    /\ r.input = "read" /\ (~Up(r) \/ r.closing)
    /\ Becomes(s, InputExit(r))

InputWrite(s) ==
    LET r == str[s] IN
    /\ r.input = "write"
    /\ Becomes(s, {[r EXCEPT !.input = "loop"]}
                  \cup IF r.ptyFd /\ r.child = "running" THEN {} ELSE InputExit(r))

StreamReader(s) == InputLoop(s) \/ InputFails(s) \/ InputWrite(s)

(***************************************************************************)
(* cleanup_thread_func, and the tmux client.                               *)
(***************************************************************************)

\* Mutant of CleanupKill: the child is left to exit by itself.
CleanupNoKill(s) ==
    /\ str[s].clean = "joinSetup"
    /\ Ended(str[s].setup)
    /\ Becomes(s, {[str[s] EXCEPT !.ptyFd = FALSE, !.clean = "joinReaders"]})

CleanupKill(s) ==
    /\ str[s].clean = "joinSetup"
    /\ Ended(str[s].setup)
    /\ Becomes(s, {[str[s] EXCEPT !.ptyFd = FALSE, !.child = Killed(str[s]),
                                  !.clean = "joinReaders"]})

\* Both readers are joined, the child is waited for and the object is freed.
Freed(r) == [r EXCEPT !.child = IF r.childPid THEN "reaped" ELSE @,
                      !.clean = "done", !.freed = TRUE]

\* Mutant of CanFree: the stream reader is not joined.
CanFreeEarly(r) == Ended(r.setup) /\ Ended(r.pty) /\ (r.childPid => r.child # "running")

CanFree(r) == /\ Ended(r.setup) /\ Ended(r.pty) /\ Ended(r.input)
              /\ r.childPid => r.child # "running"

CleanupFree(s) ==
    /\ str[s].clean = "joinReaders"
    /\ CanFree(str[s])
    /\ Becomes(s, {Freed(str[s])})

CleanupThread(s) == CleanupKill(s) \/ CleanupFree(s)

ChildExits(s) ==
    /\ str[s].child = "running"
    /\ Becomes(s, {[str[s] EXCEPT !.child = "exited"]})

-----------------------------------------------------------------------------
(***************************************************************************)
(* Shutdown, by main.                                                      *)
(***************************************************************************)

\* tmuxremote_stream_listener_stop.
ListenerStop ==
    /\ main = "run"
    /\ \A s \in Streams : str[s].core # "cleaning"
    /\ str' = [s \in Streams |-> IF str[s].listed
                                 THEN [str[s] EXCEPT !.closing = TRUE, !.child = Killed(str[s])]
                                 ELSE str[s]]
    /\ main' = "stopping"
    /\ UNCHANGED <<entries, conns, wanted, due>>

\* nabto_device_close and nabto_device_stop: no callback runs from now on.
DeviceStop ==
    /\ main = "stopping"
    /\ conns' = [c \in Conns |-> "down"]
    /\ main' = "deinit"
    /\ UNCHANGED <<entries, str, wanted, due>>

\* tmuxremote_stream_listener_deinit: one listed stream after the other is
\* closed and killed, then its threads are joined, then it is freed.
Joining == {s \in Streams : str[s].clean = "mainJoins"}
DeinitKill(s) ==
    /\ main = "deinit" /\ Joining = {}
    /\ str[s].listed
    /\ Becomes(s, {[str[s] EXCEPT !.listed = FALSE, !.closing = TRUE, !.ptyFd = FALSE,
                                  !.child = Killed(str[s]), !.clean = "mainJoins"]})

DeinitFree(s) ==
    /\ s \in Joining
    /\ CanFree(str[s])
    /\ Becomes(s, {Freed(str[s])})

MainExit ==
    /\ main = "deinit" /\ Joining = {}
    /\ \A s \in Streams : ~str[s].listed
    /\ main' = "done"
    /\ UNCHANGED <<entries, conns, str, wanted, due>>

Main == ListenerStop \/ DeviceStop \/ MainExit

-----------------------------------------------------------------------------
Stream(s) == \/ Accepted(s) \/ AcceptFailed(s) \/ StreamClosed(s) \/ CleanupDirectly(s)
             \/ Setup(s) \/ PtyReader(s) \/ StreamReader(s) \/ CleanupThread(s)
             \/ DeinitKill(s) \/ DeinitFree(s)

Next == \/ \E c \in Conns : Connect(c) \/ Disconnect(c) \/ \E n \in Names : Attach(c, n)
        \/ \E s \in Streams, c \in Conns : OpenStream(s, c)
        \/ \E s \in Streams : \/ Stream(s)
                             \/ PtyOutput(s) \/ ClientSends(s) \/ ChildExits(s)
        \/ Main

Spec == Init /\ [][Next]_vars

(***************************************************************************)
(* The core runs its callbacks and no thread is starved.  Nothing makes a  *)
(* client send or leave, a tmux client print or exit, or main stop.        *)
(***************************************************************************)
FairSpec == /\ Spec
            /\ \A s \in Streams :
                 /\ WF_vars(Accepted(s) \/ AcceptFailed(s) \/ StreamClosed(s) \/ CleanupDirectly(s))
                 /\ WF_vars(Setup(s))
                 /\ WF_vars(PtyReader(s))
                 /\ WF_vars(StreamReader(s))
                 /\ WF_vars(CleanupThread(s))

-----------------------------------------------------------------------------
\* Types; no stream is ever closed twice.
StreamObject ==
    [conn : Conns \cup {NoEntry}, name : Names \cup {NoEntry},
     listed : BOOLEAN, closing : BOOLEAN, closeStarted : BOOLEAN, freed : BOOLEAN,
     core : {"unborn", "accepting", "open", "cleaning", "cleaned"}, closes : {0, 1},
     setup : {"none", "start", "fork", "forked", "reading", "done"},
     pty : {"none", "loop", "read", "write", "done"},
     input : {"none", "loop", "read", "write", "done"},
     clean : {"none", "joinSetup", "joinReaders", "mainJoins", "failed", "done"},
     child : {"none", "running", "exited", "reaped"},
     childPid : BOOLEAN, ptyFd : BOOLEAN]
TypeOK ==
    /\ entries \in Maps
    /\ conns \in [Conns -> {"new", "up", "down"}]
    /\ main \in {"run", "stopping", "deinit", "done"}
    /\ wanted \in [Conns -> Names \cup {NoEntry}]
    /\ due \subseteq Conns
    /\ str \in [Streams -> StreamObject]

\* A connection has at most one entry in the session map, so that a lookup and
\* an update always mean the same one.
OneEntryPerConnection == Unique(entries)

\* A stream object is freed only when nothing will touch it again: its threads
\* have ended, it is off the list, its tmux client has been waited for, and no
\* accept or close callback for it is still to come.
FreedAlone ==
    \A s \in Streams :
       LET r == str[s] IN
       r.freed => /\ Ended(r.setup) /\ Ended(r.pty) /\ Ended(r.input)
                  /\ ~r.listed
                  /\ r.child \in {"none", "reaped"}
                  /\ CoreRuns => r.closes = 0 /\ r.core = "cleaned"

\* A stream that starts is attached to the session its connection asked for
\* last, however many attach requests came before.
RightSession ==
    [][\A s \in Streams : str[s].setup = "none" /\ str'[s].setup = "start"
                           => str'[s].name = wanted[str[s].conn]]_vars

\* A stream that is closing, or whose connection is lost, is freed with its tmux
\* client and its threads, unless the agent is stopped or no cleanup thread can
\* be created.
Doomed(r) == r.closing \/ (r.core # "unborn" /\ ~Up(r))
StreamsAreReleased ==
    \A s \in Streams : Doomed(str[s]) ~> \/ str[s].freed
                                         \/ str[s].clean = "failed"
                                         \/ main # "run"

\* DESIGN.md 3: POST /terminal/attach sets "target tmux session for next stream
\* open", so the target is there until a stream is opened.
AttachTargetKept ==
    \A c \in due : conns[c] = "up" => SessionGet(entries, c) = wanted[c]
=============================================================================

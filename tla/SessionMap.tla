----------------------------- MODULE SessionMap -----------------------------
(***************************************************************************)
(* The agent's session map (agent/src/tmuxremote_session.c): a fixed table *)
(* from a connection to the tmux session its next data stream attaches to. *)
(* Each operation holds the map's mutex throughout, so it is an operator   *)
(* on the table.  The terminal size an entry also carries is left out:     *)
(* tmuxremote_session_update_size changes nothing else.                    *)
(***************************************************************************)
EXTENDS Naturals

CONSTANTS Conns,   \* connection references, unique over the agent's life
          Names,   \* tmux session names
          NoEntry, \* a slot that is not valid, or the absence of a session
          MaxSlots \* TMUXREMOTE_MAX_SESSIONS

Slots == 1 .. MaxSlots
Entry == [ref : Conns, name : Names]

ASSUME SlotsAssumption == MaxSlots \in Nat \ {0} /\ NoEntry \notin Entry

Maps == [Slots -> Entry \cup {NoEntry}]
EmptyMap == [i \in Slots |-> NoEntry]

\* No two valid slots belong to the same connection.
Unique(m) == \A i, j \in Slots :
    (m[i] # NoEntry /\ m[j] # NoEntry /\ m[i].ref = m[j].ref) => i = j

SlotsOf(m, c) == {i \in Slots : m[i] # NoEntry /\ m[i].ref = c}
FreeSlots(m) == {i \in Slots : m[i] = NoEntry}
First(S) == CHOOSE i \in S : \A j \in S : i <= j

\* Whether tmuxremote_session_set finds a slot for connection c.
HasSlot(m, c) == SlotsOf(m, c) # {} \/ FreeSlots(m) # {}

\* Mutant of SessionSet: an entry of the connection is not looked for.
SessionSetAppends(m, c, n) ==
    IF FreeSlots(m) = {} THEN m
    ELSE [m EXCEPT ![First(FreeSlots(m))] = [ref |-> c, name |-> n]]

\* tmuxremote_session_set: the connection's entry is overwritten, else the
\* first free slot is taken, else nothing happens.
SessionSet(m, c, n) ==
    IF ~HasSlot(m, c) THEN m
    ELSE LET i == First(IF SlotsOf(m, c) # {} THEN SlotsOf(m, c) ELSE FreeSlots(m))
         IN [m EXCEPT ![i] = [ref |-> c, name |-> n]]

\* tmuxremote_session_get.
SessionGet(m, c) == IF SlotsOf(m, c) = {} THEN NoEntry ELSE m[First(SlotsOf(m, c))].name

\* tmuxremote_session_remove clears every entry of the connection.
SessionRemove(m, c) == [i \in Slots |-> IF i \in SlotsOf(m, c) THEN NoEntry ELSE m[i]]
=============================================================================

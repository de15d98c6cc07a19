------------------------------ MODULE AgentHome ------------------------------
(***************************************************************************)
(* The agent's home directory as a whole: the device key (DeviceKey) and   *)
(* the users in state/iam_state.json, which --init, --add-user and         *)
(* --remove-user rewrite from one process while a running agent keeps its  *)
(* own copy in memory and writes it from a worker thread.                  *)
(*                                                                         *)
(* A user is absent, invited (has a one-time password) or paired (has a    *)
(* public key).  An IAM state is what the file holds for every user.       *)
(***************************************************************************)
EXTENDS DeviceKey

CONSTANTS
    Users,        \* usernames
    Owner,        \* the user that --init invites
    None          \* no file, no state

ASSUME OwnerAssumption == Owner \in Users

ASSUME NoneAssumption == None # Torn /\ None \notin [Users -> {"absent", "invited", "paired"}]

VARIABLES
    iam,        \* state/iam_state.json: None, Torn or an IAM state
    job,        \* what --add-user or --remove-user is about to write, or None
    mem,        \* the state of the agent's IAM module
    pending,    \* niam->pendingState
    saver,      \* the save worker: "off", "wait", "write"
    saving,     \* the state the worker has taken
    stop,       \* niam->saveStop
    \* History.
    touched,    \* "yes" once something else than the agent's own successful
                \* saves has touched the file since the agent loaded it
    revoked     \* users that --remove-user has reported removed while no agent
                \* was running, and that have not been added again

ivars == <<iam, job, mem, pending, saver, saving, stop, touched, revoked>>

agentVars == <<mem, pending, saver, saving, stop>>

hvars == <<kvars, ivars>>

Standing == {"absent", "invited", "paired"}

IamStates == [Users -> Standing]

Parsed == iam \notin {None, Torn}

HInit ==
    /\ Init
    /\ iam = IF config = "none" THEN None
             ELSE [u \in Users |-> IF u = Owner THEN "invited" ELSE "absent"]
    /\ job = None
    /\ mem = None
    /\ pending = None
    /\ saver = "off"
    /\ saving = None
    /\ stop = "no"
    /\ touched = "no"
    /\ revoked = {}

\* save_iam_state: the whole state, or an error that keeps or tears the file.
IamWritten(state) == iam' = state

IamFails == iam' \in {iam, Torn}

AgentSaves(state) ==
    \/ IamWritten(state) /\ UNCHANGED touched
    \/ IamFails /\ touched' = "yes"

-----------------------------------------------------------------------------
(* The commands                                                            *)

ToolFree == job = None /\ pc["tool"] = "off"

\* tmuxremote_iam_create_default_state; a failure to save is only printed.
InitUsers ==
    /\ InitReport
    /\ \/ IamWritten([u \in Users |-> IF u = Owner THEN "invited" ELSE "absent"])
       \/ IamFails
    /\ touched' = "yes"
    /\ UNCHANGED <<job, agentVars, revoked>>

AddUser(u) ==
    /\ ToolFree
    /\ Readable
    /\ Parsed
    /\ iam[u] = "absent"
    /\ job' = [user |-> u, state |-> [iam EXCEPT ![u] = "invited"]]
    /\ UNCHANGED kvars
    /\ UNCHANGED <<iam, agentVars, touched, revoked>>

\* An invitation is cancelled and a paired user is removed alike.
RemoveUser(u) ==
    /\ ToolFree
    /\ Parsed
    /\ iam[u] # "absent"
    /\ job' = [user |-> u, state |-> [iam EXCEPT ![u] = "absent"]]
    /\ UNCHANGED kvars
    /\ UNCHANGED <<iam, agentVars, touched, revoked>>

\* The users reported as removed, once the command has reported: a removal
\* counts when no agent was running.
Reported ==
    IF job.state[job.user] = "absent" /\ pc["agent"] # "up"
      THEN revoked \cup {job.user} ELSE revoked \ {job.user}

\* Mutant of WriteUsers: a failure to save is not noticed.
WriteUsersUnchecked ==
    /\ job # None
    /\ IamWritten(job.state) \/ IamFails
    /\ revoked' = Reported
    /\ job' = None
    /\ touched' = "yes"
    /\ UNCHANGED kvars
    /\ UNCHANGED agentVars

\* The command writes what it has made of the file it had read.
WriteUsers ==
    /\ job # None
    /\ \/ /\ IamWritten(job.state)
          /\ revoked' = Reported
       \/ /\ IamFails
          /\ UNCHANGED revoked
    /\ job' = None
    /\ touched' = "yes"
    /\ UNCHANGED kvars
    /\ UNCHANGED agentVars

-----------------------------------------------------------------------------
(* The running agent                                                       *)

(***************************************************************************)
(* tmuxremote_iam_init starts the worker, or does without it when the      *)
(* thread cannot be created, and tmuxremote_iam_load_state loads the file. *)
(***************************************************************************)
AgentLoads ==
    /\ AgentReady
    /\ Parsed
    /\ mem' = iam
    /\ saver' \in {"wait", "off"}
    /\ stop' = "no"
    /\ touched' = "no"
    /\ UNCHANGED <<iam, job, pending, saving, revoked>>

\* Mutant of AgentGivesUp: the start goes on without a state.
AgentGoesOn ==
    /\ AgentReady
    /\ ~Parsed
    /\ UNCHANGED ivars

AgentGivesUp ==
    /\ pc["agent"] = "keyed"
    /\ ~Parsed
    /\ End("agent")
    /\ UNCHANGED <<config, key, device, fate>>
    /\ UNCHANGED ivars

(***************************************************************************)
(* A client pairs with an invitation: the IAM module changes the state and *)
(* tmuxremote_iam_state_changed hands a copy to the worker, replacing one  *)
(* it has not taken yet.  Without a worker the copy is saved at once.      *)
(***************************************************************************)
Pair(u) ==
    /\ pc["agent"] = "up"
    /\ stop = "no"
    /\ mem[u] = "invited"
    /\ mem' = [mem EXCEPT ![u] = "paired"]
    /\ \/ /\ saver # "off"
          /\ pending' = mem'
          /\ UNCHANGED <<iam, touched>>
       \/ /\ saver = "off"
          /\ AgentSaves(mem')
          /\ UNCHANGED pending
    /\ UNCHANGED kvars
    /\ UNCHANGED <<job, saver, saving, stop, revoked>>

\* save_iam_state_worker takes the pending state under the mutex ...
SaverTakes ==
    /\ saver = "wait"
    /\ pending # None
    /\ saver' = "write"
    /\ saving' = pending
    /\ pending' = None
    /\ UNCHANGED kvars
    /\ UNCHANGED <<iam, job, mem, stop, touched, revoked>>

\* ... and writes it without the mutex.
SaverWrites ==
    /\ saver = "write"
    /\ AgentSaves(saving)
    /\ saver' = "wait"
    /\ saving' = None
    /\ UNCHANGED kvars
    /\ UNCHANGED <<job, mem, pending, stop, revoked>>

\* Mutant of SaverEnds: it ends as soon as it is told to.
SaverEndsAtOnce ==
    /\ saver = "wait"
    /\ stop = "yes"
    /\ saver' = "off"
    /\ UNCHANGED kvars
    /\ UNCHANGED <<iam, job, mem, pending, saving, stop, touched, revoked>>

\* It ends when it is told to and nothing is pending.
SaverEnds ==
    /\ saver = "wait"
    /\ pending = None
    /\ stop = "yes"
    /\ saver' = "off"
    /\ UNCHANGED kvars
    /\ UNCHANGED <<iam, job, mem, pending, saving, stop, touched, revoked>>

\* The device is stopped, then tmuxremote_iam_deinit stops the worker.
StopAgent ==
    /\ pc["agent"] = "up"
    /\ stop = "no"
    /\ stop' = "yes"
    /\ UNCHANGED kvars
    /\ UNCHANGED <<iam, job, mem, pending, saver, saving, touched, revoked>>

\* The memory of the agent's process is gone.
Forget ==
    /\ mem' = None
    /\ pending' = None
    /\ saver' = "off"
    /\ saving' = None
    /\ stop' = "no"

ExitAgent ==
    /\ AgentStops
    /\ stop = "yes"
    /\ saver = "off"
    /\ Forget
    /\ UNCHANGED <<iam, job, touched, revoked>>

-----------------------------------------------------------------------------

ToolDies ==
    /\ \/ Dies("tool") /\ UNCHANGED job
       \/ job # None /\ job' = None /\ UNCHANGED kvars
    /\ IF job # None \/ pc["tool"] = "keyed"
         THEN IamFails /\ touched' = "yes"
         ELSE UNCHANGED <<iam, touched>>
    /\ UNCHANGED <<agentVars, revoked>>

AgentDies ==
    /\ Dies("agent")
    /\ Forget
    /\ iam' \in IF saver = "write" \/ (saver = "off" /\ pc["agent"] = "up")
                  THEN {iam, Torn} ELSE {iam}
    /\ UNCHANGED <<job, touched, revoked>>

KeyStep ==
    /\ \/ job = None /\ (InitBegin \/ MoveBegin)
       \/ InitConfig \/ InitPref \/ MoveLoad \/ MoveVerify \/ MovePref \/ MoveDelete
       \/ AgentBegin
       \/ \E p \in Procs : KeySteps(p)
    /\ UNCHANGED ivars

Commands ==
    \/ InitUsers
    \/ \E u \in Users : AddUser(u) \/ RemoveUser(u)
    \/ WriteUsers
    \/ ToolDies

Agent ==
    \/ AgentLoads \/ AgentGivesUp
    \/ \E u \in Users : Pair(u)
    \/ SaverTakes \/ SaverWrites \/ SaverEnds
    \/ StopAgent \/ ExitAgent
    \/ AgentDies

HNext == KeyStep \/ Commands \/ Agent

HSpec == HInit /\ [][HNext]_hvars

-----------------------------------------------------------------------------

HTypeOK ==
    /\ KTypeOK
    /\ iam \in IamStates \cup {None, Torn}
    /\ job = None \/ job \in [user : Users, state : IamStates]
    /\ mem \in IamStates \cup {None}
    /\ pending \in IamStates \cup {None}
    /\ saver \in {"off", "wait", "write"}
    /\ saving \in IamStates \cup {None}
    /\ stop \in {"no", "yes"}
    /\ touched \in {"no", "yes"}
    /\ revoked \in SUBSET Users
    /\ mem = None <=> pc["agent"] # "up"

(***************************************************************************)
(* An agent that is stopped leaves a file with every pairing it has        *)
(* accepted, although the worker skips states and is told to stop while    *)
(* some are pending, unless a save failed or a command wrote the file.     *)
(***************************************************************************)
SavedOnExit ==
    pc["agent"] = "up" /\ stop = "yes" /\ saver = "off" /\ touched = "no"
        => iam = mem

(***************************************************************************)
(* A user whose removal --remove-user has reported ("They will no longer   *)
(* be able to connect.") is admitted by no agent started after that: no    *)
(* failed or interrupted save, crash, or state that another agent saves    *)
(* brings them back.  Of an agent that runs during the removal this is     *)
(* false: it keeps admitting the user, and writes them back to the file    *)
(* when the next client pairs.                                             *)
(***************************************************************************)
RevokedStayOut ==
    pc["agent"] = "up" => \A u \in revoked : mem[u] = "absent"

=============================================================================

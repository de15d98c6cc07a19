------------------------------ MODULE DeviceKey ------------------------------
(***************************************************************************)
(* The agent's device key: where it is stored, how --init creates it, how  *)
(* --move-device-key moves it, and how a starting agent finds it again.    *)
(*                                                                         *)
(* Two processes work on one home directory: the "tool", an agent started  *)
(* for one command (--init, --move-device-key), and the "agent" that       *)
(* serves clients.  Every file or keychain operation is a step of its own, *)
(* may fail, and may be cut short by a crash, which leaves a file that was *)
(* being written torn.  Keys are opaque; what matters is which of them a   *)
(* storage holds.                                                          *)
(***************************************************************************)
EXTENDS Naturals

CONSTANTS
    Keys,               \* private keys that can be generated
    NoKey,              \* nothing stored
    Torn,               \* a file whose write was cut short
    KeychainAvailable   \* TRUE on macOS (tmuxremote_keychain_available)

ASSUME KeysAssumption == /\ NoKey \notin Keys
                         /\ Torn \notin Keys
                         /\ NoKey # Torn

ASSUME PlatformAssumption == KeychainAvailable \in BOOLEAN

Procs == {"tool", "agent"}

\* The namespaced key file, keys/device.key of older releases, the keychain slot.
Storages == {"file", "legacy", "keychain"}

VARIABLES
    config,   \* config/device.json: "none", "torn", or its KeychainKey preference
    key,      \* what each storage holds
    pc,       \* the step each process is at
    op,       \* the command each process runs
    use,      \* useKeychain, targetUseKeychain: the storage it was told to use
    path,     \* deviceKeyFile: the namespaced file or the legacy one
    pem,      \* the key each process has in memory
    \* History.
    device,   \* the key whose fingerprint the user has registered
    fate      \* "sound", until a keychain read fails although the slot holds
              \* a key ("locked") or a start and a command overlap ("overlap")

kvars == <<config, key, pc, op, use, path, pem, device, fate>>


Readable == config \in {"unset", "file", "keychain"}

\* tmuxremote_config_get_keychain_key
Preference == IF config = "keychain" THEN "keychain" ELSE "file"

Other(s) == IF s = "keychain" THEN "file" ELSE "keychain"

-----------------------------------------------------------------------------

(***************************************************************************)
(* A home directory that is new, or that an older release has left: its    *)
(* device.json has no KeychainKey and its key is keys/device.key.          *)
(***************************************************************************)
Init ==
    /\ \/ /\ config = "none"
          /\ key = [s \in Storages |-> NoKey]
          /\ device = NoKey
       \/ \E k \in Keys :
            /\ config = "unset"
            /\ key = [s \in Storages |-> IF s = "legacy" THEN k ELSE NoKey]
            /\ device = k
    /\ pc = [p \in Procs |-> "off"]
    /\ op = [p \in Procs |-> "none"]
    /\ use = [p \in Procs |-> "file"]
    /\ path = [p \in Procs |-> "file"]
    /\ pem = [p \in Procs |-> NoKey]
    /\ fate = "sound"

Goto(p, l) == pc' = [pc EXCEPT ![p] = l]

Busy(p) == pc[p] \notin {"off", "up"}

Begin(p, o, l, u) ==
    /\ pc[p] = "off"
    /\ fate' = IF \E q \in Procs : Busy(q) THEN "overlap" ELSE fate
    /\ Goto(p, l)
    /\ op' = [op EXCEPT ![p] = o]
    /\ use' = [use EXCEPT ![p] = u]
    /\ path' = [path EXCEPT ![p] = "file"]
    /\ pem' = [pem EXCEPT ![p] = NoKey]

\* The process returns from main, its command finished or given up.
End(p) ==
    /\ Goto(p, "off")
    /\ op' = [op EXCEPT ![p] = "none"]
    /\ pem' = [pem EXCEPT ![p] = NoKey]
    /\ UNCHANGED <<use, path>>

KeepProc == UNCHANGED <<op, use, path, pem>>

(***************************************************************************)
(* write_file on the final path: the whole new content, or an error that   *)
(* leaves the old content or a torn file.                                  *)
(***************************************************************************)
ConfigWritten(c) == config' = c

ConfigFails == config' \in {config, "torn"}

KeyWritten(s, k) == key' = [key EXCEPT ![s] = k]

KeyFails(s) == \E k \in {key[s], Torn} : key' = [key EXCEPT ![s] = k]

-----------------------------------------------------------------------------
(* --init                                                                  *)

\* Refused when device.json exists, whatever is in it.
InitBegin ==
    /\ config = "none"
    /\ \E u \in IF KeychainAvailable THEN {"file", "keychain"} ELSE {"file"} :
         Begin("tool", "init", "initConfig", u)
    /\ UNCHANGED <<config, key, device>>

InitConfig ==
    /\ pc["tool"] = "initConfig"
    /\ \/ ConfigWritten("unset") /\ Goto("tool", "initPref") /\ KeepProc
       \/ ConfigFails /\ End("tool")
    /\ UNCHANGED <<key, device, fate>>

(***************************************************************************)
(* The preference is read back into the config with one rewrite of it.  If *)
(* that fails for the keychain, init falls back to the file and tries to   *)
(* persist that; if this fails too the missing entry reads as the file.    *)
(***************************************************************************)
InitPref ==
    /\ pc["tool"] = "initPref"
    /\ \/ /\ Readable
          /\ ConfigWritten(use["tool"])
          /\ Goto("tool", "loadKey")
          /\ KeepProc
       \/ /\ IF Readable THEN ConfigFails ELSE UNCHANGED config
          /\ Goto("tool", IF use["tool"] = "keychain" THEN "initPref" ELSE "loadKey")
          /\ use' = [use EXCEPT !["tool"] = "file"]
          /\ UNCHANGED <<op, path, pem>>
    /\ UNCHANGED <<key, device, fate>>

\* Init prints the fingerprint, which the user registers.
InitReport ==
    /\ pc["tool"] = "keyed"
    /\ device' = pem["tool"]
    /\ End("tool")
    /\ UNCHANGED <<config, key, fate>>

-----------------------------------------------------------------------------
(* tmuxremote_ensure_namespaced_key_file                                   *)

AfterEnsure(p) == IF op[p] = "move" THEN "moveLoad" ELSE "loadKey"

EnsureNothing(p) ==
    /\ pc[p] = "ensure"
    /\ key["file"] # NoKey \/ key["legacy"] = NoKey
    /\ Goto(p, AfterEnsure(p))
    /\ KeepProc
    /\ UNCHANGED <<config, key, device, fate>>

EnsureLoad(p) ==
    /\ pc[p] = "ensure"
    /\ key["file"] = NoKey
    /\ key["legacy"] # NoKey
    /\ pem' = [pem EXCEPT ![p] = key["legacy"]]
    /\ Goto(p, "copy")
    /\ UNCHANGED <<op, use, path>>
    /\ UNCHANGED <<config, key, device, fate>>

EnsureCopy(p) ==
    /\ pc[p] = "copy"
    /\ KeyWritten("file", pem[p])
    /\ Goto(p, AfterEnsure(p))
    /\ KeepProc
    /\ UNCHANGED <<config, device, fate>>

\* Mutant of EnsureFails: the agent goes on with the namespaced file.
EnsureFailsUnnoticed(p) ==
    /\ \/ pc[p] = "copy" /\ KeyFails("file")
       \/ pc[p] = "ensure" /\ key["file"] = NoKey /\ key["legacy"] # NoKey
          /\ UNCHANGED key
    /\ \/ op[p] = "move" /\ End(p)
       \/ op[p] = "run" /\ Goto(p, "loadKey") /\ KeepProc
    /\ UNCHANGED <<config, device, fate>>

\* A move gives up; a starting agent goes on with the legacy file.
EnsureFails(p) ==
    /\ \/ pc[p] = "copy" /\ KeyFails("file")
       \/ pc[p] = "ensure" /\ key["file"] = NoKey /\ key["legacy"] # NoKey
          /\ UNCHANGED key
    /\ \/ op[p] = "move" /\ End(p)
       \/ /\ op[p] = "run"
          /\ Goto(p, "loadKey")
          /\ path' = [path EXCEPT ![p] = "legacy"]
          /\ UNCHANGED <<op, use, pem>>
    /\ UNCHANGED <<config, device, fate>>

-----------------------------------------------------------------------------
(* tmuxremote_load_or_create_private_key, of --init and of a starting agent *)

Where(p) == IF use[p] = "keychain" /\ KeychainAvailable THEN "keychain" ELSE path[p]

LoadKey(p) ==
    /\ pc[p] = "loadKey"
    /\ key[Where(p)] \in Keys
    /\ pem' = [pem EXCEPT ![p] = key[Where(p)]]
    /\ Goto(p, "keyed")
    /\ UNCHANGED <<op, use, path>>
    /\ UNCHANGED <<config, key, device, fate>>

(***************************************************************************)
(* No key: one is generated and saved.  For the keychain any failure to    *)
(* read the slot counts as "no key", a locked keychain too.                *)
(***************************************************************************)
CreateKey(p) ==
    /\ pc[p] = "loadKey"
    /\ Where(p) = "keychain" \/ key[Where(p)] = NoKey
    /\ \E k \in Keys : /\ \A s \in Storages : key[s] # k
                       /\ \A q \in Procs : pem[q] # k
                       /\ device # k
                       /\ pem' = [pem EXCEPT ![p] = k]
    /\ Goto(p, IF Where(p) = "keychain" THEN "dropSlot" ELSE "saveKey")
    /\ fate' = IF key[Where(p)] = NoKey THEN fate ELSE "locked"
    /\ UNCHANGED <<op, use, path>>
    /\ UNCHANGED <<config, key, device>>

AfterSave(p) == IF op[p] = "move" THEN "moveVerify" ELSE "keyed"

SaveKey(p) ==
    /\ pc[p] = "saveKey"
    /\ KeyWritten(path[p], pem[p])
    /\ Goto(p, AfterSave(p))
    /\ KeepProc
    /\ UNCHANGED <<config, device, fate>>

\* tmuxremote_keychain_save_private_key_slot deletes the item, then adds it.
DropSlot(p) ==
    /\ pc[p] = "dropSlot"
    /\ \/ KeyWritten("keychain", NoKey)
       \/ UNCHANGED key
    /\ Goto(p, "addSlot")
    /\ KeepProc
    /\ UNCHANGED <<config, device, fate>>

\* An item that is still there makes the add fail as a duplicate.
AddSlot(p) ==
    /\ pc[p] = "addSlot"
    /\ key["keychain"] = NoKey
    /\ KeyWritten("keychain", pem[p])
    /\ Goto(p, AfterSave(p))
    /\ KeepProc
    /\ UNCHANGED <<config, device, fate>>

SaveFails(p) ==
    /\ \/ pc[p] = "saveKey" /\ KeyFails(path[p])
       \/ pc[p] \in {"dropSlot", "addSlot"} /\ UNCHANGED key
    /\ End(p)
    /\ UNCHANGED <<config, device, fate>>

-----------------------------------------------------------------------------
(* --move-device-key: tmuxremote_do_move_device_key,                       *)
(* tmuxremote_move_private_key_storage                                     *)

MoveBegin ==
    /\ Readable
    /\ Preference = "keychain" \/ KeychainAvailable
    /\ Begin("tool", "move", "ensure", Other(Preference))
    /\ UNCHANGED <<config, key, device>>

Source == Other(use["tool"])
Target == use["tool"]

MoveLoad ==
    /\ pc["tool"] = "moveLoad"
    /\ key[Source] \in Keys
    /\ Source = "keychain" => KeychainAvailable
    /\ pem' = [pem EXCEPT !["tool"] = key[Source]]
    /\ Goto("tool", IF Target = "keychain" THEN "dropSlot" ELSE "saveKey")
    /\ UNCHANGED <<op, use, path>>
    /\ UNCHANGED <<config, key, device, fate>>

\* The target is read back and the fingerprints are compared.
MoveVerify ==
    /\ pc["tool"] = "moveVerify"
    /\ key[Target] = pem["tool"]
    /\ Goto("tool", "movePref")
    /\ KeepProc
    /\ UNCHANGED <<config, key, device, fate>>

\* Mutant of MovePref: a preference that cannot be persisted is only a warning.
MovePrefIgnored ==
    /\ pc["tool"] = "movePref"
    /\ ConfigWritten(Target) \/ ConfigFails
    /\ Goto("tool", "moveDelete")
    /\ KeepProc
    /\ UNCHANGED <<key, device, fate>>

MovePref ==
    /\ pc["tool"] = "movePref"
    /\ \/ Readable /\ ConfigWritten(Target) /\ Goto("tool", "moveDelete") /\ KeepProc
       \/ Readable /\ ConfigFails /\ End("tool")
    /\ UNCHANGED <<key, device, fate>>

\* The old copy is removed; a failure to do so is only a warning.
MoveDelete ==
    /\ pc["tool"] = "moveDelete"
    /\ \/ KeyWritten(Source, NoKey)
       \/ UNCHANGED key
    /\ End("tool")
    /\ UNCHANGED <<config, device, fate>>

-----------------------------------------------------------------------------
(* run_agent                                                               *)

AgentBegin ==
    /\ Readable
    /\ Begin("agent", "run", "ensure", Preference)
    /\ UNCHANGED <<config, key, device>>

\* The rest of the start: IAM state, device, listeners.
AgentReady ==
    /\ pc["agent"] = "keyed"
    /\ Goto("agent", "up")
    /\ KeepProc
    /\ UNCHANGED <<config, key, device, fate>>

AgentStops ==
    /\ pc["agent"] = "up"
    /\ End("agent")
    /\ UNCHANGED <<config, key, device, fate>>

-----------------------------------------------------------------------------

(***************************************************************************)
(* A process dies, or gives up because a read failed, at any step.  A file *)
(* it was writing may be left torn.                                        *)
(***************************************************************************)
Dies(p) ==
    /\ pc[p] # "off"
    /\ config' \in IF pc[p] \in {"initConfig", "initPref", "movePref"}
                     THEN {config, "torn"} ELSE {config}
    /\ \/ UNCHANGED key
       \/ pc[p] = "saveKey" /\ KeyWritten(path[p], Torn)
       \/ pc[p] = "copy" /\ KeyWritten("file", Torn)
    /\ End(p)
    /\ UNCHANGED <<device, fate>>

InitSteps == InitBegin \/ InitConfig \/ InitPref \/ InitReport

MoveSteps == MoveBegin \/ MoveLoad \/ MoveVerify \/ MovePref \/ MoveDelete

KeySteps(p) ==
    \/ EnsureNothing(p) \/ EnsureLoad(p) \/ EnsureCopy(p) \/ EnsureFails(p)
    \/ LoadKey(p) \/ CreateKey(p) \/ SaveKey(p) \/ DropSlot(p) \/ AddSlot(p)
    \/ SaveFails(p)

KNext ==
    \/ InitSteps
    \/ MoveSteps
    \/ AgentBegin \/ AgentReady \/ AgentStops
    \/ \E p \in Procs : KeySteps(p) \/ Dies(p)

KSpec == Init /\ [][KNext]_kvars

-----------------------------------------------------------------------------

KTypeOK ==
    /\ config \in {"none", "torn", "unset", "file", "keychain"}
    /\ key \in [Storages -> Keys \cup {NoKey, Torn}]
    /\ pc \in [Procs -> {"off", "initConfig", "initPref", "ensure", "copy",
                         "loadKey", "saveKey", "dropSlot", "addSlot", "keyed",
                         "moveLoad", "moveVerify", "movePref", "moveDelete", "up"}]
    /\ op \in [Procs -> {"none", "init", "move", "run"}]
    /\ use \in [Procs -> {"file", "keychain"}]
    /\ path \in [Procs -> {"file", "legacy"}]
    /\ pem \in [Procs -> Keys \cup {NoKey, Torn}]
    /\ device \in Keys \cup {NoKey}
    /\ fate \in {"sound", "locked", "overlap"}

(***************************************************************************)
(* The registered key is never destroyed, by any sequence of moves,        *)
(* failures and crashes.  With a config that can be read and a key file    *)
(* that is whole or missing, it is where the next start looks: in the      *)
(* storage the config names, or in the legacy file that is copied then.    *)
(* Two failures leave it where no start looks until somebody repairs the   *)
(* home: a copy that was cut short leaves a torn key file, which exists    *)
(* and so hides the legacy one (keychain.c:100-102), and a config that was *)
(* cut short names nothing.  Excepted are homes where a keychain read has  *)
(* failed on a key that was there, and where a command ran while an agent  *)
(* was starting.                                                           *)
(***************************************************************************)
KeyNeverLost ==
    fate = "sound" /\ device # NoKey =>
        \/ config = "keychain" /\ key["keychain"] = device
        \/ config \in {"unset", "file"} /\ key["file"] = device
        \/ config \in {"unset", "file"} /\ key["file"] = NoKey /\ key["legacy"] = device
        \/ config \in {"unset", "file"} /\ key["file"] = Torn /\ key["legacy"] = device
        \/ config = "torn" /\ \E s \in Storages : key[s] = device

(***************************************************************************)
(* An agent that has started presents the key the user has registered, so  *)
(* that paired clients recognise it and the basestation admits it: no      *)
(* failed write, crash, fallback or move makes it generate another one.    *)
(***************************************************************************)
SameIdentity ==
    fate = "sound" /\ device # NoKey /\ pc["agent"] \in {"keyed", "up"}
        => pem["agent"] = device

=============================================================================

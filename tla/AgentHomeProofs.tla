--------------------------- MODULE AgentHomeProofs ---------------------------
(***************************************************************************)
(* Proofs about the agent's home directory.                                *)
(*                                                                         *)
(* First the device key, for any set of keys, with and without a keychain: *)
(* however commands, starts, failures and crashes follow one another, the  *)
(* registered key stays where the next start looks for it, and the agent   *)
(* that starts presents it.  Neither statement is inductive: whether a     *)
(* step may overwrite a storage depends on what the process has read in    *)
(* the steps before it.  The inductive invariant says, for every step of a *)
(* command or a start, what it has established so far.                     *)
(*                                                                         *)
(* Then the whole home, for any set of users: every step of the commands,  *)
(* of the running agent and of its save worker is a step of DeviceKey or   *)
(* leaves the key alone, so what is proved there holds here; and what the  *)
(* IAM file keeps and leaves out.                                          *)
(***************************************************************************)
EXTENDS AgentHome, TLAPS

-----------------------------------------------------------------------------
(* The device key                                                          *)

KeySteppers == {"saveKey", "dropSlot", "addSlot"}

(***************************************************************************)
(* Which command can be at which step.  The commands run in the tool, the  *)
(* start in the agent; only a start ever falls back to the legacy file.    *)
(* A process that saves or has a key has a whole one.                      *)
(***************************************************************************)
Roles ==
    /\ pc["agent"] \notin {"initConfig", "initPref", "moveLoad", "moveVerify",
                           "movePref", "moveDelete"}
    /\ pc["agent"] # "off" => op["agent"] = "run"
    /\ pc["tool"] # "up"
    /\ pc["tool"] \in {"initConfig", "initPref", "loadKey", "keyed"} => op["tool"] = "init"
    /\ pc["tool"] \in {"ensure", "copy", "moveLoad", "moveVerify", "movePref",
                       "moveDelete"} => op["tool"] = "move"
    /\ pc["tool"] \in {"saveKey", "dropSlot", "addSlot"} => op["tool"] \in {"init", "move"}
    /\ pc["tool"] # "off" => path["tool"] = "file"
    /\ pc["agent"] \in {"ensure", "copy"} => path["agent"] = "file"
    /\ \A p \in Procs : pc[p] \in {"keyed"} \cup KeySteppers => pem[p] \in Keys

\* Without a keychain nothing prefers it.  Before the first --init there is
\* no registered key and no agent, and the command has written nothing.
ConfigInv ==
    /\ config = "keychain" => KeychainAvailable
    /\ \A p \in Procs : pc[p] # "off" /\ use[p] = "keychain" => KeychainAvailable
    /\ config = "none" => /\ device = NoKey
                          /\ pc["agent"] = "off"
                          /\ pc["tool"] \in {"off", "initConfig"}

\* --init runs before there is an agent or a registered key; the key it is
\* about to report is in the storage that the config names.
InitInv ==
    pc["tool"] # "off" /\ op["tool"] = "init" =>
        /\ device = NoKey
        /\ pc["agent"] = "off"
        /\ pc["tool"] = "initConfig" => config = "none"
        /\ pc["tool"] = "initPref" => /\ config \in {"unset", "torn"}
                                      /\ use["tool"] = "keychain" => config = "unset"
        /\ pc["tool"] \in {"loadKey", "keyed"} \cup KeySteppers =>
              IF use["tool"] = "keychain" THEN config = "keychain"
              ELSE config \in {"unset", "file", "torn"}
        /\ pc["tool"] \in {"dropSlot", "addSlot"} => use["tool"] = "keychain"
        /\ pc["tool"] = "saveKey" => use["tool"] = "file"
        /\ pc["tool"] = "keyed" => key[use["tool"]] = pem["tool"]

\* Copying the legacy file: the copy is of it, and nothing is overwritten.
CopyInv ==
    \A p \in Procs : pc[p] = "copy" => /\ key["file"] = NoKey
                                       /\ pem[p] = key["legacy"]

\* --move-device-key has the registered key in memory before it saves it, in
\* both storages before it changes the preference, and in the one the config
\* names before it deletes the other.
MoveInv ==
    pc["tool"] # "off" /\ op["tool"] = "move" =>
        /\ pc["tool"] # "moveDelete" => Readable /\ Preference = Source
        /\ pc["tool"] \in {"moveVerify", "movePref"} \cup KeySteppers =>
              key[Source] = device /\ pem["tool"] = device
        /\ pc["tool"] \in {"dropSlot", "addSlot"} => Target = "keychain"
        /\ pc["tool"] = "saveKey" => Target = "file"
        /\ pc["tool"] = "movePref" => key[Target] = device
        /\ pc["tool"] = "moveDelete" => config = Target /\ key[Target] = device

\* A start that has passed the copying looks where the registered key is (or
\* at a torn file, which it refuses), and never gets to saving another one.
StartInv ==
    /\ Busy("agent") => Readable /\ use["agent"] = Preference
    /\ pc["agent"] = "loadKey" => key[Where("agent")] \in {device, Torn}
    /\ pc["agent"] \notin KeySteppers
    /\ pc["agent"] \in {"keyed", "up"} => pem["agent"] = device

\* As long as no command has overlapped with a start or with another command,
\* and no keychain read has failed on a key that was there.
SoundInv ==
    fate = "sound" =>
        /\ ~(Busy("tool") /\ Busy("agent"))
        /\ InitInv
        /\ CopyInv
        /\ device # NoKey => MoveInv /\ StartInv

KInv == KTypeOK /\ Roles /\ ConfigInv /\ SoundInv /\ KeyNeverLost

LEMMA KInitially == Init => KInv
<1> SUFFICES ASSUME Init PROVE KInv
  OBVIOUS
<1> USE KeysAssumption, PlatformAssumption DEF Init, Procs
<1>1. KTypeOK
  BY DEF KTypeOK
<1>2. Roles /\ ConfigInv
  BY DEF Roles, ConfigInv, KeySteppers
<1>3. SoundInv
  BY DEF SoundInv, InitInv, CopyInv, MoveInv, StartInv, Busy, KeySteppers
<1>4. KeyNeverLost
  BY DEF KeyNeverLost, Storages
<1> QED
  BY <1>1, <1>2, <1>3, <1>4 DEF KInv

LEMMA KStep == KInv /\ [KNext]_kvars => KInv'
<1> SUFFICES ASSUME KInv, [KNext]_kvars PROVE KInv'
  OBVIOUS
<1> USE KeysAssumption, PlatformAssumption DEF KInv, Procs
<1>1. ASSUME InitBegin PROVE KInv'
  <2>1. KTypeOK'
    BY <1>1 DEF InitBegin, Begin, Goto, KTypeOK
  <2>2. Roles' /\ ConfigInv'
    BY <1>1 DEF InitBegin, Begin, Goto, KTypeOK, Roles, ConfigInv, KeySteppers
  <2>3. SoundInv'
    BY <1>1
       DEF InitBegin, Begin, Goto, ConfigInv, SoundInv, InitInv, CopyInv, KeySteppers,
           Busy
  <2>4. KeyNeverLost'
    BY <1>1 DEF InitBegin, Begin, KeyNeverLost
  <2> QED
    BY <2>1, <2>2, <2>3, <2>4
<1>2. ASSUME InitConfig PROVE KInv'
  <2>1. KTypeOK'
    BY <1>2 DEF InitConfig, ConfigWritten, ConfigFails, End, KeepProc, Goto, KTypeOK
  <2>2. Roles' /\ ConfigInv'
    BY <1>2
       DEF InitConfig, ConfigWritten, ConfigFails, End, KeepProc, Goto, KTypeOK, Roles,
           ConfigInv, KeySteppers
  <2>3. SoundInv'
    BY <1>2
       DEF InitConfig, ConfigWritten, End, Goto, KTypeOK, Roles, SoundInv, InitInv,
           CopyInv, KeySteppers, Busy
  <2>4. KeyNeverLost'
    BY <1>2 DEF InitConfig, Roles, SoundInv, InitInv, KeyNeverLost
  <2> QED
    BY <2>1, <2>2, <2>3, <2>4
<1>3. ASSUME InitPref PROVE KInv'
  <2>1. KTypeOK'
    BY <1>3 DEF InitPref, ConfigWritten, ConfigFails, KeepProc, Goto, KTypeOK
  <2>2. Roles' /\ ConfigInv'
    BY <1>3
       DEF InitPref, ConfigWritten, ConfigFails, KeepProc, Goto, KTypeOK, Roles,
           ConfigInv, KeySteppers
  <2>3. SoundInv'
    BY <1>3
       DEF InitPref, ConfigWritten, ConfigFails, KeepProc, Goto, KTypeOK, Roles,
           SoundInv, InitInv, CopyInv, Busy
  <2>4. KeyNeverLost'
    BY <1>3 DEF InitPref, Roles, SoundInv, InitInv, KeyNeverLost
  <2> QED
    BY <2>1, <2>2, <2>3, <2>4
<1>4. ASSUME InitReport PROVE KInv'
  <2>1. KTypeOK'
    BY <1>4 DEF InitReport, End, Goto, KTypeOK, Roles
  <2>2. Roles' /\ ConfigInv'
    BY <1>4 DEF InitReport, End, Goto, KTypeOK, Roles, ConfigInv, KeySteppers
  <2>3. SoundInv'
    BY <1>4
       DEF InitReport, End, Goto, KTypeOK, Roles, SoundInv, InitInv, CopyInv, MoveInv,
           StartInv, KeySteppers, Busy
  <2>4. KeyNeverLost'
    BY <1>4 DEF InitReport, KTypeOK, Roles, SoundInv, InitInv, KeyNeverLost, Storages
  <2> QED
    BY <2>1, <2>2, <2>3, <2>4
<1>5. ASSUME MoveBegin PROVE KInv'
  <2>1. KTypeOK'
    BY <1>5 DEF MoveBegin, Begin, Other, Goto, KTypeOK
  <2>2. Roles' /\ ConfigInv'
    BY <1>5
       DEF MoveBegin, Begin, Other, Goto, KTypeOK, Roles, ConfigInv, KeySteppers,
           Readable
  <2>3. SoundInv'
    BY <1>5
       DEF MoveBegin, Begin, Other, Goto, KTypeOK, SoundInv, InitInv, CopyInv, MoveInv,
           StartInv, KeySteppers, Readable, Preference, Source, Busy
  <2>4. KeyNeverLost'
    BY <1>5 DEF MoveBegin, Begin, KeyNeverLost
  <2> QED
    BY <2>1, <2>2, <2>3, <2>4
<1>6. ASSUME MoveLoad PROVE KInv'
  <2>1. KTypeOK'
    BY <1>6 DEF MoveLoad, Goto, KTypeOK
  <2>2. Roles' /\ ConfigInv'
    BY <1>6 DEF MoveLoad, Goto, KTypeOK, Roles, ConfigInv
  <2>3. SoundInv'
    BY <1>6
       DEF MoveLoad, Goto, KTypeOK, Roles, SoundInv, InitInv, CopyInv, MoveInv,
           StartInv, KeyNeverLost, Readable, Preference, Source, Target, Busy
  <2>4. KeyNeverLost'
    BY <1>6 DEF MoveLoad, KeyNeverLost
  <2> QED
    BY <2>1, <2>2, <2>3, <2>4
<1>7. ASSUME MoveVerify PROVE KInv'
  <2>1. KTypeOK'
    BY <1>7 DEF MoveVerify, KeepProc, Goto, KTypeOK
  <2>2. Roles' /\ ConfigInv'
    BY <1>7 DEF MoveVerify, KeepProc, Goto, Roles, ConfigInv, KeySteppers
  <2>3. SoundInv'
    BY <1>7
       DEF MoveVerify, KeepProc, Goto, Roles, SoundInv, InitInv, CopyInv, MoveInv,
           StartInv, Readable, Preference, Source, Target, Busy
  <2>4. KeyNeverLost'
    BY <1>7 DEF MoveVerify, KeyNeverLost
  <2> QED
    BY <2>1, <2>2, <2>3, <2>4
<1>8. ASSUME MovePref PROVE KInv'
  <2>1. KTypeOK'
    BY <1>8
       DEF MovePref, ConfigWritten, ConfigFails, End, KeepProc, Goto, KTypeOK, Target
  <2>2. Roles' /\ ConfigInv'
    BY <1>8
       DEF MovePref, ConfigWritten, ConfigFails, End, KeepProc, Goto, KTypeOK, Roles,
           ConfigInv, KeySteppers, Target
  <2>3. SoundInv'
    BY <1>8
       DEF MovePref, ConfigWritten, End, KeepProc, Goto, KTypeOK, SoundInv, InitInv,
           CopyInv, MoveInv, StartInv, KeySteppers, Target, Busy
  <2>4. KeyNeverLost'
    BY <1>8
       DEF MovePref, ConfigWritten, ConfigFails, KTypeOK, Roles, SoundInv, MoveInv,
           KeyNeverLost, Target, Storages
  <2> QED
    BY <2>1, <2>2, <2>3, <2>4
<1>9. ASSUME MoveDelete PROVE KInv'
  <2>1. KTypeOK'
    BY <1>9 DEF MoveDelete, KeyWritten, End, Goto, KTypeOK
  <2>2. Roles' /\ ConfigInv'
    BY <1>9 DEF MoveDelete, End, Goto, KTypeOK, Roles, ConfigInv, KeySteppers
  <2>3. SoundInv'
    BY <1>9
       DEF MoveDelete, End, Goto, KTypeOK, SoundInv, InitInv, CopyInv, MoveInv,
           StartInv, Busy
  <2>4. KeyNeverLost'
    BY <1>9
       DEF MoveDelete, KeyWritten, KTypeOK, Roles, SoundInv, MoveInv, KeyNeverLost,
           Other, Source, Target, Storages
  <2> QED
    BY <2>1, <2>2, <2>3, <2>4
<1>10. ASSUME AgentBegin PROVE KInv'
  <2>1. KTypeOK'
    BY <1>10 DEF AgentBegin, Begin, Goto, KTypeOK, Preference
  <2>2. Roles' /\ ConfigInv'
    BY <1>10
       DEF AgentBegin, Begin, Goto, KTypeOK, Roles, ConfigInv, KeySteppers, Preference,
           Readable
  <2>3. SoundInv'
    BY <1>10
       DEF AgentBegin, Begin, Goto, KTypeOK, Roles, SoundInv, InitInv, CopyInv,
           MoveInv, StartInv, KeySteppers, Readable, Preference, Busy
  <2>4. KeyNeverLost'
    BY <1>10 DEF AgentBegin, Begin, KeyNeverLost
  <2> QED
    BY <2>1, <2>2, <2>3, <2>4
<1>11. ASSUME AgentReady PROVE KInv'
  <2>1. KTypeOK'
    BY <1>11 DEF AgentReady, KeepProc, Goto, KTypeOK
  <2>2. Roles' /\ ConfigInv'
    BY <1>11 DEF AgentReady, KeepProc, Goto, Roles, ConfigInv
  <2>3. SoundInv'
    BY <1>11
       DEF AgentReady, KeepProc, Goto, KTypeOK, Roles, SoundInv, InitInv, CopyInv,
           MoveInv, StartInv, KeySteppers, Busy
  <2>4. KeyNeverLost'
    BY <1>11 DEF AgentReady, KeyNeverLost
  <2> QED
    BY <2>1, <2>2, <2>3, <2>4
<1>12. ASSUME AgentStops PROVE KInv'
  <2>1. KTypeOK'
    BY <1>12 DEF AgentStops, End, Goto, KTypeOK
  <2>2. Roles' /\ ConfigInv'
    BY <1>12 DEF AgentStops, End, Goto, KTypeOK, Roles, ConfigInv, KeySteppers
  <2>3. SoundInv'
    BY <1>12
       DEF AgentStops, End, Goto, KTypeOK, SoundInv, InitInv, CopyInv, MoveInv,
           StartInv, KeySteppers, Readable, Preference, Source, Target, Busy
  <2>4. KeyNeverLost'
    BY <1>12 DEF AgentStops, KeyNeverLost
  <2> QED
    BY <2>1, <2>2, <2>3, <2>4
<1>13. ASSUME NEW p \in Procs, EnsureNothing(p) PROVE KInv'
  <2>1. KTypeOK'
    BY <1>13 DEF EnsureNothing, AfterEnsure, KeepProc, Goto, KTypeOK
  <2>2. Roles' /\ ConfigInv'
    BY <1>13
       DEF EnsureNothing, AfterEnsure, KeepProc, Goto, Roles, ConfigInv, KeySteppers
  <2>3. SoundInv'
    <3>1. CASE p = "tool"
      BY <1>13, <3>1
         DEF EnsureNothing, AfterEnsure, KeepProc, Goto, Roles, SoundInv, InitInv,
             CopyInv, MoveInv, StartInv, KeySteppers, Readable, Preference, Source,
             Busy
    <3>2. CASE p = "agent"
      BY <1>13, <3>2
         DEF EnsureNothing, AfterEnsure, KeepProc, Goto, Roles, ConfigInv, SoundInv,
             InitInv, CopyInv, MoveInv, StartInv, KeySteppers, KeyNeverLost, Readable,
             Preference, Where, Busy
    <3> QED
      BY <3>1, <3>2
  <2>4. KeyNeverLost'
    BY <1>13 DEF EnsureNothing, KeyNeverLost
  <2> QED
    BY <2>1, <2>2, <2>3, <2>4
<1>14. ASSUME NEW p \in Procs, EnsureLoad(p) PROVE KInv'
  <2>1. KTypeOK'
    BY <1>14 DEF EnsureLoad, Goto, KTypeOK, Storages
  <2>2. Roles' /\ ConfigInv'
    BY <1>14 DEF EnsureLoad, Goto, Roles, ConfigInv, KeySteppers
  <2>3. SoundInv'
    BY <1>14
       DEF EnsureLoad, Goto, KTypeOK, SoundInv, InitInv, CopyInv, MoveInv, StartInv,
           KeySteppers, Readable, Preference, Source, Busy
  <2>4. KeyNeverLost'
    BY <1>14 DEF EnsureLoad, KeyNeverLost
  <2> QED
    BY <2>1, <2>2, <2>3, <2>4
<1>15. ASSUME NEW p \in Procs, EnsureCopy(p) PROVE KInv'
  <2>1. KTypeOK'
    BY <1>15 DEF EnsureCopy, KeyWritten, AfterEnsure, KeepProc, Goto, KTypeOK
  <2>2. Roles' /\ ConfigInv'
    BY <1>15 DEF EnsureCopy, AfterEnsure, KeepProc, Goto, Roles, ConfigInv, KeySteppers
  <2>3. SoundInv'
    BY <1>15
       DEF EnsureCopy, KeyWritten, AfterEnsure, KeepProc, Goto, KTypeOK, Roles,
           ConfigInv, SoundInv, InitInv, CopyInv, MoveInv, StartInv, KeySteppers,
           KeyNeverLost, Readable, Preference, Source, Where, Busy, Storages
  <2>4. KeyNeverLost'
    BY <1>15 DEF EnsureCopy, KeyWritten, SoundInv, CopyInv, KeyNeverLost
  <2> QED
    BY <2>1, <2>2, <2>3, <2>4
<1>16. ASSUME NEW p \in Procs, EnsureFails(p) PROVE KInv'
  <2>1. KTypeOK'
    BY <1>16 DEF EnsureFails, KeyFails, End, Goto, KTypeOK, Storages
  <2>2. Roles' /\ ConfigInv'
    BY <1>16 DEF EnsureFails, End, Goto, KTypeOK, Roles, ConfigInv, KeySteppers
  <2>3. SoundInv'
    BY <1>16
       DEF EnsureFails, KeyFails, End, Goto, KTypeOK, Roles, ConfigInv, SoundInv,
           InitInv, CopyInv, MoveInv, StartInv, KeySteppers, KeyNeverLost, Readable,
           Preference, Where, Busy, Storages
  <2>4. KeyNeverLost'
    BY <1>16
       DEF EnsureFails, KeyFails, KTypeOK, SoundInv, CopyInv, KeyNeverLost, Storages
  <2> QED
    BY <2>1, <2>2, <2>3, <2>4
<1>17. ASSUME NEW p \in Procs, LoadKey(p) PROVE KInv'
  <2>1. KTypeOK'
    BY <1>17 DEF LoadKey, Goto, KTypeOK
  <2>2. Roles' /\ ConfigInv'
    BY <1>17 DEF LoadKey, Goto, KTypeOK, Roles, ConfigInv
  <2>3. SoundInv'
    BY <1>17
       DEF LoadKey, Goto, KTypeOK, Roles, ConfigInv, SoundInv, InitInv, CopyInv,
           MoveInv, StartInv, KeySteppers, Readable, Preference, Where, Busy
  <2>4. KeyNeverLost'
    BY <1>17 DEF LoadKey, KeyNeverLost
  <2> QED
    BY <2>1, <2>2, <2>3, <2>4
<1>18. ASSUME NEW p \in Procs, CreateKey(p) PROVE KInv'
  <2>1. KTypeOK'
    BY <1>18 DEF CreateKey, Goto, KTypeOK
  <2>2. Roles' /\ ConfigInv'
    BY <1>18 DEF CreateKey, Goto, KTypeOK, Roles, ConfigInv
  <2>3. SoundInv'
    BY <1>18
       DEF CreateKey, Goto, KTypeOK, Roles, ConfigInv, SoundInv, InitInv, CopyInv,
           StartInv, Where, Busy
  <2>4. KeyNeverLost'
    BY <1>18 DEF CreateKey, KeyNeverLost
  <2> QED
    BY <2>1, <2>2, <2>3, <2>4
<1>19. ASSUME NEW p \in Procs, SaveKey(p) PROVE KInv'
  <2>1. KTypeOK'
    BY <1>19 DEF SaveKey, KeyWritten, AfterSave, KeepProc, Goto, KTypeOK
  <2>2. Roles' /\ ConfigInv'
    BY <1>19 DEF SaveKey, AfterSave, KeepProc, Goto, Roles, ConfigInv, KeySteppers
  <2>3. SoundInv'
    BY <1>19
       DEF SaveKey, KeyWritten, AfterSave, KeepProc, Goto, KTypeOK, Roles, SoundInv,
           InitInv, CopyInv, MoveInv, StartInv, KeySteppers, Readable, Preference,
           Source, Busy, Storages
  <2>4. KeyNeverLost'
    BY <1>19
       DEF SaveKey, KeyWritten, Roles, SoundInv, InitInv, MoveInv, StartInv,
           KeySteppers, KeyNeverLost
  <2> QED
    BY <2>1, <2>2, <2>3, <2>4
<1>20. ASSUME NEW p \in Procs, DropSlot(p) PROVE KInv'
  <2>1. KTypeOK'
    BY <1>20 DEF DropSlot, KeyWritten, KeepProc, Goto, KTypeOK
  <2>2. Roles' /\ ConfigInv'
    BY <1>20 DEF DropSlot, KeepProc, Goto, Roles, ConfigInv, KeySteppers
  <2>3. SoundInv'
    BY <1>20
       DEF DropSlot, KeyWritten, KeepProc, Goto, KTypeOK, SoundInv, InitInv, CopyInv,
           MoveInv, StartInv, KeySteppers, Readable, Preference, Other, Source, Target,
           Busy, Storages
  <2>4. KeyNeverLost'
    BY <1>20
       DEF DropSlot, KeyWritten, KTypeOK, Roles, SoundInv, InitInv, MoveInv, StartInv,
           KeySteppers, KeyNeverLost, Preference, Other, Source, Target, Storages
  <2> QED
    BY <2>1, <2>2, <2>3, <2>4
<1>21. ASSUME NEW p \in Procs, AddSlot(p) PROVE KInv'
  <2>1. KTypeOK'
    BY <1>21 DEF AddSlot, KeyWritten, AfterSave, KeepProc, Goto, KTypeOK
  <2>2. Roles' /\ ConfigInv'
    BY <1>21 DEF AddSlot, AfterSave, KeepProc, Goto, Roles, ConfigInv, KeySteppers
  <2>3. SoundInv'
    BY <1>21
       DEF AddSlot, KeyWritten, AfterSave, KeepProc, Goto, KTypeOK, SoundInv, InitInv,
           CopyInv, MoveInv, StartInv, KeySteppers, Readable, Preference, Source, Busy,
           Storages
  <2>4. KeyNeverLost'
    BY <1>21 DEF AddSlot, KeyWritten, KeyNeverLost
  <2> QED
    BY <2>1, <2>2, <2>3, <2>4
<1>22. ASSUME NEW p \in Procs, SaveFails(p) PROVE KInv'
  <2>1. KTypeOK'
    BY <1>22 DEF SaveFails, KeyFails, End, Goto, KTypeOK
  <2>2. Roles' /\ ConfigInv'
    BY <1>22 DEF SaveFails, End, Goto, KTypeOK, Roles, ConfigInv, KeySteppers
  <2>3. SoundInv'
    BY <1>22
       DEF SaveFails, End, Goto, KTypeOK, SoundInv, InitInv, CopyInv, MoveInv,
           StartInv, KeySteppers, Busy
  <2>4. KeyNeverLost'
    BY <1>22
       DEF SaveFails, KeyFails, KTypeOK, Roles, SoundInv, InitInv, MoveInv, StartInv,
           KeySteppers, KeyNeverLost, Preference, Other, Source, Target, Storages
  <2> QED
    BY <2>1, <2>2, <2>3, <2>4
<1>23. ASSUME NEW p \in Procs, Dies(p) PROVE KInv'
  <2>1. KTypeOK'
    BY <1>23 DEF Dies, KeyWritten, End, Goto, KTypeOK
  <2>2. Roles' /\ ConfigInv'
    BY <1>23 DEF Dies, End, Goto, KTypeOK, Roles, ConfigInv, KeySteppers
  <2>3. SoundInv'
    BY <1>23
       DEF Dies, End, Goto, KTypeOK, Roles, SoundInv, InitInv, CopyInv, MoveInv,
           StartInv, KeySteppers, Readable, Preference, Source, Target, Busy
  <2>4. KeyNeverLost'
    BY <1>23
       DEF Dies, KeyWritten, KTypeOK, Roles, SoundInv, InitInv, CopyInv, MoveInv,
           StartInv, KeySteppers, KeyNeverLost, Preference, Other, Source, Target,
           Storages
  <2> QED
    BY <2>1, <2>2, <2>3, <2>4
<1>24. CASE UNCHANGED kvars
  BY <1>24
     DEF kvars, KTypeOK, Roles, ConfigInv, SoundInv, InitInv, CopyInv, MoveInv,
         StartInv, KeyNeverLost, Readable, Preference, Source, Target, Where, Busy
<1> QED
  BY <1>1, <1>2, <1>3, <1>4, <1>5, <1>6, <1>7, <1>8, <1>9, <1>10, <1>11, <1>12, <1>13,
     <1>14, <1>15, <1>16, <1>17, <1>18, <1>19, <1>20, <1>21, <1>22, <1>23, <1>24
     DEF KNext, InitSteps, MoveSteps, KeySteps

LEMMA KInvariant == KSpec => []KInv
  BY KInitially, KStep, PTL DEF KSpec

(***************************************************************************)
(* The registered key is never destroyed: not by a failed or interrupted   *)
(* --init, --move-device-key or start, in whatever order they come.  Where *)
(* no torn config or key file hides it, the next start finds it.           *)
(***************************************************************************)
THEOREM KeyKept == KSpec => []KeyNeverLost
<1>1. KInv => KeyNeverLost
  BY DEF KInv
<1> QED
  BY <1>1, KInvariant, PTL

\* No failure, fallback or move makes a start generate or load another key.
THEOREM IdentityKept == KSpec => []SameIdentity
<1>1. KInv => SameIdentity
  BY DEF KInv, SoundInv, StartInv, SameIdentity
<1> QED
  BY <1>1, KInvariant, PTL

-----------------------------------------------------------------------------
(* The home                                                                *)

\* Only a running agent has IAM state in memory or a save worker, and only a
\* worker that is writing has taken a state.
MemoryInv ==
    /\ pc["agent"] # "up" => pending = None /\ saver = "off" /\ stop = "no"
    /\ saver = "off" => pending = None
    /\ saving # None <=> saver = "write"

\* What the agent has accepted and nobody has disturbed is on its way to the
\* file: in the file, in the worker's hands, or pending.
Latest == IF pending # None THEN pending
          ELSE IF saver = "write" THEN saving ELSE iam

SaveInv == pc["agent"] = "up" /\ touched = "no" => Latest = mem

\* --init comes before every other command, so there is nobody to revoke.
FirstInv ==
    /\ config = "none" => iam = None /\ job = None /\ revoked = {}
    /\ pc["tool"] # "off" => job = None
    /\ pc["tool"] # "off" /\ op["tool"] = "init" => revoked = {}

Lacks(state, u) == state # None => state[u] = "absent"

\* A revoked user is in no state that may still be loaded or written: not in
\* the file, not in the agent's three copies, and not in what a command has
\* made of the file, unless this command adds the user again.
RevokedInv ==
    \A u \in revoked :
        /\ iam # Torn => Lacks(iam, u)
        /\ Lacks(mem, u) /\ Lacks(pending, u) /\ Lacks(saving, u)
        /\ job # None /\ job.user # u => Lacks(job.state, u)

HInv == HTypeOK /\ MemoryInv /\ SaveInv /\ FirstInv /\ RevokedInv

\* What a step of the key's storage can do to the rest of the home.
LEMMA KeyFrame ==
  ASSUME KInv, KeyStep
  PROVE  /\ pc'["agent"] = "up" <=> pc["agent"] = "up"
         /\ config' = "none" => config = "none"
         /\ pc'["tool"] # "off" => pc["tool"] # "off" \/ job = None
         /\ pc'["tool"] # "off" /\ op'["tool"] = "init" =>
               config = "none" \/ (pc["tool"] # "off" /\ op["tool"] = "init")
<1> DEFINE Frame ==
      /\ pc'["agent"] = "up" <=> pc["agent"] = "up"
      /\ config' = "none" => config = "none"
      /\ pc'["tool"] # "off" => pc["tool"] # "off" \/ job = None
      /\ pc'["tool"] # "off" /\ op'["tool"] = "init" =>
            config = "none" \/ (pc["tool"] # "off" /\ op["tool"] = "init")
<1> USE DEF Procs, KInv, KTypeOK, Goto
<1>1. ASSUME job = None, InitBegin PROVE Frame
  BY <1>1 DEF InitBegin, Begin
<1>2. ASSUME job = None, MoveBegin PROVE Frame
  BY <1>2 DEF MoveBegin, Begin
<1>3. ASSUME InitConfig PROVE Frame
  BY <1>3 DEF InitConfig, ConfigWritten, ConfigFails, End, KeepProc
<1>4. ASSUME InitPref PROVE Frame
  BY <1>4 DEF InitPref, ConfigWritten, ConfigFails, KeepProc
<1>5. ASSUME MoveLoad PROVE Frame
  BY <1>5 DEF MoveLoad
<1>6. ASSUME MoveVerify PROVE Frame
  BY <1>6 DEF MoveVerify, KeepProc
<1>7. ASSUME MovePref PROVE Frame
  BY <1>7 DEF MovePref, ConfigWritten, ConfigFails, End, KeepProc, Target
<1>8. ASSUME MoveDelete PROVE Frame
  BY <1>8 DEF MoveDelete, End
<1>9. ASSUME AgentBegin PROVE Frame
  BY <1>9 DEF AgentBegin, Begin
<1>10. ASSUME NEW p \in Procs, KeySteps(p) PROVE Frame
  BY <1>10
     DEF KeySteps, EnsureNothing, EnsureLoad, EnsureCopy, EnsureFails, LoadKey,
         CreateKey, SaveKey, DropSlot, AddSlot, SaveFails, AfterEnsure, AfterSave,
         KeepProc, End
<1> HIDE DEF Frame
<1>99. Frame
  BY <1>1, <1>2, <1>3, <1>4, <1>5, <1>6, <1>7, <1>8, <1>9, <1>10 DEF KeyStep
<1> QED
  BY <1>99 DEF Frame

\* Every step of the home is a step of the key's storage or does not touch it:
\* an agent that gives up on an unreadable IAM file ends like one that dies.
LEMMA HomeStepIsKeyStep == [HNext]_hvars => [KNext]_kvars
<1> SUFFICES ASSUME [HNext]_hvars PROVE [KNext]_kvars
  OBVIOUS
<1>1. ASSUME KeyStep PROVE KNext
  BY <1>1 DEF KeyStep, KNext, InitSteps, MoveSteps
<1>2. ASSUME InitUsers PROVE KNext
  BY <1>2 DEF InitUsers, KNext, InitSteps
<1>3. ASSUME AgentLoads PROVE KNext
  BY <1>3 DEF AgentLoads, KNext
<1>4. ASSUME AgentGivesUp PROVE KNext
  BY <1>4 DEF AgentGivesUp, KNext, Dies, Procs
<1>5. ASSUME ExitAgent PROVE KNext
  BY <1>5 DEF ExitAgent, KNext
<1>6. ASSUME AgentDies PROVE KNext
  BY <1>6 DEF AgentDies, KNext, Procs
<1>7. ASSUME ToolDies PROVE KNext \/ UNCHANGED kvars
  BY <1>7 DEF ToolDies, KNext, Procs
<1>8. ASSUME NEW u \in Users, AddUser(u) \/ RemoveUser(u) \/ Pair(u) PROVE UNCHANGED kvars
  BY <1>8 DEF AddUser, RemoveUser, Pair
<1>9. ASSUME WriteUsers \/ SaverTakes \/ SaverWrites \/ SaverEnds \/ StopAgent
      PROVE  UNCHANGED kvars
  BY <1>9 DEF WriteUsers, SaverTakes, SaverWrites, SaverEnds, StopAgent
<1>10. CASE UNCHANGED hvars
  BY <1>10 DEF hvars
<1> QED
  BY <1>1, <1>2, <1>3, <1>4, <1>5, <1>6, <1>7, <1>8, <1>9, <1>10
     DEF HNext, Commands, Agent

LEMMA HInitially == HInit => HInv
<1> SUFFICES ASSUME HInit PROVE HInv
  OBVIOUS
<1>1. KTypeOK
  BY KInitially DEF HInit, KInv
<1>2. HTypeOK
  BY <1>1, OwnerAssumption DEF HInit, Init, HTypeOK, IamStates, Standing, Procs
<1>3. MemoryInv /\ SaveInv /\ FirstInv /\ RevokedInv
  BY DEF HInit, Init, MemoryInv, SaveInv, FirstInv, RevokedInv, Procs
<1> QED
  BY <1>2, <1>3 DEF HInv

\* Every step keeps the invariant, given that it keeps the one about the key.
LEMMA HStep == HInv /\ KInv /\ KInv' /\ [HNext]_hvars => HInv'
<1> SUFFICES ASSUME HInv, KInv, KInv', [HNext]_hvars PROVE HInv'
  OBVIOUS
<1>0. KTypeOK /\ KTypeOK'
  BY DEF KInv
<1> USE <1>0, KeysAssumption, OwnerAssumption, NoneAssumption
        DEF HInv, Procs, IamStates, Standing
<1>1. ASSUME InitUsers PROVE HInv'
  <2>1. HTypeOK'
    BY <1>1
       DEF InitUsers, IamWritten, IamFails, InitReport, End, agentVars, Goto, HTypeOK
  <2>2. MemoryInv' /\ SaveInv'
    BY <1>1 DEF InitUsers, InitReport, End, agentVars, Goto, MemoryInv, SaveInv
  <2>3. FirstInv'
    BY <1>1 DEF InitUsers, InitReport, End, FirstInv, KInv, ConfigInv
  <2>4. RevokedInv'
    BY <1>1 DEF InitUsers, InitReport, FirstInv, RevokedInv, KInv, Roles
  <2> QED
    BY <2>1, <2>2, <2>3, <2>4
<1>2. ASSUME NEW u \in Users, AddUser(u) PROVE HInv'
  <2>1. HTypeOK'
    BY <1>2 DEF AddUser, Parsed, kvars, agentVars, HTypeOK
  <2>2. MemoryInv' /\ SaveInv'
    BY <1>2 DEF AddUser, kvars, agentVars, MemoryInv, SaveInv, Latest
  <2>3. FirstInv'
    BY <1>2 DEF AddUser, ToolFree, Parsed, kvars, FirstInv
  <2>4. RevokedInv'
    BY <1>2 DEF AddUser, Parsed, agentVars, RevokedInv, Lacks
  <2> QED
    BY <2>1, <2>2, <2>3, <2>4
<1>3. ASSUME NEW u \in Users, RemoveUser(u) PROVE HInv'
  <2>1. HTypeOK'
    BY <1>3 DEF RemoveUser, Parsed, kvars, agentVars, HTypeOK
  <2>2. MemoryInv' /\ SaveInv'
    BY <1>3 DEF RemoveUser, kvars, agentVars, MemoryInv, SaveInv, Latest
  <2>3. FirstInv'
    BY <1>3 DEF RemoveUser, ToolFree, Parsed, kvars, FirstInv
  <2>4. RevokedInv'
    BY <1>3 DEF RemoveUser, Parsed, agentVars, RevokedInv, Lacks
  <2> QED
    BY <2>1, <2>2, <2>3, <2>4
<1>4. ASSUME WriteUsers PROVE HInv'
  <2>1. HTypeOK'
    BY <1>4 DEF WriteUsers, Reported, IamWritten, IamFails, kvars, agentVars, HTypeOK
  <2>2. MemoryInv' /\ SaveInv'
    BY <1>4 DEF WriteUsers, kvars, agentVars, MemoryInv, SaveInv
  <2>3. FirstInv'
    BY <1>4 DEF WriteUsers, kvars, FirstInv
  <2>4. RevokedInv'
    BY <1>4
       DEF WriteUsers, Reported, IamWritten, IamFails, agentVars, HTypeOK, MemoryInv,
           RevokedInv, Lacks
  <2> QED
    BY <2>1, <2>2, <2>3, <2>4
<1>5. ASSUME ToolDies PROVE HInv'
  <2>1. HTypeOK'
    BY <1>5 DEF ToolDies, Dies, End, IamFails, kvars, agentVars, Goto, HTypeOK, KTypeOK
  <2>2. MemoryInv' /\ SaveInv'
    BY <1>5
       DEF ToolDies, Dies, End, kvars, agentVars, Goto, MemoryInv, SaveInv, Latest,
           KTypeOK
  <2>3. FirstInv'
    BY <1>5 DEF ToolDies, Dies, End, kvars, FirstInv, KInv, ConfigInv, KTypeOK
  <2>4. RevokedInv'
    BY <1>5 DEF ToolDies, IamFails, agentVars, RevokedInv
  <2> QED
    BY <2>1, <2>2, <2>3, <2>4
<1>6. ASSUME AgentLoads PROVE HInv'
  <2>1. HTypeOK'
    BY <1>6 DEF AgentLoads, AgentReady, Parsed, Goto, HTypeOK, KTypeOK
  <2>2. MemoryInv' /\ SaveInv'
    BY <1>6 DEF AgentLoads, AgentReady, Goto, MemoryInv, SaveInv, Latest, KTypeOK
  <2>3. FirstInv'
    BY <1>6 DEF AgentLoads, AgentReady, KeepProc, Goto, FirstInv
  <2>4. RevokedInv'
    BY <1>6 DEF AgentLoads, Parsed, RevokedInv
  <2> QED
    BY <2>1, <2>2, <2>3, <2>4
<1>7. ASSUME AgentGivesUp PROVE HInv'
  <2>1. HTypeOK'
    BY <1>7 DEF AgentGivesUp, End, ivars, Goto, HTypeOK
  <2>2. MemoryInv' /\ SaveInv'
    BY <1>7 DEF AgentGivesUp, End, ivars, Goto, MemoryInv, SaveInv
  <2>3. FirstInv'
    BY <1>7 DEF AgentGivesUp, End, ivars, Goto, FirstInv
  <2>4. RevokedInv'
    BY <1>7 DEF AgentGivesUp, ivars, RevokedInv
  <2> QED
    BY <2>1, <2>2, <2>3, <2>4
<1>8. ASSUME NEW u \in Users, Pair(u) PROVE HInv'
  <2>1. HTypeOK'
    BY <1>8 DEF Pair, AgentSaves, IamWritten, IamFails, kvars, HTypeOK
  <2>2. MemoryInv' /\ SaveInv'
    <3>1. mem \in IamStates /\ mem' \in IamStates /\ mem' # None
      BY <1>8 DEF Pair, HTypeOK
    <3>2. MemoryInv'
      BY <1>8, <3>1 DEF Pair, MemoryInv, kvars
    <3>3. SaveInv'
      BY <1>8, <3>1 DEF Pair, AgentSaves, IamWritten, MemoryInv, SaveInv, Latest
    <3> QED
      BY <3>2, <3>3
  <2>3. FirstInv'
    BY <1>8 DEF Pair, kvars, FirstInv, KInv, ConfigInv
  <2>4. RevokedInv'
    BY <1>8 DEF Pair, AgentSaves, IamWritten, IamFails, HTypeOK, RevokedInv, Lacks
  <2> QED
    BY <2>1, <2>2, <2>3, <2>4
<1>9. ASSUME SaverTakes PROVE HInv'
  <2>1. HTypeOK'
    BY <1>9 DEF SaverTakes, kvars, HTypeOK
  <2>2. MemoryInv' /\ SaveInv'
    BY <1>9 DEF SaverTakes, kvars, MemoryInv, SaveInv, Latest
  <2>3. FirstInv'
    BY <1>9 DEF SaverTakes, kvars, FirstInv
  <2>4. RevokedInv'
    BY <1>9 DEF SaverTakes, MemoryInv, RevokedInv
  <2> QED
    BY <2>1, <2>2, <2>3, <2>4
<1>10. ASSUME SaverWrites PROVE HInv'
  <2>1. HTypeOK'
    BY <1>10 DEF SaverWrites, AgentSaves, IamWritten, IamFails, kvars, HTypeOK
  <2>2. MemoryInv' /\ SaveInv'
    BY <1>10 DEF SaverWrites, AgentSaves, IamWritten, kvars, MemoryInv, SaveInv, Latest
  <2>3. FirstInv'
    BY <1>10 DEF SaverWrites, kvars, MemoryInv, FirstInv, KInv, ConfigInv
  <2>4. RevokedInv'
    BY <1>10 DEF SaverWrites, AgentSaves, IamWritten, IamFails, RevokedInv, Lacks
  <2> QED
    BY <2>1, <2>2, <2>3, <2>4
<1>11. ASSUME SaverEnds PROVE HInv'
  <2>1. HTypeOK'
    BY <1>11 DEF SaverEnds, kvars, HTypeOK
  <2>2. MemoryInv' /\ SaveInv'
    BY <1>11 DEF SaverEnds, kvars, MemoryInv, SaveInv, Latest
  <2>3. FirstInv'
    BY <1>11 DEF SaverEnds, kvars, FirstInv
  <2>4. RevokedInv'
    BY <1>11 DEF SaverEnds, RevokedInv
  <2> QED
    BY <2>1, <2>2, <2>3, <2>4
<1>12. ASSUME StopAgent PROVE HInv'
  <2>1. HTypeOK'
    BY <1>12 DEF StopAgent, kvars, HTypeOK
  <2>2. MemoryInv' /\ SaveInv'
    BY <1>12 DEF StopAgent, kvars, MemoryInv, SaveInv, Latest
  <2>3. FirstInv'
    BY <1>12 DEF StopAgent, kvars, FirstInv
  <2>4. RevokedInv'
    BY <1>12 DEF StopAgent, RevokedInv
  <2> QED
    BY <2>1, <2>2, <2>3, <2>4
<1>13. ASSUME ExitAgent PROVE HInv'
  <2>1. HTypeOK'
    BY <1>13 DEF ExitAgent, AgentStops, Forget, End, Goto, HTypeOK, KTypeOK
  <2>2. MemoryInv' /\ SaveInv'
    BY <1>13 DEF ExitAgent, AgentStops, Forget, End, Goto, MemoryInv, SaveInv, KTypeOK
  <2>3. FirstInv'
    BY <1>13 DEF ExitAgent, AgentStops, End, Goto, FirstInv
  <2>4. RevokedInv'
    BY <1>13 DEF ExitAgent, Forget, MemoryInv, RevokedInv
  <2> QED
    BY <2>1, <2>2, <2>3, <2>4
<1>14. ASSUME AgentDies PROVE HInv'
  <2>1. HTypeOK'
    BY <1>14 DEF AgentDies, Dies, Forget, End, Goto, HTypeOK, KTypeOK
  <2>2. MemoryInv' /\ SaveInv'
    BY <1>14 DEF AgentDies, Dies, Forget, End, Goto, MemoryInv, SaveInv, KTypeOK
  <2>3. FirstInv'
    BY <1>14 DEF AgentDies, Dies, End, Goto, FirstInv, KInv, ConfigInv
  <2>4. RevokedInv'
    BY <1>14 DEF AgentDies, Forget, RevokedInv, Lacks
  <2> QED
    BY <2>1, <2>2, <2>3, <2>4
<1>15. ASSUME KeyStep PROVE HInv'
  <2>1. UNCHANGED ivars
    BY <1>15 DEF KeyStep
  <2>2. HTypeOK' /\ MemoryInv' /\ SaveInv'
    BY <1>15, <2>1, KeyFrame DEF ivars, HTypeOK, MemoryInv, SaveInv, Latest
  <2>3. FirstInv' /\ RevokedInv'
    BY <1>15, <2>1, KeyFrame DEF ivars, FirstInv, RevokedInv
  <2> QED
    BY <2>2, <2>3
<1>16. CASE UNCHANGED hvars
  BY <1>16
     DEF hvars, kvars, ivars, HTypeOK, MemoryInv, SaveInv, Latest, FirstInv, RevokedInv
<1> QED
  BY <1>1, <1>2, <1>3, <1>4, <1>5, <1>6, <1>7, <1>8, <1>9, <1>10, <1>11, <1>12, <1>13,
     <1>14, <1>15, <1>16
     DEF HNext, Commands, Agent

(***************************************************************************)
(* The home directory implements the storage of the key: whatever the      *)
(* other commands, the running agent and its save worker do, config and    *)
(* key files change only the way DeviceKey says.                           *)
(***************************************************************************)
THEOREM HomeImplementsKey == HSpec => KSpec
<1>1. HInit => Init
  BY DEF HInit
<1> QED
  BY <1>1, HomeStepIsKeyStep, PTL DEF HSpec, KSpec

LEMMA HInvariant == HSpec => []HInv
<1>1. HSpec => []KInv
  BY HomeImplementsKey, KInvariant, PTL
<1>2. HSpec => HInit /\ [][HNext]_hvars
  BY DEF HSpec
<1> QED
  BY <1>1, <1>2, HInitially, HStep, PTL

\* The state keeps its types: an IAM state is in memory exactly while the agent
\* is up, and nothing but whole states is ever pending, taken or written.
THEOREM HomeTypes == HSpec => []HTypeOK
<1>1. HInv => HTypeOK
  BY DEF HInv
<1> QED
  BY <1>1, HInvariant, PTL

\* The registered key is not destroyed, and is where the next start looks unless a
\* torn file hides it, also with the IAM commands and a running agent at work on
\* the same home.
THEOREM HomeKeepsKey == HSpec => []KeyNeverLost
  BY HomeImplementsKey, KeyKept, PTL

\* A started agent presents the registered key.
THEOREM HomeKeepsIdentity == HSpec => []SameIdentity
  BY HomeImplementsKey, IdentityKept, PTL

\* A stopped agent leaves every pairing it has accepted in the file: the save
\* worker may skip states and be told to stop while one is pending.
THEOREM PairingsSaved == HSpec => []SavedOnExit
<1>1. HInv => SavedOnExit
  BY NoneAssumption DEF HInv, MemoryInv, SaveInv, Latest, SavedOnExit
<1> QED
  BY <1>1, HInvariant, PTL

\* A user whose removal was reported while no agent was running is admitted by
\* no agent that is started later.
THEOREM RevocationsHold == HSpec => []RevokedStayOut
<1>1. HInv => RevokedStayOut
  BY DEF HInv, HTypeOK, RevokedInv, Lacks, RevokedStayOut
<1> QED
  BY <1>1, HInvariant, PTL
=============================================================================

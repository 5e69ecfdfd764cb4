---------------------- MODULE SecretsAndBackups_proofs ----------------------
(***************************************************************************)
(* Proofs about what must not be lost by a switch or a restore.            *)
(*                                                                         *)
(* SecretMigration: without failing writes and without keystore outages,   *)
(* and for the files the switch covers, no crash loses a secret, whatever  *)
(* the number of files and of switches; and every secret can be read after *)
(* the next launch.  Between the backends without a password no secret is  *)
(* lost either when writes and removals fail and the keystore is missing.  *)
(*                                                                         *)
(* BackupRestore, for any workspaces, backups and bounds: the originals    *)
(* survive whatever happens in a replace, and a failed replace leaves the  *)
(* workspace it found when no move and no removal fails; a restore brings  *)
(* what its backup holds and no more, never shows a tree before its        *)
(* requests, and keeps every file of its kind.                             *)
(***************************************************************************)
EXTENDS SecretMigration, BackupRestore, TLAPS

-----------------------------------------------------------------------------
(* SecretMigration *)


\* The circumstances: only crashes.
OnlyCrashes == ~WriteErrors /\ ~KeystoreOutages /\ Unswept = {}

-----------------------------------------------------------------------------
(* The inductive invariant *)

\* The backends values may be sealed under: the marker's two while a switch is
\* pending, the configured one otherwise, the keystore before the first launch.
Backends == IF Pending THEN {config.migration.from, config.migration.to}
            ELSE IF config = NoConfig THEN {"os-keychain"} ELSE {config.mode}

FilesInv ==
  \A f \in Files :
    /\ files[f].by \in {"none"} \cup Backends
    /\ files[f].by = "app-key" => files[f].key = keyfile /\ keyfile # 0
    /\ files[f].by = "master-password" =>
         files[f].key = config.master /\ config.master # 0
    /\ files[f].by = "os-keychain" => files[f].key = 0
    /\ files[f].by # "plain"

ConfigInv ==
  /\ Pending => /\ config.migration.from \in AllModes
                /\ config.migration.to \in AllModes
                /\ config.migration.from # config.migration.to
                /\ config.mode = config.migration.from
                /\ NeedsPassword(config.migration) => config.master # 0
  /\ config.mode = "master-password" => config.master # 0

\* The active backend is the configured one and its app key is loaded.
Settled == /\ ~Pending /\ config # NoConfig /\ mem.mode = config.mode
           /\ mem.mode = "app-key" => mem.appKey = keyfile /\ keyfile # 0
           /\ mem.mode = "master-password" => mem.masterKey \in {0, config.master}

\* A step of a switch has the keys of the marker's two backends in memory.
Switching ==
  /\ op.from \in AllModes /\ op.to \in AllModes /\ op.from # op.to
  /\ Pending /\ config.migration = [from |-> op.from, to |-> op.to]
  /\ "app-key" \in {op.from, op.to} => mem.appKey = keyfile /\ keyfile # 0
  /\ "master-password" \in {op.from, op.to} => mem.masterKey = config.master
  /\ op.origin = "set-mode" /\ op.to = "master-password" => op.key = config.master

\* Between set-mode's checks and its marker.
Starting ==
  /\ op.origin = "set-mode" /\ session /\ Settled /\ ~Locked
  /\ op.from = mem.mode /\ op.to \in AllModes /\ op.from # op.to
  /\ op.to = "master-password" <=> op.key # 0

\* A pending switch waits for the password.
WaitingForPassword ==
  /\ Pending /\ NeedsPassword(config.migration)
  /\ mem.mode = "master-password" /\ mem.masterKey = 0

\* What each step of the handler in progress can rely on.
OpInv ==
  /\ op.pc # "clear"
  /\ op.pc # "none" => op.origin # "none" \/ op.pc \in {"infer", "wake"}
  /\ op.origin \in {"set-mode", "unlock"} => session
  /\ op.origin = "boot" => ~session
  /\ op.pc \in {"infer", "wake"} => ~session
  /\ op.pc = "none" /\ session => Settled \/ WaitingForPassword
  /\ op.pc = "infer" => config = NoConfig
  /\ op.pc = "wake" => (Pending => NeedsPassword(config.migration))
  /\ op.pc = "key" /\ op.origin = "set-mode" => Starting /\ op.to = "app-key"
  /\ op.pc = "key" /\ op.origin # "set-mode" =>
       /\ Pending /\ config.migration = [from |-> op.from, to |-> op.to]
       /\ op.origin = "boot" => ~NeedsPassword(config.migration)
       /\ op.origin = "unlock" => op.key = config.master
  /\ op.pc = "mark" =>
       Starting /\ (op.to = "app-key" => mem.appKey = keyfile /\ keyfile # 0)
  /\ op.pc \in {"validate", "convert"} => Switching
  /\ op.pc = "drop" => Settled /\ config.mode # "app-key"

IInv == TypeOK /\ keystore /\ FilesInv /\ ConfigInv /\ OpInv

-----------------------------------------------------------------------------
(* Type correctness *)

\* What sealing yields, and when the keystore is there.
LEMMA SealType ==
  ASSUME TypeOK, NEW m \in AllModes PROVE Seal(m) \in Sealed
  BY DEF TypeOK, Seal, Sealed, AllModes

LEMMA SealWithKeystore ==
  ASSUME keystore, NEW m \in AllModes
  PROVE  /\ Seal(m).by = m
         /\ m = "app-key" => Seal(m).key = mem.appKey
         /\ m = "master-password" => Seal(m).key = mem.masterKey
         /\ m = "os-keychain" => Seal(m).key = 0
  BY DEF Seal, AllModes

\* Where a finished switch goes.
LEMMA ReturnType ==
  ASSUME TypeOK, Return
  PROVE  /\ op' \in Operation
         /\ op.origin = "boot" => op' = Launching("wake")
         /\ op.origin # "boot" => op' = NoOp
  BY DEF Return, Operation

\* The next step of a switch.
LEMMA GotoType ==
  ASSUME TypeOK, op.pc \in Steps, NEW pc \in Steps, Goto(pc)
  PROVE  /\ op' \in Switch /\ op \in Switch /\ op'.pc = pc
         /\ op'.origin = op.origin /\ op'.from = op.from
         /\ op'.to = op.to /\ op'.key = op.key
<1>1. op \in Switch
  BY DEF TypeOK, Operation, Launching, NoOp, Steps
<1>2. QED
  BY <1>1 DEF Goto, Switch

\* TypeOK holds in every reachable state, whatever fails.
LEMMA TypeStep == TypeOK /\ [Next]_vars => TypeOK'
<1> SUFFICES ASSUME TypeOK, [Next]_vars PROVE TypeOK'
  OBVIOUS
<1>1. CASE Boot
  <2>1. keystore' \in BOOLEAN
    BY <1>1, BoundsAssumption DEF Boot
  <2>2. op' \in Operation
    <3>1. CASE Pending /\ ~NeedsPassword(config.migration) /\ config # NoConfig
      <4>1. config.migration \in [from : AllModes, to : AllModes]
        BY <3>1 DEF Pending, TypeOK, Config, Migration
      <4>2. op' = [pc |-> "key", origin |-> "boot", from |-> config.migration.from,
                   to |-> config.migration.to, key |-> 0]
        BY <1>1, <3>1 DEF Boot
      <4>3. QED
        BY <4>1, <4>2 DEF Operation, Switch, Steps
    <3>2. CASE ~(Pending /\ ~NeedsPassword(config.migration) /\ config # NoConfig)
      BY <1>1, <3>2 DEF Boot, Operation
    <3>3. QED
      BY <3>1, <3>2
  <2>3. QED
    <3>1. config = NoConfig => op'.pc = "infer"
      BY <1>1 DEF Boot, Launching, NoOp
    <3>2. UNCHANGED <<files, config, keyfile, mem, session, minted, switches>> /\ ~session
      BY <1>1 DEF Boot
    <3>3. QED
      BY <2>1, <2>2, <3>1, <3>2 DEF TypeOK
<1>2. CASE InferAndPersist
  <2>1. InferredMode \in AllModes
    BY ModesAssumption DEF InferredMode, AllModes
  <2>2. /\ [NoConfig EXCEPT !.mode = InferredMode] \in Config
        /\ [NoConfig EXCEPT !.mode = InferredMode] # NoConfig
    BY <2>1 DEF NoConfig, NoMigration, Config, Migration, AllModes
  <2>3. CASE InferredMode = "app-key" /\ keyfile = 0
    BY <1>2, <2>3 DEF InferAndPersist, TypeOK
  <2>4. CASE ~(InferredMode = "app-key" /\ keyfile = 0)
    <3>1. op' \in Operation
      BY <1>2, <2>4 DEF InferAndPersist, Operation
    <3>2. QED
      BY <1>2, <2>2, <2>4, <3>1 DEF InferAndPersist, TypeOK
  <2>5. QED
    BY <2>3, <2>4
<1>3. CASE WakeUp
  <2>1. NoOp \in Operation
    BY DEF Operation
  <2>2. minted' \in Nat /\ keyfile' \in Nat
    BY <1>3 DEF WakeUp, TypeOK
  <2>3. config # NoConfig /\ config.mode \in AllModes
    BY <1>3 DEF WakeUp, At, TypeOK, Config
  <2>4. mem' \in [mode : AllModes, appKey : Nat, masterKey : Nat]
    BY <1>3, <2>2, <2>3 DEF WakeUp, AllModes
  <2>5. QED
    <3>1. UNCHANGED <<files, config, keystore, switches>> /\ session' = TRUE /\ op' = NoOp
      BY <1>3 DEF WakeUp
    <3>2. QED
      BY <2>1, <2>2, <2>3, <2>4, <3>1 DEF TypeOK
<1>4. ASSUME NEW to \in Modes, SetMode(to) PROVE TypeOK'
  <2>1. to \in AllModes /\ mem.mode \in AllModes
    BY ModesAssumption DEF TypeOK
  <2>2. op' \in Operation /\ minted' \in Nat
    BY <1>4, <2>1 DEF SetMode, TypeOK, Operation, Switch, Steps
  <2>3. config # NoConfig
    BY <1>4 DEF SetMode, Quiet, TypeOK
  <2>4. switches' \in 0..MaxSwitches
    BY <1>4, BoundsAssumption DEF SetMode, TypeOK
  <2>5. QED
    BY <1>4, <2>2, <2>3, <2>4 DEF SetMode, TypeOK
<1>5. CASE Unlock
  <2>1. config # NoConfig /\ config.master \in Nat
    BY <1>5 DEF Unlock, Quiet, TypeOK, Config
  <2>2. op' \in Operation
    <3>1. CASE Pending
      <4>1. config.migration \in [from : AllModes, to : AllModes]
        BY <2>1, <3>1 DEF Pending, TypeOK, Config, Migration
      <4>2. op' = [pc |-> "key", origin |-> "unlock", from |-> config.migration.from,
                   to |-> config.migration.to, key |-> config.master]
        BY <1>5, <3>1 DEF Unlock
      <4>3. QED
        BY <2>1, <4>1, <4>2 DEF Operation, Switch, Steps
    <3>2. CASE ~Pending
      BY <1>5, <3>2 DEF Unlock, Operation
    <3>3. QED
      BY <3>1, <3>2
  <2>3. mem' \in [mode : AllModes, appKey : Nat, masterKey : Nat]
    BY <1>5, <2>1 DEF Unlock, TypeOK
  <2>4. QED
    BY <1>5, <2>1, <2>2, <2>3 DEF Unlock, TypeOK
<1>6. CASE Lock
  BY <1>6 DEF Lock, TypeOK
<1>7. ASSUME NEW f \in Files, SaveSecret(f) PROVE TypeOK'
  <2>1. Seal(mem.mode) \in Sealed
    BY SealType DEF TypeOK
  <2>2. QED
    BY <1>7, <2>1 DEF SaveSecret, TypeOK
<1>8. CASE LoadKeys
  <2>1. op.pc \in Steps /\ config # NoConfig
    BY <1>8 DEF LoadKeys, At, TypeOK, Steps
  <2>2. minted' \in Nat /\ keyfile' \in Nat
    BY <1>8 DEF LoadKeys, TypeOK
  <2>3. CASE op.origin = "set-mode"
    <3>1. mem' = [mem EXCEPT !.appKey = keyfile'] /\ Goto("mark")
      BY <1>8, <2>3 DEF LoadKeys
    <3>2. op' \in Operation
      BY <2>1, <3>1, GotoType DEF Steps, Operation
    <3>3. QED
      BY <1>8, <2>1, <2>2, <3>1, <3>2 DEF LoadKeys, TypeOK
  <2>4. CASE op.origin # "set-mode"
    <3>1. /\ mem' = [mode |-> op.from, appKey |-> keyfile',
                     masterKey |-> IF op.origin = "boot" THEN 0 ELSE op.key]
          /\ Goto("validate")
      BY <1>8, <2>4 DEF LoadKeys
    <3>2. op' \in Operation /\ op \in Switch
      BY <2>1, <3>1, GotoType DEF Steps, Operation
    <3>3. QED
      BY <1>8, <2>1, <2>2, <3>1, <3>2 DEF LoadKeys, TypeOK, Switch
  <2>5. QED
    BY <2>3, <2>4
<1>9. CASE MarkMigration
  <2>1. op.pc \in Steps /\ config # NoConfig /\ Goto("validate")
    BY <1>9 DEF MarkMigration, At, TypeOK, Steps
  <2>2. op' \in Operation /\ op \in Switch
    BY <2>1, GotoType DEF Steps, Operation
  <2>3. config.master \in Nat
    BY <2>1 DEF TypeOK, Config
  <2>4. config' \in Config /\ config' # NoConfig
    BY <1>9, <2>2, <2>3
    DEF MarkMigration, Config, Migration, NoConfig, Switch, AllModes
  <2>5. mem' \in [mode : AllModes, appKey : Nat, masterKey : Nat]
    BY <1>9, <2>2 DEF MarkMigration, TypeOK, Switch
  <2>6. QED
    BY <1>9, <2>2, <2>4, <2>5 DEF MarkMigration, TypeOK
<1>10. CASE Validate
  <2>1. op.pc \in Steps /\ config # NoConfig
    BY <1>10 DEF Validate, At, TypeOK, Steps
  <2>2. Goto("convert") \/ Goto("clear") \/ Return
    BY <1>10 DEF Validate
  <2>3. op' \in Operation
    BY <2>1, <2>2, GotoType, ReturnType DEF Steps, Operation
  <2>4. QED
    BY <1>10, <2>1, <2>3 DEF Validate, TypeOK
<1>11. CASE ClearMigration
  <2>1. op' \in Operation /\ config # NoConfig
    BY <1>11, ReturnType DEF ClearMigration, At, TypeOK
  <2>2. config' \in Config /\ config' # NoConfig
    BY <1>11, <2>1
    DEF ClearMigration, TypeOK, Config, Migration, NoConfig, AllModes
  <2>3. QED
    BY <1>11, <2>1, <2>2 DEF ClearMigration, TypeOK
<1>12. CASE ConvertFile
  <2>1. op.pc \in Steps
    BY <1>12 DEF ConvertFile, At, Steps
  <2>2. op.to \in AllModes
    BY <2>1 DEF TypeOK, Operation, Switch, Launching, NoOp, Steps
  <2>3. Seal(op.to) \in Sealed
    BY <2>2, SealType
  <2>4. PICK f \in ToConvert(op.to) :
          files' = [files EXCEPT ![f] = Reencrypted(@, op.to)]
    BY <1>12 DEF ConvertFile
  <2>5. \A v \in Sealed : Reencrypted(v, op.to) \in Sealed
    BY <2>3 DEF Reencrypted
  <2>6. files' \in [Files -> Sealed]
    BY <2>4, <2>5 DEF TypeOK
  <2>7. QED
    BY <1>12, <2>6 DEF ConvertFile, TypeOK
<1>13. CASE FlipMode
  <2>1. op.pc \in Steps /\ config # NoConfig
    BY <1>13 DEF FlipMode, At, TypeOK, Steps
  <2>2. op \in Switch
    BY <2>1 DEF TypeOK, Operation, Launching, NoOp, Steps
  <2>3. op' \in Operation
    BY <1>13, <2>1, GotoType, ReturnType DEF FlipMode, Steps, Operation
  <2>4. config.master \in Nat /\ op.key \in Nat /\ op.to \in AllModes
    BY <2>1, <2>2 DEF TypeOK, Config, Switch
  <2>5. config' \in Config /\ config' # NoConfig
    BY <1>13, <2>4 DEF FlipMode, Config, Migration, NoConfig, AllModes
  <2>6. mem' \in [mode : AllModes, appKey : Nat, masterKey : Nat]
    BY <1>13, <2>4 DEF FlipMode, TypeOK
  <2>7. QED
    BY <1>13, <2>3, <2>5, <2>6 DEF FlipMode, TypeOK
<1>14. CASE DeleteAppKey
  <2>1. op' \in Operation /\ config # NoConfig
    BY <1>14, ReturnType DEF DeleteAppKey, At, TypeOK
  <2>2. keyfile' \in Nat
    BY <1>14 DEF DeleteAppKey, TypeOK
  <2>3. QED
    BY <1>14, <2>1, <2>2 DEF DeleteAppKey, TypeOK
<1>15. CASE WriteFails
  <2>1. op' \in Operation /\ config # NoConfig
    BY <1>15, ReturnType DEF WriteFails, TypeOK
  <2>2. QED
    BY <1>15, <2>1 DEF WriteFails, TypeOK
<1>16. CASE Crash
  BY <1>16 DEF Crash, TypeOK, Operation, AllModes, NoOp
<1>17. CASE UNCHANGED vars
  BY <1>17 DEF vars, TypeOK
<1>18. QED
  BY <1>1, <1>2, <1>3, <1>4, <1>5, <1>6, <1>7, <1>8, <1>9, <1>10, <1>11,
     <1>12, <1>13, <1>14, <1>15, <1>16, <1>17 DEF Next

LEMMA TypeInit == Init => TypeOK
<1> SUFFICES ASSUME Init PROVE TypeOK
  OBVIOUS
<1>1. files \in [Files -> Sealed]
  BY DEF Init, NoSecret, Sealed, AllModes
<1>2. /\ config = NoConfig /\ ~session /\ op = NoOp /\ keystore
      /\ keyfile = 0 /\ minted = 0 /\ switches = 0
      /\ mem \in [mode : AllModes, appKey : Nat, masterKey : Nat]
  BY DEF Init, AllModes
<1>3. NoOp \in Operation /\ NoOp.pc = "none"
  BY DEF Operation, NoOp
<1>4. session \in BOOLEAN /\ keystore \in BOOLEAN
  BY DEF Init
<1>5. switches \in 0..MaxSwitches
  BY <1>2, BoundsAssumption
<1>6. QED
  BY <1>1, <1>2, <1>3, <1>4, <1>5 DEF TypeOK

THEOREM SecretTypeCorrect == Spec => []TypeOK
  BY TypeInit, TypeStep, PTL DEF Spec

-----------------------------------------------------------------------------
(* The invariant is inductive *)

\* Modes and the marker: "none" is not a backend, so a marker with a backend in
\* it is a pending migration.
LEMMA MarkerPends ==
  ASSUME TypeOK
  PROVE  /\ Pending => config.migration \in [from : AllModes, to : AllModes]
         /\ config = NoConfig => ~Pending
         /\ config # NoConfig => config \in Config
  BY DEF TypeOK, Pending, Config, Migration, NoConfig, NoMigration

\* An operation past "none", "infer" and "wake" is a switch.
LEMMA SwitchSteps ==
  ASSUME TypeOK, op.pc \in Steps PROVE op \in Switch
  BY DEF TypeOK, Operation, Launching, NoOp, Steps

\* An action that leaves the disk alone preserves what is said of the disk.
LEMMA DiskUntouched ==
  ASSUME IInv, UNCHANGED <<files, config, keyfile, keystore>>
  PROVE  keystore' /\ FilesInv' /\ ConfigInv'
  BY DEF IInv, FilesInv, ConfigInv, Backends, Pending

\* A new app key is only made when no file is sealed under the old one.
LEMMA FirstAppKey ==
  ASSUME IInv, UNCHANGED <<files, config, keystore>>, keyfile' = keyfile \/ keyfile = 0
  PROVE  keystore' /\ FilesInv' /\ ConfigInv'
  BY DEF IInv, FilesInv, ConfigInv, Backends, Pending

LEMMA BootInv ==
  ASSUME OnlyCrashes, IInv, Boot
  PROVE  keystore' /\ FilesInv' /\ ConfigInv' /\ OpInv'
<1>1. keystore' /\ UNCHANGED <<files, config, keyfile, mem>> /\ ~session'
  BY DEF Boot, OnlyCrashes, IInv
<1>2. keystore' /\ FilesInv' /\ ConfigInv'
  BY <1>1, DiskUntouched DEF IInv
<1>3. CASE op' = Launching("infer") /\ config = NoConfig
  BY <1>1, <1>2, <1>3 DEF OpInv, Launching, NoOp
<1>4. CASE op' = Launching("wake") /\ (Pending => NeedsPassword(config.migration))
  BY <1>1, <1>2, <1>4 DEF OpInv, Launching, NoOp, Pending
<1>5. CASE /\ Pending /\ ~NeedsPassword(config.migration)
           /\ op' = [pc |-> "key", origin |-> "boot", from |-> config.migration.from,
                     to |-> config.migration.to, key |-> 0]
  <2>1. config.migration \in [from : AllModes, to : AllModes]
    BY <1>5, MarkerPends DEF IInv
  <2>2. config.migration = [from |-> op'.from, to |-> op'.to]
    BY <2>1, <1>5
  <2>3. QED
    BY <1>1, <1>2, <1>5, <2>2 DEF OpInv, Pending
<1>6. QED
  BY <1>2, <1>3, <1>4, <1>5, MarkerPends DEF Boot, IInv

LEMMA InferInv ==
  ASSUME OnlyCrashes, IInv, InferAndPersist PROVE keystore' /\ FilesInv' /\ ConfigInv' /\ OpInv'
<1>1. /\ op.pc = "infer" /\ config = NoConfig /\ ~session /\ ~Pending
      /\ UNCHANGED <<files, mem, session, keystore>>
  BY MarkerPends DEF InferAndPersist, At, IInv, OpInv
<1>2. CASE InferredMode = "app-key" /\ keyfile = 0
  <2>1. UNCHANGED <<config, op>>
    BY <1>2 DEF InferAndPersist
  <2>2. QED
    BY <1>1, <1>2, <2>1, FirstAppKey DEF IInv, OpInv
<1>3. CASE ~(InferredMode = "app-key" /\ keyfile = 0)
  <2>1. /\ config' = [NoConfig EXCEPT !.mode = InferredMode]
        /\ op' = Launching("wake") /\ keyfile' = keyfile
    BY <1>3 DEF InferAndPersist
  <2>2. \A f \in Files : files[f].by \in {"none", "os-keychain"}
    BY <1>1 DEF IInv, FilesInv, Backends
  <2>3. /\ InferredMode \in {"app-key", "os-keychain"}
        /\ \A f \in Files : files[f].by \in {"none", InferredMode}
    BY <2>2, ModesAssumption DEF InferredMode, Files, OnlyCrashes
  <2>4. config'.mode = InferredMode /\ config'.migration = NoMigration
    BY <2>1 DEF NoConfig
  <2>5. ~Pending' /\ config' # NoConfig
    BY <2>3, <2>4 DEF Pending, NoConfig
  <2>6. FilesInv'
    BY <1>1, <2>1, <2>3, <2>4, <2>5 DEF IInv, FilesInv, Backends
  <2>7. ConfigInv'
    BY <2>3, <2>4, <2>5 DEF ConfigInv
  <2>8. OpInv'
    BY <1>1, <2>1, <2>5 DEF OpInv, Launching, NoOp
  <2>9. QED
    BY <1>1, <2>6, <2>7, <2>8 DEF IInv
<1>4. QED
  BY <1>2, <1>3

LEMMA WakeUpInv ==
  ASSUME OnlyCrashes, IInv, WakeUp PROVE keystore' /\ FilesInv' /\ ConfigInv' /\ OpInv'
<1> DEFINE mode == IF Pending /\ NeedsPassword(config.migration)
                   THEN "master-password" ELSE config.mode
           mint == mode = "app-key" /\ keyfile = 0
<1>1. /\ keyfile' = (IF mint THEN minted + 1 ELSE keyfile)
      /\ mem'.mode = mode /\ mem'.masterKey = 0
      /\ mode = "app-key" => mem'.appKey = keyfile'
      /\ session' = TRUE /\ op' = NoOp
      /\ UNCHANGED <<files, config, keystore>>
  BY DEF WakeUp
<1>2. minted + 1 # 0
  BY DEF IInv, TypeOK
<1>3. keystore' /\ FilesInv' /\ ConfigInv'
  BY <1>1, FirstAppKey
<1>4. config # NoConfig /\ (Pending => NeedsPassword(config.migration))
  BY DEF WakeUp, At, IInv, TypeOK, OpInv
<1>5. mode = "app-key" => keyfile' # 0
  BY <1>1, <1>2
<1>6. CASE Pending
  BY <1>1, <1>4, <1>6, <1>3 DEF OpInv, WaitingForPassword, NoOp, Pending
<1>7. CASE ~Pending
  <2>1. Settled'
    BY <1>1, <1>4, <1>5, <1>7 DEF Settled, Pending
  <2>2. QED
    BY <1>1, <1>3, <2>1 DEF OpInv, NoOp
<1>8. QED
  BY <1>6, <1>7

LEMMA SetModeInv ==
  ASSUME OnlyCrashes, IInv, NEW to \in Modes, SetMode(to)
  PROVE  keystore' /\ FilesInv' /\ ConfigInv' /\ OpInv'
<1>1. /\ session /\ op.pc = "none" /\ ~Locked /\ to # mem.mode
      /\ UNCHANGED <<files, config, keyfile, mem, session, keystore>>
      /\ op' = [pc |-> IF to = "app-key" THEN "key" ELSE "mark", origin |-> "set-mode",
                from |-> mem.mode, to |-> to,
                key |-> IF to = "master-password" THEN minted + 1 ELSE 0]
  BY DEF SetMode, Quiet, At
<1>2. Settled
  BY <1>1 DEF IInv, OpInv, WaitingForPassword, Locked
<1>3. minted + 1 # 0 /\ to \in AllModes
  BY ModesAssumption DEF IInv, TypeOK
<1>4. Settled' /\ ~Locked'
  BY <1>1, <1>2 DEF Settled, Pending, Locked
<1>5. Starting'
  BY <1>1, <1>3, <1>4 DEF Starting
<1>6. OpInv'
  BY <1>1, <1>5 DEF OpInv
<1>7. QED
  BY <1>1, <1>6, DiskUntouched

LEMMA UnlockInv ==
  ASSUME OnlyCrashes, IInv, Unlock PROVE keystore' /\ FilesInv' /\ ConfigInv' /\ OpInv'
<1>1. /\ session /\ op.pc = "none"
      /\ mem'.mode = mem.mode /\ mem'.masterKey = config.master /\ mem'.appKey = mem.appKey
      /\ UNCHANGED <<files, config, keyfile, session, keystore>>
  BY DEF Unlock, Quiet, At, IInv, TypeOK
<1>2. Settled \/ WaitingForPassword
  BY <1>1 DEF IInv, OpInv
<1>3. CASE Pending
  <2>1. op' = [pc |-> "key", origin |-> "unlock", from |-> config.migration.from,
               to |-> config.migration.to, key |-> config.master]
    BY <1>3 DEF Unlock
  <2>2. config.migration \in [from : AllModes, to : AllModes]
    BY <1>3, MarkerPends DEF IInv
  <2>3. config.migration = [from |-> op'.from, to |-> op'.to]
    BY <2>1, <2>2
  <2>4. OpInv'
    BY <1>1, <1>3, <2>1, <2>3 DEF OpInv, Pending
  <2>5. QED
    BY <1>1, <2>4, DiskUntouched
<1>4. CASE ~Pending
  <2>1. op' = NoOp
    BY <1>4 DEF Unlock
  <2>2. Settled'
    BY <1>1, <1>2, <1>4 DEF Settled, WaitingForPassword, Pending
  <2>3. OpInv'
    BY <1>1, <2>1, <2>2 DEF OpInv, NoOp
  <2>4. QED
    BY <1>1, <2>3, DiskUntouched
<1>5. QED
  BY <1>3, <1>4

LEMMA LockInv ==
  ASSUME OnlyCrashes, IInv, Lock PROVE keystore' /\ FilesInv' /\ ConfigInv' /\ OpInv'
<1>1. /\ session /\ op.pc = "none"
      /\ mem'.mode = mem.mode /\ mem'.masterKey = 0 /\ mem'.appKey = mem.appKey
      /\ UNCHANGED <<files, config, keyfile, session, keystore, op>>
  BY DEF Lock, Quiet, At, IInv, TypeOK
<1>2. Settled' \/ WaitingForPassword'
  BY <1>1 DEF IInv, OpInv, Settled, WaitingForPassword, Pending
<1>3. OpInv'
  BY <1>1, <1>2 DEF OpInv, IInv
<1>4. QED
  BY <1>1, <1>3, DiskUntouched

LEMMA SaveInv ==
  ASSUME OnlyCrashes, IInv, NEW f \in Files, SaveSecret(f)
  PROVE  keystore' /\ FilesInv' /\ ConfigInv' /\ OpInv'
<1>1. /\ session /\ op.pc = "none" /\ CanSeal(mem.mode) /\ mem.mode \in AllModes
      /\ files' = [files EXCEPT ![f] = Seal(mem.mode)]
      /\ UNCHANGED <<config, keyfile, mem, session, keystore, op>>
  BY DEF SaveSecret, Quiet, At, IInv, TypeOK
<1>2. Settled
  BY <1>1 DEF IInv, OpInv, WaitingForPassword, CanSeal
<1>3. Backends' = {mem.mode} /\ Backends = {mem.mode}
  BY <1>1, <1>2 DEF Settled, Backends, Pending
<1>4. /\ Seal(mem.mode).by = mem.mode
      /\ mem.mode = "app-key" => Seal(mem.mode).key = keyfile /\ keyfile # 0
      /\ mem.mode = "master-password" =>
           Seal(mem.mode).key = config.master /\ config.master # 0
      /\ mem.mode = "os-keychain" => Seal(mem.mode).key = 0
  BY <1>1, <1>2, SealWithKeystore DEF IInv, Settled, CanSeal
<1>5. FilesInv'
  <2> SUFFICES ASSUME NEW g \in Files
               PROVE /\ files'[g].by \in {"none"} \cup Backends'
                     /\ files'[g].by = "app-key" => files'[g].key = keyfile /\ keyfile # 0
                     /\ files'[g].by = "master-password" =>
                          files'[g].key = config.master /\ config.master # 0
                     /\ files'[g].by = "os-keychain" => files'[g].key = 0
                     /\ files'[g].by # "plain"
    BY <1>1 DEF FilesInv
  <2>1. CASE g = f
    <3>1. files'[g] = Seal(mem.mode)
      BY <1>1, <2>1 DEF IInv, TypeOK
    <3>2. QED
      BY <1>1, <1>3, <1>4, <3>1 DEF AllModes
  <2>2. CASE g # f
    <3>1. files'[g] = files[g]
      BY <1>1, <2>2 DEF IInv, TypeOK
    <3>2. QED
      BY <1>3, <3>1 DEF IInv, FilesInv
  <2>3. QED
    BY <2>1, <2>2
<1>6. ConfigInv' /\ OpInv'
  BY <1>1, <1>2 DEF IInv, ConfigInv, OpInv, Settled, Pending
<1>7. QED
  BY <1>1, <1>5, <1>6 DEF IInv

LEMMA LoadKeysInv ==
  ASSUME OnlyCrashes, IInv, LoadKeys PROVE keystore' /\ FilesInv' /\ ConfigInv' /\ OpInv'
<1>1. /\ op.pc = "key" /\ op \in Switch
      /\ UNCHANGED <<files, config, session, keystore>>
  BY SwitchSteps DEF LoadKeys, At, IInv, Steps
<1>2. /\ keyfile' = keyfile \/ keyfile = 0
      /\ "app-key" \in {op.from, op.to} => keyfile' # 0
  BY DEF LoadKeys, IInv, TypeOK
<1>3. keystore' /\ FilesInv' /\ ConfigInv'
  BY <1>1, <1>2, FirstAppKey
<1>4. CASE op.origin = "set-mode"
  <2>1. /\ mem'.mode = mem.mode /\ mem'.appKey = keyfile' /\ mem'.masterKey = mem.masterKey
        /\ Goto("mark")
    BY <1>4 DEF LoadKeys, IInv, TypeOK
  <2>2. /\ op'.pc = "mark" /\ op'.origin = op.origin /\ op'.from = op.from
        /\ op'.to = op.to /\ op'.key = op.key
    BY <1>1, <2>1, GotoType DEF IInv, Steps
  <2>3. Starting /\ op.to = "app-key"
    BY <1>1, <1>4 DEF IInv, OpInv
  <2>4. mem.mode # "app-key"
    BY <2>3 DEF Starting
  <2>5. Settled' /\ ~Locked' /\ session'
    BY <1>1, <2>1, <2>3, <2>4 DEF Starting, Settled, Pending, Locked
  <2>6. Starting'
    BY <2>1, <2>2, <2>3, <2>5 DEF Starting
  <2>7. OpInv'
    BY <1>2, <1>4, <2>1, <2>2, <2>3, <2>5, <2>6 DEF OpInv
  <2>8. QED
    BY <1>3, <2>7
<1>5. CASE op.origin # "set-mode"
  <2>1. /\ mem'.mode = op.from /\ mem'.appKey = keyfile'
        /\ mem'.masterKey = (IF op.origin = "boot" THEN 0 ELSE op.key)
        /\ Goto("validate")
    BY <1>5 DEF LoadKeys
  <2>2. /\ op'.pc = "validate" /\ op'.origin = op.origin /\ op'.from = op.from
        /\ op'.to = op.to /\ op'.key = op.key
    BY <1>1, <2>1, GotoType DEF IInv, Steps
  <2>3. /\ Pending /\ config.migration = [from |-> op.from, to |-> op.to]
        /\ op.origin = "boot" => ~NeedsPassword(config.migration)
        /\ op.origin = "unlock" => op.key = config.master
    BY <1>1, <1>5 DEF IInv, OpInv
  <2>4. op.from \in AllModes /\ op.to \in AllModes /\ op.from # op.to
    BY <2>3 DEF IInv, ConfigInv
  <2>5. "master-password" \in {op.from, op.to} => mem'.masterKey = config.master
    BY <1>1, <1>5, <2>1, <2>3 DEF NeedsPassword, Switch
  <2>6. Switching'
    BY <1>1, <1>2, <1>5, <2>1, <2>2, <2>3, <2>4, <2>5 DEF Switching, Pending
  <2>7. /\ op'.origin \in {"set-mode", "unlock"} => session'
        /\ op'.origin = "boot" => ~session'
    BY <1>1, <2>2 DEF IInv, OpInv
  <2>8. OpInv'
    BY <1>1, <2>2, <2>6, <2>7 DEF OpInv, Switch
  <2>9. QED
    BY <1>3, <2>8
<1>6. QED
  BY <1>4, <1>5

LEMMA MarkInv ==
  ASSUME OnlyCrashes, IInv, MarkMigration PROVE keystore' /\ FilesInv' /\ ConfigInv' /\ OpInv'
<1>1. /\ op.pc = "mark" /\ op \in Switch
      /\ Starting /\ (op.to = "app-key" => mem.appKey = keyfile /\ keyfile # 0)
      /\ UNCHANGED <<files, keyfile, session, keystore>>
  BY SwitchSteps DEF MarkMigration, At, IInv, OpInv, Steps
<1>2. /\ config'.mode = op.from /\ config'.migration = [from |-> op.from, to |-> op.to]
      /\ config'.master = (IF op.key # 0 THEN op.key ELSE config.master)
      /\ mem'.mode = mem.mode /\ mem'.appKey = mem.appKey
      /\ mem'.masterKey = (IF op.key # 0 THEN op.key ELSE mem.masterKey)
      /\ Goto("validate")
  BY DEF MarkMigration, IInv, TypeOK
<1>3. /\ op'.pc = "validate" /\ op'.origin = op.origin /\ op'.from = op.from
      /\ op'.to = op.to /\ op'.key = op.key
  BY <1>1, <1>2, GotoType DEF IInv, Steps
<1>4. /\ op.from = config.mode /\ op.from = mem.mode /\ op.to \in AllModes
      /\ op.from # op.to /\ op.origin = "set-mode" /\ session
      /\ op.to = "master-password" <=> op.key # 0
      /\ config # NoConfig /\ ~Pending
  BY <1>1 DEF Starting, Settled
<1>5. op.from \in AllModes
  BY <1>1 DEF Switch
<1>6. Pending' /\ config'.migration.from = op.from /\ config'.migration.to = op.to
  BY <1>2, <1>5 DEF Pending, NoMigration, AllModes
<1>7. Backends = {op.from} /\ Backends' = {op.from, op.to}
  BY <1>4, <1>6 DEF Backends
<1>8. /\ op.from = "master-password" =>
           /\ config.master # 0 /\ op.key = 0 /\ mem.masterKey = config.master
           /\ config'.master = config.master
      /\ op.to = "master-password" => op.key # 0 /\ config'.master = op.key
  BY <1>1, <1>2, <1>4 DEF IInv, ConfigInv, Starting, Settled, Locked
<1>9. FilesInv'
  <2> SUFFICES ASSUME NEW g \in Files
               PROVE /\ files[g].by \in {"none"} \cup Backends'
                     /\ files[g].by = "app-key" => files[g].key = keyfile /\ keyfile # 0
                     /\ files[g].by = "master-password" =>
                          files[g].key = config'.master /\ config'.master # 0
                     /\ files[g].by = "os-keychain" => files[g].key = 0
                     /\ files[g].by # "plain"
    BY <1>1 DEF FilesInv
  <2>1. files[g].by = "master-password" => op.from = "master-password"
    BY <1>7 DEF IInv, FilesInv
  <2>2. QED
    BY <1>7, <1>8, <2>1 DEF IInv, FilesInv
<1>10. ConfigInv'
  BY <1>2, <1>4, <1>5, <1>6, <1>8 DEF ConfigInv, NeedsPassword
<1>11. "app-key" \in {op.from, op.to} => mem.appKey = keyfile /\ keyfile # 0
  BY <1>1, <1>4 DEF Starting, Settled
<1>12. "master-password" \in {op.from, op.to} => mem'.masterKey = config'.master
  BY <1>2, <1>8
<1>13. Switching'
  BY <1>1, <1>2, <1>3, <1>4, <1>5, <1>6, <1>8, <1>11, <1>12 DEF Switching
<1>14. OpInv'
  BY <1>1, <1>3, <1>4, <1>13 DEF OpInv
<1>15. QED
  BY <1>1, <1>9, <1>10, <1>14 DEF IInv

\* With the keys of both backends in memory validation succeeds.
LEMMA ValidateInv ==
  ASSUME OnlyCrashes, IInv, Validate PROVE keystore' /\ FilesInv' /\ ConfigInv' /\ OpInv'
<1>1. /\ op.pc = "validate" /\ op \in Switch /\ Switching
      /\ UNCHANGED <<files, config, keyfile, mem, session, keystore>>
  BY SwitchSteps DEF Validate, At, IInv, OpInv, Steps
<1>2. Backends = {op.from, op.to}
  BY <1>1 DEF Switching, Backends
<1>3. "master-password" \in {op.from, op.to} => config.master # 0
  BY <1>1 DEF Switching, IInv, ConfigInv, NeedsPassword
<1>4. CanSeal(op.to)
  BY <1>1, <1>3 DEF Switching, CanSeal
<1>5. ASSUME NEW f \in Swept, files[f].by \in AllModes \ {op.to} PROVE Decrypts(files[f])
  <2>1. files[f].by = op.from
    BY <1>2, <1>5 DEF IInv, FilesInv, Files, AllModes
  <2>2. /\ files[f].by = "app-key" => files[f].key = keyfile /\ keyfile # 0
        /\ files[f].by = "master-password" => files[f].key = config.master
    BY DEF IInv, FilesInv, Files
  <2>3. keystore
    BY DEF IInv
  <2>4. QED
    BY <1>1, <1>3, <2>1, <2>2, <2>3 DEF Switching, Decrypts
<1>6. Validates(op.to)
  BY <1>4, <1>5 DEF Validates
<1>7. Goto("convert")
  BY <1>6 DEF Validate
<1>8. /\ op'.pc = "convert" /\ op'.origin = op.origin /\ op'.from = op.from
      /\ op'.to = op.to /\ op'.key = op.key
  BY <1>1, <1>7, GotoType DEF IInv, Steps
<1>9. Switching'
  BY <1>1, <1>8 DEF Switching, Pending
<1>10. /\ op'.origin \in {"set-mode", "unlock"} => session'
       /\ op'.origin = "boot" => ~session'
  BY <1>1, <1>8 DEF IInv, OpInv
<1>11. OpInv'
  BY <1>1, <1>8, <1>9, <1>10 DEF OpInv, Switch
<1>12. QED
  BY <1>1, <1>11, DiskUntouched

LEMMA ConvertInv ==
  ASSUME OnlyCrashes, IInv, ConvertFile PROVE keystore' /\ FilesInv' /\ ConfigInv' /\ OpInv'
<1>1. /\ op.pc = "convert" /\ Switching
      /\ UNCHANGED <<config, keyfile, mem, session, keystore, op>>
  BY DEF ConvertFile, At, IInv, OpInv
<1>2. PICK f \in ToConvert(op.to) : files' = [files EXCEPT ![f] = Reencrypted(@, op.to)]
  BY DEF ConvertFile
<1>3. f \in Files /\ files \in [Files -> Sealed]
  BY DEF ToConvert, Files, IInv, TypeOK
<1>4. Backends = {op.from, op.to} /\ Backends' = {op.from, op.to}
  BY <1>1 DEF Switching, Backends, Pending
<1>5. "master-password" \in {op.from, op.to} => config.master # 0
  BY <1>1 DEF Switching, IInv, ConfigInv, NeedsPassword
<1>6. /\ Seal(op.to).by = op.to
      /\ op.to = "app-key" => Seal(op.to).key = keyfile /\ keyfile # 0
      /\ op.to = "master-password" => Seal(op.to).key = config.master /\ config.master # 0
      /\ op.to = "os-keychain" => Seal(op.to).key = 0
  BY <1>1, <1>5, SealWithKeystore DEF Switching, IInv
<1>7. FilesInv'
  <2> SUFFICES ASSUME NEW g \in Files
               PROVE /\ files'[g].by \in {"none"} \cup Backends'
                     /\ files'[g].by = "app-key" => files'[g].key = keyfile /\ keyfile # 0
                     /\ files'[g].by = "master-password" =>
                          files'[g].key = config.master /\ config.master # 0
                     /\ files'[g].by = "os-keychain" => files'[g].key = 0
                     /\ files'[g].by # "plain"
    BY <1>1 DEF FilesInv
  <2>1. files'[g] = files[g] \/ files'[g] = Seal(op.to)
    BY <1>2, <1>3 DEF Reencrypted
  <2>2. CASE files'[g] = files[g]
    BY <1>4, <2>2 DEF IInv, FilesInv
  <2>3. CASE files'[g] = Seal(op.to)
    BY <1>1, <1>4, <1>6, <2>3 DEF Switching, AllModes
  <2>4. QED
    BY <2>1, <2>2, <2>3
<1>8. ConfigInv' /\ OpInv'
  BY <1>1 DEF IInv, ConfigInv, OpInv, Switching, Pending
<1>9. QED
  BY <1>1, <1>7, <1>8 DEF IInv

\* When the mode flips every file carries the target's prefix.
LEMMA FlipInv ==
  ASSUME OnlyCrashes, IInv, FlipMode PROVE keystore' /\ FilesInv' /\ ConfigInv' /\ OpInv'
<1>1. /\ op.pc = "convert" /\ op \in Switch /\ Switching /\ ToConvert(op.to) = {}
      /\ UNCHANGED <<files, keyfile, session, keystore>>
  BY SwitchSteps DEF FlipMode, At, IInv, OpInv, Steps
<1>2. /\ config'.mode = op.to /\ config'.migration = NoMigration
      /\ config'.master = (CASE op.to # "master-password" -> 0
                             [] op.origin = "set-mode"    -> op.key
                             [] OTHER                     -> config.master)
      /\ mem'.mode = op.to
      /\ mem'.appKey = (IF op.to = "app-key" THEN keyfile ELSE 0)
      /\ mem'.masterKey = (IF op.to = "master-password" THEN mem.masterKey ELSE 0)
  BY DEF FlipMode
<1>3. op.from \in AllModes /\ op.to \in AllModes /\ op.from # op.to
  BY <1>1 DEF Switching
<1>4. ~Pending' /\ config' # NoConfig
  BY <1>2, <1>3 DEF Pending, NoConfig, AllModes
<1>5. Backends = {op.from, op.to} /\ Backends' = {op.to}
  BY <1>1, <1>2, <1>4 DEF Switching, Backends
<1>6. op.to = "master-password" =>
        /\ config'.master = config.master /\ config.master # 0
        /\ mem'.masterKey = config'.master
  BY <1>1, <1>2 DEF Switching, IInv, ConfigInv, NeedsPassword
<1>7. \A f \in Files : files[f].by \in {"none", op.to}
  <2> SUFFICES ASSUME NEW f \in Files PROVE files[f].by \in {"none", op.to}
    OBVIOUS
  <2>1. files[f].by \in {"none", op.from, op.to}
    BY <1>5 DEF IInv, FilesInv
  <2>2. Reencrypted(files[f], op.to) = files[f]
    BY <1>1 DEF ToConvert, Files, OnlyCrashes
  <2>3. Seal(op.to).by = op.to
    BY <1>3, SealWithKeystore DEF IInv
  <2>4. QED
    BY <2>1, <2>2, <2>3 DEF Reencrypted
<1>8. FilesInv'
  <2> SUFFICES ASSUME NEW g \in Files
               PROVE /\ files[g].by \in {"none"} \cup Backends'
                     /\ files[g].by = "app-key" => files[g].key = keyfile /\ keyfile # 0
                     /\ files[g].by = "master-password" =>
                          files[g].key = config'.master /\ config'.master # 0
                     /\ files[g].by = "os-keychain" => files[g].key = 0
                     /\ files[g].by # "plain"
    BY <1>1 DEF FilesInv
  <2>1. QED
    BY <1>5, <1>6, <1>7 DEF IInv, FilesInv
<1>9. ConfigInv'
  BY <1>2, <1>4, <1>6 DEF ConfigInv
<1>10. Settled'
  BY <1>1, <1>2, <1>4, <1>6 DEF Settled, Switching
<1>11. /\ op.origin \in {"set-mode", "unlock"} => session'
       /\ op.origin = "boot" => ~session'
  BY <1>1 DEF IInv, OpInv
<1>12. OpInv'
  <2>1. CASE op.to = "app-key"
    <3>1. /\ op.origin = "boot" => op' = Launching("wake")
          /\ op.origin # "boot" => op' = NoOp
      BY <2>1, ReturnType DEF FlipMode, IInv
    <3>2. QED
      BY <1>1, <1>4, <1>10, <1>11, <3>1 DEF OpInv, Launching, NoOp, Switch
  <2>2. CASE op.to # "app-key"
    <3>1. op'.pc = "drop" /\ op'.origin = op.origin
      BY <1>1, <2>2, GotoType DEF FlipMode, IInv, Steps
    <3>2. QED
      BY <1>1, <1>2, <1>10, <1>11, <2>2, <3>1 DEF OpInv, Switch
  <2>3. QED
    BY <2>1, <2>2
<1>13. QED
  BY <1>1, <1>8, <1>9, <1>12 DEF IInv

\* The app key goes when no file is sealed under it.
LEMMA DropInv ==
  ASSUME OnlyCrashes, IInv, DeleteAppKey PROVE keystore' /\ FilesInv' /\ ConfigInv' /\ OpInv'
<1>1. /\ op.pc = "drop" /\ op \in Switch /\ Settled /\ config.mode # "app-key"
      /\ UNCHANGED <<files, config, mem, session, keystore>>
  BY SwitchSteps DEF DeleteAppKey, At, IInv, OpInv, Steps
<1>2. \A f \in Files : files[f].by # "app-key"
  BY <1>1 DEF Settled, IInv, FilesInv, Backends
<1>3. FilesInv' /\ ConfigInv'
  BY <1>1, <1>2 DEF IInv, FilesInv, ConfigInv, Backends, Pending
<1>4. Settled' /\ ~Pending'
  BY <1>1 DEF Settled, Pending
<1>5. /\ op.origin = "boot" => op' = Launching("wake") /\ ~session'
      /\ op.origin # "boot" => op' = NoOp /\ session'
  BY <1>1, ReturnType DEF DeleteAppKey, IInv, OpInv, Switch
<1>6. OpInv'
  BY <1>4, <1>5 DEF OpInv, Launching, NoOp
<1>7. QED
  BY <1>1, <1>3, <1>6 DEF IInv

LEMMA CrashInv ==
  ASSUME OnlyCrashes, IInv, Crash PROVE keystore' /\ FilesInv' /\ ConfigInv' /\ OpInv'
<1>1. op' = NoOp /\ session' = FALSE /\ UNCHANGED <<files, config, keyfile, keystore>>
  BY DEF Crash
<1>2. OpInv'
  BY <1>1 DEF OpInv, NoOp
<1>3. QED
  BY <1>1, <1>2, DiskUntouched

\* The invariant is inductive when only crashes happen.
LEMMA IInvStep == OnlyCrashes /\ IInv /\ [Next]_vars => IInv'
<1> SUFFICES ASSUME OnlyCrashes, IInv, [Next]_vars PROVE IInv'
  OBVIOUS
<1>1. TypeOK'
  BY TypeStep DEF IInv
<1>2. ~ClearMigration /\ ~WriteFails
  BY DEF ClearMigration, At, WriteFails, IInv, OpInv, OnlyCrashes
<1>3. ASSUME UNCHANGED vars PROVE keystore' /\ FilesInv' /\ ConfigInv' /\ OpInv'
  <2>1. OpInv'
    BY <1>3 DEF vars, IInv, OpInv, Settled, Switching, Starting,
                WaitingForPassword, Locked, Pending
  <2>2. QED
    BY <1>3, <2>1, DiskUntouched DEF vars
<1>4. keystore' /\ FilesInv' /\ ConfigInv' /\ OpInv'
  BY <1>2, <1>3, BootInv, InferInv, WakeUpInv, SetModeInv, UnlockInv, LockInv, SaveInv,
     LoadKeysInv, MarkInv, ValidateInv, ConvertInv, FlipInv, DropInv, CrashInv DEF Next
<1>5. QED
  BY <1>1, <1>4 DEF IInv

LEMMA IInvInit == Init => IInv
<1> SUFFICES ASSUME Init PROVE IInv
  OBVIOUS
<1>1. TypeOK
  BY TypeInit
<1>2. /\ config = NoConfig /\ op = NoOp /\ session = FALSE /\ keystore
      /\ files \in [Files -> {NoSecret, [by |-> "os-keychain", key |-> 0]}]
  BY DEF Init
<1>3. ~Pending /\ config.mode = "unset"
  BY <1>2 DEF Pending, NoConfig
<1>4. FilesInv
  BY <1>2, <1>3 DEF FilesInv, Backends, NoSecret
<1>5. ConfigInv /\ OpInv
  BY <1>2, <1>3 DEF ConfigInv, OpInv, NoOp
<1>6. QED
  BY <1>1, <1>2, <1>4, <1>5 DEF IInv

LEMMA Inductive == OnlyCrashes => (Spec => []IInv)
<1>1. OnlyCrashes /\ [Next]_vars /\ IInv => IInv'
  BY IInvStep
<1>2. OnlyCrashes' <=> OnlyCrashes
  BY DEF OnlyCrashes
<1>3. OnlyCrashes /\ Spec => []OnlyCrashes
  <2>1. OnlyCrashes /\ [Next]_vars => OnlyCrashes'
    BY <1>2
  <2>2. QED
    BY <2>1, PTL DEF Spec
<1>4. QED
  BY <1>1, <1>3, IInvInit, PTL DEF Spec

-----------------------------------------------------------------------------
(* The theorems *)

\* However often the app crashes during however many switches, no secret of a
\* file the switch covers ends up sealed under a key that is gone.
THEOREM NoCrashLosesASecret == OnlyCrashes => (Spec => []NoSecretLost)
<1>1. IInv => NoSecretLost
  BY DEF IInv, FilesInv, NoSecretLost, KeyExists
<1>2. QED
  BY <1>1, Inductive, PTL

\* The next launch, or the unlock the marker asks for, loads every key a file
\* on disk needs: a store in two backends always carries its marker.
THEOREM CrashesLeaveSecretsReadable == OnlyCrashes => (Spec => []SecretsStayReadable)
<1>1. IInv => SecretsStayReadable
  <2> SUFFICES ASSUME IInv, NEW f \in Files PROVE LoadedNextLaunch(files[f])
    BY DEF SecretsStayReadable
  <2>1. files[f].by \in {"none"} \cup Backends
    BY DEF IInv, FilesInv
  <2>2. QED
    BY <2>1 DEF Backends, LoadedNextLaunch, NeedsPassword
<1>2. QED
  BY <1>1, Inductive, PTL

\* Between switches every secret is under the configured backend: a flipped
\* mode never leaves a file behind.
THEOREM SwitchesConvertEverything == OnlyCrashes => (Spec => []SealedUnderTheMode)
<1>1. IInv => SealedUnderTheMode
  BY DEF IInv, TypeOK, FilesInv, Backends, SealedUnderTheMode, Quiet, Files
<1>2. QED
  BY <1>1, Inductive, PTL

-----------------------------------------------------------------------------
(* Failing writes and keystore outages *)

\* The circumstances: the user switches between the backends without a password,
\* and every file with a secret is one the switch covers.
NoPasswords == Modes \subseteq {"app-key", "os-keychain"} /\ Unswept = {}

\* No part of the state speaks of a master password.
NeverMaster ==
  /\ \A f \in Files : files[f].by # "master-password"
  /\ "master-password" \notin
       {config.mode, config.migration.from, config.migration.to, mem.mode, op.from, op.to}

\* The app key in memory, and the one a value is sealed under, is the one on disk.
AppKeyOnDisk ==
  /\ mem.appKey \in {0, keyfile}
  /\ \A f \in Files : files[f].by = "app-key" => files[f].key = keyfile /\ keyfile # 0

\* A switch to the app key has it in memory from its marker on; when the app key
\* is dropped no value is sealed under it.
AppKeyInTime ==
  /\ op.pc \in {"mark", "validate", "convert"} /\ op.to = "app-key" =>
       mem.appKey = keyfile /\ keyfile # 0
  /\ op.pc = "drop" => mem.appKey = 0 /\ \A f \in Files : files[f].by # "app-key"

FaultInv == TypeOK /\ NeverMaster /\ AppKeyOnDisk /\ AppKeyInTime

LEMMA FaultInvInit == Init => FaultInv
<1> SUFFICES ASSUME Init PROVE FaultInv
  OBVIOUS
<1>1. TypeOK
  BY TypeInit
<1>2. /\ config = NoConfig /\ op = NoOp /\ keyfile = 0
      /\ mem = [mode |-> "os-keychain", appKey |-> 0, masterKey |-> 0]
      /\ files \in [Files -> {NoSecret, [by |-> "os-keychain", key |-> 0]}]
  BY DEF Init
<1>3. \A f \in Files : files[f].by \in {"none", "os-keychain"}
  BY <1>2 DEF NoSecret
<1>4. NeverMaster
  BY <1>2, <1>3 DEF NeverMaster, NoConfig, NoMigration, NoOp
<1>5. AppKeyOnDisk /\ AppKeyInTime
  BY <1>2, <1>3 DEF AppKeyOnDisk, AppKeyInTime, NoOp
<1>6. QED
  BY <1>1, <1>4, <1>5 DEF FaultInv

\* Whatever fails, a step keeps the invariant.
LEMMA FaultStep == NoPasswords /\ FaultInv /\ [Next]_vars => FaultInv'
<1> SUFFICES ASSUME NoPasswords, FaultInv, [Next]_vars PROVE FaultInv'
  OBVIOUS
<1>t. TypeOK /\ TypeOK'
  BY TypeStep DEF FaultInv
<1>n. /\ \A f \in Files : files[f].by # "master-password"
      /\ config.mode # "master-password" /\ config.migration.from # "master-password"
      /\ config.migration.to # "master-password" /\ mem.mode # "master-password"
      /\ op.from # "master-password" /\ op.to # "master-password"
  BY DEF FaultInv, NeverMaster
<1>k. /\ mem.appKey \in {0, keyfile}
      /\ \A f \in Files : files[f].by = "app-key" => files[f].key = keyfile /\ keyfile # 0
  BY DEF FaultInv, AppKeyOnDisk
<1>o. /\ op.pc \in {"mark", "validate", "convert"} /\ op.to = "app-key" =>
           mem.appKey = keyfile /\ keyfile # 0
      /\ op.pc = "drop" => mem.appKey = 0 /\ \A f \in Files : files[f].by # "app-key"
  BY DEF FaultInv, AppKeyInTime
<1>s. ASSUME op.pc \in Steps PROVE op \in Switch
  BY <1>s, <1>t, SwitchSteps
<1>w. /\ Launching("wake").pc = "wake" /\ Launching("infer").pc = "infer" /\ NoOp.pc = "none"
      /\ Launching("wake").from = "none" /\ Launching("wake").to = "none"
      /\ Launching("infer").from = "none" /\ Launching("infer").to = "none"
      /\ NoOp.from = "none" /\ NoOp.to = "none"
  BY DEF Launching, NoOp
<1>r. ASSUME Return
      PROVE  /\ op'.pc \in {"none", "wake"}
             /\ op'.from # "master-password" /\ op'.to # "master-password"
  BY <1>r, <1>t, <1>w, ReturnType
<1>g. ASSUME op.pc \in Steps, NEW pc \in Steps, Goto(pc)
      PROVE  op'.pc = pc /\ op'.from = op.from /\ op'.to = op.to
  BY <1>g, <1>t, GotoType
<1>1. CASE Boot
  <2>1. UNCHANGED <<files, config, keyfile, mem>>
    BY <1>1 DEF Boot
  <2>2. /\ op'.pc \in {"infer", "key", "wake"}
        /\ op'.from # "master-password" /\ op'.to # "master-password"
    BY <1>1, <1>n, <1>w DEF Boot
  <2>3. QED
    BY <2>1, <2>2, <1>n, <1>k, <1>t DEF FaultInv, NeverMaster, AppKeyOnDisk, AppKeyInTime
<1>2. CASE InferAndPersist
  <2>1. mem' = mem /\ files' = files
    BY <1>2 DEF InferAndPersist
  <2>2. /\ op'.pc \in {"infer", "wake"}
        /\ op'.from # "master-password" /\ op'.to # "master-password"
    BY <1>2, <1>n, <1>w DEF InferAndPersist, At
  <2>3. keyfile' = keyfile \/ keyfile = 0
    BY <1>2 DEF InferAndPersist
  <2>4. InferredMode \in {"app-key", "os-keychain"}
    BY <1>n, ModesAssumption DEF InferredMode, Files
  <2>5. /\ config'.mode # "master-password" /\ config'.migration.from # "master-password"
        /\ config'.migration.to # "master-password"
    BY <1>2, <1>n, <2>4 DEF InferAndPersist, NoConfig, NoMigration
  <2>6. QED
    BY <2>1, <2>2, <2>3, <2>5, <1>n, <1>k, <1>t
       DEF FaultInv, NeverMaster, AppKeyOnDisk, AppKeyInTime
<1>3. CASE WakeUp
  <2>1. config' = config /\ files' = files /\ op' = NoOp
    BY <1>3 DEF WakeUp
  <2>2. keyfile' = keyfile \/ keyfile = 0
    BY <1>3 DEF WakeUp
  <2>3. mem'.appKey \in {0, keyfile'} /\ mem'.mode \in {"master-password", config.mode}
    BY <1>3 DEF WakeUp
  <2>4. mem'.mode # "master-password"
    BY <1>3, <1>n DEF WakeUp, NeedsPassword
  <2>5. QED
    BY <2>1, <2>2, <2>3, <2>4, <1>n, <1>k, <1>w, <1>t
       DEF FaultInv, NeverMaster, AppKeyOnDisk, AppKeyInTime
<1>4. ASSUME NEW to \in Modes, SetMode(to) PROVE FaultInv'
  <2>1. UNCHANGED <<files, config, keyfile, mem>> /\ to # "master-password"
    BY <1>4 DEF SetMode, NoPasswords
  <2>2. /\ op'.from = mem.mode /\ op'.to = to
        /\ op'.pc = IF to = "app-key" THEN "key" ELSE "mark"
    BY <1>4 DEF SetMode
  <2>3. QED
    BY <2>1, <2>2, <1>n, <1>k, <1>t DEF FaultInv, NeverMaster, AppKeyOnDisk, AppKeyInTime
<1>5. CASE Unlock
  BY <1>5, <1>n DEF Unlock, NeedsPassword
<1>6. CASE Lock
  <2>1. UNCHANGED <<files, config, keyfile, op>> /\ op.pc = "none"
    BY <1>6 DEF Lock, Quiet, At
  <2>2. mem'.mode = mem.mode /\ mem'.appKey = mem.appKey
    BY <1>6, <1>t DEF Lock, TypeOK
  <2>3. QED
    BY <2>1, <2>2, <1>n, <1>k, <1>t DEF FaultInv, NeverMaster, AppKeyOnDisk, AppKeyInTime
<1>7. ASSUME NEW f \in Files, SaveSecret(f) PROVE FaultInv'
  <2>1. UNCHANGED <<config, keyfile, mem, op>> /\ op.pc = "none"
    BY <1>7 DEF SaveSecret, Quiet, At
  <2>2. files' = [files EXCEPT ![f] = Seal(mem.mode)]
    BY <1>7 DEF SaveSecret
  <2>3. /\ Seal(mem.mode).by # "master-password"
        /\ Seal(mem.mode).by = "app-key" => Seal(mem.mode).key = keyfile /\ keyfile # 0
    BY <1>7, <1>n, <1>k, <1>t DEF SaveSecret, CanSeal, Seal, TypeOK, AllModes
  <2>4. \A g \in Files : files'[g] = IF g = f THEN Seal(mem.mode) ELSE files[g]
    BY <2>2, <1>t DEF TypeOK
  <2>5. QED
    BY <2>1, <2>3, <2>4, <1>n, <1>k, <1>t DEF FaultInv, NeverMaster, AppKeyOnDisk, AppKeyInTime
<1>8. CASE LoadKeys
  <2>1. /\ UNCHANGED <<files, config>> /\ op.pc = "key"
        /\ keyfile' = keyfile \/ keyfile = 0
        /\ mem'.appKey = keyfile' /\ mem'.mode \in {mem.mode, op.from}
    BY <1>8, <1>t DEF LoadKeys, At, TypeOK
  <2>2. \E pc \in {"mark", "validate"} : Goto(pc)
    BY <1>8 DEF LoadKeys
  <2>3. /\ op'.pc \in {"mark", "validate"}
        /\ op'.from = op.from /\ op'.to = op.to
    BY <2>1, <2>2, <1>g DEF Steps
  <2>4. op.to = "app-key" => keyfile' # 0
    BY <1>8, <1>t DEF LoadKeys, TypeOK
  <2>5. QED
    BY <2>1, <2>3, <2>4, <1>n, <1>k, <1>t DEF FaultInv, NeverMaster, AppKeyOnDisk, AppKeyInTime
<1>9. CASE MarkMigration
  <2>1. UNCHANGED <<files, keyfile>> /\ op.pc = "mark" /\ Goto("validate")
    BY <1>9 DEF MarkMigration, At
  <2>2. op'.pc = "validate" /\ op'.from = op.from /\ op'.to = op.to
    BY <2>1, <1>g DEF Steps
  <2>3. mem'.mode = mem.mode /\ mem'.appKey = mem.appKey
    BY <1>9, <1>t DEF MarkMigration, TypeOK
  <2>4. /\ config'.mode = op.from /\ config'.migration.from = op.from
        /\ config'.migration.to = op.to
    BY <1>9 DEF MarkMigration
  <2>5. QED
    BY <2>1, <2>2, <2>3, <2>4, <1>n, <1>k, <1>o, <1>t
       DEF FaultInv, NeverMaster, AppKeyOnDisk, AppKeyInTime
<1>10. CASE Validate
  <2>1. UNCHANGED <<files, config, keyfile, mem>> /\ op.pc = "validate"
    BY <1>10 DEF Validate, At
  <2>2. \/ op'.pc \in {"convert", "clear"} /\ op'.from = op.from /\ op'.to = op.to
        \/ /\ op'.pc \in {"none", "wake"}
           /\ op'.from # "master-password" /\ op'.to # "master-password"
    BY <1>10, <2>1, <1>g, <1>r DEF Validate, Steps
  <2>3. QED
    BY <2>1, <2>2, <1>n, <1>k, <1>o, <1>t DEF FaultInv, NeverMaster, AppKeyOnDisk, AppKeyInTime
<1>11. CASE ClearMigration
  <2>1. UNCHANGED <<files, keyfile, mem>> /\ Return
    BY <1>11 DEF ClearMigration
  <2>2. /\ config'.mode # "master-password" /\ config'.migration.from # "master-password"
        /\ config'.migration.to # "master-password"
    BY <1>11, <1>n, <1>t DEF ClearMigration, NoMigration, TypeOK, Config, NoConfig
  <2>3. QED
    BY <2>1, <2>2, <1>r, <1>n, <1>k, <1>t DEF FaultInv, NeverMaster, AppKeyOnDisk, AppKeyInTime
<1>12. CASE ConvertFile
  <2>1. UNCHANGED <<config, keyfile, mem, op>> /\ op.pc = "convert"
    BY <1>12 DEF ConvertFile, At
  <2>2. PICK f \in ToConvert(op.to) : files' = [files EXCEPT ![f] = Reencrypted(@, op.to)]
    BY <1>12 DEF ConvertFile
  <2>3. f \in Files /\ op.to \in {"app-key", "os-keychain"}
    BY <2>1, <1>s, <1>n DEF ToConvert, Files, Steps, Switch, AllModes
  <2>4. \A g \in Files : files'[g] = IF g = f THEN Reencrypted(files[f], op.to) ELSE files[g]
    BY <2>2, <2>3, <1>t DEF TypeOK
  <2>5. LET v == Reencrypted(files[f], op.to)
        IN v.by # "master-password" /\ (v.by = "app-key" => v.key = keyfile /\ keyfile # 0)
    BY <2>1, <2>3, <1>n, <1>k, <1>o DEF Reencrypted, Seal
  <2>6. QED
    BY <2>1, <2>4, <2>5, <1>n, <1>k, <1>o, <1>t
       DEF FaultInv, NeverMaster, AppKeyOnDisk, AppKeyInTime
<1>13. CASE FlipMode
  <2>1. UNCHANGED <<files, keyfile>> /\ op.pc = "convert" /\ ToConvert(op.to) = {}
    BY <1>13 DEF FlipMode, At
  <2>2. op.to \in {"app-key", "os-keychain"}
    BY <2>1, <1>s, <1>n DEF Steps, Switch, AllModes
  <2>3. /\ config'.mode = op.to /\ config'.migration = NoMigration
        /\ mem'.mode = op.to
        /\ mem'.appKey = IF op.to = "app-key" THEN keyfile ELSE 0
    BY <1>13 DEF FlipMode
  <2>4. op.to = "os-keychain" => \A f \in Files : files[f].by # "app-key"
    <3> SUFFICES ASSUME op.to = "os-keychain", NEW f \in Files, files[f].by = "app-key"
                 PROVE  FALSE
      OBVIOUS
    <3>1. Reencrypted(files[f], op.to) = Seal("os-keychain")
      BY DEF Reencrypted
    <3>2. Seal("os-keychain").by # "app-key"
      BY DEF Seal
    <3>3. f \in Swept
      BY DEF NoPasswords, Files
    <3>4. QED
      BY <2>1, <3>1, <3>2, <3>3 DEF ToConvert
  <2>5. \/ op.to = "app-key" /\ Return
        \/ op.to # "app-key" /\ Goto("drop")
    BY <1>13 DEF FlipMode
  <2>6. /\ op'.from # "master-password" /\ op'.to # "master-password"
        /\ \/ op'.pc \in {"none", "wake"}
           \/ op'.pc = "drop" /\ op.to = "os-keychain"
    BY <2>1, <2>2, <2>5, <1>r, <1>g, <1>n DEF Steps
  <2>7. QED
    BY <2>1, <2>2, <2>3, <2>4, <2>6, <1>n, <1>k, <1>t
       DEF FaultInv, NeverMaster, AppKeyOnDisk, AppKeyInTime, NoMigration
<1>14. CASE DeleteAppKey
  <2>1. UNCHANGED <<files, config, mem>> /\ op.pc = "drop" /\ Return
    BY <1>14 DEF DeleteAppKey, At
  <2>2. QED
    BY <2>1, <1>r, <1>n, <1>o, <1>t DEF FaultInv, NeverMaster, AppKeyOnDisk, AppKeyInTime
<1>15. CASE WriteFails
  <2>1. UNCHANGED <<files, config, keyfile, mem>> /\ Return
    BY <1>15 DEF WriteFails
  <2>2. QED
    BY <2>1, <1>r, <1>n, <1>k, <1>t DEF FaultInv, NeverMaster, AppKeyOnDisk, AppKeyInTime
<1>16. CASE Crash
  <2>1. /\ UNCHANGED <<files, config, keyfile>> /\ op' = NoOp
        /\ mem'.mode = "os-keychain" /\ mem'.appKey = 0
    BY <1>16 DEF Crash
  <2>2. QED
    BY <2>1, <1>w, <1>n, <1>k, <1>t DEF FaultInv, NeverMaster, AppKeyOnDisk, AppKeyInTime
<1>17. CASE UNCHANGED vars
  BY <1>17, <1>n, <1>k, <1>o, <1>t DEF vars, FaultInv, NeverMaster, AppKeyOnDisk, AppKeyInTime
<1>18. QED
  BY <1>1, <1>2, <1>3, <1>4, <1>5, <1>6, <1>7, <1>8, <1>9, <1>10, <1>11, <1>12, <1>13,
     <1>14, <1>15, <1>16, <1>17, <1>t DEF Next, FaultInv

LEMMA FaultInductive == NoPasswords => (Spec => []FaultInv)
<1>1. NoPasswords /\ FaultInv /\ [Next]_vars => FaultInv'
  BY FaultStep
<1>2. NoPasswords /\ [Next]_vars => NoPasswords'
  BY DEF NoPasswords
<1>3. NoPasswords /\ Spec => []NoPasswords
  BY <1>2, PTL DEF Spec
<1>4. QED
  BY <1>1, <1>3, FaultInvInit, PTL DEF Spec

\* Between the backends without a password no secret loses its key either when
\* writes fail, removals are swallowed and the keystore is missing in some
\* sessions.
THEOREM FaultsAloneLoseNoSecret == NoPasswords => (Spec => []NoSecretLost)
<1>1. FaultInv => NoSecretLost
  BY DEF FaultInv, NeverMaster, AppKeyOnDisk, NoSecretLost, KeyExists
<1>2. QED
  BY <1>1, FaultInductive, PTL

-----------------------------------------------------------------------------
(* BackupRestore *)


Writing == {"write", "requests", "environments"}
Staging == {"clear", "stage", "commit", "undo", "putback"}
OpFields == {"job", "step", "left", "moved", "manifest", "pending", "at", "reqs"}

\* The shape of the variables, as far as the arguments below need it.
Shape ==
  /\ live = [a \in Areas |-> live[a]] /\ aside = [a \in Areas |-> aside[a]]
  /\ before = [a \in Areas |-> before[a]]
  /\ DOMAIN restore = OpFields /\ DOMAIN last = {"job", "result", "backup"}
  /\ restore.left \subseteq Areas
  /\ restore.job \in {"none", "merge", "replace"}
  /\ restore.job = "none" => restore.step = "none"
  /\ restore.job = "merge" => restore.step \in Writing
  /\ restore.job = "replace" => restore.step \in Writing \cup Staging
  /\ restore.job # "none" => /\ restore.left # {}
                             /\ last.job = restore.job /\ last.result = "running"

\* Where the originals are, step by step.
Kept(a) == before[a] # Nothing => aside[a] = before[a]
Somewhere(a) == before[a] # Nothing => before[a] \in {live[a], aside[a]}

Surviving ==
  restore.job = "replace" =>
    \A a \in Areas :
      /\ restore.step = "clear" => live[a] = before[a]
      /\ restore.step = "stage" => IF a \in restore.left THEN live[a] = before[a] ELSE Kept(a)
      /\ restore.step \in Writing \cup {"undo"} => Kept(a)
      /\ restore.step = "putback" => IF a \in restore.left THEN Kept(a) ELSE Somewhere(a)

Inv == Shape /\ Surviving /\ OriginalsSurvive

-----------------------------------------------------------------------------
(* Taking the directories in turn *)

\* Turn is one of the directories left.
LEMMA TurnIsLeft ==
  ASSUME restore.left \subseteq Areas, restore.left # {}
  PROVE  Turn \in restore.left /\ Turn \in Areas
  BY DEF Turn, Areas

\* NextArea changes the step and the directories left, and nothing else.
LEMMA ProceedMoves ==
  ASSUME NEW o, NEW next, DOMAIN o = OpFields, o.left = restore.left,
         restore.left \subseteq Areas, restore.left # {}
  PROVE  /\ DOMAIN NextArea(o, next) = OpFields
         /\ NextArea(o, next).job = o.job /\ NextArea(o, next).moved = o.moved
         /\ NextArea(o, next).left # {} /\ NextArea(o, next).left \subseteq Areas
         /\ \/ /\ o.left = {Turn}
               /\ NextArea(o, next).left = Areas /\ NextArea(o, next).step = next
            \/ /\ o.left # {Turn}
               /\ NextArea(o, next).left = o.left \ {Turn}
               /\ NextArea(o, next).step = o.step
  <1>1. Turn \in restore.left
    BY TurnIsLeft
  <1>2. CASE o.left = {Turn}
    BY <1>1, <1>2 DEF NextArea, OpFields, Areas
  <1>3. CASE o.left # {Turn}
    BY <1>1, <1>3 DEF NextArea, OpFields
  <1> QED BY <1>2, <1>3

-----------------------------------------------------------------------------
(* Every step keeps the shape and the whereabouts of the originals *)

LEMMA InitInv == RestoreInit => Inv
  <1> SUFFICES ASSUME RestoreInit PROVE Inv
    OBVIOUS
  <1>1. PICK w \in Workspaces : live = w
    BY DEF RestoreInit
  <1>2. DOMAIN live = Areas /\ live = [a \in Areas |-> live[a]]
    BY <1>1, WorkspaceAssumption
  <1> QED BY <1>2 DEF RestoreInit, Inv, Shape, Surviving, OriginalsSurvive, NoRestore, OpFields

\* The last copy is dropped, or not: the restore succeeded.
LEMMA CommitEndInv ==
  ASSUME Inv, restore.job # "none", Finish("ok"), UNCHANGED <<live, before>>,
         aside' = [a \in Areas |-> aside'[a]]
  PROVE  Inv'
  BY DEF Finish, Inv, Shape, Surviving, OriginalsSurvive, NoRestore, OpFields

\* The end of a restore, however it ends, while the originals are somewhere.
LEMMA FinishInv ==
  ASSUME Inv, NEW r \in {"ok", "failed", "crashed"}, Finish(r), restore.job # "none",
         UNCHANGED <<live, aside, before>>,
         restore.step = "commit" => r = "ok"
  PROVE  Inv'
  <1>1. restore' = NoRestore /\ last' = [last EXCEPT !.result = r] /\ last'.job = last.job
        /\ last'.result = r /\ DOMAIN last' = DOMAIN last
    BY DEF Finish, Inv, Shape
  <1>2. Shape'
    BY <1>1 DEF Inv, Shape, NoRestore, OpFields
  <1>3. Surviving'
    BY <1>1 DEF Surviving, NoRestore
  <1>4. OriginalsSurvive'
    <2> SUFFICES ASSUME last.job = "replace", r # "ok", NEW a \in Areas, before[a] # Nothing
                 PROVE  before[a] \in {live[a], aside[a]}
      BY <1>1 DEF OriginalsSurvive
    <2> QED BY DEF Inv, Shape, Surviving, Kept, Somewhere, Writing, Staging
  <1> QED BY <1>2, <1>3, <1>4 DEF Inv

\* The writes change neither the copies nor the program's position by more than
\* the step inside the writing.
LEMMA WritingInv ==
  ASSUME Inv, restore.job # "none", restore.step \in Writing, restore'.step \in Writing,
         DOMAIN restore' = OpFields, restore'.job = restore.job, restore'.left = restore.left,
         live' = [a \in Areas |-> live'[a]],
         UNCHANGED <<aside, before, last>>
  PROVE  Inv'
  <1>1. Shape'
    BY DEF Inv, Shape
  <1>2. Surviving'
    BY DEF Inv, Shape, Surviving, Kept, Writing, Staging
  <1>3. OriginalsSurvive'
    BY DEF Inv, Shape, Surviving, Kept, OriginalsSurvive, Writing
  <1> QED BY <1>1, <1>2, <1>3 DEF Inv

\* A step of a replace that goes on: what is left to show is where the originals are.
LEMMA ReplaceInv ==
  ASSUME Inv, restore.job = "replace", restore'.job = "replace",
         DOMAIN restore' = OpFields, restore'.left # {}, restore'.left \subseteq Areas,
         restore'.step \in Writing \cup Staging,
         live' = [a \in Areas |-> live'[a]], aside' = [a \in Areas |-> aside'[a]],
         UNCHANGED <<before, last>>, Surviving'
  PROVE  Inv'
  <1>1. Shape'
    BY DEF Inv, Shape
  <1>2. OriginalsSurvive'
    <2> SUFFICES ASSUME NEW a \in Areas, before[a] # Nothing, restore'.step # "commit"
                 PROVE  before[a] \in {live'[a], aside'[a]}
      BY DEF OriginalsSurvive, Inv, Shape
    <2> QED BY DEF Inv, Shape, Surviving, Kept, Somewhere, Writing, Staging
  <1> QED BY <1>1, <1>2 DEF Inv

LEMMA BeginInv ==
  ASSUME Inv, NEW job, NEW step, NEW b, NEW man, NEW pending,
         BeginRestore(job, step, b, man, pending),
         (job = "replace" /\ step = "clear") \/ (job = "merge" /\ step = "write")
  PROVE  Inv'
  <1>1. /\ DOMAIN restore' = OpFields /\ restore'.job = job /\ restore'.step = step
        /\ restore'.left = Areas /\ restore'.pending = pending
    BY DEF BeginRestore, NoRestore, OpFields
  <1>2. Shape'
    BY <1>1 DEF Inv, Shape, BeginRestore, Writing, Staging, Areas
  <1>3. Surviving'
    BY <1>1 DEF Surviving, BeginRestore, Writing
  <1>4. OriginalsSurvive'
    BY <1>1 DEF OriginalsSurvive, BeginRestore
  <1> QED BY <1>2, <1>3, <1>4 DEF Inv

\* One directory is put back, or its move back is swallowed.
LEMMA PutBackInv ==
  ASSUME Inv, restore.step = "putback", EndPutBack, UNCHANGED before,
         \/ UNCHANGED <<live, aside>>
         \/ /\ live[Turn] = Nothing
            /\ live' = [live EXCEPT ![Turn] = aside[Turn]]
            /\ aside' = [aside EXCEPT ![Turn] = Nothing]
  PROVE  Inv'
  <1> USE DEF Inv
  <1>1. restore.job = "replace" /\ restore.left # {} /\ restore.left \subseteq Areas
    BY DEF Shape, Writing
  <1>2. DOMAIN restore = OpFields /\ Turn \in restore.left /\ Turn \in Areas
    BY <1>1, TurnIsLeft DEF Shape
  <1>3. live' = [a \in Areas |-> live'[a]] /\ aside' = [a \in Areas |-> aside'[a]]
    BY DEF Shape
  <1>4. \A a \in Areas :
          /\ a \in restore.left \ {Turn} => Kept(a)'
          /\ a \notin restore.left \ {Turn} => Somewhere(a)'
    <2>1. \A a \in Areas : IF a \in restore.left THEN Kept(a) ELSE Somewhere(a)
      BY <1>1 DEF Surviving
    <2>2. CASE UNCHANGED <<live, aside>>
      BY <1>1, <1>2, <2>1, <2>2 DEF Kept, Somewhere
    <2>3. CASE /\ live[Turn] = Nothing
               /\ live' = [live EXCEPT ![Turn] = aside[Turn]]
               /\ aside' = [aside EXCEPT ![Turn] = Nothing]
      <3>1. \A a \in Areas :
              /\ live'[a] = IF a = Turn THEN aside[Turn] ELSE live[a]
              /\ aside'[a] = IF a = Turn THEN Nothing ELSE aside[a]
        BY <2>3 DEF Shape
      <3> QED BY <1>1, <1>2, <2>1, <3>1 DEF Kept, Somewhere
    <2> QED BY <2>2, <2>3
  <1>5. CASE restore.left = {Turn}
    <2>1. Finish("failed")
      BY <1>5 DEF EndPutBack
    <2>2. /\ restore' = NoRestore /\ DOMAIN last' = {"job", "result", "backup"}
          /\ last'.job = "replace" /\ last'.result = "failed"
      BY <1>1, <2>1 DEF Finish, Shape
    <2>3. Shape'
      BY <1>3, <2>2 DEF Shape, NoRestore, OpFields
    <2>4. Surviving'
      BY <2>2 DEF Surviving, NoRestore
    <2>5. OriginalsSurvive'
      BY <1>4, <1>5 DEF OriginalsSurvive, Somewhere
    <2> QED BY <2>3, <2>4, <2>5
  <1>6. CASE restore.left # {Turn}
    <2>1. /\ DOMAIN restore' = OpFields /\ restore'.job = "replace" /\ restore'.step = "putback"
          /\ restore'.left = restore.left \ {Turn} /\ restore'.left # {} /\ restore'.left \subseteq Areas
          /\ UNCHANGED last
      BY <1>1, <1>2, <1>6, ProceedMoves DEF EndPutBack
    <2>2. Surviving'
      BY <1>4, <2>1 DEF Surviving, Writing
    <2> QED BY <1>1, <1>3, <2>1, <2>2, ReplaceInv DEF Staging
  <1> QED BY <1>5, <1>6

\* A removal is swallowed: copies matter only before the move and after the
\* commit, and what is live in an undo is not the original.
LEMMA RemovalInv == Inv /\ LeavesFiles => Inv'
  <1> SUFFICES ASSUME Inv, LeavesFiles PROVE Inv'
    OBVIOUS
  <1> USE DEF Inv
  <1>1. /\ restore.job = "replace" /\ restore.left # {} /\ restore.left \subseteq Areas
        /\ UNCHANGED before
    BY DEF LeavesFiles, Shape, Writing
  <1>2. DOMAIN restore = OpFields /\ Turn \in restore.left /\ Turn \in Areas
    BY <1>1, TurnIsLeft DEF Shape
  <1>3. live' = [a \in Areas |-> live'[a]] /\ aside' = [a \in Areas |-> aside'[a]]
    BY DEF LeavesFiles, Shape
  <1>4. CASE restore.step = "commit" /\ restore.left = {Turn}
    <2>1. Finish("ok") /\ UNCHANGED live
      BY <1>4 DEF LeavesFiles
    <2> QED BY <1>1, <1>3, <2>1, CommitEndInv
  <1>5. CASE restore.step = "commit" /\ restore.left # {Turn}
    <2>1. /\ DOMAIN restore' = OpFields /\ restore'.job = "replace" /\ restore'.step = "commit"
          /\ restore'.left # {} /\ restore'.left \subseteq Areas /\ UNCHANGED last
      BY <1>1, <1>2, <1>5, ProceedMoves DEF LeavesFiles
    <2>2. Surviving'
      BY <2>1 DEF Surviving, Writing
    <2> QED BY <1>1, <1>3, <2>1, <2>2, ReplaceInv DEF Staging
  <1>6. CASE restore.step = "clear"
    <2>1. /\ DOMAIN restore' = OpFields /\ restore'.job = "replace"
          /\ \/ restore'.step = "clear"
             \/ restore'.step = "stage" /\ restore'.left = Areas
          /\ restore'.left # {} /\ restore'.left \subseteq Areas /\ UNCHANGED <<last, live>>
      BY <1>1, <1>2, <1>6, ProceedMoves DEF LeavesFiles
    <2>2. Surviving'
      BY <1>1, <1>6, <2>1 DEF Surviving, Writing
    <2> QED BY <1>1, <1>3, <2>1, <2>2, ReplaceInv DEF Staging
  <1>7. CASE restore.step = "undo"
    <2>1. /\ DOMAIN restore' = OpFields /\ restore'.job = "replace"
          /\ \/ restore'.step = "undo"
             \/ restore'.step = "putback" /\ restore'.left = Areas
          /\ restore'.left # {} /\ restore'.left \subseteq Areas /\ UNCHANGED <<last, aside>>
      BY <1>1, <1>2, <1>7, ProceedMoves DEF LeavesFiles
    <2>2. Surviving'
      BY <1>1, <1>7, <2>1 DEF Surviving, Kept, Writing
    <2> QED BY <1>1, <1>3, <2>1, <2>2, ReplaceInv DEF Staging
  <1> QED BY <1>4, <1>5, <1>6, <1>7 DEF LeavesFiles

LEMMA NextInv == Inv /\ [RestoreNext]_restoreVars => Inv'
  <1> SUFFICES ASSUME Inv, [RestoreNext]_restoreVars PROVE Inv'
    OBVIOUS
  <1> USE DEF Inv
  <1>1. CASE \E b \in Backups : BeginReplace(b)
    BY <1>1, BeginInv DEF BeginReplace
  <1>2. CASE \E b \in Backups : \E slot \in Slots(b) : BeginMerge(b, slot)
    BY <1>2, BeginInv DEF BeginMerge
  <1>3. CASE ClearAside
    <2>1. restore.job = "replace" /\ restore.left # {} /\ restore.left \subseteq Areas
      BY <1>3 DEF ClearAside, Shape, Writing
    <2>2. DOMAIN restore = OpFields
      BY DEF Shape
    <2>3. Surviving'
      BY <1>3, <2>1, <2>2, ProceedMoves DEF ClearAside, Surviving, Writing, Shape
    <2> QED BY <1>3, <2>1, <2>2, <2>3, ProceedMoves, ReplaceInv
            DEF ClearAside, Shape, Staging
  <1>4. CASE Stage
    <2>1. restore.job = "replace" /\ restore.left # {} /\ restore.left \subseteq Areas
      BY <1>4 DEF Stage, Shape, Writing
    <2>2. DOMAIN restore = OpFields /\ Turn \in restore.left /\ Turn \in Areas
      BY <2>1, TurnIsLeft DEF Shape
    <2>3. CASE live[Turn] = Nothing
      <3>1. Surviving'
        BY <1>4, <2>1, <2>2, <2>3, ProceedMoves
           DEF Stage, Surviving, Kept, Writing, Shape
      <3> QED BY <1>4, <2>1, <2>2, <2>3, <3>1, ProceedMoves, ReplaceInv
              DEF Stage, Shape, Staging, Writing
    <2>4. CASE live[Turn] # Nothing
      <3> DEFINE o == [restore EXCEPT !.moved = @ \cup {Turn}]
      <3>1. DOMAIN o = OpFields /\ o.left = restore.left /\ o.job = restore.job /\ o.step = restore.step
        BY <2>2 DEF OpFields
      <3>2. /\ aside' = [aside EXCEPT ![Turn] = live[Turn]]
            /\ live' = [live EXCEPT ![Turn] = Nothing]
            /\ restore' = NextArea(o, "write")
            /\ UNCHANGED <<before, last>>
        BY <1>4, <2>4 DEF Stage
      <3> HIDE DEF o
      <3>3. /\ DOMAIN restore' = OpFields /\ restore'.job = "replace" /\ restore'.left # {}
            /\ restore'.left \subseteq Areas
            /\ \/ restore.left = {Turn} /\ restore'.left = Areas /\ restore'.step = "write"
               \/ restore.left # {Turn} /\ restore'.left = restore.left \ {Turn} /\ restore'.step = "stage"
        BY <1>4, <2>1, <3>1, <3>2, ProceedMoves DEF Stage
      <3>4. \A a \in Areas : /\ aside'[a] = IF a = Turn THEN live[a] ELSE aside[a]
                             /\ live'[a] = IF a = Turn THEN Nothing ELSE live[a]
        BY <3>2 DEF Shape
      <3>5. Surviving'
        BY <1>4, <2>1, <2>2, <3>2, <3>3, <3>4 DEF Stage, Surviving, Kept, Writing
      <3>6. live' = [a \in Areas |-> live'[a]] /\ aside' = [a \in Areas |-> aside'[a]]
        BY <3>2 DEF Shape
      <3> QED BY <2>1, <3>2, <3>3, <3>5, <3>6, ReplaceInv DEF Staging, Writing
    <2> QED BY <2>3, <2>4
  <1>5. CASE WriteManifest
    BY <1>5, WritingInv DEF WriteManifest, Put, Shape, Writing, OpFields
  <1>6. CASE WriteMetadata
    BY <1>6, WritingInv DEF WriteMetadata, Put, Shape, Writing, OpFields
  <1>7. CASE WriteRequest
    BY <1>7, WritingInv DEF WriteRequest, Put, Shape, Writing, OpFields
  <1>8. CASE WriteTree
    BY <1>8, WritingInv DEF WriteTree, Put, Shape, Writing, OpFields
  <1>9. CASE WriteEnvironments
    BY <1>9, WritingInv DEF WriteEnvironments, Put, Shape, Writing, OpFields
  <1>10. CASE AllWritten
    <2>1. CASE restore.job = "merge"
      BY <1>10, <2>1, FinishInv DEF AllWritten
    <2>2. CASE restore.job # "merge"
      <3>1. restore.job = "replace"
        BY <1>10, <2>2 DEF AllWritten, Shape
      <3>2. /\ DOMAIN restore' = OpFields /\ restore'.job = "replace" /\ restore'.step = "commit"
            /\ restore'.left = Areas
        BY <1>10, <2>2, <3>1 DEF AllWritten, Shape, OpFields
      <3>3. Surviving'
        BY <3>2 DEF Surviving, Writing
      <3> QED BY <1>10, <2>2, <3>1, <3>2, <3>3, ReplaceInv
              DEF AllWritten, Shape, Staging, Areas
    <2> QED BY <2>1, <2>2
  <1>11. CASE Commit
    <2>1. restore.job = "replace" /\ restore.left # {} /\ restore.left \subseteq Areas
      BY <1>11 DEF Commit, Shape, Writing
    <2>2. CASE restore.left = {Turn}
      <3>1. aside' = [a \in Areas |-> aside'[a]]
        BY <1>11 DEF Commit, Shape
      <3> QED BY <1>11, <2>1, <2>2, <3>1, CommitEndInv DEF Commit
    <2>3. CASE restore.left # {Turn}
      <3>1. DOMAIN restore = OpFields
        BY DEF Shape
      <3>2. /\ DOMAIN restore' = OpFields /\ restore'.job = "replace" /\ restore'.step = "commit"
            /\ restore'.left # {} /\ restore'.left \subseteq Areas
        BY <1>11, <2>1, <2>3, <3>1, ProceedMoves DEF Commit
      <3>3. Surviving'
        BY <3>2 DEF Surviving, Writing
      <3>4. live' = [a \in Areas |-> live'[a]] /\ aside' = [a \in Areas |-> aside'[a]]
        BY <1>11 DEF Commit, Shape
      <3> QED BY <1>11, <2>1, <2>3, <3>2, <3>3, <3>4, ReplaceInv DEF Commit, Staging
    <2> QED BY <2>2, <2>3
  <1>12. CASE DropPartial
    <2>1. restore.job = "replace" /\ restore.left # {} /\ restore.left \subseteq Areas
      BY <1>12 DEF DropPartial, Shape, Writing
    <2>2. DOMAIN restore = OpFields /\ Turn \in Areas
      BY <2>1, TurnIsLeft DEF Shape
    <2>3. /\ DOMAIN restore' = OpFields /\ restore'.job = "replace" /\ restore'.step \in {"undo", "putback"}
          /\ restore'.left # {} /\ restore'.left \subseteq Areas
          /\ restore'.step = "putback" => restore'.left = Areas
      BY <1>12, <2>1, <2>2, ProceedMoves DEF DropPartial
    <2>4. Surviving'
      BY <1>12, <2>1, <2>3 DEF DropPartial, Surviving, Kept, Writing
    <2>5. live' = [a \in Areas |-> live'[a]] /\ aside' = [a \in Areas |-> aside'[a]]
      BY <1>12 DEF DropPartial, Shape
    <2> QED BY <1>12, <2>1, <2>3, <2>4, <2>5, ReplaceInv DEF DropPartial, Staging
  <1>13. CASE PutBack
    BY <1>13, PutBackInv DEF PutBack
  <1>14. CASE PutBackFails
    BY <1>14, PutBackInv DEF PutBackFails
  <1>15. CASE RestoreWriteFails
    <2>1. CASE restore.job = "merge"
      BY <1>15, <2>1, FinishInv DEF RestoreWriteFails
    <2>2. CASE restore.job # "merge"
      <3>1. restore.job = "replace" /\ restore.step \in Writing
        BY <1>15, <2>2 DEF RestoreWriteFails, Shape, Writing
      <3>2. /\ DOMAIN restore' = OpFields /\ restore'.job = "replace" /\ restore'.step = "undo"
            /\ restore'.left = Areas
        BY <1>15, <2>2, <3>1 DEF RestoreWriteFails, Shape, OpFields
      <3>3. Surviving'
        BY <1>15, <3>1, <3>2 DEF RestoreWriteFails, Surviving, Kept, Writing
      <3> QED BY <1>15, <2>2, <3>1, <3>2, <3>3, ReplaceInv
              DEF RestoreWriteFails, Shape, Staging, Areas
    <2> QED BY <2>1, <2>2
  <1>16. CASE StageFails
    <2>1. restore.job # "none"
      BY <1>16 DEF StageFails, Shape
    <2> QED BY <1>16, <2>1, FinishInv DEF StageFails
  <1>17. CASE LeavesFiles
    BY <1>17, RemovalInv
  <1>18. CASE RestoreDies
    BY <1>18, FinishInv DEF RestoreDies
  <1>19. CASE UNCHANGED restoreVars
    BY <1>19 DEF restoreVars, Shape, Surviving, Kept, Somewhere, OriginalsSurvive
  <1> QED BY <1>1, <1>2, <1>3, <1>4, <1>5, <1>6, <1>7, <1>8, <1>9, <1>10, <1>11,
             <1>12, <1>13, <1>14, <1>15, <1>16, <1>17, <1>18, <1>19 DEF RestoreNext

\* Whatever fails, is swallowed or dies, the workspace a replace found is live or
\* in the copy until the backup is written (OriginalsSurvive), for any workspaces,
\* backups and numbers of mishaps.
THEOREM OriginalsAreNeverLost == RestoreSpec => []OriginalsSurvive
  <1>1. Inv => OriginalsSurvive
    BY DEF Inv
  <1> QED BY InitInv, NextInv, <1>1, PTL DEF RestoreSpec

-----------------------------------------------------------------------------
(* The rollback *)

\* A directory that was there is in its copy and noted as moved.
Staged(a) == /\ a \in restore.moved <=> before[a] # Nothing
             /\ before[a] # Nothing => aside[a] = before[a]

Untouched(a) == live[a] = before[a] /\ aside[a] = Nothing /\ a \notin restore.moved

Rolling ==
  restore.job = "replace" =>
    \A a \in Areas :
      /\ restore.step = "clear" => /\ live[a] = before[a] /\ a \notin restore.moved
                                   /\ a \notin restore.left => aside[a] = Nothing
      /\ restore.step = "stage" => IF a \in restore.left THEN Untouched(a) ELSE Staged(a)
      /\ restore.step \in Writing \cup {"undo"} => Staged(a)
      /\ restore.step = "undo" => (a \notin restore.left => live[a] = Nothing)
      /\ restore.step = "putback" => IF a \in restore.left THEN live[a] = Nothing /\ Staged(a)
                                ELSE live[a] = before[a]

RInv == Inv /\ (mishaps.moves \/ (Rolling /\ FailureRollsBack))

\* A failed move or removal is noted, and what is noted is remembered.
LEMMA MovesAreNoted ==
  ASSUME NEW kind \in {"move", "removal"}, RestoreFault(kind)
  PROVE  mishaps'.moves
  <1>1. mishaps'.moves = (mishaps.moves \/ kind \in {"move", "removal"})
    BY Zenon DEF RestoreFault
  <1> QED BY <1>1

LEMMA MovesAreRemembered ==
  ASSUME [RestoreNext]_restoreVars, ~mishaps'.moves
  PROVE  ~mishaps.moves
  <1>1. ASSUME NEW kind, RestoreFault(kind) PROVE ~mishaps.moves
    BY <1>1 DEF RestoreFault
  <1>2. CASE UNCHANGED mishaps
    BY <1>2
  <1>3. RestoreWriteFails \/ StageFails \/ PutBackFails \/ LeavesFiles \/ RestoreDies
          => (\E kind : RestoreFault(kind)) \/ UNCHANGED mishaps
    BY DEF RestoreWriteFails, StageFails, PutBackFails, LeavesFiles, RestoreDies
  <1>4. QED
    BY <1>1, <1>2, <1>3
    DEF RestoreNext, restoreVars, BeginReplace, BeginMerge, BeginRestore, ClearAside, Stage,
        WriteManifest, WriteMetadata, WriteRequest, WriteTree, WriteEnvironments,
        AllWritten, Commit, DropPartial, PutBack

LEMMA InitRInv == RestoreInit => RInv
  BY InitInv DEF RestoreInit, RInv, Rolling, FailureRollsBack, NoRestore

\* A write leaves the copies and what is noted of them alone.
LEMMA WritingRolls ==
  ASSUME Rolling, restore.step \in Writing, restore'.step \in Writing,
         restore'.job = restore.job, restore'.moved = restore.moved, UNCHANGED <<aside, before>>
  PROVE  Rolling'
  BY DEF Rolling, Staged, Writing

\* A restore that is still running has not failed.
LEMMA RunningHasNotFailed ==
  ASSUME Inv, restore.job # "none"
  PROVE  FailureRollsBack
  BY DEF Inv, Shape, FailureRollsBack

\* A restore that ends other than by a failed replace leaves nothing to show.
LEMMA EndRolls ==
  ASSUME Inv, Inv', NEW r, Finish(r), restore.job # "none",
         (r = "failed" /\ restore.job = "replace") => live' = before'
  PROVE  Rolling' /\ FailureRollsBack'
  BY DEF Inv, Shape, Finish, Rolling, NoRestore, FailureRollsBack

LEMMA NextRInv ==
  ASSUME RInv, [RestoreNext]_restoreVars
  PROVE  RInv'
  <1>0. SUFFICES ASSUME ~mishaps'.moves PROVE RInv'
    BY NextInv DEF RInv
  <1>1. Inv /\ Inv' /\ Rolling /\ FailureRollsBack
    BY <1>0, NextInv, MovesAreRemembered DEF RInv
  <1>2. Shape /\ DOMAIN restore = OpFields
    BY <1>1 DEF Inv, Shape
  <1> SUFFICES Rolling' /\ FailureRollsBack'
    BY <1>1 DEF RInv
  <1>3. ASSUME restore'.job # "none", Rolling' PROVE Rolling' /\ FailureRollsBack'
    BY <1>1, <1>3, RunningHasNotFailed DEF Inv, Shape, FailureRollsBack
  <1>4. CASE \E b \in Backups : BeginReplace(b)
    <2>1. /\ restore'.job = "replace" /\ restore'.step = "clear" /\ restore'.moved = {}
          /\ restore'.left = Areas /\ live' = live /\ before' = live
      BY <1>4 DEF BeginReplace, BeginRestore, NoRestore
    <2>2. Rolling'
      BY <2>1 DEF Rolling, Writing
    <2> QED BY <1>3, <2>1, <2>2
  <1>5. CASE \E b \in Backups : \E slot \in Slots(b) : BeginMerge(b, slot)
    <2>1. restore'.job = "merge"
      BY <1>5 DEF BeginMerge, BeginRestore, NoRestore
    <2> QED BY <1>3, <2>1 DEF Rolling
  <1>6. CASE ClearAside
    <2>1. restore.job = "replace" /\ restore.left # {} /\ restore.left \subseteq Areas
      BY <1>2, <1>6 DEF ClearAside, Shape, Writing
    <2>2. /\ restore'.job = "replace" /\ restore'.moved = restore.moved
          /\ \/ restore.left = {Turn} /\ restore'.left = Areas /\ restore'.step = "stage"
             \/ restore.left # {Turn} /\ restore'.left = restore.left \ {Turn} /\ restore'.step = "clear"
      BY <1>2, <1>6, <2>1, ProceedMoves DEF ClearAside
    <2>3. \A a \in Areas : aside'[a] = IF a = Turn THEN Nothing ELSE aside[a]
      BY <1>2, <1>6 DEF ClearAside, Shape
    <2>4. Rolling'
      BY <1>1, <1>6, <2>1, <2>2, <2>3 DEF ClearAside, Rolling, Untouched, Writing
    <2> QED BY <1>3, <2>2, <2>4
  <1>7. CASE Stage
    <2>1. restore.job = "replace" /\ restore.left # {} /\ restore.left \subseteq Areas /\ Turn \in restore.left
      BY <1>2, <1>7, TurnIsLeft DEF Stage, Shape, Writing
    <2>2. CASE live[Turn] = Nothing
      <3>1. /\ restore'.job = "replace" /\ restore'.moved = restore.moved
            /\ \/ restore.left = {Turn} /\ restore'.left = Areas /\ restore'.step = "write"
               \/ restore.left # {Turn} /\ restore'.left = restore.left \ {Turn} /\ restore'.step = "stage"
        BY <1>2, <1>7, <2>1, <2>2, ProceedMoves DEF Stage
      <3>2. Rolling'
        BY <1>1, <1>7, <2>1, <2>2, <3>1 DEF Stage, Rolling, Staged, Untouched, Writing
      <3> QED BY <1>3, <3>1, <3>2
    <2>3. CASE live[Turn] # Nothing
      <3> DEFINE o == [restore EXCEPT !.moved = @ \cup {Turn}]
      <3>1. /\ DOMAIN o = OpFields /\ o.left = restore.left /\ o.job = restore.job
            /\ o.step = restore.step /\ o.moved = restore.moved \cup {Turn}
        BY <1>2 DEF OpFields
      <3>2. /\ aside' = [aside EXCEPT ![Turn] = live[Turn]]
            /\ live' = [live EXCEPT ![Turn] = Nothing]
            /\ restore' = NextArea(o, "write") /\ before' = before
        BY <1>7, <2>3 DEF Stage
      <3> HIDE DEF o
      <3>3. /\ restore'.job = "replace" /\ restore'.moved = restore.moved \cup {Turn}
            /\ \/ restore.left = {Turn} /\ restore'.left = Areas /\ restore'.step = "write"
               \/ restore.left # {Turn} /\ restore'.left = restore.left \ {Turn} /\ restore'.step = "stage"
        BY <1>7, <2>1, <3>1, <3>2, ProceedMoves DEF Stage
      <3>4. \A a \in Areas : /\ aside'[a] = IF a = Turn THEN live[a] ELSE aside[a]
                             /\ live'[a] = IF a = Turn THEN Nothing ELSE live[a]
        BY <1>2, <3>2 DEF Shape
      <3>5. Rolling'
        BY <1>1, <1>7, <2>1, <2>3, <3>2, <3>3, <3>4
           DEF Stage, Rolling, Staged, Untouched, Writing
      <3> QED BY <1>3, <3>3, <3>5
    <2> QED BY <2>2, <2>3
  <1>8. CASE WriteManifest \/ WriteMetadata \/ WriteRequest \/ WriteTree \/ WriteEnvironments
    <2>1. /\ restore.step \in Writing /\ restore'.step \in Writing /\ restore'.job = restore.job
          /\ restore'.moved = restore.moved /\ UNCHANGED <<aside, before>>
      BY <1>2, <1>8 DEF WriteManifest, WriteMetadata, WriteRequest, WriteTree,
                        WriteEnvironments, Writing, OpFields
    <2>2. restore.job # "none"
      BY <1>2, <2>1 DEF Shape, Writing
    <2> QED BY <1>1, <1>3, <2>1, <2>2, WritingRolls
  <1>9. CASE AllWritten
    <2>1. CASE restore.job = "merge"
      BY <1>1, <1>9, <2>1, EndRolls DEF AllWritten
    <2>2. CASE restore.job # "merge"
      <3>1. restore'.step = "commit" /\ restore'.job = restore.job /\ restore.job # "none"
        BY <1>2, <1>9, <2>2 DEF AllWritten, Shape, OpFields
      <3> QED BY <1>3, <3>1 DEF Rolling, Writing
    <2> QED BY <2>1, <2>2
  <1>10. CASE Commit
    <2>1. restore.job = "replace" /\ restore.left # {} /\ restore.left \subseteq Areas
      BY <1>2, <1>10 DEF Commit, Shape, Writing
    <2>2. CASE restore.left = {Turn}
      BY <1>1, <1>10, <2>1, <2>2, EndRolls DEF Commit
    <2>3. CASE restore.left # {Turn}
      <3>1. restore'.step = "commit" /\ restore'.job = "replace"
        BY <1>2, <1>10, <2>1, <2>3, ProceedMoves DEF Commit
      <3> QED BY <1>3, <3>1 DEF Rolling, Writing
    <2> QED BY <2>2, <2>3
  <1>11. CASE DropPartial
    <2>1. restore.job = "replace" /\ restore.left # {} /\ restore.left \subseteq Areas
      BY <1>2, <1>11 DEF DropPartial, Shape, Writing
    <2>2. /\ restore'.job = "replace" /\ restore'.moved = restore.moved
          /\ \/ restore.left = {Turn} /\ restore'.left = Areas /\ restore'.step = "putback"
             \/ restore.left # {Turn} /\ restore'.left = restore.left \ {Turn} /\ restore'.step = "undo"
      BY <1>2, <1>11, <2>1, ProceedMoves DEF DropPartial
    <2>3. \A a \in Areas : live'[a] = IF a = Turn THEN Nothing ELSE live[a]
      BY <1>2, <1>11 DEF DropPartial, Shape
    <2>4. Rolling'
      BY <1>1, <1>11, <2>1, <2>2, <2>3 DEF DropPartial, Rolling, Staged, Writing
    <2> QED BY <1>3, <2>2, <2>4
  <1>12. CASE PutBack
    <2>1. restore.job = "replace" /\ restore.left # {} /\ restore.left \subseteq Areas /\ Turn \in restore.left
          /\ restore.step = "putback"
      BY <1>2, <1>12, TurnIsLeft DEF PutBack, Shape, Writing
    <2>2. \A a \in Areas : live'[a] = IF a = Turn THEN before[a] ELSE live[a]
      <3>1. live[Turn] = Nothing /\ Staged(Turn)
        BY <1>1, <1>2, <2>1 DEF Rolling, Shape
      <3>2. CASE Turn \in restore.moved
        BY <1>2, <1>12, <3>1, <3>2 DEF PutBack, Staged, Shape
      <3>3. CASE Turn \notin restore.moved
        BY <1>2, <1>12, <3>1, <3>3 DEF PutBack, Staged, Shape
      <3> QED BY <3>2, <3>3
    <2>3. \A a \in Areas : a # Turn => aside'[a] = aside[a]
      BY <1>2, <1>12 DEF PutBack, Shape
    <2>4. before' = before /\ EndPutBack
      BY <1>12 DEF PutBack
    <2>5. \A a \in Areas : a \notin restore.left \ {Turn} => live'[a] = before[a]
      BY <1>1, <2>1, <2>2 DEF Rolling
    <2>6. CASE restore.left = {Turn}
      <3>1. live' = before'
        BY <1>1, <1>2, <2>4, <2>5, <2>6 DEF Inv, Shape
      <3> QED BY <1>1, <2>1, <2>4, <2>6, <3>1, EndRolls DEF EndPutBack
    <2>7. CASE restore.left # {Turn}
      <3>1. /\ restore'.job = "replace" /\ restore'.moved = restore.moved /\ restore'.step = "putback"
            /\ restore'.left = restore.left \ {Turn}
        BY <1>2, <2>1, <2>4, <2>7, ProceedMoves DEF EndPutBack
      <3>2. Rolling'
        BY <1>1, <2>1, <2>2, <2>3, <2>4, <2>5, <3>1 DEF Rolling, Staged, Writing
      <3> QED BY <1>3, <3>1, <3>2
    <2> QED BY <2>6, <2>7
  <1>13. CASE PutBackFails \/ LeavesFiles
    BY <1>0, <1>13, MovesAreNoted DEF PutBackFails, LeavesFiles
  <1>14. CASE RestoreWriteFails
    <2>1. CASE restore.job = "merge"
      BY <1>1, <1>14, <2>1, EndRolls DEF RestoreWriteFails
    <2>2. CASE restore.job # "merge"
      <3>1. /\ restore'.job = "replace" /\ restore'.step = "undo" /\ restore'.left = Areas
            /\ restore'.moved = restore.moved /\ restore.job = "replace" /\ restore.step \in Writing
        BY <1>2, <1>14, <2>2 DEF RestoreWriteFails, Shape, OpFields, Writing
      <3>2. Rolling'
        BY <1>1, <1>14, <3>1 DEF RestoreWriteFails, Rolling, Staged, Writing
      <3> QED BY <1>3, <3>1, <3>2
    <2> QED BY <2>1, <2>2
  <1>15. CASE StageFails
    <2>1. restore.job = "replace" /\ restore.left # {} /\ Turn \in restore.left /\ Turn \in Areas
      BY <1>2, <1>15, TurnIsLeft DEF StageFails, Shape, Writing
    <2>2. aside[Turn] = Nothing /\ aside[Turn] # Nothing
      BY <1>0, <1>1, <1>15, <2>1, MovesAreNoted DEF StageFails, Rolling, Untouched
    <2> QED BY <2>2
  <1>16. CASE RestoreDies
    <2>1. PICK r \in {"ok", "crashed"} : Finish(r)
      BY <1>16 DEF RestoreDies
    <2> QED BY <1>1, <1>16, <2>1, EndRolls DEF RestoreDies
  <1>17. CASE UNCHANGED restoreVars
    BY <1>1, <1>17 DEF restoreVars, Rolling, Staged, Untouched, FailureRollsBack
  <1> QED BY <1>4, <1>5, <1>6, <1>7, <1>8, <1>9, <1>10, <1>11, <1>12, <1>13, <1>14,
             <1>15, <1>16, <1>17 DEF RestoreNext

\* As long as no move and no removal failed, a replace that reports failure left
\* exactly the workspace it found (FailedRestoreRollsBack), however many writes failed and
\* crashes happened before.
THEOREM FailuresRollBack == RestoreSpec => []FailedRestoreRollsBack
  <1>1. RInv /\ [RestoreNext]_restoreVars => RInv'
    BY NextRInv
  <1>2. RInv => FailedRestoreRollsBack
    BY DEF RInv, FailedRestoreRollsBack
  <1> QED BY InitRInv, <1>1, <1>2, PTL DEF RestoreSpec

-----------------------------------------------------------------------------
(* What a restore brings *)

Written == live["collections"]

\* What is written of an entry of a backup: its requests so far, its tree, its environments.
Incoming(e) == IF e.environments # Nothing THEN e.environments ELSE last.backup.environments
RequestsDone(e) == IF e \in restore.pending THEN {}
                   ELSE IF e \in restore.at THEN DOMAIN e.requests \ restore.reqs
                   ELSE DOMAIN e.requests
TreeDone(e) == e \notin restore.pending /\ (e \in restore.at => restore.step = "environments")
EnvironmentsDone(e) == e \notin restore.pending \cup restore.at /\ Incoming(e) # Nothing

Holds(p, done, v) == /\ p \in DOMAIN Written <=> done
                     /\ done => Written[p] = v

Stands(e) ==
  /\ Holds(<<"metadata", e.id>>, e \notin restore.pending, e.metadata)
  /\ \A q \in Reqs : Holds(<<"request", e.id, q>>, q \in RequestsDone(e), e.requests[q])
  /\ Holds(<<"tree", e.id>>, TreeDone(e), e.tree)
  /\ Holds(<<"environments", e.id>>, EnvironmentsDone(e), Incoming(e))

\* A replace that writes: the directory holds what is written of each entry and no more.
Replacing ==
  /\ live["environments"] = Nothing
  /\ \/ restore.manifest = last.backup.manifest /\ <<"manifest">> \notin DOMAIN Written
     \/ restore.manifest = NoManifest
        /\ ReadOr(Written, <<"manifest">>, NoManifest) = last.backup.manifest
  /\ \A c \in Colls : <<"metadata", c>> \in DOMAIN Written
                        => \E e \in last.backup.collections : e.id = c
  /\ \A e \in last.backup.collections : Stands(e)

\* Where a restore is in its backup.
Taking ==
  /\ restore.step = "write" => restore.at = {}
  /\ restore.step \in {"requests", "environments"} => \E e \in restore.at : restore.at = {e}
  /\ restore.step = "requests" => \A e \in restore.at : restore.reqs \subseteq DOMAIN e.requests
  /\ restore.step = "environments" => restore.reqs = {}

\* A replace that clears and moves has written nothing yet.
Waiting ==
  /\ restore.pending = last.backup.collections /\ restore.at = {}
  /\ restore.manifest = last.backup.manifest
  /\ restore.step = "stage" => \A a \in Areas \ restore.left : live[a] = Nothing

ExactInv ==
  /\ restore.job = "none" => restore = NoRestore
  /\ restore.job # "none" => last.backup \in Backups /\ Taking
  /\ restore.job = "replace" =>
       /\ restore.step \in {"clear", "stage"} => Waiting
       /\ restore.step \in Writing =>
            /\ Replacing
            /\ restore.pending \subseteq last.backup.collections
            /\ restore.at \subseteq last.backup.collections \ restore.pending
  /\ ReplaceIsExact

\* A merge: what is to be written is listed, in the manifest to be written or in the one there is.
MergeListed ==
  \A e \in restore.pending \cup restore.at :
    /\ restore.manifest = NoManifest => e.id \in DOMAIN Current.names
    /\ restore.manifest # NoManifest => e.id \in DOMAIN restore.manifest.names

MergeInv ==
  /\ restore.job = "merge" =>
       /\ restore.manifest # NoManifest => restore.step = "write" /\ live = before
       /\ last.backup.manifest # NoManifest => MergeListed
  /\ MergeOnlyAdds

\* No tree refers to a request that is not there, in a directory and in a backup's entry.
Whole(d) == \A c \in Colls : ReadOr(d, <<"tree", c>>, {}) \subseteq RequestsIn(d, c)
NothingDangles ==
  /\ \A w \in Workspaces : Whole(w["collections"])
  /\ \A b \in Backups : \A e \in b.collections : e.tree \subseteq DOMAIN e.requests

WholeInv ==
  /\ \A e \in restore.pending \cup restore.at :
       /\ DOMAIN e.requests \subseteq Reqs
       /\ EnsureTreeHasRequests(e.tree, DOMAIN e.requests) \subseteq DOMAIN e.requests
  /\ restore.step = "requests" =>
       \A e \in restore.at : DOMAIN e.requests \ restore.reqs \subseteq RequestsIn(Written, e.id)
  /\ ~mishaps.moves => Whole(Written) /\ Whole(aside["collections"])


-----------------------------------------------------------------------------

\* The paths of a collection's files are told apart by their kind, collection and request.
LEMMA PathsDiffer ==
  ASSUME NEW c, NEW k, NEW q, NEW r
  PROVE  /\ <<"manifest">> # <<"metadata", c>> /\ <<"manifest">> # <<"tree", c>>
         /\ <<"manifest">> # <<"environments", c>> /\ <<"manifest">> # <<"request", c, q>>
         /\ <<"metadata", c>> # <<"tree", k>> /\ <<"metadata", c>> # <<"environments", k>>
         /\ <<"metadata", c>> # <<"request", k, r>> /\ <<"tree", c>> # <<"environments", k>>
         /\ <<"tree", c>> # <<"request", k, r>> /\ <<"environments", c>> # <<"request", k, r>>
         /\ <<"metadata", c>> = <<"metadata", k>> => c = k
         /\ <<"tree", c>> = <<"tree", k>> => c = k
         /\ <<"environments", c>> = <<"environments", k>> => c = k
         /\ <<"request", c, q>> = <<"request", k, r>> => c = k /\ q = r
<1> QED OBVIOUS

\* A write touches one file.
LEMMA PutWrites ==
  ASSUME Inv, NEW p, NEW v, Put(p, v)
  PROVE  /\ live'["environments"] = live["environments"]
         /\ DOMAIN Written' = DOMAIN Written \cup {p}
         /\ \A x \in DOMAIN Written' : Written'[x] = IF x = p THEN v ELSE Written[x]
<1>1. live = [a \in Areas |-> live[a]] /\ "collections" \in Areas /\ "environments" \in Areas
  BY DEF Inv, Shape, Areas
<1> DEFINE new == [x \in DOMAIN Written \cup {p} |-> IF x = p THEN v ELSE Written[x]]
<1>2. live' = [live EXCEPT !["collections"] = new]
  BY DEF Put, Written
<1>3. live'["environments"] = live["environments"] /\ Written' = new
  BY <1>1, <1>2 DEF Written
<1> QED BY <1>3

\* What a write of another file leaves as it was.
LEMMA Elsewhere ==
  ASSUME Inv, NEW p, NEW v, Put(p, v), NEW x, x # p
  PROVE  /\ (x \in DOMAIN Written') <=> (x \in DOMAIN Written)
         /\ x \in DOMAIN Written => Written'[x] = Written[x]
<1>1. DOMAIN Written' = DOMAIN Written \cup {p}
  BY PutWrites
<1>2. \A y \in DOMAIN Written' : Written'[y] = IF y = p THEN v ELSE Written[y]
  BY PutWrites
<1> QED BY <1>1, <1>2

\* An entry none of whose files is written stands as it stood.
LEMMA StandsKept ==
  ASSUME Inv, NEW e, Stands(e), NEW p, NEW v, Put(p, v), UNCHANGED last,
         p # <<"metadata", e.id>>, p # <<"tree", e.id>>, p # <<"environments", e.id>>,
         \A q \in Reqs : p # <<"request", e.id, q>>,
         (e \in restore'.pending) <=> (e \in restore.pending),
         RequestsDone(e)' = RequestsDone(e), TreeDone(e)' <=> TreeDone(e),
         EnvironmentsDone(e)' <=> EnvironmentsDone(e)
  PROVE  Stands(e)'
<1>1. Incoming(e)' = Incoming(e)
  BY DEF Incoming
<1>2. Holds(<<"metadata", e.id>>, e \notin restore.pending, e.metadata)'
  BY Elsewhere DEF Stands, Holds
<1>3. \A q \in Reqs : Holds(<<"request", e.id, q>>, q \in RequestsDone(e), e.requests[q])'
  <2> SUFFICES ASSUME NEW q \in Reqs
               PROVE  Holds(<<"request", e.id, q>>, q \in RequestsDone(e), e.requests[q])'
    OBVIOUS
  <2>1. Holds(<<"request", e.id, q>>, q \in RequestsDone(e), e.requests[q])
    BY DEF Stands
  <2> QED BY <2>1, Elsewhere DEF Holds
<1>4. Holds(<<"tree", e.id>>, TreeDone(e), e.tree)'
  BY Elsewhere DEF Stands, Holds
<1>5. Holds(<<"environments", e.id>>, EnvironmentsDone(e), Incoming(e))'
  BY <1>1, Elsewhere DEF Stands, Holds
<1> QED BY <1>2, <1>3, <1>4, <1>5 DEF Stands

\* What the assumption says of a backup that is being restored.
LEMMA BackupFacts ==
  ASSUME NEW b \in Backups
  PROVE  /\ DOMAIN b = {"manifest", "environments", "collections"}
         /\ \A e \in b.collections : BackupEntry(e)
         /\ \A e, f \in b.collections : e.id = f.id => e = f
         /\ \A e \in b.collections : e.id \in Colls /\ DOMAIN e.requests \subseteq Reqs
  BY BackupAssumption DEF BackupEntry, Partial

\* A replace that writes has such a backup.
LEMMA ReplaceFacts ==
  ASSUME Inv, ExactInv, restore.job = "replace", restore.step \in Writing
  PROVE  /\ last.backup \in Backups /\ Taking /\ Replacing
         /\ DOMAIN restore = OpFields
         /\ restore.pending \subseteq last.backup.collections
         /\ restore.at \subseteq last.backup.collections \ restore.pending
         /\ \A e \in last.backup.collections : e.id \in Colls /\ DOMAIN e.requests \subseteq Reqs /\ Stands(e)
         /\ \A e, f \in last.backup.collections : e.id = f.id => e = f
         /\ restore.manifest # NoManifest => restore.manifest = last.backup.manifest
  BY BackupFacts DEF ExactInv, Inv, Shape, Replacing

\* The manifest is written.
LEMMA ReplaceManifest ==
  ASSUME Inv, ExactInv, restore.job = "replace", WriteManifest
  PROVE  Replacing'
<1>1. restore.step = "write" /\ Put(<<"manifest">>, restore.manifest) /\ UNCHANGED last
      /\ restore' = [restore EXCEPT !.manifest = NoManifest] /\ restore.manifest = last.backup.manifest
  BY ReplaceFacts DEF WriteManifest, Writing
<1>2. restore' = [restore EXCEPT !.manifest = NoManifest] /\ restore'.manifest = NoManifest
      /\ restore'.pending = restore.pending /\ restore'.at = restore.at
      /\ restore'.reqs = restore.reqs /\ restore'.step = restore.step
  BY <1>1, ReplaceFacts DEF OpFields, Writing
<1>3. ASSUME NEW e \in last.backup.collections PROVE Stands(e)'
  <2>1. /\ RequestsDone(e)' = RequestsDone(e)
        /\ TreeDone(e)' <=> TreeDone(e)
        /\ EnvironmentsDone(e)' <=> EnvironmentsDone(e)
    BY <1>1, <1>2 DEF RequestsDone, TreeDone, EnvironmentsDone, Incoming
  <2>2. Stands(e)
    BY <1>1, ReplaceFacts DEF Writing
  <2>3. /\ <<"manifest">> # <<"metadata", e.id>> /\ <<"manifest">> # <<"tree", e.id>>
        /\ <<"manifest">> # <<"environments", e.id>>
        /\ \A q \in Reqs : <<"manifest">> # <<"request", e.id, q>>
    BY PathsDiffer
  <2>4. (e \in restore'.pending) <=> (e \in restore.pending)
    BY <1>2
  <2> QED BY <1>1, <2>1, <2>2, <2>3, <2>4, StandsKept
<1>4. ReadOr(Written, <<"manifest">>, NoManifest)' = last.backup.manifest
  BY <1>1, PutWrites DEF ReadOr
<1>5. ASSUME NEW c \in Colls, <<"metadata", c>> \in DOMAIN Written'
      PROVE  \E e \in last.backup.collections : e.id = c
  BY <1>1, <1>5, PathsDiffer, Elsewhere, ReplaceFacts DEF Replacing, Writing
<1>6. live'["environments"] = Nothing
  BY <1>1, PutWrites, ReplaceFacts DEF Replacing, Writing
<1> QED BY <1>1, <1>2, <1>3, <1>4, <1>5, <1>6 DEF Replacing

\* What a write of a collection's file leaves of Replacing, but for the entry it is of.
LEMMA ReplacingKept ==
  ASSUME Inv, ExactInv, restore.job = "replace", restore.step \in Writing,
         NEW p, NEW v, Put(p, v), UNCHANGED last, restore'.manifest = restore.manifest,
         p # <<"manifest">>,
         \A c \in Colls : p = <<"metadata", c>> => \E e \in last.backup.collections : e.id = c,
         \A e \in last.backup.collections : Stands(e)'
  PROVE  Replacing'
<1>1. live'["environments"] = Nothing
  BY PutWrites, ReplaceFacts DEF Replacing
<1>2. \A c \in Colls : <<"metadata", c>> \in DOMAIN Written'
                        => \E e \in last.backup.collections : e.id = c
  BY Elsewhere, ReplaceFacts DEF Replacing
<1>3. \/ restore'.manifest = last.backup.manifest /\ <<"manifest">> \notin DOMAIN Written'
      \/ restore'.manifest = NoManifest
         /\ ReadOr(Written', <<"manifest">>, NoManifest) = last.backup.manifest
  BY Elsewhere, ReplaceFacts DEF Replacing, ReadOr
<1> QED BY <1>1, <1>2, <1>3 DEF Replacing, ReadOr

\* The entry of a collection is begun with its metadata.
LEMMA ReplaceMetadata ==
  ASSUME Inv, ExactInv, restore.job = "replace", WriteMetadata
  PROVE  Replacing' /\ Taking' /\ restore'.pending \subseteq last.backup.collections
         /\ restore'.at \subseteq last.backup.collections \ restore'.pending
<1>1. PICK m \in restore.pending :
        /\ Put(<<"metadata", m.id>>, m.metadata)
        /\ restore' = [restore EXCEPT !.step = "requests", !.pending = @ \ {m}, !.at = {m},
                                      !.reqs = DOMAIN m.requests]
  BY DEF WriteMetadata
<1>2. restore.step = "write" /\ UNCHANGED last /\ restore.step \in Writing
  BY DEF WriteMetadata, Writing
<1>3. /\ restore.at = {} /\ m \in last.backup.collections /\ m.id \in Colls
      /\ restore.pending \subseteq last.backup.collections
      /\ \A e \in last.backup.collections : Stands(e)
      /\ \A e, f \in last.backup.collections : e.id = f.id => e = f
  BY <1>1, <1>2, ReplaceFacts DEF Taking
<1>4. /\ restore'.step = "requests" /\ restore'.pending = restore.pending \ {m}
      /\ restore'.at = {m} /\ restore'.reqs = DOMAIN m.requests
      /\ restore'.manifest = restore.manifest
  BY <1>1, <1>2, ReplaceFacts DEF OpFields
<1>5. ASSUME NEW e \in last.backup.collections, e # m PROVE Stands(e)'
  <2>1. e.id # m.id
    BY <1>3, <1>5
  <2>2. /\ RequestsDone(e)' = RequestsDone(e)
        /\ TreeDone(e)' <=> TreeDone(e)
        /\ EnvironmentsDone(e)' <=> EnvironmentsDone(e)
    BY <1>2, <1>3, <1>4, <1>5 DEF RequestsDone, TreeDone, EnvironmentsDone, Incoming
  <2>3. /\ <<"metadata", m.id>> # <<"metadata", e.id>> /\ <<"metadata", m.id>> # <<"tree", e.id>>
        /\ <<"metadata", m.id>> # <<"environments", e.id>>
        /\ \A q \in Reqs : <<"metadata", m.id>> # <<"request", e.id, q>>
    BY <2>1, PathsDiffer
  <2>4. (e \in restore'.pending) <=> (e \in restore.pending)
    BY <1>4, <1>5
  <2>5. Stands(e)
    BY <1>3
  <2> QED BY <1>1, <1>2, <2>2, <2>3, <2>4, <2>5, StandsKept
<1>6. Stands(m)'
  <2>1. /\ RequestsDone(m)' = {} /\ RequestsDone(m) = {}
        /\ ~TreeDone(m)' /\ ~TreeDone(m)
        /\ ~EnvironmentsDone(m)' /\ ~EnvironmentsDone(m)
        /\ m \notin restore'.pending
    BY <1>1, <1>4 DEF RequestsDone, TreeDone, EnvironmentsDone
  <2>2. /\ <<"metadata", m.id>> \in DOMAIN Written'
        /\ Written'[<<"metadata", m.id>>] = m.metadata
    BY <1>1, PutWrites
  <2>3. /\ <<"tree", m.id>> \notin DOMAIN Written'
        /\ <<"environments", m.id>> \notin DOMAIN Written'
    <3>1. <<"tree", m.id>> \notin DOMAIN Written /\ <<"environments", m.id>> \notin DOMAIN Written
      BY <1>3, <2>1 DEF Stands, Holds
    <3>2. <<"tree", m.id>> # <<"metadata", m.id>> /\ <<"environments", m.id>> # <<"metadata", m.id>>
      BY PathsDiffer
    <3> QED BY <1>1, <3>1, <3>2, Elsewhere
  <2>4. ASSUME NEW q \in Reqs PROVE <<"request", m.id, q>> \notin DOMAIN Written'
    <3>1. <<"request", m.id, q>> \notin DOMAIN Written
      BY <1>3, <2>1 DEF Stands, Holds
    <3>2. <<"request", m.id, q>> # <<"metadata", m.id>>
      BY PathsDiffer
    <3> QED BY <1>1, <3>1, <3>2, Elsewhere
  <2> QED BY <2>1, <2>2, <2>3, <2>4 DEF Stands, Holds
<1>7. \A e \in last.backup.collections : Stands(e)'
  BY <1>5, <1>6
<1>8. <<"metadata", m.id>> # <<"manifest">>
  BY PathsDiffer
<1>9. \A c \in Colls : <<"metadata", m.id>> = <<"metadata", c>>
                         => \E e \in last.backup.collections : e.id = c
  BY <1>3, PathsDiffer
<1>10. Replacing'
  BY <1>1, <1>2, <1>4, <1>7, <1>8, <1>9, ReplacingKept
<1>11. Taking'
  BY <1>4 DEF Taking
<1> QED BY <1>3, <1>4, <1>10, <1>11

\* One of its requests is written.
LEMMA ReplaceRequest ==
  ASSUME Inv, ExactInv, restore.job = "replace", WriteRequest
  PROVE  Replacing' /\ Taking' /\ restore'.pending = restore.pending /\ restore'.at = restore.at
<1>1. PICK m \in restore.at, r \in restore.reqs :
        /\ Put(<<"request", m.id, r>>, m.requests[r])
        /\ restore' = [restore EXCEPT !.reqs = @ \ {r}]
  BY DEF WriteRequest
<1>2. restore.step = "requests" /\ UNCHANGED last /\ restore.step \in Writing
  BY DEF WriteRequest, Writing
<1>3. /\ restore.at = {m} /\ m \in last.backup.collections /\ m.id \in Colls
      /\ m \notin restore.pending /\ restore.reqs \subseteq DOMAIN m.requests
      /\ DOMAIN m.requests \subseteq Reqs
      /\ \A e \in last.backup.collections : Stands(e)
      /\ \A e, f \in last.backup.collections : e.id = f.id => e = f
  BY <1>1, <1>2, ReplaceFacts DEF Taking
<1>4. /\ restore'.step = "requests" /\ restore'.pending = restore.pending
      /\ restore'.at = restore.at /\ restore'.reqs = restore.reqs \ {r}
      /\ restore'.manifest = restore.manifest
  BY <1>1, <1>2, ReplaceFacts DEF OpFields
<1>5. ASSUME NEW e \in last.backup.collections, e # m PROVE Stands(e)'
  <2>1. e.id # m.id
    BY <1>3, <1>5
  <2>2. /\ RequestsDone(e)' = RequestsDone(e)
        /\ TreeDone(e)' <=> TreeDone(e)
        /\ EnvironmentsDone(e)' <=> EnvironmentsDone(e)
    BY <1>2, <1>3, <1>4, <1>5 DEF RequestsDone, TreeDone, EnvironmentsDone, Incoming
  <2>3. /\ <<"request", m.id, r>> # <<"metadata", e.id>> /\ <<"request", m.id, r>> # <<"tree", e.id>>
        /\ <<"request", m.id, r>> # <<"environments", e.id>>
        /\ \A q \in Reqs : <<"request", m.id, r>> # <<"request", e.id, q>>
    BY <2>1, PathsDiffer
  <2>4. (e \in restore'.pending) <=> (e \in restore.pending)
    BY <1>4
  <2>5. Stands(e)
    BY <1>3
  <2> QED BY <1>1, <1>2, <2>2, <2>3, <2>4, <2>5, StandsKept
<1>6. Stands(m)'
  <2>1. /\ RequestsDone(m)' = RequestsDone(m) \cup {r} /\ r \in Reqs /\ r \notin RequestsDone(m)
        /\ ~TreeDone(m)' /\ ~TreeDone(m)
        /\ ~EnvironmentsDone(m)' /\ ~EnvironmentsDone(m)
        /\ m \notin restore'.pending /\ m \notin restore.pending
    BY <1>1, <1>2, <1>3, <1>4 DEF RequestsDone, TreeDone, EnvironmentsDone
  <2>2. /\ <<"request", m.id, r>> \in DOMAIN Written'
        /\ Written'[<<"request", m.id, r>>] = m.requests[r]
    BY <1>1, PutWrites
  <2>3. /\ <<"tree", m.id>> \notin DOMAIN Written'
        /\ <<"environments", m.id>> \notin DOMAIN Written'
        /\ <<"metadata", m.id>> \in DOMAIN Written'
        /\ Written'[<<"metadata", m.id>>] = m.metadata
    <3>1. /\ <<"tree", m.id>> \notin DOMAIN Written
          /\ <<"environments", m.id>> \notin DOMAIN Written
          /\ <<"metadata", m.id>> \in DOMAIN Written
          /\ Written[<<"metadata", m.id>>] = m.metadata
      BY <1>3, <2>1 DEF Stands, Holds
    <3>2. /\ <<"tree", m.id>> # <<"request", m.id, r>>
          /\ <<"environments", m.id>> # <<"request", m.id, r>>
          /\ <<"metadata", m.id>> # <<"request", m.id, r>>
      BY PathsDiffer
    <3> QED BY <1>1, <3>1, <3>2, Elsewhere
  <2>4. ASSUME NEW q \in Reqs, q # r
        PROVE  /\ <<"request", m.id, q>> \in DOMAIN Written' <=> q \in RequestsDone(m)
               /\ q \in RequestsDone(m) => Written'[<<"request", m.id, q>>] = m.requests[q]
    <3>1. /\ <<"request", m.id, q>> \in DOMAIN Written <=> q \in RequestsDone(m)
          /\ q \in RequestsDone(m) => Written[<<"request", m.id, q>>] = m.requests[q]
      BY <1>3, <2>1 DEF Stands, Holds
    <3>2. <<"request", m.id, q>> # <<"request", m.id, r>>
      BY <2>4, PathsDiffer
    <3> QED BY <1>1, <3>1, <3>2, Elsewhere
  <2>5. \A q \in Reqs : Holds(<<"request", m.id, q>>, q \in RequestsDone(m), m.requests[q])'
    BY <2>1, <2>2, <2>4 DEF Holds
  <2> QED BY <2>1, <2>3, <2>5 DEF Stands, Holds
<1>7. \A e \in last.backup.collections : Stands(e)'
  BY <1>5, <1>6
<1>8. /\ <<"request", m.id, r>> # <<"manifest">>
      /\ \A c \in Colls : <<"request", m.id, r>> # <<"metadata", c>>
  BY PathsDiffer
<1>10. Replacing'
  BY <1>1, <1>2, <1>4, <1>7, <1>8, ReplacingKept
<1>11. Taking'
  BY <1>3, <1>4 DEF Taking
<1> QED BY <1>3, <1>4, <1>10, <1>11

\* Its tree is written, as it is in the backup.
LEMMA ReplaceTree ==
  ASSUME Inv, ExactInv, restore.job = "replace", WriteTree
  PROVE  Replacing' /\ Taking' /\ restore'.pending = restore.pending /\ restore'.at = restore.at
<1>1. PICK m \in restore.at :
        /\ Put(<<"tree", m.id>>, EnsureTreeHasRequests(m.tree, DOMAIN m.requests))
        /\ restore' = [restore EXCEPT !.step = "environments"]
  BY DEF WriteTree
<1>2. restore.step = "requests" /\ UNCHANGED last /\ restore.step \in Writing /\ restore.reqs = {}
  BY DEF WriteTree, Writing
<1>3. /\ restore.at = {m} /\ m \in last.backup.collections /\ m.id \in Colls
      /\ m \notin restore.pending /\ DOMAIN m.requests \subseteq Reqs
      /\ \A e \in last.backup.collections : Stands(e)
      /\ \A e, f \in last.backup.collections : e.id = f.id => e = f
  BY <1>1, <1>2, ReplaceFacts DEF Taking
<1>4. /\ restore'.step = "environments" /\ restore'.pending = restore.pending
      /\ restore'.at = restore.at /\ restore'.reqs = {}
      /\ restore'.manifest = restore.manifest
  BY <1>1, <1>2, ReplaceFacts DEF OpFields
<1>5. ASSUME NEW e \in last.backup.collections, e # m PROVE Stands(e)'
  <2>1. e.id # m.id
    BY <1>3, <1>5
  <2>2. /\ RequestsDone(e)' = RequestsDone(e)
        /\ TreeDone(e)' <=> TreeDone(e)
        /\ EnvironmentsDone(e)' <=> EnvironmentsDone(e)
    BY <1>2, <1>3, <1>4, <1>5 DEF RequestsDone, TreeDone, EnvironmentsDone, Incoming
  <2>3. /\ <<"tree", m.id>> # <<"metadata", e.id>> /\ <<"tree", m.id>> # <<"tree", e.id>>
        /\ <<"tree", m.id>> # <<"environments", e.id>>
        /\ \A q \in Reqs : <<"tree", m.id>> # <<"request", e.id, q>>
    BY <2>1, PathsDiffer
  <2>4. (e \in restore'.pending) <=> (e \in restore.pending)
    BY <1>4
  <2>5. Stands(e)
    BY <1>3
  <2> QED BY <1>1, <1>2, <2>2, <2>3, <2>4, <2>5, StandsKept
<1>6. Stands(m)'
  <2>1. /\ RequestsDone(m)' = RequestsDone(m)
        /\ TreeDone(m)' /\ ~TreeDone(m)
        /\ ~EnvironmentsDone(m)' /\ ~EnvironmentsDone(m)
        /\ m \notin restore'.pending /\ m \notin restore.pending
    BY <1>1, <1>2, <1>3, <1>4 DEF RequestsDone, TreeDone, EnvironmentsDone
  <2>2. <<"tree", m.id>> \in DOMAIN Written' /\ Written'[<<"tree", m.id>>] = m.tree
    <3>1. EnsureTreeHasRequests(m.tree, DOMAIN m.requests) = m.tree
      BY <1>2, <1>3, ReplaceFacts, BackupFacts DEF BackupEntry
    <3> QED BY <1>1, <3>1, PutWrites
  <2>3. /\ <<"environments", m.id>> \notin DOMAIN Written'
        /\ <<"metadata", m.id>> \in DOMAIN Written'
        /\ Written'[<<"metadata", m.id>>] = m.metadata
    <3>1. /\ <<"environments", m.id>> \notin DOMAIN Written
          /\ <<"metadata", m.id>> \in DOMAIN Written
          /\ Written[<<"metadata", m.id>>] = m.metadata
      BY <1>3, <2>1 DEF Stands, Holds
    <3>2. <<"tree", m.id>> # <<"environments", m.id>> /\ <<"tree", m.id>> # <<"metadata", m.id>>
      BY PathsDiffer
    <3> QED BY <1>1, <3>1, <3>2, Elsewhere
  <2>4. ASSUME NEW q \in Reqs
        PROVE  /\ <<"request", m.id, q>> \in DOMAIN Written' <=> q \in RequestsDone(m)
               /\ q \in RequestsDone(m) => Written'[<<"request", m.id, q>>] = m.requests[q]
    <3>1. /\ <<"request", m.id, q>> \in DOMAIN Written <=> q \in RequestsDone(m)
          /\ q \in RequestsDone(m) => Written[<<"request", m.id, q>>] = m.requests[q]
      BY <1>3, <2>1 DEF Stands, Holds
    <3>2. <<"request", m.id, q>> # <<"tree", m.id>>
      BY PathsDiffer
    <3> QED BY <1>1, <3>1, <3>2, Elsewhere
  <2>5. \A q \in Reqs : Holds(<<"request", m.id, q>>, q \in RequestsDone(m), m.requests[q])'
    BY <2>1, <2>4 DEF Holds
  <2> QED BY <2>1, <2>2, <2>3, <2>5 DEF Stands, Holds
<1>7. \A e \in last.backup.collections : Stands(e)'
  BY <1>5, <1>6
<1>8. /\ <<"tree", m.id>> # <<"manifest">>
      /\ \A c \in Colls : <<"tree", m.id>> # <<"metadata", c>>
  BY PathsDiffer
<1>10. Replacing'
  BY <1>1, <1>2, <1>4, <1>7, <1>8, ReplacingKept
<1>11. Taking'
  BY <1>3, <1>4 DEF Taking
<1> QED BY <1>3, <1>4, <1>10, <1>11

\* Its environments are written, or there are none, and the entry is done.
LEMMA ReplaceEnvironments ==
  ASSUME Inv, ExactInv, restore.job = "replace", WriteEnvironments
  PROVE  Replacing' /\ Taking' /\ restore'.pending = restore.pending /\ restore'.at = {}
<1>1. PICK m \in restore.at :
        IF m.environments = Nothing /\ last.backup.environments = Nothing
        THEN UNCHANGED live
        ELSE Put(<<"environments", m.id>>, MergedEnvironments(m))
  BY DEF WriteEnvironments
<1>2. /\ restore.step = "environments" /\ UNCHANGED last /\ restore.step \in Writing
      /\ restore' = [restore EXCEPT !.step = "write", !.at = {}]
  BY DEF WriteEnvironments, Writing
<1>3. /\ restore.at = {m} /\ m \in last.backup.collections /\ m.id \in Colls
      /\ m \notin restore.pending /\ DOMAIN m.requests \subseteq Reqs /\ restore.reqs = {}
      /\ \A e \in last.backup.collections : Stands(e)
      /\ \A e, f \in last.backup.collections : e.id = f.id => e = f
  BY <1>1, <1>2, ReplaceFacts DEF Taking
<1>4. /\ restore'.step = "write" /\ restore'.pending = restore.pending
      /\ restore'.at = {} /\ restore'.manifest = restore.manifest
  BY <1>2, ReplaceFacts DEF OpFields
<1>5. ASSUME NEW e \in last.backup.collections
      PROVE  /\ RequestsDone(e)' = RequestsDone(e)
             /\ TreeDone(e)' <=> TreeDone(e)
             /\ e # m => (EnvironmentsDone(e)' <=> EnvironmentsDone(e))
             /\ (e \in restore'.pending) <=> (e \in restore.pending)
             /\ Stands(e)
  BY <1>2, <1>3, <1>4 DEF RequestsDone, TreeDone, EnvironmentsDone, Incoming
<1>6. Taking'
  BY <1>4 DEF Taking
<1>7. ~EnvironmentsDone(m) /\ (EnvironmentsDone(m)' <=> Incoming(m) # Nothing)
  BY <1>1, <1>2, <1>3, <1>4 DEF EnvironmentsDone, Incoming
<1>8. CASE Incoming(m) = Nothing
  <2>1. UNCHANGED <<live, Written>>
    BY <1>1, <1>8 DEF Incoming, Written
  <2>2. ASSUME NEW e \in last.backup.collections PROVE Stands(e)'
    <3>1. /\ RequestsDone(e)' = RequestsDone(e)
          /\ TreeDone(e)' <=> TreeDone(e)
          /\ EnvironmentsDone(e)' <=> EnvironmentsDone(e)
          /\ (e \in restore'.pending) <=> (e \in restore.pending)
          /\ Incoming(e)' = Incoming(e)
          /\ Stands(e)
      BY <1>2, <1>5, <1>7, <1>8 DEF Incoming
    <3> QED BY <2>1, <3>1 DEF Stands, Holds
  <2>3. Replacing
    BY <1>2, ReplaceFacts
  <2>4. Replacing'
    BY <1>2, <1>4, <2>1, <2>2, <2>3 DEF Replacing, ReadOr
  <2> QED BY <1>4, <1>6, <2>4
<1>9. CASE Incoming(m) # Nothing
  <2>1. Put(<<"environments", m.id>>, Incoming(m))
    BY <1>1, <1>9 DEF Incoming, MergedEnvironments
  <2>2. ASSUME NEW e \in last.backup.collections, e # m PROVE Stands(e)'
    <3>1. e.id # m.id
      BY <1>3, <2>2
    <3>2. /\ <<"environments", m.id>> # <<"metadata", e.id>>
          /\ <<"environments", m.id>> # <<"tree", e.id>>
          /\ <<"environments", m.id>> # <<"environments", e.id>>
          /\ \A q \in Reqs : <<"environments", m.id>> # <<"request", e.id, q>>
      BY <3>1, PathsDiffer
    <3> QED BY <1>2, <1>5, <2>1, <2>2, <3>2, StandsKept
  <2>3. Stands(m)'
    <3>1. /\ RequestsDone(m)' = RequestsDone(m)
          /\ TreeDone(m)' /\ TreeDone(m) /\ EnvironmentsDone(m)'
          /\ m \notin restore'.pending /\ m \notin restore.pending
      BY <1>2, <1>3, <1>4, <1>5, <1>7, <1>9 DEF TreeDone
    <3>2. /\ <<"environments", m.id>> \in DOMAIN Written'
          /\ Written'[<<"environments", m.id>>] = Incoming(m)'
      BY <1>2, <2>1, PutWrites DEF Incoming
    <3>3. /\ <<"tree", m.id>> \in DOMAIN Written' /\ Written'[<<"tree", m.id>>] = m.tree
          /\ <<"metadata", m.id>> \in DOMAIN Written'
          /\ Written'[<<"metadata", m.id>>] = m.metadata
      <4>1. /\ <<"tree", m.id>> \in DOMAIN Written /\ Written[<<"tree", m.id>>] = m.tree
            /\ <<"metadata", m.id>> \in DOMAIN Written
            /\ Written[<<"metadata", m.id>>] = m.metadata
        BY <1>3, <3>1 DEF Stands, Holds
      <4>2. /\ <<"tree", m.id>> # <<"environments", m.id>>
            /\ <<"metadata", m.id>> # <<"environments", m.id>>
        BY PathsDiffer
      <4> QED BY <2>1, <4>1, <4>2, Elsewhere
    <3>4. ASSUME NEW q \in Reqs
          PROVE  /\ <<"request", m.id, q>> \in DOMAIN Written' <=> q \in RequestsDone(m)
                 /\ q \in RequestsDone(m) => Written'[<<"request", m.id, q>>] = m.requests[q]
      <4>1. /\ <<"request", m.id, q>> \in DOMAIN Written <=> q \in RequestsDone(m)
            /\ q \in RequestsDone(m) => Written[<<"request", m.id, q>>] = m.requests[q]
        BY <1>3 DEF Stands, Holds
      <4>2. <<"request", m.id, q>> # <<"environments", m.id>>
        BY PathsDiffer
      <4> QED BY <2>1, <4>1, <4>2, Elsewhere
    <3>5. \A q \in Reqs : Holds(<<"request", m.id, q>>, q \in RequestsDone(m), m.requests[q])'
      BY <3>1, <3>4 DEF Holds
    <3> QED BY <3>1, <3>2, <3>3, <3>5 DEF Stands, Holds
  <2>4. \A e \in last.backup.collections : Stands(e)'
    BY <2>2, <2>3
  <2>5. /\ <<"environments", m.id>> # <<"manifest">>
        /\ \A c \in Colls : <<"environments", m.id>> # <<"metadata", c>>
    BY PathsDiffer
  <2>6. Replacing'
    BY <1>2, <1>4, <2>1, <2>4, <2>5, ReplacingKept
  <2> QED BY <1>4, <1>6, <2>6
<1> QED BY <1>8, <1>9

\* An entry that stands exports to what was restored.
LEMMA EntryExports ==
  ASSUME last.backup \in Backups, NEW e \in last.backup.collections, Stands(e),
         restore.pending = {}, restore.at = {}
  PROVE  /\ <<"metadata", e.id>> \in DOMAIN Written
         /\ ExportCollection(Written, e.id) = [e EXCEPT !.environments = Incoming(e)]
<1>1. /\ e = [id |-> e.id, metadata |-> e.metadata, requests |-> e.requests, tree |-> e.tree,
              environments |-> e.environments]
      /\ DOMAIN e.requests \subseteq Reqs
      /\ e.requests = [q \in DOMAIN e.requests |-> e.requests[q]]
      /\ e.tree = EnsureTreeHasRequests(e.tree, DOMAIN e.requests)
  <2>1. BackupEntry(e)
    BY BackupFacts
  <2>2. e.requests \in Partial(Reqs, Versions)
    BY <2>1 DEF BackupEntry
  <2>3. PICK D \in SUBSET Reqs : e.requests \in [D -> Versions]
    BY <2>2 DEF Partial
  <2> QED BY <2>1, <2>3 DEF BackupEntry
<1>2. /\ RequestsDone(e) = DOMAIN e.requests /\ TreeDone(e)
      /\ EnvironmentsDone(e) <=> Incoming(e) # Nothing
  BY DEF RequestsDone, TreeDone, EnvironmentsDone
<1>3. <<"metadata", e.id>> \in DOMAIN Written /\ Written[<<"metadata", e.id>>] = e.metadata
  BY DEF Stands, Holds
<1>4. RequestsIn(Written, e.id) = DOMAIN e.requests
  BY <1>1, <1>2 DEF Stands, Holds, RequestsIn
<1>5. [q \in RequestsIn(Written, e.id) |-> Written[<<"request", e.id, q>>]] = e.requests
  <2>1. \A q \in DOMAIN e.requests : Written[<<"request", e.id, q>>] = e.requests[q]
    BY <1>1, <1>2 DEF Stands, Holds
  <2>2. [q \in RequestsIn(Written, e.id) |-> Written[<<"request", e.id, q>>]]
        = [q \in DOMAIN e.requests |-> e.requests[q]]
    BY <1>4, <2>1
  <2> QED BY <1>1, <2>2
<1>6. ReadOr(Written, <<"tree", e.id>>, {}) = e.tree
  BY <1>2 DEF Stands, Holds, ReadOr
<1>7. ReadOr(Written, <<"environments", e.id>>, Nothing) = Incoming(e)
  BY <1>2 DEF Stands, Holds, ReadOr
<1>8. ExportCollection(Written, e.id)
      = [id |-> e.id, metadata |-> e.metadata, requests |-> e.requests, tree |-> e.tree,
         environments |-> Incoming(e)]
  BY <1>1, <1>3, <1>4, <1>5, <1>6, <1>7 DEF ExportCollection
<1>9. [e EXCEPT !.environments = Incoming(e)]
      = [id |-> e.id, metadata |-> e.metadata, requests |-> e.requests, tree |-> e.tree,
         environments |-> Incoming(e)]
  <2> DEFINE r == [id |-> e.id, metadata |-> e.metadata, requests |-> e.requests, tree |-> e.tree,
                   environments |-> e.environments]
  <2>1. [r EXCEPT !.environments = Incoming(e)]
        = [id |-> e.id, metadata |-> e.metadata, requests |-> e.requests, tree |-> e.tree,
           environments |-> Incoming(e)]
    OBVIOUS
  <2> QED BY <1>1, <2>1
<1> QED BY <1>3, <1>8, <1>9

\* When everything is written the workspace exports to the backup.
LEMMA AllWrittenIsExact ==
  ASSUME Inv, ExactInv, restore.job = "replace", AllWritten
  PROVE  /\ ExportAll(live["collections"]) = Restored(last.backup)
         /\ live["environments"] = Nothing
<1> DEFINE b == last.backup
<1>1. /\ restore.step = "write" /\ restore.step \in Writing /\ restore.manifest = NoManifest
      /\ restore.pending = {}
  BY DEF AllWritten, Writing
<1>2. /\ b \in Backups /\ Replacing /\ restore.at = {}
      /\ \A e \in b.collections : e.id \in Colls /\ Stands(e)
  BY <1>1, ReplaceFacts DEF Taking
<1>3. ReadOr(Written, <<"manifest">>, NoManifest) = b.manifest
  BY <1>1, <1>2 DEF Replacing, ReadOr
<1>4. \A e \in b.collections :
        /\ <<"metadata", e.id>> \in DOMAIN Written
        /\ ExportCollection(Written, e.id) = [e EXCEPT !.environments = Incoming(e)]
  BY <1>1, <1>2, EntryExports
<1>5. \A c \in Colls : <<"metadata", c>> \in DOMAIN Written => \E e \in b.collections : e.id = c
  BY <1>2 DEF Replacing
<1> DEFINE exported == {ExportCollection(Written, c) : c \in {k \in Colls : <<"metadata", k>> \in DOMAIN Written}}
           entries == {[e EXCEPT !.environments = IF @ # Nothing THEN @ ELSE b.environments] : e \in b.collections}
<1>6. exported = entries
  <2>1. entries = {[e EXCEPT !.environments = Incoming(e)] : e \in b.collections}
    <3>1. \A e \in b.collections :
            [e EXCEPT !.environments = IF @ # Nothing THEN @ ELSE b.environments]
            = [e EXCEPT !.environments = Incoming(e)]
      BY DEF Incoming
    <3> QED BY <3>1
  <2> HIDE DEF entries
  <2>2. \A x \in exported : x \in entries
    <3> SUFFICES ASSUME NEW c \in Colls, <<"metadata", c>> \in DOMAIN Written
                 PROVE  ExportCollection(Written, c) \in entries
      OBVIOUS
    <3>1. PICK e \in b.collections : e.id = c
      BY <1>5
    <3> QED BY <1>4, <2>1, <3>1
  <2>3. \A x \in entries : x \in exported
    <3> SUFFICES ASSUME NEW e \in b.collections
                 PROVE  [e EXCEPT !.environments = Incoming(e)] \in exported
      BY <2>1
    <3> QED BY <1>2, <1>4
  <2> QED BY <2>2, <2>3
<1>7. ExportAll(Written) = [manifest |-> b.manifest, environments |-> Nothing, collections |-> entries]
  BY <1>3, <1>6 DEF ExportAll
<1>8. Restored(b) = [manifest |-> b.manifest, environments |-> Nothing, collections |-> entries]
  <2>1. b = [manifest |-> b.manifest, environments |-> b.environments, collections |-> b.collections]
    BY <1>2, BackupAssumption
  <2>2. Restored(b) = [b EXCEPT !.environments = Nothing, !.collections = entries]
    BY DEF Restored
  <2> HIDE DEF entries
  <2> QED BY <2>1, <2>2
<1>9. live["environments"] = Nothing
  BY <1>2 DEF Replacing
<1> QED BY <1>7, <1>8, <1>9 DEF Written

\* Taking the directories in turn leaves what is to be written alone.
LEMMA NextAreaKeeps ==
  ASSUME NEW o, NEW next, DOMAIN o = OpFields
  PROVE  /\ NextArea(o, next).pending = o.pending /\ NextArea(o, next).at = o.at
         /\ NextArea(o, next).manifest = o.manifest /\ NextArea(o, next).reqs = o.reqs
  BY DEF NextArea, OpFields

LEMMA ExactInit == RestoreInit => ExactInv
  BY DEF RestoreInit, ExactInv, ReplaceIsExact, NoRestore

\* The end of a restore: it succeeded only if everything was written.
LEMMA ExactEnd ==
  ASSUME Inv, ExactInv, restore.job # "none", NEW r, Finish(r),
         r = "ok" /\ restore.job = "replace" => restore.step = "commit" /\ UNCHANGED live
  PROVE  ExactInv'
<1>1. /\ restore' = NoRestore /\ last'.job = last.job /\ last'.result = r
      /\ last'.backup = last.backup /\ restore'.job = "none" /\ restore'.step = "none"
  BY DEF Finish, Inv, Shape, NoRestore
<1>2. last.job = restore.job
  BY DEF Inv, Shape
<1>3. ReplaceIsExact'
  <2> SUFFICES ASSUME last.job = "replace", r = "ok"
               PROVE  ReplaceIsExact'
    BY <1>1 DEF ReplaceIsExact
  <2>1. restore.step = "commit" /\ UNCHANGED live
    BY <1>2
  <2>2. ReplaceIsExact
    BY DEF ExactInv
  <2>3. ExportAll(live["collections"]) = Restored(last.backup) /\ live["environments"] = Nothing
    BY <2>1, <2>2 DEF ReplaceIsExact
  <2>4. ExportAll(live["collections"])' = ExportAll(live["collections"])
        /\ Restored(last.backup)' = Restored(last.backup)
    BY <1>1, <2>1 DEF Restored
  <2> QED BY <2>1, <2>3, <2>4 DEF ReplaceIsExact
<1> QED BY <1>1, <1>3 DEF ExactInv

\* A replace goes on.
LEMMA ExactGoesOn ==
  ASSUME Inv', restore'.job = "replace", UNCHANGED last, last.backup \in Backups, Taking',
         restore'.step \in {"clear", "stage"} => Waiting',
         restore'.step \in Writing => /\ Replacing'
                                      /\ restore'.pending \subseteq last.backup.collections
                                      /\ restore'.at \subseteq last.backup.collections \ restore'.pending,
         restore'.step = "commit" => /\ ExportAll(live["collections"])' = Restored(last.backup)'
                                     /\ live'["environments"] = Nothing
  PROVE  ExactInv'
<1>1. last'.result = "running"
  BY DEF Inv, Shape
<1>2. ReplaceIsExact'
  BY <1>1 DEF ReplaceIsExact
<1> QED BY <1>2 DEF ExactInv

\* A step past the writing: nothing of it is to be written any more.
LEMMA ExactPast ==
  ASSUME Inv, ExactInv, Inv', restore.job = "replace", restore'.job = "replace", UNCHANGED last,
         restore'.step \in {"undo", "putback"} \/ (restore'.step = "commit" /\ restore.step = "commit" /\ UNCHANGED live)
  PROVE  ExactInv'
<1>1. last.backup \in Backups /\ last.job = "replace"
  BY DEF ExactInv, Inv, Shape
<1>2. Taking'
  BY DEF Taking
<1>3. ASSUME restore'.step = "commit"
      PROVE  /\ ExportAll(live["collections"])' = Restored(last.backup)'
             /\ live'["environments"] = Nothing
  <2>1. restore.step = "commit" /\ UNCHANGED live
    BY <1>3
  <2>2. ReplaceIsExact
    BY DEF ExactInv
  <2>3. ExportAll(live["collections"]) = Restored(last.backup) /\ live["environments"] = Nothing
    BY <1>1, <2>1, <2>2 DEF ReplaceIsExact
  <2>4. ExportAll(live["collections"])' = ExportAll(live["collections"])
        /\ Restored(last.backup)' = Restored(last.backup)
    BY <2>1 DEF Restored
  <2> QED BY <2>1, <2>3, <2>4
<1> QED BY <1>1, <1>2, <1>3, ExactGoesOn DEF Writing

\* A merge goes on.
LEMMA ExactMerge ==
  ASSUME Inv', restore'.job = "merge", last'.backup \in Backups, Taking'
  PROVE  ExactInv'
  BY DEF ExactInv, Inv, Shape, ReplaceIsExact

\* A replace clears and moves.
LEMMA ExactClear ==
  ASSUME Inv, ExactInv, Inv', restore.step = "clear", UNCHANGED <<live, last>>,
         restore' = NextArea(restore, "stage")
  PROVE  ExactInv'
<1>1. restore.job = "replace" /\ restore.left # {} /\ restore.left \subseteq Areas
      /\ DOMAIN restore = OpFields
  BY DEF Inv, Shape, Writing
<1>2. last.backup \in Backups /\ Waiting
  BY <1>1 DEF ExactInv
<1>3. /\ restore'.job = "replace" /\ restore'.pending = restore.pending
      /\ restore'.at = restore.at /\ restore'.manifest = restore.manifest
      /\ restore'.step \in {"clear", "stage"}
      /\ restore'.step = "stage" => restore'.left = Areas
  BY <1>1, NextAreaKeeps, ProceedMoves
<1>4. Waiting' /\ Taking'
  BY <1>2, <1>3 DEF Waiting, Taking
<1> QED BY <1>2, <1>3, <1>4, ExactGoesOn DEF Writing

LEMMA ExactStage == ASSUME Inv, ExactInv, Inv', Stage PROVE ExactInv'
<1>1. restore.job = "replace" /\ restore.left # {} /\ restore.left \subseteq Areas
      /\ DOMAIN restore = OpFields /\ restore.step = "stage" /\ UNCHANGED last
      /\ Turn \in restore.left /\ Turn \in Areas
  BY TurnIsLeft DEF Inv, Shape, Writing, Stage
<1>2. last.backup \in Backups /\ Waiting
  BY <1>1 DEF ExactInv
<1>3. PICK o : /\ o = restore \/ o = [restore EXCEPT !.moved = @ \cup {Turn}]
               /\ restore' = NextArea(o, "write")
  BY DEF Stage
<1>4. /\ DOMAIN o = OpFields /\ o.left = restore.left /\ o.job = "replace" /\ o.step = "stage"
      /\ o.pending = restore.pending /\ o.at = restore.at /\ o.manifest = restore.manifest
  BY <1>1, <1>3 DEF OpFields
<1>5. \A a \in Areas : live'[a] = IF a = Turn THEN Nothing ELSE live[a]
  BY <1>1 DEF Stage, Inv, Shape
<1>6. /\ restore'.job = "replace" /\ restore'.pending = restore.pending
      /\ restore'.at = restore.at /\ restore'.manifest = restore.manifest
      /\ \/ restore.left = {Turn} /\ restore'.step = "write"
         \/ restore'.left = restore.left \ {Turn} /\ restore'.step = "stage"
  BY <1>1, <1>3, <1>4, NextAreaKeeps, ProceedMoves
<1>7. \A a \in Areas \ (restore.left \ {Turn}) : live'[a] = Nothing
  BY <1>1, <1>2, <1>5 DEF Waiting
<1>8. CASE restore'.step = "stage"
  <2>1. Waiting' /\ Taking'
    BY <1>1, <1>2, <1>6, <1>7, <1>8 DEF Waiting, Taking
  <2> QED BY <1>1, <1>2, <1>6, <1>8, <2>1, ExactGoesOn DEF Writing
<1>9. CASE restore'.step = "write"
  <2>1. live'["environments"] = Nothing /\ Written' = Nothing /\ DOMAIN Written' = {}
    BY <1>6, <1>7, <1>9 DEF Areas, Written, Nothing
  <2>2. /\ restore'.pending = last.backup.collections /\ restore'.at = {}
        /\ restore'.manifest = last.backup.manifest
    BY <1>2, <1>6 DEF Waiting
  <2>3. ASSUME NEW e \in last.backup.collections PROVE Stands(e)'
    <3>1. /\ e \in restore'.pending /\ RequestsDone(e)' = {} /\ ~TreeDone(e)'
          /\ ~EnvironmentsDone(e)'
      BY <2>2 DEF RequestsDone, TreeDone, EnvironmentsDone
    <3> QED BY <2>1, <3>1 DEF Stands, Holds
  <2>4. Replacing'
    BY <1>1, <2>1, <2>2, <2>3 DEF Replacing
  <2>5. Taking'
    BY <1>9, <2>2 DEF Taking
  <2> QED BY <1>1, <1>2, <1>6, <1>9, <2>2, <2>4, <2>5, ExactGoesOn DEF Writing
<1> QED BY <1>6, <1>8, <1>9

\* Where a merge is in its backup, after each write.
LEMMA WritesTake ==
  ASSUME Inv, ExactInv, restore.job # "none",
         WriteManifest \/ WriteMetadata \/ WriteRequest \/ WriteTree \/ WriteEnvironments
  PROVE  Taking' /\ restore'.job = restore.job /\ UNCHANGED last /\ restore'.step \in Writing
<1>1. DOMAIN restore = OpFields /\ Taking
  BY DEF Inv, Shape, ExactInv
<1>2. CASE WriteManifest
  <2>1. restore' = [restore EXCEPT !.manifest = NoManifest] /\ restore.step = "write" /\ UNCHANGED last
    BY <1>2 DEF WriteManifest
  <2> QED BY <1>1, <2>1 DEF Taking, OpFields, Writing
<1>3. CASE WriteMetadata
  <2>1. PICK m \in restore.pending :
          restore' = [restore EXCEPT !.step = "requests", !.pending = @ \ {m}, !.at = {m},
                                     !.reqs = DOMAIN m.requests]
    BY <1>3 DEF WriteMetadata
  <2>2. restore'.step = "requests" /\ restore'.at = {m} /\ restore'.reqs = DOMAIN m.requests
        /\ restore'.job = restore.job
    BY <1>1, <2>1 DEF OpFields
  <2> QED BY <1>3, <2>2 DEF Taking, WriteMetadata, Writing
<1>4. CASE WriteRequest
  <2>1. PICK r : restore' = [restore EXCEPT !.reqs = @ \ {r}]
    BY <1>4 DEF WriteRequest
  <2>2. restore'.step = "requests" /\ restore'.at = restore.at /\ restore'.reqs = restore.reqs \ {r}
        /\ restore'.job = restore.job /\ restore.step = "requests" /\ UNCHANGED last
    BY <1>1, <1>4, <2>1 DEF OpFields, WriteRequest
  <2>3. /\ \E e \in restore.at : restore.at = {e}
        /\ \A e \in restore.at : restore.reqs \subseteq DOMAIN e.requests
    BY <1>1, <2>2 DEF Taking
  <2>4. restore'.step # "write" /\ restore'.step # "environments" /\ restore'.step \in Writing
    BY <2>2 DEF Writing
  <2> QED BY <2>2, <2>3, <2>4 DEF Taking
<1>5. CASE WriteTree
  <2>1. restore' = [restore EXCEPT !.step = "environments"] /\ restore.step = "requests"
        /\ restore.reqs = {} /\ UNCHANGED last
    BY <1>5 DEF WriteTree
  <2> QED BY <1>1, <2>1 DEF Taking, OpFields, Writing
<1>6. CASE WriteEnvironments
  <2>1. restore' = [restore EXCEPT !.step = "write", !.at = {}] /\ UNCHANGED last
    BY <1>6 DEF WriteEnvironments
  <2> QED BY <1>1, <2>1 DEF Taking, OpFields, Writing
<1> QED BY <1>2, <1>3, <1>4, <1>5, <1>6

LEMMA ExactWrites ==
  ASSUME Inv, ExactInv, Inv',
         WriteManifest \/ WriteMetadata \/ WriteRequest \/ WriteTree \/ WriteEnvironments
  PROVE  ExactInv'
<1>1. restore.job \in {"replace", "merge"} /\ restore.step \in Writing
  BY DEF Inv, Shape, WriteManifest, WriteMetadata, WriteRequest, WriteTree, WriteEnvironments, Writing
<1>2. Taking' /\ restore'.job = restore.job /\ UNCHANGED last /\ restore'.step \in Writing
      /\ last.backup \in Backups
  BY <1>1, WritesTake DEF ExactInv
<1>3. CASE restore.job = "merge"
  BY <1>2, <1>3, ExactMerge
<1>4. CASE restore.job = "replace"
  <2>1. /\ restore.pending \subseteq last.backup.collections
        /\ restore.at \subseteq last.backup.collections \ restore.pending
        /\ DOMAIN restore = OpFields
    BY <1>1, <1>4, ReplaceFacts
  <2>2. CASE WriteManifest
    <3>1. restore'.pending = restore.pending /\ restore'.at = restore.at
      BY <2>1, <2>2 DEF WriteManifest, OpFields
    <3>2. Replacing'
      BY <1>4, <2>2, ReplaceManifest
    <3> QED BY <1>2, <1>4, <2>1, <3>1, <3>2, ExactGoesOn DEF Writing
  <2>3. CASE WriteMetadata
    BY <1>2, <1>4, <2>3, ReplaceMetadata, ExactGoesOn DEF Writing
  <2>4. CASE WriteRequest
    BY <1>2, <1>4, <2>1, <2>4, ReplaceRequest, ExactGoesOn DEF Writing
  <2>5. CASE WriteTree
    BY <1>2, <1>4, <2>1, <2>5, ReplaceTree, ExactGoesOn DEF Writing
  <2>6. CASE WriteEnvironments
    BY <1>2, <1>4, <2>1, <2>6, ReplaceEnvironments, ExactGoesOn DEF Writing
  <2> QED BY <2>2, <2>3, <2>4, <2>5, <2>6
<1> QED BY <1>1, <1>3, <1>4

LEMMA ExactStep == ASSUME Inv, ExactInv, Inv', [RestoreNext]_restoreVars PROVE ExactInv'
<1>1. CASE \E b \in Backups : BeginReplace(b)
  <2>1. PICK b \in Backups : BeginRestore("replace", "clear", b, b.manifest, b.collections)
    BY <1>1 DEF BeginReplace
  <2>2. /\ restore'.job = "replace" /\ restore'.step = "clear" /\ restore'.pending = b.collections
        /\ restore'.at = {} /\ restore'.manifest = b.manifest
        /\ last' = [job |-> "replace", result |-> "running", backup |-> b]
    BY <2>1 DEF BeginRestore, NoRestore
  <2>3. Waiting' /\ Taking'
    BY <2>2 DEF Waiting, Taking
  <2>4. ReplaceIsExact'
    BY <2>2 DEF ReplaceIsExact
  <2> QED BY <2>2, <2>3, <2>4 DEF ExactInv, Writing
<1>2. CASE \E b \in Backups : \E slot \in Slots(b) : BeginMerge(b, slot)
  <2>1. PICK b \in Backups : \E m, todo : BeginRestore("merge", "write", b, m, todo)
    BY <1>2 DEF BeginMerge
  <2>2. /\ restore'.job = "merge" /\ restore'.step = "write" /\ restore'.at = {}
        /\ last'.backup = b
    BY <2>1 DEF BeginRestore, NoRestore
  <2>3. Taking'
    BY <2>2 DEF Taking
  <2> QED BY <2>2, <2>3, ExactMerge
<1>3. CASE ClearAside
  BY <1>3, ExactClear DEF ClearAside
<1>4. CASE Stage
  BY <1>4, ExactStage
<1>5. CASE WriteManifest \/ WriteMetadata \/ WriteRequest \/ WriteTree \/ WriteEnvironments
  BY <1>5, ExactWrites
<1>6. CASE AllWritten
  <2>1. CASE restore.job = "merge"
    BY <1>6, <2>1, ExactEnd DEF AllWritten
  <2>2. CASE restore.job # "merge"
    <3>1. restore.job = "replace" /\ DOMAIN restore = OpFields
      BY <1>6, <2>2 DEF AllWritten, Inv, Shape
    <3>2. /\ restore' = [restore EXCEPT !.step = "commit", !.left = Areas] /\ UNCHANGED <<last, live>>
      BY <1>6, <2>2 DEF AllWritten
    <3>3. restore'.job = "replace" /\ restore'.step = "commit"
      BY <3>1, <3>2 DEF OpFields
    <3>4. /\ ExportAll(live["collections"])' = Restored(last.backup)'
          /\ live'["environments"] = Nothing
      <4>1. /\ ExportAll(live["collections"]) = Restored(last.backup)
            /\ live["environments"] = Nothing
        BY <1>6, <3>1, AllWrittenIsExact
      <4>2. /\ ExportAll(live["collections"])' = ExportAll(live["collections"])
            /\ Restored(last.backup)' = Restored(last.backup)
        BY <3>2 DEF Restored
      <4> QED BY <3>2, <4>1, <4>2
    <3>5. Taking' /\ last.backup \in Backups
      BY <3>1, <3>3 DEF Taking, ExactInv
    <3> QED BY <3>2, <3>3, <3>4, <3>5, ExactGoesOn DEF Writing
  <2> QED BY <2>1, <2>2
<1>7. CASE Commit
  <2>1. restore.job = "replace" /\ restore.left # {} /\ restore.left \subseteq Areas
        /\ DOMAIN restore = OpFields /\ restore.step = "commit" /\ UNCHANGED live
    BY <1>7 DEF Commit, Inv, Shape, Writing
  <2>2. CASE restore.left = {Turn}
    BY <1>7, <2>1, <2>2, ExactEnd DEF Commit
  <2>3. CASE restore.left # {Turn}
    BY <1>7, <2>1, <2>3, ProceedMoves, ExactPast DEF Commit
  <2> QED BY <2>2, <2>3
<1>8. CASE DropPartial
  <2>1. restore.job = "replace" /\ restore.left # {} /\ restore.left \subseteq Areas
        /\ DOMAIN restore = OpFields /\ restore.step = "undo" /\ UNCHANGED last
        /\ restore' = NextArea(restore, "putback")
    BY <1>8 DEF DropPartial, Inv, Shape, Writing
  <2> QED BY <2>1, ProceedMoves, ExactPast
<1>9. CASE PutBack \/ PutBackFails
  <2>1. restore.job = "replace" /\ restore.left # {} /\ restore.left \subseteq Areas
        /\ DOMAIN restore = OpFields /\ restore.step = "putback" /\ EndPutBack
    BY <1>9 DEF PutBack, PutBackFails, Inv, Shape, Writing
  <2>2. CASE restore.left = {Turn}
    BY <2>1, <2>2, ExactEnd DEF EndPutBack
  <2>3. CASE restore.left # {Turn}
    BY <2>1, <2>3, ProceedMoves, ExactPast DEF EndPutBack
  <2> QED BY <2>2, <2>3
<1>10. CASE RestoreWriteFails
  <2>1. CASE restore.job = "merge"
    BY <1>10, <2>1, ExactEnd DEF RestoreWriteFails
  <2>2. CASE restore.job # "merge"
    <3>1. restore.job = "replace" /\ DOMAIN restore = OpFields
      BY <1>10, <2>2 DEF RestoreWriteFails, Inv, Shape
    <3>2. restore' = [restore EXCEPT !.step = "undo", !.left = Areas, !.at = {}] /\ UNCHANGED last
      BY <1>10, <2>2 DEF RestoreWriteFails
    <3>3. restore'.job = "replace" /\ restore'.step = "undo"
      BY <3>1, <3>2 DEF OpFields
    <3> QED BY <3>1, <3>2, <3>3, ExactPast
  <2> QED BY <2>1, <2>2
<1>11. CASE StageFails
  BY <1>11, ExactEnd DEF StageFails, Inv, Shape
<1>12. CASE LeavesFiles
  <2>1. /\ restore.job = "replace" /\ restore.left # {} /\ restore.left \subseteq Areas
        /\ DOMAIN restore = OpFields
    BY <1>12 DEF LeavesFiles, Inv, Shape, Writing
  <2>2. CASE restore.step = "clear"
    BY <1>12, <2>2, ExactClear DEF LeavesFiles
  <2>3. CASE restore.step = "commit" /\ restore.left = {Turn}
    <3>1. Finish("ok") /\ UNCHANGED live
      BY <1>12, <2>3 DEF LeavesFiles
    <3> QED BY <2>1, <2>3, <3>1, ExactEnd
  <2>4. CASE restore.step = "commit" /\ restore.left # {Turn}
    <3>1. restore' = NextArea(restore, "commit") /\ UNCHANGED <<last, live>>
      BY <1>12, <2>4 DEF LeavesFiles
    <3> QED BY <2>1, <2>4, <3>1, ProceedMoves, ExactPast
  <2>5. CASE restore.step = "undo"
    <3>1. restore' = NextArea(restore, "putback") /\ UNCHANGED last
      BY <1>12, <2>5 DEF LeavesFiles
    <3> QED BY <2>1, <2>5, <3>1, ProceedMoves, ExactPast
  <2> QED BY <1>12, <2>2, <2>3, <2>4, <2>5 DEF LeavesFiles
<1>13. CASE RestoreDies
  <2>1. CASE restore.step = "commit"
    BY <1>13, <2>1, ExactEnd DEF RestoreDies
  <2>2. CASE restore.step # "commit"
    BY <1>13, <2>2, ExactEnd DEF RestoreDies
  <2> QED BY <2>1, <2>2
<1>14. CASE UNCHANGED restoreVars
  <2>1. UNCHANGED <<live, restore, last>> /\ Written' = Written
    BY <1>14 DEF restoreVars, Written
  <2>2. \A e : /\ RequestsDone(e)' = RequestsDone(e) /\ TreeDone(e)' = TreeDone(e)
               /\ EnvironmentsDone(e)' = EnvironmentsDone(e) /\ Incoming(e)' = Incoming(e)
               /\ Stands(e)' = Stands(e)
    BY <2>1 DEF RequestsDone, TreeDone, EnvironmentsDone, Incoming, Stands, Holds
  <2>3. Replacing' = Replacing
    BY <2>1, <2>2 DEF Replacing, ReadOr
  <2>4. Waiting' = Waiting /\ Taking' = Taking
    BY <2>1 DEF Waiting, Taking
  <2>5. ReplaceIsExact' = ReplaceIsExact
    BY <2>1 DEF ReplaceIsExact, ExportAll, ExportCollection, Restored, ReadOr, RequestsIn, EnsureTreeHasRequests
  <2> QED BY <2>1, <2>3, <2>4, <2>5 DEF ExactInv
<1> QED BY <1>1, <1>2, <1>3, <1>4, <1>5, <1>6, <1>7, <1>8, <1>9, <1>10, <1>11, <1>12, <1>13,
           <1>14 DEF RestoreNext

-----------------------------------------------------------------------------
(* A merge only adds *)

LEMMA MergeInit == RestoreInit => MergeInv
  BY DEF RestoreInit, MergeInv, MergeOnlyAdds, NoRestore

\* Where what is listed goes is listed: in the slot of its name, or under its own id.
LEMMA SlotsAreListed ==
  ASSUME NEW b \in Backups, NEW slot \in Slots(b), b.manifest # NoManifest,
         NEW c \in DOMAIN b.manifest.names
  PROVE  ReadOr(slot, c, c) \in DOMAIN MergeManifest(b, slot).names
<1> DEFINE mine == Current.names
           theirs == b.manifest.names
           byName(x) == {k \in DOMAIN mine : mine[k] = theirs[x]}
           mapped == {x \in DOMAIN theirs \ DOMAIN mine : byName(x) # {}}
<1>1. slot \in [mapped -> DOMAIN mine]
  BY DEF Slots
<1>2. DOMAIN slot = mapped /\ \A x \in mapped : slot[x] \in DOMAIN mine
  BY <1>1
<1>3. CASE Current = NoManifest
  <2>1. DOMAIN mine = {}
    BY <1>3 DEF NoManifest, Nothing
  <2>2. mapped = {}
    BY <2>1
  <2>3. ReadOr(slot, c, c) = c /\ MergeManifest(b, slot) = b.manifest
    BY <1>2, <1>3, <2>2 DEF ReadOr, MergeManifest
  <2> QED BY <2>3
<1>4. CASE Current # NoManifest
  <2> DEFINE new == [x \in DOMAIN theirs \ DOMAIN slot |-> theirs[x]]
  <2>1. MergeManifest(b, slot).names = Override(mine, new)
    BY <1>4 DEF MergeManifest
  <2>2. DOMAIN Override(mine, new) = DOMAIN mine \cup (DOMAIN theirs \ DOMAIN slot)
    BY DEF Override
  <2>3. ReadOr(slot, c, c) \in DOMAIN mine \cup (DOMAIN theirs \ DOMAIN slot)
    BY <1>2 DEF ReadOr
  <2> QED BY <2>1, <2>2, <2>3
<1> QED BY <1>3, <1>4

\* A merge begins with everything listed.
LEMMA MergeBegins ==
  ASSUME Inv, NEW b \in Backups, NEW slot, BeginMerge(b, slot)
  PROVE  MergeInv'
<1> DEFINE todo == {[e EXCEPT !.id = ReadOr(slot, e.id, e.id)] : e \in Allowed(b)}
<1>1. /\ slot \in Slots(b) /\ BeginRestore("merge", "write", b, MergeManifest(b, slot), todo)
  BY DEF BeginMerge
<1> HIDE DEF todo
<1>2. /\ restore'.job = "merge" /\ restore'.step = "write" /\ restore'.pending = todo
      /\ restore'.at = {} /\ restore'.manifest = MergeManifest(b, slot)
      /\ last'.backup = b /\ live' = live /\ before' = live
  BY <1>1 DEF BeginRestore, NoRestore
<1>3. ASSUME b.manifest # NoManifest, NEW x \in todo
      PROVE  x.id \in DOMAIN MergeManifest(b, slot).names
  <2>1. PICK e \in Allowed(b) : x = [e EXCEPT !.id = ReadOr(slot, e.id, e.id)]
    BY <1>3 DEF todo
  <2>2. e \in b.collections /\ e.id \in DOMAIN b.manifest.names
    BY <1>3, <2>1 DEF Allowed
  <2>3. x.id = ReadOr(slot, e.id, e.id)
    BY <2>1, <2>2, BackupAssumption DEF BackupEntry
  <2> QED BY <1>1, <1>3, <2>2, <2>3, SlotsAreListed
<1>4. b.manifest # NoManifest => MergeListed'
  <2> SUFFICES ASSUME b.manifest # NoManifest, NEW x \in todo
               PROVE  /\ MergeManifest(b, slot) = NoManifest => x.id \in DOMAIN Current'.names
                      /\ MergeManifest(b, slot) # NoManifest => x.id \in DOMAIN MergeManifest(b, slot).names
    BY <1>2 DEF MergeListed
  <2>1. x.id \in DOMAIN MergeManifest(b, slot).names
    BY <1>3
  <2>2. MergeManifest(b, slot) # NoManifest
    BY <2>1 DEF NoManifest, Nothing
  <2> QED BY <2>1, <2>2
<1>5. MergeOnlyAdds'
  BY <1>2 DEF MergeOnlyAdds
<1> QED BY <1>2, <1>4, <1>5 DEF MergeInv

\* A write of a merge brings in nothing that is not listed and drops no environment.
LEMMA MergePut ==
  ASSUME Inv, MergeInv, restore.job = "merge", NEW p, NEW v, Put(p, v), UNCHANGED <<before, last>>,
         p # <<"manifest">>,
         \A c \in Colls : p = <<"metadata", c>> /\ last.backup.manifest # NoManifest
                            => c \in DOMAIN Current.names,
         \A c \in Colls : p = <<"environments", c>> =>
           DOMAIN ReadOr(Written, <<"environments", c>>, Nothing) \subseteq DOMAIN v
  PROVE  MergeOnlyAdds' /\ Current' = Current
<1>1. last.job = "merge" /\ MergeOnlyAdds
  BY DEF Inv, Shape, MergeInv
<1>2. Current' = Current
  BY Elsewhere DEF Current, ReadOr, Written
<1>3. ASSUME NEW c \in Colls, last.backup.manifest # NoManifest,
             <<"metadata", c>> \in DOMAIN Written', <<"metadata", c>> \notin DOMAIN before["collections"]
      PROVE  c \in DOMAIN Current'.names
  <2>1. CASE p = <<"metadata", c>>
    BY <1>2, <1>3, <2>1
  <2>2. CASE p # <<"metadata", c>>
    BY <1>1, <1>2, <1>3, <2>2, Elsewhere DEF MergeOnlyAdds, Written
  <2> QED BY <2>1, <2>2
<1>4. ASSUME NEW c \in Colls
      PROVE  DOMAIN ReadOr(before["collections"], <<"environments", c>>, Nothing)
               \subseteq DOMAIN ReadOr(Written', <<"environments", c>>, Nothing)
  <2>1. DOMAIN ReadOr(before["collections"], <<"environments", c>>, Nothing)
          \subseteq DOMAIN ReadOr(Written, <<"environments", c>>, Nothing)
    BY <1>1 DEF MergeOnlyAdds, Written
  <2>2. CASE p = <<"environments", c>>
    <3>1. ReadOr(Written', <<"environments", c>>, Nothing) = v
      <4>1. p \in DOMAIN Written' /\ Written'[p] = v
        BY PutWrites
      <4> QED BY <2>2, <4>1 DEF ReadOr
    <3> QED BY <2>1, <2>2, <3>1
  <2>3. CASE p # <<"environments", c>>
    <3>1. ReadOr(Written', <<"environments", c>>, Nothing) = ReadOr(Written, <<"environments", c>>, Nothing)
      BY <2>3, Elsewhere DEF ReadOr
    <3> QED BY <2>1, <3>1
  <2> QED BY <2>2, <2>3
<1> QED BY <1>2, <1>3, <1>4 DEF MergeOnlyAdds, Written

\* Steps of no merge, and the end of one, show what was there.
LEMMA MergeUnmoved ==
  ASSUME Inv, MergeInv, UNCHANGED <<live, before>>, last'.backup = last.backup, last'.job = last.job,
         restore'.job = "merge" => /\ restore'.pending = restore.pending /\ restore'.at = restore.at
                                   /\ restore'.manifest = restore.manifest
                                   /\ restore'.step = restore.step /\ restore.job = "merge"
  PROVE  MergeInv'
<1>1. Current' = Current
  BY DEF Current
<1>2. MergeOnlyAdds'
  BY <1>1 DEF MergeInv, MergeOnlyAdds
<1>3. restore'.job = "merge" => (MergeListed => MergeListed')
  BY <1>1 DEF MergeListed
<1> QED BY <1>2, <1>3 DEF MergeInv

\* A replace promises nothing of this.
LEMMA MergeElse ==
  ASSUME Inv, MergeInv, restore.job = "replace", last'.job = last.job, restore'.job # "merge"
  PROVE  MergeInv'
  BY DEF Inv, Shape, MergeInv, MergeOnlyAdds

\* A merge ends, however it ends.
LEMMA MergeEnd ==
  ASSUME Inv, MergeInv, NEW r, Finish(r), UNCHANGED <<live, before>>
  PROVE  MergeInv'
<1>1. restore'.job = "none" /\ last'.job = last.job /\ last'.backup = last.backup
  BY DEF Finish, Inv, Shape, NoRestore
<1> QED BY <1>1, MergeUnmoved

LEMMA MergeWrites ==
  ASSUME Inv, ExactInv, MergeInv, restore.job = "merge",
         WriteManifest \/ WriteMetadata \/ WriteRequest \/ WriteTree \/ WriteEnvironments
  PROVE  MergeInv'
<1>1. DOMAIN restore = OpFields /\ Taking
  BY DEF Inv, Shape, ExactInv
<1>2. /\ restore.manifest # NoManifest => restore.step = "write" /\ live = before
      /\ last.backup.manifest # NoManifest => MergeListed
      /\ last.job = "merge"
  BY DEF MergeInv, Inv, Shape
<1>3. CASE WriteManifest
  <2>1. /\ Put(<<"manifest">>, restore.manifest) /\ UNCHANGED <<before, last>>
        /\ restore' = [restore EXCEPT !.manifest = NoManifest] /\ live = before
        /\ restore.manifest # NoManifest
    BY <1>2, <1>3 DEF WriteManifest
  <2>2. /\ restore'.manifest = NoManifest /\ restore'.pending = restore.pending
        /\ restore'.at = restore.at /\ restore'.job = "merge"
    BY <1>1, <2>1 DEF OpFields
  <2>3. Current' = restore.manifest
    BY <2>1, PutWrites DEF Current, ReadOr, Written
  <2>4. last.backup.manifest # NoManifest => MergeListed'
    BY <1>2, <2>1, <2>2, <2>3 DEF MergeListed
  <2>5. ASSUME NEW c \in Colls
        PROVE  /\ <<"metadata", c>> \in DOMAIN Written' => <<"metadata", c>> \in DOMAIN before["collections"]
               /\ ReadOr(Written', <<"environments", c>>, Nothing)
                  = ReadOr(before["collections"], <<"environments", c>>, Nothing)
    <3>1. <<"metadata", c>> # <<"manifest">> /\ <<"environments", c>> # <<"manifest">>
      BY PathsDiffer
    <3>2. Written = before["collections"]
      BY <2>1 DEF Written
    <3> QED BY <2>1, <3>1, <3>2, Elsewhere DEF ReadOr
  <2>6. MergeOnlyAdds'
    BY <2>1, <2>5 DEF MergeOnlyAdds, Written
  <2> QED BY <2>1, <2>2, <2>4, <2>6 DEF MergeInv
<1>4. CASE WriteMetadata
  <2>1. PICK m \in restore.pending :
          /\ Put(<<"metadata", m.id>>, m.metadata)
          /\ restore' = [restore EXCEPT !.step = "requests", !.pending = @ \ {m}, !.at = {m},
                                        !.reqs = DOMAIN m.requests]
    BY <1>4 DEF WriteMetadata
  <2>2. restore.step = "write" /\ restore.manifest = NoManifest /\ UNCHANGED <<before, last>>
        /\ restore.at = {}
    BY <1>1, <1>4 DEF WriteMetadata, Taking
  <2>3. /\ restore'.manifest = NoManifest /\ restore'.pending = restore.pending \ {m}
        /\ restore'.at = {m} /\ restore'.job = "merge"
    BY <1>1, <2>1, <2>2 DEF OpFields
  <2>4. last.backup.manifest # NoManifest => m.id \in DOMAIN Current.names
    BY <1>2, <2>1, <2>2 DEF MergeListed
  <2>5. /\ <<"metadata", m.id>> # <<"manifest">>
        /\ \A c \in Colls : <<"metadata", m.id>> # <<"environments", c>>
        /\ \A c \in Colls : <<"metadata", m.id>> = <<"metadata", c>> => m.id = c
    BY PathsDiffer
  <2>6. MergeOnlyAdds' /\ Current' = Current
    BY <2>1, <2>2, <2>4, <2>5, MergePut
  <2>7. last.backup.manifest # NoManifest => MergeListed'
    BY <1>2, <2>1, <2>2, <2>3, <2>6 DEF MergeListed
  <2> QED BY <2>2, <2>3, <2>6, <2>7 DEF MergeInv
<1>5. CASE WriteRequest
  <2>1. PICK m \in restore.at, r \in restore.reqs :
          /\ Put(<<"request", m.id, r>>, m.requests[r])
          /\ restore' = [restore EXCEPT !.reqs = @ \ {r}]
    BY <1>5 DEF WriteRequest
  <2>2. restore.step = "requests" /\ restore.manifest = NoManifest /\ UNCHANGED <<before, last>>
    BY <1>2, <1>5 DEF WriteRequest
  <2>3. /\ restore'.manifest = NoManifest /\ restore'.pending = restore.pending
        /\ restore'.at = restore.at /\ restore'.job = "merge"
    BY <1>1, <2>1, <2>2 DEF OpFields
  <2>5. /\ <<"request", m.id, r>> # <<"manifest">>
        /\ \A c \in Colls : <<"request", m.id, r>> # <<"environments", c>>
        /\ \A c \in Colls : <<"request", m.id, r>> # <<"metadata", c>>
    BY PathsDiffer
  <2>6. MergeOnlyAdds' /\ Current' = Current
    BY <2>1, <2>2, <2>5, MergePut
  <2>7. last.backup.manifest # NoManifest => MergeListed'
    BY <1>2, <2>2, <2>3, <2>6 DEF MergeListed
  <2> QED BY <2>2, <2>3, <2>6, <2>7 DEF MergeInv
<1>6. CASE WriteTree
  <2>1. PICK m \in restore.at :
          /\ Put(<<"tree", m.id>>, EnsureTreeHasRequests(m.tree, DOMAIN m.requests))
          /\ restore' = [restore EXCEPT !.step = "environments"]
    BY <1>6 DEF WriteTree
  <2>2. restore.step = "requests" /\ restore.manifest = NoManifest /\ UNCHANGED <<before, last>>
    BY <1>2, <1>6 DEF WriteTree
  <2>3. /\ restore'.manifest = NoManifest /\ restore'.pending = restore.pending
        /\ restore'.at = restore.at /\ restore'.job = "merge"
    BY <1>1, <2>1, <2>2 DEF OpFields
  <2>5. /\ <<"tree", m.id>> # <<"manifest">>
        /\ \A c \in Colls : <<"tree", m.id>> # <<"environments", c>>
        /\ \A c \in Colls : <<"tree", m.id>> # <<"metadata", c>>
    BY PathsDiffer
  <2>6. MergeOnlyAdds' /\ Current' = Current
    BY <2>1, <2>2, <2>5, MergePut
  <2>7. last.backup.manifest # NoManifest => MergeListed'
    BY <1>2, <2>2, <2>3, <2>6 DEF MergeListed
  <2> QED BY <2>2, <2>3, <2>6, <2>7 DEF MergeInv
<1>7. CASE WriteEnvironments
  <2>1. PICK m \in restore.at :
          IF m.environments = Nothing /\ last.backup.environments = Nothing
          THEN UNCHANGED live
          ELSE Put(<<"environments", m.id>>, MergedEnvironments(m))
    BY <1>7 DEF WriteEnvironments
  <2>2. /\ restore.step = "environments" /\ restore.manifest = NoManifest /\ UNCHANGED <<before, last>>
        /\ restore' = [restore EXCEPT !.step = "write", !.at = {}]
    BY <1>2, <1>7 DEF WriteEnvironments
  <2>3. /\ restore'.manifest = NoManifest /\ restore'.pending = restore.pending
        /\ restore'.at = {} /\ restore'.job = "merge"
    BY <1>1, <2>2 DEF OpFields
  <2>5. /\ <<"environments", m.id>> # <<"manifest">>
        /\ \A c \in Colls : <<"environments", m.id>> # <<"metadata", c>>
        /\ \A c \in Colls : <<"environments", m.id>> = <<"environments", c>> => m.id = c
    BY PathsDiffer
  <2>6. MergeOnlyAdds' /\ Current' = Current
    <3>1. CASE UNCHANGED live
      BY <2>2, <3>1 DEF MergeInv, MergeOnlyAdds, Current
    <3>2. CASE Put(<<"environments", m.id>>, MergedEnvironments(m))
      <4>1. DOMAIN ReadOr(Written, <<"environments", m.id>>, Nothing) \subseteq DOMAIN MergedEnvironments(m)
        BY DEF MergedEnvironments, Override, Written
      <4> QED BY <2>2, <2>5, <3>2, <4>1, MergePut
    <3> QED BY <2>1, <3>1, <3>2
  <2>7. last.backup.manifest # NoManifest => MergeListed'
    BY <1>2, <2>2, <2>3, <2>6 DEF MergeListed
  <2> QED BY <2>2, <2>3, <2>6, <2>7 DEF MergeInv
<1> QED BY <1>3, <1>4, <1>5, <1>6, <1>7

LEMMA MergeStep == ASSUME Inv, ExactInv, MergeInv, Inv', [RestoreNext]_restoreVars PROVE MergeInv'
<1>1. CASE \E b \in Backups : BeginReplace(b)
  <2>1. restore'.job = "replace" /\ last'.job = "replace"
    BY <1>1 DEF BeginReplace, BeginRestore, NoRestore
  <2> QED BY <2>1 DEF MergeInv, MergeOnlyAdds
<1>2. CASE \E b \in Backups : \E slot \in Slots(b) : BeginMerge(b, slot)
  BY <1>2, MergeBegins
<1>3. CASE WriteManifest \/ WriteMetadata \/ WriteRequest \/ WriteTree \/ WriteEnvironments
  <2>1. CASE restore.job = "merge"
    BY <1>3, <2>1, MergeWrites
  <2>2. CASE restore.job # "merge"
    <3>1. restore.job = "replace" /\ restore.job # "none"
      BY <1>3, <2>2 DEF Inv, Shape, WriteManifest, WriteMetadata, WriteRequest, WriteTree, WriteEnvironments
    <3> QED BY <1>3, <3>1, WritesTake, MergeElse
  <2> QED BY <2>1, <2>2
<1>4. CASE UNCHANGED restoreVars
  BY <1>4, MergeUnmoved DEF restoreVars
<1>5. CASE (AllWritten /\ restore.job = "merge") \/ (RestoreWriteFails /\ restore.job = "merge")
           \/ StageFails \/ RestoreDies
  BY <1>5, MergeEnd DEF AllWritten, RestoreWriteFails, StageFails, RestoreDies
<1>6. CASE ClearAside \/ Stage \/ (AllWritten /\ restore.job # "merge") \/ Commit \/ DropPartial
           \/ PutBack \/ PutBackFails \/ LeavesFiles \/ (RestoreWriteFails /\ restore.job # "merge")
  <2>1. restore.job = "replace"
    BY <1>6 DEF Inv, Shape, Writing, ClearAside, Stage, AllWritten, Commit, DropPartial, PutBack,
                PutBackFails, LeavesFiles, RestoreWriteFails
  <2>2. last'.job = last.job
    BY <1>6 DEF Inv, Shape, Finish, ClearAside, Stage, AllWritten, Commit, DropPartial, PutBack,
                PutBackFails, LeavesFiles, RestoreWriteFails, EndPutBack
  <2>3. last.job = "replace" /\ restore'.job # "merge"
    BY <2>1, <2>2 DEF Inv, Shape
  <2> QED BY <2>1, <2>2, <2>3, MergeElse
<1> QED BY <1>1, <1>2, <1>3, <1>4, <1>5, <1>6 DEF RestoreNext

-----------------------------------------------------------------------------
(* No tree without its requests *)

\* An entry may be written: its tree names requests it brings.
Sound(e) == /\ DOMAIN e.requests \subseteq Reqs
            /\ EnsureTreeHasRequests(e.tree, DOMAIN e.requests) \subseteq DOMAIN e.requests

LEMMA BackupsAreSound ==
  ASSUME NothingDangles, NEW b \in Backups, NEW e \in b.collections, NEW i
  PROVE  Sound(e) /\ Sound([e EXCEPT !.id = i])
<1>1. DOMAIN e.requests \subseteq Reqs /\ e.tree \subseteq DOMAIN e.requests
  BY BackupFacts DEF NothingDangles
<1>2. DOMAIN e = {"id", "metadata", "requests", "tree", "environments"}
  <2>1. BackupEntry(e)
    BY BackupFacts
  <2> QED BY <2>1 DEF BackupEntry
<1>3. [e EXCEPT !.id = i].requests = e.requests /\ [e EXCEPT !.id = i].tree = e.tree
  BY <1>2
<1> QED BY <1>1, <1>3 DEF Sound, EnsureTreeHasRequests

LEMMA WholeInit == NothingDangles /\ RestoreInit => WholeInv
<1> SUFFICES ASSUME NothingDangles, RestoreInit PROVE WholeInv
  OBVIOUS
<1>1. live \in Workspaces /\ Whole(Written)
  BY DEF NothingDangles, RestoreInit, Written
<1>2. Whole(aside["collections"])
  BY DEF RestoreInit, Whole, ReadOr, Nothing, Areas
<1> QED BY <1>1, <1>2 DEF RestoreInit, WholeInv, NoRestore

\* A write takes no request away, and a tree whose requests are there leaves the directory whole.
LEMMA WholePut ==
  ASSUME Inv, NEW p, NEW v, Put(p, v)
  PROVE  /\ \A c : RequestsIn(Written, c) \subseteq RequestsIn(Written', c)
         /\ (/\ Whole(Written)
             /\ \A c \in Colls : p = <<"tree", c>> => v \subseteq RequestsIn(Written, c))
              => Whole(Written')
<1>1. \A c : RequestsIn(Written, c) \subseteq RequestsIn(Written', c)
  BY PutWrites DEF RequestsIn
<1>2. ASSUME Whole(Written), \A c \in Colls : p = <<"tree", c>> => v \subseteq RequestsIn(Written, c),
             NEW c \in Colls
      PROVE  ReadOr(Written', <<"tree", c>>, {}) \subseteq RequestsIn(Written', c)
  <2>1. ReadOr(Written, <<"tree", c>>, {}) \subseteq RequestsIn(Written, c)
    BY <1>2 DEF Whole
  <2>2. CASE p = <<"tree", c>>
    <3>1. p \in DOMAIN Written' /\ Written'[p] = v
      BY PutWrites
    <3>2. ReadOr(Written', <<"tree", c>>, {}) = v
      BY <2>2, <3>1 DEF ReadOr
    <3> QED BY <1>1, <1>2, <2>2, <3>2
  <2>3. CASE p # <<"tree", c>>
    <3>1. ReadOr(Written', <<"tree", c>>, {}) = ReadOr(Written, <<"tree", c>>, {})
      BY <2>3, Elsewhere DEF ReadOr
    <3> QED BY <1>1, <2>1, <3>1
  <2> QED BY <2>2, <2>3
<1> QED BY <1>1, <1>2 DEF Whole

\* Steps that write nothing.
LEMMA WholeElse ==
  ASSUME WholeInv, restore'.pending \cup restore'.at \subseteq restore.pending \cup restore.at,
         restore'.step # "requests",
         ~mishaps'.moves => /\ ~mishaps.moves
                            /\ Whole(Written) /\ Whole(aside["collections"])
                                 => Whole(Written') /\ Whole(aside'["collections"])
  PROVE  WholeInv'
  BY DEF WholeInv

\* The directories of a workspace are moved, removed and put back whole.
LEMMA WholeMoves ==
  ASSUME Inv, Inv', WholeInv, NEW a \in Areas,
         \/ live' = [live EXCEPT ![a] = Nothing] /\ UNCHANGED aside
         \/ aside' = [aside EXCEPT ![a] = Nothing] /\ UNCHANGED live
         \/ live' = [live EXCEPT ![a] = Nothing] /\ aside' = [aside EXCEPT ![a] = live[a]]
         \/ live' = [live EXCEPT ![a] = aside[a]] /\ aside' = [aside EXCEPT ![a] = Nothing]
         \/ UNCHANGED <<live, aside>>
  PROVE  Whole(Written) /\ Whole(aside["collections"])
           => Whole(Written') /\ Whole(aside'["collections"])
<1>1. Whole(Nothing)
  BY DEF Whole, ReadOr, Nothing
<1>2. "collections" \in Areas /\ DOMAIN live = Areas /\ DOMAIN aside = Areas
  BY DEF Inv, Shape, Areas
<1>3. /\ Written' \in {Written, Nothing, aside["collections"]}
      /\ aside'["collections"] \in {Written, Nothing, aside["collections"]}
  BY <1>2 DEF Written
<1> QED BY <1>1, <1>3

LEMMA WholeWrites ==
  ASSUME Inv, ExactInv, WholeInv, restore.job # "none",
         WriteManifest \/ WriteMetadata \/ WriteRequest \/ WriteTree \/ WriteEnvironments
  PROVE  WholeInv'
<1>1. /\ DOMAIN restore = OpFields /\ Taking /\ UNCHANGED <<aside, mishaps>>
      /\ \A e \in restore.pending \cup restore.at : Sound(e)
  BY DEF Inv, Shape, ExactInv, WholeInv, Sound, WriteManifest, WriteMetadata, WriteRequest, WriteTree,
         WriteEnvironments
<1>2. CASE WriteManifest
  <2>1. Put(<<"manifest">>, restore.manifest) /\ restore.step = "write"
        /\ restore' = [restore EXCEPT !.manifest = NoManifest]
    BY <1>2 DEF WriteManifest
  <2>2. restore'.pending = restore.pending /\ restore'.at = restore.at /\ restore'.step = "write"
    BY <1>1, <2>1 DEF OpFields
  <2>3. \A c \in Colls : <<"manifest">> # <<"tree", c>>
    BY PathsDiffer
  <2>4. Whole(Written) => Whole(Written')
    BY <2>1, <2>3, WholePut
  <2> QED BY <1>1, <2>2, <2>4, WholeElse
<1>3. CASE WriteMetadata
  <2>1. PICK m \in restore.pending :
          /\ Put(<<"metadata", m.id>>, m.metadata)
          /\ restore' = [restore EXCEPT !.step = "requests", !.pending = @ \ {m}, !.at = {m},
                                        !.reqs = DOMAIN m.requests]
    BY <1>3 DEF WriteMetadata
  <2>2. /\ restore'.pending = restore.pending \ {m} /\ restore'.at = {m}
        /\ restore'.reqs = DOMAIN m.requests
    BY <1>1, <2>1 DEF OpFields
  <2>3. \A c \in Colls : <<"metadata", m.id>> # <<"tree", c>>
    BY PathsDiffer
  <2>4. Whole(Written) => Whole(Written')
    BY <2>1, <2>3, WholePut
  <2>5. \A e \in restore'.pending \cup restore'.at : Sound(e)
    BY <1>1, <2>1, <2>2
  <2>6. \A e \in restore'.at : DOMAIN e.requests \ restore'.reqs \subseteq RequestsIn(Written', e.id)
    BY <2>2
  <2> QED BY <1>1, <2>4, <2>5, <2>6 DEF WholeInv, Sound
<1>4. CASE WriteRequest
  <2>1. PICK m \in restore.at, r \in restore.reqs :
          /\ Put(<<"request", m.id, r>>, m.requests[r])
          /\ restore' = [restore EXCEPT !.reqs = @ \ {r}]
    BY <1>4 DEF WriteRequest
  <2>2. /\ restore'.pending = restore.pending /\ restore'.at = restore.at
        /\ restore'.reqs = restore.reqs \ {r} /\ restore.step = "requests"
    BY <1>1, <1>4, <2>1 DEF OpFields, WriteRequest
  <2>3. \A c \in Colls : <<"request", m.id, r>> # <<"tree", c>>
    BY PathsDiffer
  <2>4. Whole(Written) => Whole(Written')
    BY <2>1, <2>3, WholePut
  <2>5. /\ restore.at = {m} /\ r \in Reqs
        /\ DOMAIN m.requests \ restore.reqs \subseteq RequestsIn(Written, m.id)
    BY <1>1, <2>1, <2>2 DEF Taking, WholeInv, Sound
  <2>6. r \in RequestsIn(Written', m.id)
    <3>1. DOMAIN Written' = DOMAIN Written \cup {<<"request", m.id, r>>}
      BY <2>1, PutWrites
    <3> QED BY <2>5, <3>1 DEF RequestsIn
  <2>7. DOMAIN m.requests \ restore'.reqs \subseteq RequestsIn(Written', m.id)
    <3>1. RequestsIn(Written, m.id) \subseteq RequestsIn(Written', m.id)
      BY <2>1, WholePut
    <3> QED BY <2>2, <2>5, <2>6, <3>1
  <2> QED BY <1>1, <2>2, <2>4, <2>5, <2>7 DEF WholeInv, Sound
<1>5. CASE WriteTree
  <2>1. PICK m \in restore.at :
          /\ Put(<<"tree", m.id>>, EnsureTreeHasRequests(m.tree, DOMAIN m.requests))
          /\ restore' = [restore EXCEPT !.step = "environments"]
    BY <1>5 DEF WriteTree
  <2>2. /\ restore'.pending = restore.pending /\ restore'.at = restore.at
        /\ restore'.step = "environments" /\ restore.step = "requests" /\ restore.reqs = {}
    BY <1>1, <1>5, <2>1 DEF OpFields, WriteTree
  <2>3. DOMAIN m.requests \subseteq RequestsIn(Written, m.id)
    BY <2>1, <2>2 DEF WholeInv
  <2>4. \A c \in Colls : <<"tree", m.id>> = <<"tree", c>> =>
          EnsureTreeHasRequests(m.tree, DOMAIN m.requests) \subseteq RequestsIn(Written, c)
    BY <1>1, <2>1, <2>3, PathsDiffer DEF Sound
  <2>5. Whole(Written) => Whole(Written')
    BY <2>1, <2>4, WholePut
  <2> QED BY <1>1, <2>2, <2>5, WholeElse
<1>6. CASE WriteEnvironments
  <2>1. PICK m \in restore.at :
          IF m.environments = Nothing /\ last.backup.environments = Nothing
          THEN UNCHANGED live
          ELSE Put(<<"environments", m.id>>, MergedEnvironments(m))
    BY <1>6 DEF WriteEnvironments
  <2>2. restore' = [restore EXCEPT !.step = "write", !.at = {}]
    BY <1>6 DEF WriteEnvironments
  <2>3. restore'.pending = restore.pending /\ restore'.at = {} /\ restore'.step = "write"
    BY <1>1, <2>2 DEF OpFields
  <2>4. Whole(Written) => Whole(Written')
    <3>1. CASE UNCHANGED live
      BY <3>1 DEF Written
    <3>2. CASE Put(<<"environments", m.id>>, MergedEnvironments(m))
      <4>1. \A c \in Colls : <<"environments", m.id>> # <<"tree", c>>
        BY PathsDiffer
      <4> QED BY <3>2, <4>1, WholePut
    <3> QED BY <2>1, <3>1, <3>2
  <2> QED BY <1>1, <2>3, <2>4, WholeElse
<1> QED BY <1>2, <1>3, <1>4, <1>5, <1>6

LEMMA WholeStep ==
  ASSUME NothingDangles, Inv, Inv', ExactInv, WholeInv, [RestoreNext]_restoreVars
  PROVE  WholeInv'
<1>1. CASE (\E b \in Backups : BeginReplace(b)) \/ (\E b \in Backups : \E slot \in Slots(b) : BeginMerge(b, slot))
  <2>1. /\ restore'.at = {} /\ restore'.step # "requests" /\ UNCHANGED <<live, aside, mishaps>>
    BY <1>1 DEF BeginReplace, BeginMerge, BeginRestore, NoRestore
  <2>2. \A e \in restore'.pending : Sound(e)
    <3>1. CASE \E b \in Backups : BeginReplace(b)
      <4>1. PICK b \in Backups : restore'.pending = b.collections
        BY <3>1 DEF BeginReplace, BeginRestore, NoRestore
      <4> QED BY <4>1, BackupsAreSound
    <3>2. CASE \E b \in Backups : \E slot \in Slots(b) : BeginMerge(b, slot)
      <4>1. PICK b \in Backups : \E slot \in Slots(b) : BeginMerge(b, slot)
        BY <3>2
      <4>2. PICK slot \in Slots(b) : BeginMerge(b, slot)
        BY <4>1
      <4>3. restore'.pending = {[e EXCEPT !.id = ReadOr(slot, e.id, e.id)] : e \in Allowed(b)}
        BY <4>2 DEF BeginMerge, BeginRestore, NoRestore
      <4>4. Allowed(b) \subseteq b.collections
        BY DEF Allowed
      <4> QED BY <4>3, <4>4, BackupsAreSound
    <3> QED BY <1>1, <3>1, <3>2
  <2>3. Written' = Written
    BY <2>1 DEF Written
  <2> QED BY <2>1, <2>2, <2>3 DEF WholeInv, Sound
<1>2. CASE WriteManifest \/ WriteMetadata \/ WriteRequest \/ WriteTree \/ WriteEnvironments
  <2>1. restore.job # "none"
    BY <1>2 DEF Inv, Shape, WriteManifest, WriteMetadata, WriteRequest, WriteTree, WriteEnvironments
  <2> QED BY <1>2, <2>1, WholeWrites
<1>3. CASE UNCHANGED restoreVars
  BY <1>3 DEF restoreVars, WholeInv, Written, Whole, ReadOr, RequestsIn
<1>4. CASE LeavesFiles
  <2>1. mishaps'.moves
    BY <1>4, MovesAreNoted DEF LeavesFiles
  <2>2. restore.job = "replace" /\ DOMAIN restore = OpFields
    BY <1>4 DEF LeavesFiles, Inv, Shape, Writing
  <2>3. restore' = NoRestore \/ \E next \in {"stage", "commit", "putback"} : restore' = NextArea(restore, next)
    BY <1>4 DEF LeavesFiles, Finish
  <2>4. /\ restore'.pending \cup restore'.at \subseteq restore.pending \cup restore.at
        /\ restore'.step # "requests"
    <3>1. CASE restore' = NoRestore
      BY <3>1 DEF NoRestore
    <3>2. CASE \E next \in {"stage", "commit", "putback"} : restore' = NextArea(restore, next)
      BY <1>4, <2>2, <3>2, NextAreaKeeps DEF NextArea, OpFields, LeavesFiles
    <3> QED BY <2>3, <3>1, <3>2
  <2> QED BY <2>1, <2>4, WholeElse
<1>5. CASE ClearAside \/ Stage \/ AllWritten \/ Commit \/ DropPartial \/ PutBack \/ PutBackFails
           \/ RestoreWriteFails \/ StageFails \/ RestoreDies
  <2>1. restore.job # "none" /\ DOMAIN restore = OpFields /\ restore.left # {} /\ restore.left \subseteq Areas
        /\ Turn \in Areas
    BY <1>5, TurnIsLeft DEF Inv, Shape, ClearAside, Stage, AllWritten, Commit, DropPartial, PutBack, PutBackFails,
                RestoreWriteFails, StageFails, RestoreDies
  <2>2. \/ restore' = NoRestore
        \/ \E o, next : /\ o = restore \/ o = [restore EXCEPT !.moved = @ \cup {Turn}]
                        /\ restore.step # "requests" /\ next # "requests"
                        /\ restore' = NextArea(o, next)
        \/ restore' = [restore EXCEPT !.step = "commit", !.left = Areas]
        \/ restore' = [restore EXCEPT !.step = "undo", !.left = Areas, !.at = {}]
    BY <1>5 DEF ClearAside, Stage, AllWritten, Commit, DropPartial, PutBack, PutBackFails,
                RestoreWriteFails, StageFails, RestoreDies, Finish, EndPutBack
  <2>3. /\ restore'.pending \cup restore'.at \subseteq restore.pending \cup restore.at
        /\ restore'.step # "requests"
    <3>1. CASE restore' = NoRestore
      BY <3>1 DEF NoRestore
    <3>2. ASSUME NEW o, NEW next, o = restore \/ o = [restore EXCEPT !.moved = @ \cup {Turn}],
                 restore.step # "requests", next # "requests", restore' = NextArea(o, next)
          PROVE  /\ restore'.pending \cup restore'.at \subseteq restore.pending \cup restore.at
                 /\ restore'.step # "requests"
      <4>1. DOMAIN o = OpFields /\ o.pending = restore.pending /\ o.at = restore.at /\ o.step = restore.step
        BY <2>1, <3>2 DEF OpFields
      <4>2. restore'.pending = o.pending /\ restore'.at = o.at /\ restore'.step \in {o.step, next}
        BY <3>2, <4>1, NextAreaKeeps DEF NextArea, OpFields
      <4> QED BY <3>2, <4>1, <4>2
    <3>3. CASE restore' = [restore EXCEPT !.step = "commit", !.left = Areas]
      BY <2>1, <3>3 DEF OpFields
    <3>4. CASE restore' = [restore EXCEPT !.step = "undo", !.left = Areas, !.at = {}]
      BY <2>1, <3>4 DEF OpFields
    <3> QED BY <2>2, <3>1, <3>2, <3>3, <3>4
  <2>4. \/ live' = [live EXCEPT ![Turn] = Nothing] /\ UNCHANGED aside
        \/ aside' = [aside EXCEPT ![Turn] = Nothing] /\ UNCHANGED live
        \/ live' = [live EXCEPT ![Turn] = Nothing] /\ aside' = [aside EXCEPT ![Turn] = live[Turn]]
        \/ live' = [live EXCEPT ![Turn] = aside[Turn]] /\ aside' = [aside EXCEPT ![Turn] = Nothing]
        \/ UNCHANGED <<live, aside>>
    BY <1>5 DEF ClearAside, Stage, AllWritten, Commit, DropPartial, PutBack, PutBackFails,
                RestoreWriteFails, StageFails, RestoreDies
  <2>5. ~mishaps'.moves => ~mishaps.moves
    BY MovesAreRemembered
  <2>6. Whole(Written) /\ Whole(aside["collections"]) => Whole(Written') /\ Whole(aside'["collections"])
    BY <2>1, <2>4, WholeMoves
  <2> QED BY <2>3, <2>5, <2>6, WholeElse
<1> QED BY <1>1, <1>2, <1>3, <1>4, <1>5 DEF RestoreNext

\* A replace that succeeded exports to its very backup, with nothing of the workspace before it; a
\* merge, however it ends, brings in nothing that is not listed and drops no environment.
THEOREM RestoresBringTheBackup == RestoreSpec => [](ReplaceIsExact /\ MergeOnlyAdds)
<1> DEFINE I == Inv /\ ExactInv /\ MergeInv
<1>1. RestoreInit => I
  BY InitInv, ExactInit, MergeInit
<1>2. I /\ [RestoreNext]_restoreVars => I'
  BY NextInv, ExactStep, MergeStep
<1>3. I => ReplaceIsExact /\ MergeOnlyAdds
  BY DEF ExactInv, MergeInv
<1> QED BY <1>1, <1>2, <1>3, PTL DEF RestoreSpec

\* If no tree of a workspace or a backup refers to a request that is not there, no restore shows such
\* a tree on its way either, whatever write fails and wherever the process dies: the requests are
\* written before their tree.
THEOREM RestoresNeverDangle == NothingDangles => (RestoreSpec => []RestoresAreExact)
<1> DEFINE I == NothingDangles /\ Inv /\ ExactInv /\ WholeInv
<1>1. NothingDangles /\ RestoreInit => I
  BY InitInv, ExactInit, WholeInit
<1>2. I /\ [RestoreNext]_restoreVars => I'
  <2> SUFFICES ASSUME I, [RestoreNext]_restoreVars PROVE I'
    OBVIOUS
  <2>1. Inv'
    BY NextInv
  <2>2. ExactInv'
    BY <2>1, ExactStep
  <2>3. WholeInv'
    BY <2>1, WholeStep
  <2>4. NothingDangles'
    BY DEF NothingDangles, Whole, ReadOr, RequestsIn
  <2> QED BY <2>1, <2>2, <2>3, <2>4
<1>3. I => TreeNeverDangles
  BY DEF WholeInv, Whole, Written, TreeNeverDangles
<1>4. ReplaceIsExact /\ MergeOnlyAdds /\ TreeNeverDangles => RestoresAreExact
  BY DEF RestoresAreExact
<1> QED BY <1>1, <1>2, <1>3, <1>4, RestoresBringTheBackup, PTL DEF RestoreSpec

-----------------------------------------------------------------------------
(* The types of a restore *)

\* What is to be written has its type.
EntryOK(e) ==
  /\ e.id \in Colls /\ e.metadata \in Versions /\ e.requests \in Partial(Reqs, Versions)
  /\ e.tree \subseteq Reqs /\ e.environments \in Partial(Envs, Versions)
Counted == restores \in 0..MaxRestores /\ mishaps \in [n : 0..MaxRestoreFaults, moves : BOOLEAN]
TypedInv ==
  /\ \A e \in restore.pending \cup restore.at : EntryOK(e)
  /\ restore.manifest \in Manifest \cup {NoManifest}
  /\ \A a \in Areas : Directory(live[a]) /\ Directory(aside[a]) /\ Directory(before[a])
  /\ restore.moved \subseteq Areas
  /\ last.job \in {"none", "replace", "merge"}
  /\ last.result \in {"none", "running", "ok", "failed", "crashed"}
  /\ Counted

LEMMA PartialFacts ==
  ASSUME NEW S, NEW T, NEW f \in Partial(S, T)
  PROVE  DOMAIN f \subseteq S /\ (\A x \in DOMAIN f : f[x] \in T) /\ f = [x \in DOMAIN f |-> f[x]]
<1>1. PICK D \in SUBSET S : f \in [D -> T]
  BY DEF Partial
<1> QED BY <1>1

LEMMA PartialIs ==
  ASSUME NEW S, NEW T, NEW f, DOMAIN f \subseteq S, \A x \in DOMAIN f : f[x] \in T, f = [x \in DOMAIN f |-> f[x]]
  PROVE  f \in Partial(S, T)
<1>1. f \in [DOMAIN f -> T]
  OBVIOUS
<1> QED BY <1>1 DEF Partial

\* The types of the files of a directory.
LEMMA TypesOfPaths ==
  ASSUME NEW c, NEW q, NEW v
  PROVE  /\ HasType(<<"manifest">>, v) <=> v \in Manifest
         /\ HasType(<<"metadata", c>>, v) <=> v \in Versions
         /\ HasType(<<"request", c, q>>, v) <=> v \in Versions
         /\ HasType(<<"tree", c>>, v) <=> v \subseteq Reqs
         /\ HasType(<<"environments", c>>, v) <=>
              DOMAIN v \subseteq Envs /\ \A e \in DOMAIN v : v[e] \in Versions
         /\ <<"manifest">> \in Paths
         /\ c \in Colls => /\ <<"metadata", c>> \in Paths /\ <<"tree", c>> \in Paths
                           /\ <<"environments", c>> \in Paths
                           /\ q \in Reqs => <<"request", c, q>> \in Paths
<1>1. /\ HasType(<<"manifest">>, v) <=> v \in Manifest
      /\ HasType(<<"metadata", c>>, v) <=> v \in Versions
      /\ HasType(<<"request", c, q>>, v) <=> v \in Versions
      /\ HasType(<<"tree", c>>, v) <=> v \subseteq Reqs
      /\ HasType(<<"environments", c>>, v) <=>
           DOMAIN v \subseteq Envs /\ \A e \in DOMAIN v : v[e] \in Versions
  BY DEF HasType
<1>2. /\ <<"manifest">> \in Paths
      /\ c \in Colls => /\ <<"metadata", c>> \in Paths /\ <<"tree", c>> \in Paths
                        /\ <<"environments", c>> \in Paths
                        /\ q \in Reqs => <<"request", c, q>> \in Paths
  BY DEF Paths
<1> QED BY <1>1, <1>2

LEMMA PutTyped ==
  ASSUME Inv, TypedInv, NEW p \in Paths, NEW v, HasType(p, v), Put(p, v)
  PROVE  \A a \in Areas : Directory(live'[a])
<1>1. Directory(Written')
  <2>1. Directory(Written)
    BY DEF TypedInv, Areas, Written
  <2>2. DOMAIN Written' = DOMAIN Written \cup {p}
    BY PutWrites
  <2>3. \A x \in DOMAIN Written' : Written'[x] = IF x = p THEN v ELSE Written[x]
    BY PutWrites
  <2> QED BY <2>1, <2>2, <2>3 DEF Directory
<1>2. live'["environments"] = live["environments"]
  BY PutWrites
<1> QED BY <1>1, <1>2 DEF Areas, Written, TypedInv

LEMMA DirectoryOfNothing == Directory(Nothing)
  BY DEF Directory, Nothing

LEMMA TypedInit == RestoreInit => TypedInv
<1> SUFFICES ASSUME RestoreInit PROVE TypedInv
  OBVIOUS
<1>1. \A a \in Areas : Directory(live[a]) /\ Directory(before[a])
  BY WorkspaceAssumption DEF RestoreInit
<1>2. \A a \in Areas : Directory(aside[a])
  BY DirectoryOfNothing DEF RestoreInit
<1>3. Counted
  BY FaultAssumption DEF RestoreInit, Counted
<1> QED BY <1>1, <1>2, <1>3 DEF RestoreInit, TypedInv, NoRestore

\* The entries and the manifest of a backup are typed.
LEMMA BackupTyped ==
  ASSUME NEW b \in Backups
  PROVE  /\ b.manifest \in Manifest \cup {NoManifest} /\ b.environments \in Partial(Envs, Versions)
         /\ \A e \in b.collections : EntryOK(e)
  BY BackupAssumption DEF BackupEntry, EntryOK

\* What can be said of a list of names.
LEMMA NamesOf ==
  ASSUME NEW m \in Manifest \cup {NoManifest}
  PROVE  m.names \in Partial(Colls, Names) /\ DOMAIN m.names \subseteq Colls
<1>1. CASE m = NoManifest
  <2>1. m.names = Nothing /\ Nothing = [x \in DOMAIN Nothing |-> Nothing[x]] /\ DOMAIN Nothing = {}
    BY <1>1 DEF NoManifest, Nothing
  <2> QED BY <2>1, PartialIs
<1>2. CASE m \in Manifest
  BY <1>2, PartialFacts DEF Manifest
<1> QED BY <1>1, <1>2

LEMMA MergedManifest ==
  ASSUME Inv, TypedInv, NEW b \in Backups, NEW slot
  PROVE  MergeManifest(b, slot) \in Manifest \cup {NoManifest}
<1> DEFINE theirs == b.manifest.names
           new == [c \in DOMAIN theirs \ DOMAIN slot |-> theirs[c]]
           both == Override(Current.names, new)
<1>1. Current \in Manifest \cup {NoManifest}
  <2>1. Directory(Written)
    BY DEF TypedInv, Areas, Written
  <2>2. <<"manifest">> \in DOMAIN Written => Written[<<"manifest">>] \in Manifest
    BY <2>1, TypesOfPaths DEF Directory
  <2> QED BY <2>2 DEF Current, ReadOr, Written
<1>2. b.manifest \in Manifest \cup {NoManifest}
  BY BackupTyped
<1>3. CASE b.manifest # NoManifest /\ Current # NoManifest
  <2>1. MergeManifest(b, slot) = [names |-> both, settings |-> Current.settings]
    BY <1>3 DEF MergeManifest
  <2>2. Current \in Manifest /\ b.manifest \in Manifest
    BY <1>1, <1>2, <1>3
  <2>3. /\ Current.names \in Partial(Colls, Names) /\ theirs \in Partial(Colls, Names)
        /\ Current.settings \in Versions
    BY <2>2 DEF Manifest
  <2>4. /\ DOMAIN Current.names \subseteq Colls /\ DOMAIN theirs \subseteq Colls
        /\ \A c \in DOMAIN Current.names : Current.names[c] \in Names
        /\ \A c \in DOMAIN theirs : theirs[c] \in Names
    BY <2>3, PartialFacts
  <2>5. /\ DOMAIN both = DOMAIN Current.names \cup DOMAIN new
        /\ \A c \in DOMAIN both : both[c] = IF c \in DOMAIN new THEN new[c] ELSE Current.names[c]
        /\ both = [c \in DOMAIN both |-> both[c]]
    BY DEF Override
  <2>6. DOMAIN both \subseteq Colls /\ \A c \in DOMAIN both : both[c] \in Names
    BY <2>4, <2>5
  <2> HIDE DEF both
  <2>7. both \in Partial(Colls, Names)
    BY <2>5, <2>6, PartialIs
  <2> QED BY <2>1, <2>3, <2>7 DEF Manifest
<1> QED BY <1>2, <1>3 DEF MergeManifest

\* A merge, too, writes typed entries.
LEMMA MergedEntries ==
  ASSUME Inv, TypedInv, NEW b \in Backups, NEW slot \in Slots(b), NEW e \in Allowed(b)
  PROVE  EntryOK([e EXCEPT !.id = ReadOr(slot, e.id, e.id)])
<1>1. e \in b.collections /\ EntryOK(e) /\ DOMAIN e = {"id", "metadata", "requests", "tree", "environments"}
  <2>1. e \in b.collections
    BY DEF Allowed
  <2>2. BackupEntry(e)
    BY <2>1, BackupFacts
  <2> QED BY <2>1, <2>2, BackupTyped DEF BackupEntry
<1>2. DOMAIN Current.names \subseteq Colls
  <2>1. Directory(Written)
    BY DEF TypedInv, Areas, Written
  <2>2. <<"manifest">> \in DOMAIN Written => Written[<<"manifest">>] \in Manifest
    BY <2>1, TypesOfPaths DEF Directory
  <2>3. Current \in Manifest \cup {NoManifest}
    BY <2>2 DEF Current, ReadOr, Written
  <2> QED BY <2>3, NamesOf
<1>3. \A x \in DOMAIN slot : slot[x] \in DOMAIN Current.names
  BY DEF Slots
<1>4. ReadOr(slot, e.id, e.id) \in Colls
  BY <1>1, <1>2, <1>3 DEF ReadOr, EntryOK
<1>5. /\ [e EXCEPT !.id = ReadOr(slot, e.id, e.id)].id = ReadOr(slot, e.id, e.id)
      /\ [e EXCEPT !.id = ReadOr(slot, e.id, e.id)].metadata = e.metadata
      /\ [e EXCEPT !.id = ReadOr(slot, e.id, e.id)].requests = e.requests
      /\ [e EXCEPT !.id = ReadOr(slot, e.id, e.id)].tree = e.tree
      /\ [e EXCEPT !.id = ReadOr(slot, e.id, e.id)].environments = e.environments
  BY <1>1
<1> QED BY <1>1, <1>4, <1>5 DEF EntryOK

\* A fault is counted.
LEMMA FaultsCount == ASSUME Counted, NEW kind, RestoreFault(kind), restores' = restores PROVE Counted'
<1>1. mishaps.n \in Nat /\ mishaps.n + 1 <= MaxRestoreFaults /\ mishaps.n < MaxRestoreFaults
      /\ mishaps.moves \in BOOLEAN
  BY FaultAssumption DEF Counted, RestoreFault
<1>2. mishaps' = [n |-> mishaps.n + 1, moves |-> mishaps.moves \/ kind \in {"move", "removal"}]
  BY DEF RestoreFault
<1>3. mishaps.n + 1 \in 0..MaxRestoreFaults
  BY <1>1, FaultAssumption
<1>4. (mishaps.moves \/ kind \in {"move", "removal"}) \in BOOLEAN
  BY Zenon
<1>5. mishaps' \in [n : 0..MaxRestoreFaults, moves : BOOLEAN]
  BY <1>2, <1>3, <1>4, Zenon
<1> QED BY <1>5 DEF Counted

\* Parts of a directory are one.
LEMMA LeftoversTyped == ASSUME NEW d, Directory(d), NEW x \in Leftovers(d) PROVE Directory(x)
<1>1. CASE x = d
  BY <1>1
<1>2. CASE \E p \in DOMAIN d : x = [q \in {p} |-> d[q]]
  BY <1>2 DEF Directory
<1> QED BY <1>1, <1>2 DEF Leftovers

\* A write of a typed file keeps the types.
LEMMA TypedWrites ==
  ASSUME Inv, ExactInv, TypedInv, restore.job # "none",
         WriteManifest \/ WriteMetadata \/ WriteRequest \/ WriteTree \/ WriteEnvironments
  PROVE  TypedInv'
<1>1. /\ DOMAIN restore = OpFields /\ Taking
      /\ \A e \in restore.pending \cup restore.at : EntryOK(e)
      /\ UNCHANGED <<aside, before, last, restores, mishaps>>
  BY DEF Inv, Shape, ExactInv, TypedInv, WriteManifest, WriteMetadata, WriteRequest, WriteTree,
         WriteEnvironments
<1>2. /\ restore'.pending \cup restore'.at \subseteq restore.pending \cup restore.at
      /\ restore'.moved = restore.moved /\ restore'.manifest \in {restore.manifest, NoManifest}
  <2>1. \/ restore' = [restore EXCEPT !.manifest = NoManifest]
        \/ \E m \in restore.pending :
             restore' = [restore EXCEPT !.step = "requests", !.pending = @ \ {m}, !.at = {m},
                                        !.reqs = DOMAIN m.requests]
        \/ \E r : restore' = [restore EXCEPT !.reqs = @ \ {r}]
        \/ restore' = [restore EXCEPT !.step = "environments"]
        \/ restore' = [restore EXCEPT !.step = "write", !.at = {}]
    BY DEF WriteManifest, WriteMetadata, WriteRequest, WriteTree, WriteEnvironments
  <2>2. CASE \E m \in restore.pending :
                restore' = [restore EXCEPT !.step = "requests", !.pending = @ \ {m}, !.at = {m},
                                           !.reqs = DOMAIN m.requests]
    <3>1. PICK m \in restore.pending :
            restore' = [restore EXCEPT !.step = "requests", !.pending = @ \ {m}, !.at = {m},
                                       !.reqs = DOMAIN m.requests]
      BY <2>2
    <3>2. /\ restore'.pending = restore.pending \ {m} /\ restore'.at = {m}
          /\ restore'.moved = restore.moved /\ restore'.manifest = restore.manifest
      BY <1>1, <3>1 DEF OpFields
    <3> QED BY <3>1, <3>2
  <2>3. CASE \E r : restore' = [restore EXCEPT !.reqs = @ \ {r}]
    <3>1. PICK r : restore' = [restore EXCEPT !.reqs = @ \ {r}]
      BY <2>3
    <3> QED BY <1>1, <3>1 DEF OpFields
  <2>4. CASE restore' = [restore EXCEPT !.manifest = NoManifest]
    BY <1>1, <2>4 DEF OpFields
  <2>5. CASE restore' = [restore EXCEPT !.step = "environments"]
    BY <1>1, <2>5 DEF OpFields
  <2>6. CASE restore' = [restore EXCEPT !.step = "write", !.at = {}]
    BY <1>1, <2>6 DEF OpFields
  <2> QED BY <2>1, <2>2, <2>3, <2>4, <2>5, <2>6
<1>3. \A a \in Areas : Directory(live'[a])
  <2>1. CASE WriteManifest
    <3>1. Put(<<"manifest">>, restore.manifest) /\ restore.manifest \in Manifest
      BY <2>1 DEF WriteManifest, TypedInv
    <3>2. <<"manifest">> \in Paths /\ HasType(<<"manifest">>, restore.manifest)
      BY <3>1, TypesOfPaths
    <3> QED BY <3>1, <3>2, PutTyped
  <2>2. CASE WriteMetadata
    <3>1. PICK m \in restore.pending : Put(<<"metadata", m.id>>, m.metadata)
      BY <2>2 DEF WriteMetadata
    <3>2. <<"metadata", m.id>> \in Paths /\ HasType(<<"metadata", m.id>>, m.metadata)
      BY <1>1, <3>1, TypesOfPaths DEF EntryOK
    <3> QED BY <3>1, <3>2, PutTyped
  <2>3. CASE WriteRequest
    <3>1. PICK m \in restore.at, r \in restore.reqs : Put(<<"request", m.id, r>>, m.requests[r])
      BY <2>3 DEF WriteRequest
    <3>2. r \in DOMAIN m.requests
      BY <1>1, <2>3, <3>1 DEF Taking, WriteRequest
    <3>3. r \in Reqs /\ m.requests[r] \in Versions /\ m.id \in Colls
      BY <1>1, <3>1, <3>2, PartialFacts DEF EntryOK
    <3>4. <<"request", m.id, r>> \in Paths /\ HasType(<<"request", m.id, r>>, m.requests[r])
      BY <3>3, TypesOfPaths
    <3> QED BY <3>1, <3>4, PutTyped
  <2>4. CASE WriteTree
    <3>1. PICK m \in restore.at : Put(<<"tree", m.id>>, EnsureTreeHasRequests(m.tree, DOMAIN m.requests))
      BY <2>4 DEF WriteTree
    <3>2. DOMAIN m.requests \subseteq Reqs /\ m.tree \subseteq Reqs /\ m.id \in Colls
      BY <1>1, <3>1, PartialFacts DEF EntryOK
    <3>3. EnsureTreeHasRequests(m.tree, DOMAIN m.requests) \subseteq Reqs
      BY <3>2 DEF EnsureTreeHasRequests
    <3>4. /\ <<"tree", m.id>> \in Paths
          /\ HasType(<<"tree", m.id>>, EnsureTreeHasRequests(m.tree, DOMAIN m.requests))
      BY <3>2, <3>3, TypesOfPaths
    <3> QED BY <3>1, <3>4, PutTyped
  <2>5. CASE WriteEnvironments
    <3>1. PICK m \in restore.at :
            IF m.environments = Nothing /\ last.backup.environments = Nothing
            THEN UNCHANGED live
            ELSE Put(<<"environments", m.id>>, MergedEnvironments(m))
      BY <2>5 DEF WriteEnvironments
    <3>2. CASE UNCHANGED live
      BY <3>2 DEF TypedInv
    <3>3. CASE Put(<<"environments", m.id>>, MergedEnvironments(m))
      <4> DEFINE mine == ReadOr(Written, <<"environments", m.id>>, Nothing)
      <4>1. m.id \in Colls /\ Incoming(m) \in Partial(Envs, Versions)
        BY <1>1, <3>1, BackupTyped DEF EntryOK, Incoming, ExactInv
      <4>2. DOMAIN Incoming(m) \subseteq Envs /\ \A x \in DOMAIN Incoming(m) : Incoming(m)[x] \in Versions
        BY <4>1, PartialFacts
      <4>3. DOMAIN mine \subseteq Envs /\ \A x \in DOMAIN mine : mine[x] \in Versions
        <5>1. Directory(Written)
          BY DEF TypedInv, Areas, Written
        <5>2. CASE <<"environments", m.id>> \in DOMAIN Written
          <6>1. HasType(<<"environments", m.id>>, Written[<<"environments", m.id>>])
            BY <5>1, <5>2 DEF Directory
          <6>2. /\ DOMAIN Written[<<"environments", m.id>>] \subseteq Envs
                /\ \A x \in DOMAIN Written[<<"environments", m.id>>] :
                     Written[<<"environments", m.id>>][x] \in Versions
            BY <6>1, TypesOfPaths
          <6> QED BY <5>2, <6>2 DEF ReadOr
        <5>3. CASE <<"environments", m.id>> \notin DOMAIN Written
          BY <5>3 DEF ReadOr, Nothing
        <5> QED BY <5>2, <5>3
      <4>4. MergedEnvironments(m) = Incoming(m) \/ MergedEnvironments(m) = Override(mine, Incoming(m))
        BY DEF MergedEnvironments, Incoming, Written
      <4>5. /\ DOMAIN Override(mine, Incoming(m)) \subseteq Envs
            /\ \A x \in DOMAIN Override(mine, Incoming(m)) : Override(mine, Incoming(m))[x] \in Versions
        BY <4>2, <4>3 DEF Override
      <4>6. HasType(<<"environments", m.id>>, MergedEnvironments(m)) /\ <<"environments", m.id>> \in Paths
        BY <4>1, <4>2, <4>4, <4>5, TypesOfPaths
      <4> QED BY <3>3, <4>6, PutTyped
    <3> QED BY <3>1, <3>2, <3>3
  <2> QED BY <2>1, <2>2, <2>3, <2>4, <2>5
<1> QED BY <1>1, <1>2, <1>3 DEF TypedInv, Counted

\* What moves directories and ends restores keeps them.
LEMMA TypedElse ==
  ASSUME TypedInv, Counted', UNCHANGED before,
         restore'.pending \cup restore'.at \subseteq restore.pending \cup restore.at,
         restore'.manifest \in {restore.manifest, NoManifest}, restore'.moved \subseteq Areas,
         last'.job = last.job, last'.result \in {last.result, "ok", "failed", "crashed"},
         \A a \in Areas : Directory(live'[a]) /\ Directory(aside'[a])
  PROVE  TypedInv'
  BY DEF TypedInv

LEMMA TypedStep == ASSUME Inv, ExactInv, TypedInv, [RestoreNext]_restoreVars PROVE TypedInv'
<1>1. CASE \E b \in Backups : BeginReplace(b)
  <2>1. PICK b \in Backups : BeginReplace(b)
    BY <1>1
  <2>2. /\ restore'.pending = b.collections /\ restore'.at = {} /\ restore'.manifest = b.manifest
        /\ restore'.moved = {} /\ last'.job = "replace" /\ last'.result = "running"
        /\ restores' = restores + 1 /\ restores < MaxRestores /\ before' = live
        /\ UNCHANGED <<live, aside, mishaps>>
    BY <2>1 DEF BeginReplace, BeginRestore, NoRestore
  <2>3. Counted'
    BY <2>2, FaultAssumption DEF Counted, TypedInv
  <2> QED BY <2>2, <2>3, BackupTyped DEF TypedInv
<1>2. CASE \E b \in Backups : \E slot \in Slots(b) : BeginMerge(b, slot)
  <2>1. PICK b \in Backups : \E slot \in Slots(b) : BeginMerge(b, slot)
    BY <1>2
  <2>2. PICK slot \in Slots(b) : BeginMerge(b, slot)
    BY <2>1
  <2>3. /\ restore'.pending = {[e EXCEPT !.id = ReadOr(slot, e.id, e.id)] : e \in Allowed(b)}
        /\ restore'.at = {} /\ restore'.manifest = MergeManifest(b, slot)
        /\ restore'.moved = {} /\ last'.job = "merge" /\ last'.result = "running"
        /\ restores' = restores + 1 /\ restores < MaxRestores /\ before' = live
        /\ UNCHANGED <<live, aside, mishaps>>
    BY <2>2 DEF BeginMerge, BeginRestore, NoRestore
  <2>4. Counted'
    BY <2>3, FaultAssumption DEF Counted, TypedInv
  <2>5. \A e \in restore'.pending : EntryOK(e)
    BY <2>3, MergedEntries
  <2> QED BY <2>3, <2>4, <2>5, MergedManifest DEF TypedInv
<1>3. CASE WriteManifest \/ WriteMetadata \/ WriteRequest \/ WriteTree \/ WriteEnvironments
  <2>1. restore.job # "none"
    BY <1>3 DEF Inv, Shape, WriteManifest, WriteMetadata, WriteRequest, WriteTree, WriteEnvironments
  <2> QED BY <1>3, <2>1, TypedWrites
<1>4. CASE UNCHANGED restoreVars
  BY <1>4 DEF restoreVars, TypedInv, Counted
<1>5. CASE ClearAside \/ Stage \/ AllWritten \/ Commit \/ DropPartial \/ PutBack \/ PutBackFails
           \/ RestoreWriteFails \/ StageFails \/ RestoreDies \/ LeavesFiles
  <2>1. restore.job # "none" /\ DOMAIN restore = OpFields /\ restore.left # {} /\ restore.left \subseteq Areas
        /\ Turn \in Areas
    BY <1>5, TurnIsLeft DEF Inv, Shape, ClearAside, Stage, AllWritten, Commit, DropPartial, PutBack, PutBackFails,
                RestoreWriteFails, StageFails, RestoreDies, LeavesFiles
  <2>2. \/ restore' = NoRestore
        \/ \E o, next : /\ o = restore \/ o = [restore EXCEPT !.moved = @ \cup {Turn}]
                        /\ restore' = NextArea(o, next)
        \/ restore' = [restore EXCEPT !.step = "commit", !.left = Areas]
        \/ restore' = [restore EXCEPT !.step = "undo", !.left = Areas, !.at = {}]
    BY <1>5 DEF ClearAside, Stage, AllWritten, Commit, DropPartial, PutBack, PutBackFails,
                RestoreWriteFails, StageFails, RestoreDies, LeavesFiles, Finish, EndPutBack
  <2>3. /\ restore'.pending \cup restore'.at \subseteq restore.pending \cup restore.at
        /\ restore'.manifest \in {restore.manifest, NoManifest} /\ restore'.moved \subseteq Areas
    <3>1. CASE restore' = NoRestore
      BY <3>1 DEF NoRestore
    <3>2. ASSUME NEW o, NEW next, o = restore \/ o = [restore EXCEPT !.moved = @ \cup {Turn}],
                 restore' = NextArea(o, next)
          PROVE  /\ restore'.pending \cup restore'.at \subseteq restore.pending \cup restore.at
                 /\ restore'.manifest \in {restore.manifest, NoManifest} /\ restore'.moved \subseteq Areas
      <4>1. DOMAIN o = OpFields /\ o.pending = restore.pending /\ o.at = restore.at
            /\ o.manifest = restore.manifest /\ o.moved \subseteq Areas
        BY <2>1, <3>2 DEF OpFields, TypedInv
      <4>2. restore'.pending = o.pending /\ restore'.at = o.at /\ restore'.manifest = o.manifest
            /\ restore'.moved = o.moved
        BY <3>2, <4>1, NextAreaKeeps DEF NextArea, OpFields
      <4> QED BY <4>1, <4>2
    <3>3. CASE restore' = [restore EXCEPT !.step = "commit", !.left = Areas]
      BY <2>1, <3>3 DEF OpFields, TypedInv
    <3>4. CASE restore' = [restore EXCEPT !.step = "undo", !.left = Areas, !.at = {}]
      BY <2>1, <3>4 DEF OpFields, TypedInv
    <3> QED BY <2>2, <3>1, <3>2, <3>3, <3>4
  <2>4. \A a \in Areas : Directory(live'[a]) /\ Directory(aside'[a])
    <3>1. DOMAIN live = Areas /\ DOMAIN aside = Areas
          /\ \A a \in Areas : Directory(live[a]) /\ Directory(aside[a])
      BY DEF Inv, Shape, TypedInv
    <3>2. \/ live' = [live EXCEPT ![Turn] = Nothing] /\ UNCHANGED aside
          \/ aside' = [aside EXCEPT ![Turn] = Nothing] /\ UNCHANGED live
          \/ live' = [live EXCEPT ![Turn] = Nothing] /\ aside' = [aside EXCEPT ![Turn] = live[Turn]]
          \/ live' = [live EXCEPT ![Turn] = aside[Turn]] /\ aside' = [aside EXCEPT ![Turn] = Nothing]
          \/ UNCHANGED <<live, aside>>
          \/ (\E d \in Leftovers(aside[Turn]) : aside' = [aside EXCEPT ![Turn] = d]) /\ UNCHANGED live
          \/ (\E d \in Leftovers(live[Turn]) : live' = [live EXCEPT ![Turn] = d]) /\ UNCHANGED aside
      BY <1>5 DEF ClearAside, Stage, AllWritten, Commit, DropPartial, PutBack, PutBackFails,
                  RestoreWriteFails, StageFails, RestoreDies, LeavesFiles
    <3> QED BY <2>1, <3>1, <3>2, DirectoryOfNothing, LeftoversTyped
  <2>5. Counted'
    <3>1. Counted /\ restores' = restores
      BY <1>5 DEF TypedInv, ClearAside, Stage, AllWritten, Commit, DropPartial, PutBack, PutBackFails,
                  RestoreWriteFails, StageFails, RestoreDies, LeavesFiles
    <3>2. UNCHANGED mishaps \/ \E kind : RestoreFault(kind)
      BY <1>5 DEF ClearAside, Stage, AllWritten, Commit, DropPartial, PutBack, PutBackFails,
                  RestoreWriteFails, StageFails, RestoreDies, LeavesFiles
    <3>3. CASE UNCHANGED mishaps
      BY <3>1, <3>3 DEF Counted
    <3> QED BY <3>1, <3>2, <3>3, FaultsCount
  <2>6. UNCHANGED before
    BY <1>5 DEF ClearAside, Stage, AllWritten, Commit, DropPartial, PutBack, PutBackFails,
                RestoreWriteFails, StageFails, RestoreDies, LeavesFiles
  <2>7. last' = last \/ \E r \in {"ok", "failed", "crashed"} : last' = [last EXCEPT !.result = r]
    BY <1>5 DEF ClearAside, Stage, AllWritten, Commit, DropPartial, PutBack, PutBackFails,
                RestoreWriteFails, StageFails, RestoreDies, LeavesFiles, Finish, EndPutBack
  <2>8. last'.job = last.job /\ last'.result \in {last.result, "ok", "failed", "crashed"}
    BY <2>7 DEF Inv, Shape
  <2> QED BY <2>3, <2>4, <2>5, <2>6, <2>8, TypedElse
<1> QED BY <1>1, <1>2, <1>3, <1>4, <1>5 DEF RestoreNext

\* Every variable keeps its type: above all, every file a restore writes, moves, leaves behind or
\* unites with what was there is a file of its kind, under a collection and a request there are.
THEOREM RestoreTypeCorrect == RestoreSpec => []RestoreTypeOK
<1> DEFINE I == Inv /\ ExactInv /\ TypedInv
<1>1. RestoreInit => I
  BY InitInv, ExactInit, TypedInit
<1>2. I /\ [RestoreNext]_restoreVars => I'
  BY NextInv, ExactStep, TypedStep
<1>3. I => RestoreTypeOK
  BY DEF Inv, Shape, Writing, Staging, TypedInv, Counted, RestoreTypeOK
<1> QED BY <1>1, <1>2, <1>3, PTL DEF RestoreSpec
=============================================================================

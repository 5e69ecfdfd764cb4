--------------------------- MODULE SecretMigration ---------------------------
(***************************************************************************)
(* Secrets at rest and the switch of their backend                         *)
(* (src/src/app/store/secret-storage.js, store/crypto.js, and the          *)
(* secret-storage:* handlers of main.js).                                  *)
(*                                                                         *)
(* A secret on disk names the backend that sealed it (its prefix), so a    *)
(* store whose conversion stopped halfway can still be read as long as the *)
(* keys of both backends are at hand.  Switching the backend is a sequence *)
(* of durable writes: the target's key, a migration marker, every          *)
(* secret-bearing file, and last the mode itself; a crash between any two  *)
(* is finished at the next launch or unlock.                               *)
(*                                                                         *)
(* One secret stands for all the secrets of a file, which are written      *)
(* together.  Handlers are synchronous in the main process: while one is   *)
(* in progress (`op`), only a crash or a failing write can intervene.      *)
(***************************************************************************)
EXTENDS Naturals, FiniteSets

CONSTANTS
  Swept,            \* files _secretFiles() enumerates
  Unswept,          \* per-collection environments.json files: it does not
  Modes,            \* the backends the user chooses from
  DefaultMode,      \* defaultModeFor(platform, keystore)
  MaxSwitches,      \* bound on set-mode calls
  WriteErrors,      \* may a write throw (disk full, permissions)?
  KeystoreOutages   \* may a session start without the OS keystore?

AllModes == {"app-key", "os-keychain", "master-password"}

ASSUME FilesAssumption == Swept \cap Unswept = {}
ASSUME ModesAssumption ==
  Modes \subseteq AllModes /\ DefaultMode \in {"app-key", "os-keychain"}
ASSUME BoundsAssumption ==
  MaxSwitches \in Nat /\ WriteErrors \in BOOLEAN /\ KeystoreOutages \in BOOLEAN

Files == Swept \cup Unswept

VARIABLES
  files,     \* the secret of each file on disk: what sealed it, with which key
  config,    \* secret-storage.json: mode, kdf + verifier, migration marker
  keyfile,   \* the app key on disk, 0 when there is none
  mem,       \* crypto.js: active mode, loaded app key, loaded master key
  session,   \* is the app running (past bootstrap)?
  keystore,  \* crypto.isAvailable() in this session
  op,        \* the handler in progress
  minted,    \* how many keys (app keys, new passwords) were made so far
  switches   \* how many set-mode calls began

vars == <<files, config, keyfile, mem, session, keystore, op, minted, switches>>

-----------------------------------------------------------------------------
(* Secrets, configuration, keys *)

\* What an at-rest value says of itself.  `key` tells app keys and master keys
\* apart; a master key is the password together with the salt of its kdf.
Sealed == [by : AllModes \cup {"none", "plain"}, key : Nat]
NoSecret == [by |-> "none", key |-> 0]

NoMigration == [from |-> "none", to |-> "none"]
Migration == [from : AllModes, to : AllModes] \cup {NoMigration}

\* `master` is the key the stored kdf and verifier belong to, 0 for none.
Config == [mode : AllModes, master : Nat, migration : Migration]
NoConfig == [mode |-> "unset", master |-> 0, migration |-> NoMigration]

Pending == config.migration # NoMigration

\* _markerNeedsPassword
NeedsPassword(m) == m.from = "master-password" \/ m.to = "master-password"

Locked == mem.mode = "master-password" /\ mem.masterKey = 0

\* _decryptAny: dispatch on the prefix, whatever the active mode is.
Decrypts(v) ==
  CASE v.by = "os-keychain"     -> keystore
    [] v.by = "app-key"         -> mem.appKey # 0 /\ mem.appKey = v.key
    [] v.by = "master-password" -> mem.masterKey # 0 /\ mem.masterKey = v.key
    [] OTHER                    -> TRUE

\* _rawEncryptTo: without a keystore the os-keychain backend stores plaintext;
\* the other two throw without their key.
CanSeal(mode) ==
  CASE mode = "app-key"         -> mem.appKey # 0
    [] mode = "master-password" -> mem.masterKey # 0
    [] OTHER                    -> TRUE

Seal(mode) ==
  CASE mode = "app-key"         -> [by |-> mode, key |-> mem.appKey]
    [] mode = "master-password" -> [by |-> mode, key |-> mem.masterKey]
    [] OTHER -> [by |-> IF keystore THEN mode ELSE "plain", key |-> 0]

\* reencryptValue leaves a value alone that carries the target's prefix,
\* whichever key of that backend sealed it.
Reencrypted(v, to) == IF v.by \in {"none", to} THEN v ELSE Seal(to)

\* Pass 1 of reencryptAll: every sealed value is decrypted and sealed again,
\* except those that carry the target's prefix.
Validates(to) ==
  \A f \in Swept :
    files[f].by \in AllModes \ {to} => Decrypts(files[f]) /\ CanSeal(to)

\* Pass 2 writes the files whose document changed.
ToConvert(to) == {f \in Swept : Reencrypted(files[f], to) # files[f]}

-----------------------------------------------------------------------------
(* The handler in progress *)

Steps == {"key", "mark", "validate", "clear", "convert", "drop"}
Switch == [pc : Steps, origin : {"set-mode", "boot", "unlock"},
           from : AllModes, to : AllModes, key : Nat]
NoOp == [pc |-> "none", origin |-> "none", from |-> "none", to |-> "none", key |-> 0]
Launching(pc) == [NoOp EXCEPT !.pc = pc]
Operation == Switch \cup {NoOp, Launching("infer"), Launching("wake")}

At(pc) == op.pc = pc
Goto(pc) == op' = [op EXCEPT !.pc = pc]

\* Where control goes when a switch is over, complete or not: bootstrap still
\* has to configure crypto, the handlers return.
Return == op' = IF op.origin = "boot" THEN Launching("wake") ELSE NoOp

Quiet == session /\ At("none")

\* An install that may hold secrets an older version sealed with the keystore.
Init ==
  /\ files \in [Files -> {NoSecret, [by |-> "os-keychain", key |-> 0]}]
  /\ \A f \in Unswept : files[f] = NoSecret
  /\ config = NoConfig /\ keyfile = 0
  /\ mem = [mode |-> "os-keychain", appKey |-> 0, masterKey |-> 0]
  /\ session = FALSE /\ keystore = TRUE
  /\ op = NoOp
  /\ minted = 0 /\ switches = 0
-----------------------------------------------------------------------------
(* Bootstrap *)

\* _inferMode: master-password first, then os-keychain, then app-key.
InferredMode ==
  LET Found(mode) == \E f \in Swept : files[f].by = mode
  IN IF Found("master-password") THEN "master-password"
     ELSE IF Found("os-keychain") THEN "os-keychain"
     ELSE IF Found("app-key") THEN "app-key" ELSE DefaultMode

\* Wrong: a first launch starts the session without inferring a mode.
Variant_BootWithoutInference ==
  /\ ~session /\ At("none")
  /\ keystore' = TRUE /\ op' = Launching("wake")
  /\ UNCHANGED <<files, config, keyfile, mem, session, minted, switches>>

\* Wrong: a marker is left for the user to deal with.
Variant_BootWithoutResume ==
  /\ ~session /\ At("none")
  /\ keystore' = TRUE
  /\ op' = IF config = NoConfig THEN Launching("infer") ELSE Launching("wake")
  /\ UNCHANGED <<files, config, keyfile, mem, session, minted, switches>>

\* Start the app.  Without a config the mode is inferred first; a marker that
\* needs no password is resumed before anything else.
Boot ==
  /\ ~session /\ At("none")
  /\ keystore' \in IF KeystoreOutages THEN BOOLEAN ELSE {TRUE}
  /\ op' = IF config = NoConfig THEN Launching("infer")
           ELSE IF Pending /\ ~NeedsPassword(config.migration)
           THEN [pc |-> "key", origin |-> "boot", from |-> config.migration.from,
                 to |-> config.migration.to, key |-> 0]
           ELSE Launching("wake")
  /\ UNCHANGED <<files, config, keyfile, mem, session, minted, switches>>

\* _inferAndPersist: the app key, if the mode needs one, before the config.
InferAndPersist ==
  /\ At("infer")
  /\ IF InferredMode = "app-key" /\ keyfile = 0
     THEN /\ keyfile' = minted + 1 /\ minted' = minted + 1
          /\ UNCHANGED <<config, op>>
     ELSE /\ config' = [NoConfig EXCEPT !.mode = InferredMode]
          /\ op' = Launching("wake")
          /\ UNCHANGED <<keyfile, minted>>
  /\ UNCHANGED <<files, mem, session, keystore, switches>>

\* The rest of bootstrap: a migration still pending on a password starts the
\* session locked; the app key is made in app-key mode when there is none, and
\* loaded as well while a migration is pending.
WakeUp ==
  /\ At("wake")
  /\ LET mode == IF Pending /\ NeedsPassword(config.migration)
                 THEN "master-password" ELSE config.mode
         mint == mode = "app-key" /\ keyfile = 0
         loaded == mode = "app-key" \/ Pending
     IN /\ minted' = IF mint THEN minted + 1 ELSE minted
        /\ keyfile' = IF mint THEN minted + 1 ELSE keyfile
        /\ mem' = [mode |-> mode, masterKey |-> 0,
                   appKey |-> IF loaded THEN keyfile' ELSE 0]
  /\ session' = TRUE /\ op' = NoOp
  /\ UNCHANGED <<files, config, keystore, switches>>

-----------------------------------------------------------------------------
(* The secret-storage handlers *)

\* secret-storage:set-mode up to its first write.  The key of a new master
\* password is derived with a fresh salt (prepareMasterPassword).
SetMode(to) ==
  /\ Quiet /\ switches < MaxSwitches
  /\ to # mem.mode /\ ~Locked
  /\ to = "os-keychain" => keystore
  /\ switches' = switches + 1
  /\ minted' = IF to = "master-password" THEN minted + 1 ELSE minted
  /\ op' = [pc |-> IF to = "app-key" THEN "key" ELSE "mark", origin |-> "set-mode",
            from |-> mem.mode, to |-> to,
            key |-> IF to = "master-password" THEN minted + 1 ELSE 0]
  /\ UNCHANGED <<files, config, keyfile, mem, session, keystore>>

\* secret-storage:unlock with the right password; a wrong one changes nothing.
Unlock ==
  /\ Quiet /\ config.master # 0
  /\ config.mode = "master-password" \/ NeedsPassword(config.migration)
  /\ mem' = [mem EXCEPT !.masterKey = config.master]
  /\ op' = IF Pending
           THEN [pc |-> "key", origin |-> "unlock", from |-> config.migration.from,
                 to |-> config.migration.to, key |-> config.master]
           ELSE NoOp
  /\ UNCHANGED <<files, config, keyfile, session, keystore, minted, switches>>

\* secret-storage:lock
Lock ==
  /\ Quiet
  /\ mem' = [mem EXCEPT !.masterKey = 0]
  /\ UNCHANGED <<files, config, keyfile, session, keystore, op, minted, switches>>

\* A store writes a secret the user entered, sealed under the active mode; a
\* locked session cannot, and the write throws.
SaveSecret(f) ==
  /\ Quiet /\ CanSeal(mem.mode)
  /\ files' = [files EXCEPT ![f] = Seal(mem.mode)]
  /\ UNCHANGED <<config, keyfile, mem, session, keystore, op, minted, switches>>

-----------------------------------------------------------------------------
(* The steps of a switch, from set-mode or from resumeMigration *)

\* ensureAppKey, which writes a fresh key only when there is none; a resumed
\* switch goes back to the marker's `from` mode with every key it needs.
LoadKeys ==
  /\ At("key")
  /\ LET mint == keyfile = 0 /\ "app-key" \in {op.from, op.to}
     IN /\ minted' = IF mint THEN minted + 1 ELSE minted
        /\ keyfile' = IF mint THEN minted + 1 ELSE keyfile
        /\ IF op.origin = "set-mode"
           THEN mem' = [mem EXCEPT !.appKey = keyfile'] /\ Goto("mark")
           ELSE /\ mem' = [mode |-> op.from, appKey |-> keyfile',
                           masterKey |-> IF op.origin = "boot" THEN 0 ELSE op.key]
                /\ Goto("validate")
  /\ UNCHANGED <<files, config, session, keystore, switches>>

\* Wrong: the switch starts without a durable marker.
Variant_MarkNothing ==
  /\ At("mark") /\ Goto("validate")
  /\ mem' = IF op.key # 0 THEN [mem EXCEPT !.masterKey = op.key] ELSE mem
  /\ UNCHANGED <<files, config, keyfile, session, keystore, minted, switches>>

\* Wrong: the marker does not carry over the kdf and verifier it replaces.
Variant_MarkDropsVerifier ==
  /\ At("mark") /\ Goto("validate")
  /\ config' = [mode |-> op.from, master |-> op.key,
                migration |-> [from |-> op.from, to |-> op.to]]
  /\ mem' = IF op.key # 0 THEN [mem EXCEPT !.masterKey = op.key] ELSE mem
  /\ UNCHANGED <<files, keyfile, session, keystore, minted, switches>>

\* markMigration: kdf and verifier of the current config are kept unless the
\* target brings its own.
MarkMigration ==
  /\ At("mark")
  /\ config' = [mode |-> op.from,
                master |-> IF op.key # 0 THEN op.key ELSE config.master,
                migration |-> [from |-> op.from, to |-> op.to]]
  /\ mem' = IF op.key # 0 THEN [mem EXCEPT !.masterKey = op.key] ELSE mem
  /\ Goto("validate")
  /\ UNCHANGED <<files, keyfile, session, keystore, minted, switches>>

\* Pass 1 of reencryptAll writes nothing.  If it fails, set-mode clears the
\* marker and resumeMigration leaves it for a retry.
Validate ==
  /\ At("validate")
  /\ IF Validates(op.to) THEN Goto("convert")
     ELSE IF op.origin = "set-mode" THEN Goto("clear") ELSE Return
  /\ UNCHANGED <<files, config, keyfile, mem, session, keystore, minted, switches>>

ClearMigration ==
  /\ At("clear")
  /\ config' = [config EXCEPT !.migration = NoMigration]
  /\ Return
  /\ UNCHANGED <<files, keyfile, mem, session, keystore, minted, switches>>

\* Pass 2 of reencryptAll, one file at a time.
ConvertFile ==
  /\ At("convert")
  /\ \E f \in ToConvert(op.to) :
       files' = [files EXCEPT ![f] = Reencrypted(@, op.to)]
  /\ UNCHANGED <<config, keyfile, mem, session, keystore, op, minted, switches>>

\* Wrong: the mode flips before the files are converted.
Variant_FlipEarly ==
  /\ At("convert")
  /\ config' = [mode |-> op.to, master |-> op.key, migration |-> NoMigration]
  /\ mem' = [mem EXCEPT !.mode = op.to, !.appKey = keyfile]
  /\ IF op.to = "app-key" THEN Return ELSE Goto("drop")
  /\ UNCHANGED <<files, keyfile, session, keystore, minted, switches>>

\* The mode flips once every file is converted.  resumeMigration keeps the kdf
\* and verifier it read at its start; the other two modes drop them.
FlipMode ==
  /\ At("convert") /\ ToConvert(op.to) = {}
  /\ config' = [mode |-> op.to,
                master |-> CASE op.to # "master-password" -> 0
                             [] op.origin = "set-mode"    -> op.key
                             [] OTHER                     -> config.master,
                migration |-> NoMigration]
  /\ mem' = [mode |-> op.to,
             appKey |-> IF op.to = "app-key" THEN keyfile ELSE 0,
             masterKey |-> IF op.to = "master-password" THEN mem.masterKey ELSE 0]
  /\ IF op.to = "app-key" THEN Return ELSE Goto("drop")
  /\ UNCHANGED <<files, keyfile, session, keystore, minted, switches>>

\* deleteAppKey, best-effort: the removal may be swallowed.
DeleteAppKey ==
  /\ At("drop")
  /\ keyfile' \in {0} \cup (IF WriteErrors THEN {keyfile} ELSE {})
  /\ Return
  /\ UNCHANGED <<files, config, mem, session, keystore, minted, switches>>

-----------------------------------------------------------------------------
(* Faults *)

\* A write throws: set-mode and bootstrap catch it, unlock passes it on; what
\* was written and loaded so far stays.
WriteFails ==
  /\ WriteErrors
  /\ op.pc \in {"key", "mark", "clear", "convert"}
  /\ Return
  /\ UNCHANGED <<files, config, keyfile, mem, session, keystore, minted, switches>>

\* The process dies, or the user quits.
Crash ==
  /\ session \/ ~At("none")
  /\ session' = FALSE /\ op' = NoOp
  /\ mem' = [mode |-> "os-keychain", appKey |-> 0, masterKey |-> 0]
  /\ UNCHANGED <<files, config, keyfile, keystore, minted, switches>>

-----------------------------------------------------------------------------
Next ==
  \/ Boot \/ Unlock \/ Lock
  \/ \E to \in Modes : SetMode(to)
  \/ \E f \in Files : SaveSecret(f)
  \/ LoadKeys \/ MarkMigration \/ Validate \/ ClearMigration \/ ConvertFile
  \/ FlipMode \/ DeleteAppKey \/ InferAndPersist \/ WakeUp
  \/ WriteFails \/ Crash

Spec == Init /\ [][Next]_vars

\* A handler runs on, synchronously, to its end; after a crash the app is
\* started again, and the user enters the password the prompt asks for.  It may
\* crash any number of times, but not every time at the same step.
FairSpec ==
  /\ Spec
  /\ WF_vars(Boot) /\ SF_vars(Unlock) /\ SF_vars(WakeUp)
  /\ SF_vars(LoadKeys) /\ SF_vars(MarkMigration) /\ SF_vars(Validate)
  /\ SF_vars(ConvertFile) /\ SF_vars(FlipMode) /\ SF_vars(DeleteAppKey)

-----------------------------------------------------------------------------
(* Properties *)

\* Every variable has its type; the app does not run without a configuration.
TypeOK ==
  /\ files \in [Files -> Sealed]
  /\ config \in Config \cup {NoConfig}
  /\ config = NoConfig => ~session /\ op.pc \in {"none", "infer"}
  /\ keyfile \in Nat
  /\ mem \in [mode : AllModes, appKey : Nat, masterKey : Nat]
  /\ session \in BOOLEAN /\ keystore \in BOOLEAN
  /\ op \in Operation
  /\ minted \in Nat /\ switches \in 0..MaxSwitches

\* The key of a sealed value exists: the app key is on disk, the kdf and
\* verifier of the password are stored.
KeyExists(v) ==
  CASE v.by = "app-key"         -> keyfile = v.key
    [] v.by = "master-password" -> config.master = v.key
    [] OTHER                    -> TRUE

\* No secret is ever sealed under a key that is gone: whatever stops a switch
\* halfway, the keys of both backends outlive the last value they seal
\* (secret-storage.js 171-175 and 300-313, main.js 1671-1674 and 1722-1726).
NoSecretLost == \A f \in Files : KeyExists(files[f])

\* The next launch, with the keystore there and the password entered, loads the
\* key of a sealed value.
LoadedNextLaunch(v) ==
  CASE v.by = "app-key" -> config.mode = "app-key" \/ Pending
    [] v.by = "master-password" ->
         config.mode = "master-password" \/ NeedsPassword(config.migration)
    [] OTHER -> TRUE

\* Every secret can be read after the next launch, without the user repeating
\* the switch by hand: a store in two backends at once always carries the
\* marker that makes both keys load (main.js 1689-1692).
SecretsStayReadable == \A f \in Files : LoadedNextLaunch(files[f])

\* At rest, in a running app with no switch pending, every secret the switch
\* covers is sealed under the active mode: the mode flips after the last file
\* (secret-storage.js 476-479).
SealedUnderTheMode ==
  (Quiet /\ ~Pending) => \A f \in Swept : files[f].by \in {"none", config.mode}

\* A switch that reached its marker is finished, by itself or by the unlock, and
\* not left for the user to repeat (secret-storage.js 300-307, 476-479).
SwitchesAreFinished == Pending ~> ~Pending
=============================================================================

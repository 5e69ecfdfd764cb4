--------------------------- MODULE MCSecretFaults ----------------------------
(* Two worlds: one where the process may die at any step of a switch between  *)
(* the three backends, and one (the variables that begin with p) where writes *)
(* fail and a session may start without the keystore as well, and the user    *)
(* switches between the two backends that need no password.  A behaviour is   *)
(* one of one world; the other stays in a fixed initial state.                *)
EXTENDS MCSecretMigration
CONSTANT PromptlessSwitches   \* MaxSwitches of the second world

VARIABLES
  world, pFiles, pConfig, pKeyfile, pMem, pSession, pKeystore, pOp, pMinted, pSwitches
pVars == <<pFiles, pConfig, pKeyfile, pMem, pSession, pKeystore, pOp, pMinted, pSwitches>>
faultVars == <<vars, pVars, world>>

Promptless == INSTANCE SecretMigration
  WITH Modes <- {"app-key", "os-keychain"}, MaxSwitches <- PromptlessSwitches,
       WriteErrors <- TRUE, KeystoreOutages <- TRUE,
       files <- pFiles, config <- pConfig, keyfile <- pKeyfile, mem <- pMem,
       session <- pSession, keystore <- pKeystore, op <- pOp, minted <- pMinted,
       switches <- pSwitches

FaultInit ==
  /\ world \in {"crashes", "promptless"}
  /\ Init /\ Promptless!Init
  /\ world # "crashes" => \A f \in Files : files[f] = NoSecret
  /\ world # "promptless" => \A f \in Files : pFiles[f] = NoSecret

Crashes(step) == world = "crashes" /\ step /\ UNCHANGED <<pVars, world>>

FaultNext ==
  \/ Crashes(Next)
  \/ world = "promptless" /\ Promptless!Next /\ UNCHANGED <<vars, world>>

\* The fairness of FairSpec.  Nothing is assumed where writes fail: a switch
\* may wait there for a keystore, or for room on the disk, for ever.
FaultSpec ==
  /\ FaultInit /\ [][FaultNext]_faultVars
  /\ WF_faultVars(Crashes(Boot)) /\ SF_faultVars(Crashes(Unlock))
  /\ SF_faultVars(Crashes(WakeUp)) /\ SF_faultVars(Crashes(LoadKeys))
  /\ SF_faultVars(Crashes(MarkMigration)) /\ SF_faultVars(Crashes(Validate))
  /\ SF_faultVars(Crashes(ConvertFile)) /\ SF_faultVars(Crashes(FlipMode))
  /\ SF_faultVars(Crashes(DeleteAppKey))

\* Between the two backends that need no password no secret loses its key
\* either when writes fail, removals are swallowed and the keystore is missing
\* in some sessions (main.js 1671-1674, 1696-1708 and 1722-1726).
FaultsLoseNoSecret == Promptless!TypeOK /\ Promptless!NoSecretLost
=============================================================================

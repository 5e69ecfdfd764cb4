-------------------------- MODULE MCSecretMigration --------------------------
(* Two files the switch covers, and a per-collection environments file it    *)
(* does not; the runs differ in the constants their cfg gives.               *)
EXTENDS SecretMigration, TLC
CONSTANTS f1, f2, env
MCFiles == {f1, f2}
MCEnv == {env}
MCSymmetry == Permutations(MCFiles)
=============================================================================

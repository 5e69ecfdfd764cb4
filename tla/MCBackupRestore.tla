-------------------------- MODULE MCBackupRestore --------------------------
(* Workspaces and backups for a small instance of BackupRestore: two         *)
(* collections that may share a name, two requests, two environments, two    *)
(* versions of every file.                                                   *)
EXTENDS BackupRestore, TLC

\* A collection with its files.
FilesOf(c, reqs, tree, envs) ==
  (<<"metadata", c>> :> 1) @@ (<<"tree", c>> :> tree)
  @@ [p \in {<<"request", c, q>> : q \in DOMAIN reqs} |-> reqs[p[3]]]
  @@ (IF envs = Nothing THEN Nothing ELSE <<"environments", c>> :> envs)

Listed(names, settings) == <<"manifest">> :> [names |-> names, settings |-> settings]

Workspace(dir, old) == [collections |-> dir, environments |-> old]

\* Fresh install; one collection of an upgraded install, which has the old
\* environments directory; another of the same name with a second, unlisted one;
\* both listed, one of them with its tree empty next to a request file.
MCWorkspaces == {
  Workspace(Nothing, Nothing),
  Workspace(Listed("c1" :> "a", 1) @@ FilesOf("c1", "q1" :> 1, {"q1"}, "n1" :> 1),
            <<"legacy">> :> 1),
  Workspace(Listed("c2" :> "a", 2)
              @@ FilesOf("c2", ("q1" :> 2) @@ ("q2" :> 2), {"q2"}, "n2" :> 2)
              @@ FilesOf("c1", "q1" :> 1, {}, Nothing), Nothing),
  Workspace(Listed(("c1" :> "b") @@ ("c2" :> "a"), 1)
              @@ FilesOf("c1", ("q1" :> 2) @@ ("q2" :> 2), {"q1", "q2"}, "n1" :> 2)
              @@ FilesOf("c2", "q2" :> 1, {}, "n1" :> 1), Nothing)}

\* The exports of those, and an old backup with one set of environments for all.
MCBackups ==
  {ExportAll(w["collections"]) : w \in MCWorkspaces}
  \cup {[manifest |-> [names |-> "c1" :> "b", settings |-> 2], environments |-> "n2" :> 2,
         collections |-> {[id |-> "c1", metadata |-> 2, requests |-> "q2" :> 2,
                           tree |-> {"q2"}, environments |-> Nothing]}]}
=============================================================================

----------------------------- MODULE MCRenderer -----------------------------
(* What the window keeps in step with the main process, on small instances.  *)
(* A behaviour is one of one part: the initial state names it, and the       *)
(* others keep one fixed state.                                              *)
(*                                                                           *)
(* timeline: three runs of one request, two loads at a time, limits 0 to 2.  *)
(* workspace: two collections and two requests.                              *)
(* environments: two collections.  sockets: two requests, two connections,   *)
(*   one reload.  folders: two folders, nested or not, and two requests.     *)
(* sending: a plain request and one with a script and a token, two sends,    *)
(*   an interval, one reload.                                                *)
EXTENDS HistoryTimeline, WorkspaceSaves, EnvironmentWrites, WsConnections, FolderRun,
  RequestSend, TLC

CONSTANTS slot1, slot2, request1, request2

VARIABLE part
rendererSuiteVars == <<timelineVars, vars, envVars, wsVars, folderVars, sendVars, part>>
Parts == {"timeline", "workspace", "environments", "sockets", "folders", "sending"}

-----------------------------------------------------------------------------
MCSlots == {slot1, slot2}
MCRequests == {request1, request2}
MCSymmetry == Permutations(MCSlots) \cup Permutations(MCRequests)

\* Two folders one in the other, or next to each other, each with a request.
MCTrees == {
  ("outer" :> Top) @@ ("inner" :> "outer") @@ ("p" :> "inner") @@ ("q" :> "outer"),
  ("outer" :> Top) @@ ("inner" :> Top) @@ ("p" :> "outer") @@ ("q" :> "inner")}

-----------------------------------------------------------------------------
RendererInit ==
  /\ TimelineInit /\ Init /\ EnvInit /\ WsInit /\ FolderRunInit /\ SendInit
  /\ part \in Parts
  /\ part # "timeline" => limit = 0
  /\ part # "environments" => place = 1
  /\ part # "sockets" => selected = "a"
  /\ part # "folders" => tree["p"] = "outer"
  /\ part # "sending" => currentNode = "a"

RendererNext ==
  /\ UNCHANGED part
  /\ \/ part = "timeline" /\ TimelineNext
          /\ UNCHANGED <<vars, envVars, wsVars, folderVars, sendVars>>
     \/ part = "workspace" /\ Next
          /\ UNCHANGED <<timelineVars, envVars, wsVars, folderVars, sendVars>>
     \/ part = "environments" /\ EnvNext
          /\ UNCHANGED <<timelineVars, vars, wsVars, folderVars, sendVars>>
     \/ part = "sockets" /\ WsNext
          /\ UNCHANGED <<timelineVars, vars, envVars, folderVars, sendVars>>
     \/ part = "folders" /\ FolderRunNext
          /\ UNCHANGED <<timelineVars, vars, envVars, wsVars, sendVars>>
     \/ part = "sending" /\ SendNext
          /\ UNCHANGED <<timelineVars, vars, envVars, wsVars, folderVars>>

RendererSpec == RendererInit /\ [][RendererNext]_rendererSuiteVars

-----------------------------------------------------------------------------
\* The type invariant of the part a behaviour is of.
RendererTypeOK ==
  /\ part = "timeline" => TimelineTypeOK
  /\ part = "workspace" => TypeOK
  /\ part = "environments" => EnvTypeOK
  /\ part = "sockets" => WsTypeOK
  /\ part = "folders" => FolderRunTypeOK
  /\ part = "sending" => SendTypeOK
=============================================================================

------------------------------ MODULE MCParts -------------------------------
(***************************************************************************)
(* Small instances of five parts that share no state: the tree of a page,  *)
(* the bytes of a media asset, the bridge to a browser, a schedule of a    *)
(* plugin and the worker of one.  A behaviour is one of one of them:       *)
(* `part` says of which, and the others stay as they begin.  The adapters  *)
(* are interchangeable, so media begins with one of them.                  *)
(***************************************************************************)
EXTENDS PageTree, MediaStorage, ToolBridge, PluginSchedule, PluginHost

VARIABLE part

partsVars == <<part, treeVars, mediaVars, bridgeVars, schedVars, hostVars>>

Init ==
    /\ part \in {"tree", "media", "bridge", "schedule", "host"}
    /\ TreeInit /\ MediaInit /\ BridgeInit /\ SchedInit /\ HostInit
    /\ asset.at[1] = Builtin /\ elected = Builtin

Next ==
    /\ UNCHANGED part
    /\ \/ part = "tree" /\ TreeNext /\ UNCHANGED <<mediaVars, bridgeVars, schedVars, hostVars>>
       \/ part = "media" /\ MediaNext /\ UNCHANGED <<treeVars, bridgeVars, schedVars, hostVars>>
       \/ part = "bridge" /\ BridgeNext /\ UNCHANGED <<treeVars, mediaVars, schedVars, hostVars>>
       \/ part = "schedule" /\ SchedNext /\ UNCHANGED <<treeVars, mediaVars, bridgeVars, hostVars>>
       \/ part = "host" /\ HostNext /\ UNCHANGED <<treeVars, mediaVars, bridgeVars, schedVars>>

FairSpec == Init /\ [][Next]_partsVars /\ BridgeFairness /\ SchedFairness /\ HostFairness

(* Every part has its type. *)
TypeOK == TreeTypeOK /\ MediaTypeOK /\ BridgeTypeOK /\ SchedTypeOK /\ HostTypeOK
=============================================================================

-------------------------- MODULE RegistryAbstract --------------------------
(***************************************************************************)
(* What BuildFileImpl's entity registry promises the delegate and the      *)
(* users of the loaded file (the tools, nodes, targets and tasks maps of   *)
(* BuildFile.cpp), with the parse itself abstracted away:                  *)
(*   - nothing is registered or announced before configureClient accepted  *)
(*     the client;                                                         *)
(*   - a tool or a node is added once under its own name and never         *)
(*     replaced: every user of the name shares one object;                 *)
(*   - a target or a task is announced (loadedTarget / loadedTask) as a    *)
(*     new object and stored over any earlier one of its name;             *)
(*   - an announced task refers to the registered tool and nodes.          *)
(* BuildFile is shown to implement this specification.                     *)
(***************************************************************************)
CONSTANTS
    ToolNames, NodeNames, TargetNames, TaskNames,
    None            \* an empty slot

VARIABLES
    rclient,        \* configureClient has accepted the client
    rtools,         \* name -> registered tool, or None
    rnodes,         \* name -> registered node, or None
    rtargets,       \* name -> stored target, or None
    rtasks,         \* name -> stored task, or None
    rloadedTargets, \* the targets announced so far
    rloadedTasks    \* the tasks announced so far

rvars == <<rclient, rtools, rnodes, rtargets, rtasks, rloadedTargets,
           rloadedTasks>>

Init ==
    /\ rclient = FALSE
    /\ rtools = [n \in ToolNames |-> None]
    /\ rnodes = [n \in NodeNames |-> None]
    /\ rtargets = [g \in TargetNames |-> None]
    /\ rtasks = [k \in TaskNames |-> None]
    /\ rloadedTargets = {}
    /\ rloadedTasks = {}

AcceptClient ==
    /\ ~rclient
    /\ rclient' = TRUE
    /\ UNCHANGED <<rtools, rnodes, rtargets, rtasks, rloadedTargets,
                   rloadedTasks>>

(* A new object in the empty slot of a name of map m. *)
Added(m, n) ==
    /\ m[n] = None
    /\ m'[n] # None
    /\ m'[n].name = n
    /\ m' = [m EXCEPT ![n] = m'[n]]

AddTool(n) ==
    /\ rclient
    /\ Added(rtools, n)
    /\ UNCHANGED <<rclient, rnodes, rtargets, rtasks, rloadedTargets,
                   rloadedTasks>>

AddNode(n) ==
    /\ rclient
    /\ Added(rnodes, n)
    /\ UNCHANGED <<rclient, rtools, rtargets, rtasks, rloadedTargets,
                   rloadedTasks>>

(* An object never announced before, stored under its name over whatever  *)
(* map m held, and added to the announced set a.                          *)
Announced(m, a, n) ==
    /\ m'[n] # None
    /\ m'[n].name = n
    /\ m'[n] \notin a
    /\ m' = [m EXCEPT ![n] = m'[n]]
    /\ a' = a \cup {m'[n]}

PublishTarget(g) ==
    /\ rclient
    /\ Announced(rtargets, rloadedTargets, g)
    /\ UNCHANGED <<rclient, rtools, rnodes, rtasks, rloadedTasks>>

(* The tool and the nodes task t refers to are the registered objects. *)
Refers(t) ==
    /\ rtools[t.tool.name] = t.tool
    /\ \A i \in DOMAIN t.inputs : rnodes[t.inputs[i].name] = t.inputs[i]
    /\ \A i \in DOMAIN t.outputs : rnodes[t.outputs[i].name] = t.outputs[i]

PublishTask(k) ==
    /\ rclient
    /\ Announced(rtasks, rloadedTasks, k)
    /\ Refers(rtasks'[k])
    /\ UNCHANGED <<rclient, rtools, rnodes, rtargets, rloadedTargets>>

Next ==
    \/ AcceptClient
    \/ \E n \in ToolNames : AddTool(n)
    \/ \E n \in NodeNames : AddNode(n)
    \/ \E g \in TargetNames : PublishTarget(g)
    \/ \E k \in TaskNames : PublishTask(k)

Spec == Init /\ [][Next]_rvars
=============================================================================

--------------------------- MODULE BuildFileRefs ---------------------------
(***************************************************************************)
(* Proof that the registry's sharing holds for every value of the          *)
(* constants: every tool and node a stored task refers to is the object    *)
(* the registry holds under its name (ReferencesResolve).                  *)
(***************************************************************************)
EXTENDS BuildFileProofs

\* Each registry slot holds an entity of its own name: getOrCreateTool and
\* getOrCreateNode store under the name they were asked for.
Named ==
    /\ \A n \in ToolNames : tools[n] # None => tools[n].name = n
    /\ \A n \in NodeNames : nodes[n] # None => nodes[n].name = n

\* The task under construction already refers to registered objects only.
CurResolved == pc \in {"taskKeys", "taskItems"} => Resolved(cur)

\* So does the node list collected for 'inputs' / 'outputs'.
ListResolved ==
    pc = "taskItems" => \A i \in DOMAIN list : nodes[list[i].name] = list[i]


\* What Append keeps and adds, as the list steps use it.
LEMMA AppendNth ==
    ASSUME NEW S, NEW s \in Seq(S), NEW e \in S
    PROVE  /\ Len(Append(s, e)) = Len(s) + 1
           /\ \A i \in 1..Len(s) : Append(s, e)[i] = s[i]
           /\ Append(s, e)[Len(s) + 1] = e
BY AppendProperties

\* A step that never replaces a registered tool or node.
RegistryStable ==
    /\ \A m \in ToolNames : tools[m] # None => tools'[m] = tools[m]
    /\ \A m \in NodeNames : nodes[m] # None => nodes'[m] = nodes[m]

\* The inductive strengthening of ReferencesResolve, beyond the type
\* invariant TypeInv.
RefRest == Named /\ CurResolved /\ ListResolved /\ ReferencesResolve

\* The name of an instance is one of the names of its kind.
LEMMA InstNames ==
    /\ \A x \in ToolInst : x.name \in ToolNames
    /\ \A x \in NodeInst : x.name \in NodeNames
BY DEF ToolInst, NodeInst

\* A list of nodes that are all registered stays so across a step that
\* replaces no registered node.
LEMMA StableSeq ==
    ASSUME RegistryStable, NEW s \in Seq(NodeInst),
           \A i \in DOMAIN s : nodes[s[i].name] = s[i]
    PROVE  \A i \in DOMAIN s : nodes'[s[i].name] = s[i]
<1> SUFFICES ASSUME NEW i \in DOMAIN s PROVE nodes'[s[i].name] = s[i]
  OBVIOUS
<1>1. s[i] \in NodeInst
  OBVIOUS
<1>2. s[i].name \in NodeNames
  BY <1>1, InstNames
<1>3. nodes[s[i].name] # None
  BY <1>1, NoneAssumption
<1> QED
  BY <1>2, <1>3 DEF RegistryStable

\* A task that refers to registered objects keeps doing so across a step
\* that replaces no registered object.
LEMMA StableResolved ==
    ASSUME RegistryStable, NEW t \in TaskInst, Resolved(t)
    PROVE  Resolved(t)'
<1>1. /\ t.tool \in ToolInst
      /\ t.inputs \in Seq(NodeInst) /\ t.outputs \in Seq(NodeInst)
  BY DEF TaskInst
<1>2. tools'[t.tool.name] = t.tool
  <2>1. t.tool.name \in ToolNames
    BY <1>1, InstNames
  <2>2. tools[t.tool.name] = t.tool /\ t.tool # None
    BY <1>1, NoneAssumption DEF Resolved
  <2> QED
    BY <2>1, <2>2 DEF RegistryStable
<1>3. \A i \in DOMAIN t.inputs : nodes'[t.inputs[i].name] = t.inputs[i]
  BY <1>1, StableSeq DEF Resolved
<1>4. \A i \in DOMAIN t.outputs : nodes'[t.outputs[i].name] = t.outputs[i]
  BY <1>1, StableSeq DEF Resolved
<1> QED
  BY <1>2, <1>3, <1>4 DEF Resolved

\* The same for the node list being collected.
LEMMA StableList ==
    ASSUME TypeCore, RegistryStable,
           \A i \in DOMAIN list : nodes[list[i].name] = list[i]
    PROVE  \A i \in DOMAIN list : nodes'[list[i].name] = list[i]
BY StableSeq DEF TypeCore

\* Storing the result of getOrCreateTool under its name replaces nothing
\* and keeps every slot named after its key.
LEMMA ToolStore ==
    ASSUME TypeCore, Named, NEW n \in ToolNames, ToolResolved(n),
           tools' = [tools EXCEPT ![n] = GetOrCreateTool(n)]
    PROVE  /\ \A m \in ToolNames : tools[m] # None => tools'[m] = tools[m]
           /\ \A m \in ToolNames : tools'[m] # None => tools'[m].name = m
           /\ tools'[n] = GetOrCreateTool(n)
           /\ GetOrCreateTool(n).name = n
BY DEF TypeCore, Named, ToolResolved, GetOrCreateTool

\* Likewise for getOrCreateNode.
LEMMA NodeStore ==
    ASSUME TypeCore, Named, NEW n \in NodeNames, NEW b \in BOOLEAN,
           nodes' = [nodes EXCEPT ![n] = GetOrCreateNode(n, b)]
    PROVE  /\ \A m \in NodeNames : nodes[m] # None => nodes'[m] = nodes[m]
           /\ \A m \in NodeNames : nodes'[m] # None => nodes'[m].name = m
           /\ nodes'[n] = GetOrCreateNode(n, b)
           /\ GetOrCreateNode(n, b).name = n
BY DEF TypeCore, Named, GetOrCreateNode

\* A step that replaces no registered object and stores no task keeps the
\* stored tasks resolved.
LEMMA TasksPreserved ==
    ASSUME TypeCore, ReferencesResolve, RegistryStable, UNCHANGED tasks
    PROVE  ReferencesResolve'
<1> SUFFICES ASSUME NEW k \in TaskNames, tasks'[k] # None
             PROVE  Resolved(tasks[k])'
  BY DEF ReferencesResolve
<1>1. tasks[k] \in TaskInst /\ Resolved(tasks[k])
  BY NoneAssumption DEF ReferencesResolve, TypeCore
<1> QED
  BY <1>1, StableResolved

\* A step that leaves both registries alone replaces nothing and keeps
\* their slots named.
LEMMA RegistryFrame ==
    ASSUME Named, UNCHANGED <<tools, nodes>>
    PROVE  RegistryStable /\ Named'
BY DEF RegistryStable, Named

\* A step that replaces no registered object, stores no task and enters a
\* task mapping or a node list only from inside it, with the task and the
\* list untouched, keeps the references resolved.
LEMMA Preserve ==
    ASSUME TypeCore, TaskCur, CurResolved, ListResolved, ReferencesResolve,
           RegistryStable, UNCHANGED tasks,
           pc' \in {"taskKeys", "taskItems"} =>
               pc \in {"taskKeys", "taskItems"} /\ UNCHANGED cur,
           pc' = "taskItems" => pc = "taskItems" /\ UNCHANGED list
    PROVE  CurResolved' /\ ListResolved' /\ ReferencesResolve'
<1>1. CurResolved'
  <2> SUFFICES ASSUME pc' \in {"taskKeys", "taskItems"} PROVE Resolved(cur)'
    BY DEF CurResolved
  <2>1. cur \in TaskInst /\ Resolved(cur) /\ cur' = cur
    BY DEF CurResolved, TaskCur
  <2> QED
    BY <2>1, StableResolved
<1>2. ListResolved'
  <2> SUFFICES ASSUME pc' = "taskItems"
               PROVE \A i \in DOMAIN list' : nodes'[list'[i].name] = list'[i]
    BY DEF ListResolved
  <2>1. \A i \in DOMAIN list : nodes[list[i].name] = list[i]
    BY DEF ListResolved
  <2> QED
    BY <2>1, StableList
<1>3. ReferencesResolve'
  BY TasksPreserved
<1> QED
  BY <1>1, <1>2, <1>3

\* The usual case: a step that touches neither the registries, the stored
\* tasks, the task under construction nor the node list, and does not
\* enter a task mapping.
LEMMA FrameStep ==
    ASSUME TypeCore, TaskCur, RefRest,
           UNCHANGED <<tools, nodes, tasks, cur, list>>,
           pc' \notin {"taskKeys", "taskItems"}
    PROVE  RefRest'
BY RegistryFrame, Preserve DEF RefRest

\* parseToolsMapping: a tool entry stores getOrCreateTool's result.
LEMMA ToolsEntryRefs ==
    ASSUME TypeCore, TaskCur, RefRest, ToolsEntry PROVE RefRest'
<1>0. UNCHANGED <<nodes, tasks, cur, list>> /\ pc = "tools"
  BY DEF ToolsEntry
<1> PICK keyKind \in Kinds, valKind \in Kinds, n \in ToolNames,
         outcome \in AttrOutcomes :
       \/ Fail /\ UNCHANGED tools
       \/ /\ ToolResolved(n)
          /\ tools' = [tools EXCEPT ![n] = GetOrCreateTool(n)]
          /\ AfterAttrs(outcome)
  BY DEF ToolsEntry
<1>1. CASE Fail /\ UNCHANGED tools
  BY <1>0, <1>1, FrameStep DEF Fail
<1>2. CASE /\ ToolResolved(n)
           /\ tools' = [tools EXCEPT ![n] = GetOrCreateTool(n)]
           /\ AfterAttrs(outcome)
  <2>1. RegistryStable /\ Named'
    BY <1>0, <1>2, ToolStore DEF RefRest, RegistryStable, Named
  <2>2. pc' \in {"tools", "done"}
    BY <1>0, <1>2 DEF AfterAttrs, Fail, Stop
  <2> QED
    BY <1>0, <2>1, <2>2, Preserve DEF RefRest
<1> QED
  BY <1>1, <1>2

\* parseNodesMapping: a node entry stores getOrCreateNode's result.
LEMMA NodesEntryRefs ==
    ASSUME TypeCore, TaskCur, RefRest, NodesEntry PROVE RefRest'
<1>0. UNCHANGED <<tools, tasks, cur, list>> /\ pc = "nodes"
  BY DEF NodesEntry
<1> PICK keyKind \in Kinds, valKind \in Kinds, n \in NodeNames,
         outcome \in AttrOutcomes :
       \/ Fail /\ UNCHANGED nodes
       \/ /\ nodes' = [nodes EXCEPT ![n] = GetOrCreateNode(n, FALSE)]
          /\ AfterAttrs(outcome)
  BY DEF NodesEntry
<1>1. CASE Fail /\ UNCHANGED nodes
  BY <1>0, <1>1, FrameStep DEF Fail
<1>2. CASE /\ nodes' = [nodes EXCEPT ![n] = GetOrCreateNode(n, FALSE)]
           /\ AfterAttrs(outcome)
  <2>1. RegistryStable /\ Named'
    BY <1>0, <1>2, NodeStore DEF RefRest, RegistryStable, Named
  <2>2. pc' \in {"nodes", "done"}
    BY <1>0, <1>2 DEF AfterAttrs, Fail, Stop
  <2> QED
    BY <1>0, <2>1, <2>2, Preserve DEF RefRest
<1> QED
  BY <1>1, <1>2

\* parseTasksMapping, first key: the new task's tool is the registered one.
LEMMA TaskEntryRefs ==
    ASSUME TypeCore, TaskCur, RefRest, TaskEntry PROVE RefRest'
<1>0. UNCHANGED <<nodes, tasks, list>> /\ pc = "tasks"
  BY DEF TaskEntry
<1> PICK keyKind \in Kinds, valKind \in Kinds, k \in TaskNames,
         first \in {"tool", "other", "none"}, toolKind \in Kinds,
         n \in ToolNames :
       \/ Fail /\ UNCHANGED <<tools, cur>>
       \/ /\ ToolResolved(n)
          /\ tools' = [tools EXCEPT ![n] = GetOrCreateTool(n)]
          /\ cur' = NewTask(k, GetOrCreateTool(n))
          /\ pc' = "taskKeys"
  BY DEF TaskEntry
<1>1. CASE Fail /\ UNCHANGED <<tools, cur>>
  BY <1>0, <1>1, FrameStep DEF Fail
<1>2. CASE /\ ToolResolved(n)
           /\ tools' = [tools EXCEPT ![n] = GetOrCreateTool(n)]
           /\ cur' = NewTask(k, GetOrCreateTool(n))
           /\ pc' = "taskKeys"
  <2>1. /\ RegistryStable /\ Named'
        /\ tools'[n] = GetOrCreateTool(n) /\ GetOrCreateTool(n).name = n
    BY <1>0, <1>2, ToolStore DEF RefRest, RegistryStable, Named
  <2>2. CurResolved'
    BY <1>2, <2>1 DEF CurResolved, Resolved, NewTask
  <2>3. ListResolved'
    BY <1>2 DEF ListResolved
  <2>4. ReferencesResolve'
    BY <1>0, <2>1, TasksPreserved DEF RefRest
  <2> QED
    BY <2>1, <2>2, <2>3, <2>4 DEF RefRest
<1> QED
  BY <1>1, <1>2

\* parseTasksMapping, a later key: an attribute, or the start of a list.
LEMMA TaskKeyRefs ==
    ASSUME TypeCore, TaskCur, RefRest, TaskKey PROVE RefRest'
<1>0. /\ UNCHANGED <<tools, nodes, tasks>> /\ pc = "taskKeys"
      /\ RegistryStable /\ Named'
  <2>1. UNCHANGED <<tools, nodes, tasks>> /\ pc = "taskKeys"
    BY DEF TaskKey
  <2> QED
    BY <2>1, RegistryFrame DEF RefRest
<1>1. cur \in TaskInst /\ Resolved(cur)
  BY <1>0 DEF TaskCur, RefRest, CurResolved
<1> PICK key \in {"inputs", "outputs", "nonscalar"} \cup AttrKeys :
       \/ (Fail \/ Stop) /\ UNCHANGED <<cur, list>>
       \/ pc' = "taskItems" /\ list' = <<>> /\ UNCHANGED cur
       \/ /\ cur' = [cur EXCEPT !.attrs = @ \cup {key}]
          /\ UNCHANGED <<pc, list>>
  BY Zenon DEF TaskKey
<1>2. CASE (Fail \/ Stop) /\ UNCHANGED <<cur, list>>
  BY <1>0, <1>2, FrameStep DEF Fail, Stop
<1>3. CASE pc' = "taskItems" /\ list' = <<>> /\ UNCHANGED cur
  <2>1. CurResolved'
    BY <1>0, <1>1, <1>3 DEF CurResolved, Resolved
  <2>2. ListResolved'
    BY <1>3 DEF ListResolved
  <2> QED
    BY <1>0, <2>1, <2>2, TasksPreserved DEF RefRest
<1>4. CASE /\ cur' = [cur EXCEPT !.attrs = @ \cup {key}]
           /\ UNCHANGED <<pc, list>>
  <2>1. cur' = [cur EXCEPT !.attrs = cur.attrs \cup {key}]
    BY <1>4
  <2>2. CurResolved' /\ ListResolved'
    BY <1>0, <1>1, <1>4, <2>1 DEF CurResolved, ListResolved, Resolved, TaskInst
  <2> QED
    BY <1>0, <2>2, TasksPreserved DEF RefRest
<1> QED
  BY <1>2, <1>3, <1>4

\* An 'inputs'/'outputs' item: getOrCreateNode's result joins the list.
LEMMA TaskItemRefs ==
    ASSUME TypeCore, TaskCur, RefRest, TaskItem PROVE RefRest'
<1>0. UNCHANGED <<tools, tasks, cur>> /\ pc = "taskItems"
  BY DEF TaskItem
<1> PICK kind \in Kinds, n \in NodeNames :
       \/ Fail /\ UNCHANGED <<nodes, list>>
       \/ /\ nodes' = [nodes EXCEPT ![n] = GetOrCreateNode(n, TRUE)]
          /\ list' = Append(list, GetOrCreateNode(n, TRUE))
          /\ UNCHANGED pc
  BY DEF TaskItem
<1>1. CASE Fail /\ UNCHANGED <<nodes, list>>
  BY <1>0, <1>1, FrameStep DEF Fail
<1>2. CASE /\ nodes' = [nodes EXCEPT ![n] = GetOrCreateNode(n, TRUE)]
           /\ list' = Append(list, GetOrCreateNode(n, TRUE))
           /\ UNCHANGED pc
  <2>1. /\ RegistryStable /\ Named'
        /\ nodes'[n] = GetOrCreateNode(n, TRUE)
        /\ GetOrCreateNode(n, TRUE).name = n
    BY <1>0, <1>2, NodeStore DEF RefRest, RegistryStable, Named
  <2>2. CurResolved'
    <3>1. cur \in TaskInst /\ Resolved(cur)
      BY <1>0 DEF TaskCur, RefRest, CurResolved
    <3> QED
      BY <1>0, <2>1, <3>1, StableResolved DEF CurResolved
  <2>3. ListResolved'
    <3>1. \A i \in DOMAIN list : nodes'[list[i].name] = list[i]
      BY <1>0, <2>1, StableList DEF RefRest, ListResolved
    <3>2. list \in Seq(NodeInst)
      BY DEF TypeCore
    <3> DEFINE x == GetOrCreateNode(n, TRUE)
    <3>3. list' = Append(list, x) /\ nodes'[x.name] = x
      BY <1>2, <2>1
    <3>5. x \in NodeInst
      BY NodeLookupType
    <3>7. /\ Len(Append(list, x)) = Len(list) + 1
          /\ \A i \in 1..Len(list) : Append(list, x)[i] = list[i]
          /\ Append(list, x)[Len(list) + 1] = x
      BY <3>2, <3>5, AppendNth
    <3>6. /\ Len(list') = Len(list) + 1
          /\ \A i \in 1..Len(list) : list'[i] = list[i]
          /\ list'[Len(list) + 1] = x
      BY <3>3, <3>7, Zenon
    <3>4. \A i \in DOMAIN list' : nodes'[list'[i].name] = list'[i]
      <4> SUFFICES ASSUME NEW i \in 1..Len(list) + 1
                   PROVE  nodes'[list'[i].name] = list'[i]
        BY <3>6
      <4>1. CASE i \in 1..Len(list)
        BY <3>1, <3>2, <3>6, <4>1
      <4>2. CASE i = Len(list) + 1
        BY <3>3, <3>6, <4>2
      <4> QED
        BY <3>2, <4>1, <4>2
    <3> QED
      BY <3>4 DEF ListResolved
  <2>4. ReferencesResolve'
    BY <1>0, <2>1, TasksPreserved DEF RefRest
  <2> QED
    BY <2>1, <2>2, <2>3, <2>4 DEF RefRest
<1> QED
  BY <1>1, <1>2

\* configureInputs / configureOutputs: the task takes the collected list.
LEMMA TaskItemsEndRefs ==
    ASSUME TypeCore, TaskCur, RefRest, TaskItemsEnd PROVE RefRest'
<1>0. /\ UNCHANGED <<tools, nodes, tasks>> /\ pc = "taskItems"
      /\ cur' = [cur EXCEPT ![listKey] = list] /\ pc' = "taskKeys"
  BY DEF TaskItemsEnd
<1>1. RegistryStable /\ Named'
  BY <1>0, RegistryFrame DEF RefRest
<1>2. /\ cur \in TaskInst /\ Resolved(cur)
      /\ \A i \in DOMAIN list : nodes[list[i].name] = list[i]
  BY <1>0 DEF TaskCur, RefRest, CurResolved, ListResolved
<1>3. CurResolved'
  <2>1. CASE listKey = "inputs"
    BY <1>0, <1>2, <2>1 DEF CurResolved, Resolved, TaskInst
  <2>2. CASE listKey = "outputs"
    BY <1>0, <1>2, <2>2 DEF CurResolved, Resolved, TaskInst
  <2> QED
    BY <2>1, <2>2 DEF TypeCore
<1>4. ListResolved'
  BY <1>0 DEF ListResolved
<1> QED
  BY <1>0, <1>1, <1>3, <1>4, TasksPreserved DEF RefRest

\* delegate.loadedTask, then 'tasks[name] = std::move(task)'.
LEMMA TaskEndRefs ==
    ASSUME TypeCore, TaskCur, RefRest, TaskEnd PROVE RefRest'
<1>0. /\ UNCHANGED <<tools, nodes>> /\ pc = "taskKeys" /\ pc' = "tasks"
      /\ tasks' = [tasks EXCEPT ![cur.name] = Store(tasks[cur.name], cur)]
  BY DEF TaskEnd
<1>1. Named'
  BY <1>0, RegistryFrame DEF RefRest
<1>2. cur \in TaskInst /\ Resolved(cur)
  BY <1>0 DEF TaskCur, RefRest, CurResolved
<1>3. ReferencesResolve'
  <2> SUFFICES ASSUME NEW k \in TaskNames, tasks'[k] # None
               PROVE  Resolved(tasks'[k])
    BY <1>0 DEF ReferencesResolve, Resolved
  <2>1. CASE k = cur.name
    BY <1>0, <1>2, <2>1 DEF Store, TaskInst, TypeCore
  <2>2. CASE k # cur.name
    BY <1>0, <2>2 DEF RefRest, ReferencesResolve, TypeCore
  <2> QED
    BY <2>1, <2>2
<1> QED
  BY <1>0, <1>1, <1>3 DEF RefRest, CurResolved, ListResolved

\* Every step of the loader keeps the references resolved.
LEMMA NextRefRest ==
    ASSUME TypeInv, RefRest, [Next]_vars PROVE RefRest'
<1>0. TypeCore /\ TaskCur
  BY DEF TypeInv
<1>1. CASE OpenFile
  <2>1. UNCHANGED <<tools, nodes, tasks, cur, list>> /\ pc' \in {"root", "done"}
    BY <1>1 DEF OpenFile, Fail
  <2> QED
    BY <1>0, <2>1, FrameStep
<1>2. CASE ParseRoot
  <2>1. UNCHANGED <<tools, nodes, tasks, cur, list>>
        /\ pc' \in {"client", "done"}
    BY <1>2 DEF ParseRoot, Fail, Crash
  <2> QED
    BY <1>0, <2>1, FrameStep
<1>3. CASE ParseClientMapping
  <2>1. UNCHANGED <<tools, nodes, tasks, cur, list>>
    BY <1>3 DEF ParseClientMapping
  <2>2. pc' = "top" \/ pc' = "done"
    BY <1>3, Zenon DEF ParseClientMapping, Fail
  <2> QED
    BY <1>0, <2>1, <2>2, FrameStep
<1>4. CASE NextSection
  <2>1. \A s \in Sections : Later(s) \subseteq Sections
    BY DEF Later
  <2>2. UNCHANGED <<tools, nodes, tasks, cur, list>>
        /\ pc' \in Sections \cup {"stream", "done"}
    BY <1>0, <1>4, <2>1 DEF NextSection, Fail, TypeCore
  <2> QED
    BY <1>0, <2>2, SectionsList, FrameStep
<1>5. CASE EndStream
  <2>1. UNCHANGED <<tools, nodes, tasks, cur, list>> /\ pc' = "done"
    BY <1>5 DEF EndStream, Fail
  <2> QED
    BY <1>0, <2>1, FrameStep
<1>6. CASE SectionEnd
  <2>1. UNCHANGED <<tools, nodes, tasks, cur, list>> /\ pc' = "top"
    BY <1>6 DEF SectionEnd
  <2> QED
    BY <1>0, <2>1, FrameStep
<1>7. CASE TargetsEntry
  <2>1. UNCHANGED <<tools, nodes, tasks, cur, list>>
    BY <1>7 DEF TargetsEntry
  <2>2. pc' = "targets" \/ pc' = "done"
    BY <1>7, Zenon DEF TargetsEntry, Fail
  <2> QED
    BY <1>0, <2>1, <2>2, FrameStep
<1>9. CASE ToolsEntry
  BY <1>0, <1>9, ToolsEntryRefs
<1>10. CASE NodesEntry
  BY <1>0, <1>10, NodesEntryRefs
<1>11. CASE TaskEntry
  BY <1>0, <1>11, TaskEntryRefs
<1>12. CASE TaskKey
  BY <1>0, <1>12, TaskKeyRefs
<1>13. CASE TaskItem
  BY <1>0, <1>13, TaskItemRefs
<1>14. CASE TaskItemsEnd
  BY <1>0, <1>14, TaskItemsEndRefs
<1>15. CASE TaskEnd
  BY <1>0, <1>15, TaskEndRefs
<1>8. CASE UNCHANGED vars \/ Done
  <2>1. UNCHANGED vars
    BY <1>8 DEF Done
  <2> QED
    BY <2>1 DEF vars, RefRest, Named, CurResolved, ListResolved,
       ReferencesResolve, Resolved
<1> QED
  BY <1>1, <1>2, <1>3, <1>4, <1>5, <1>6, <1>7, <1>8, <1>9, <1>10, <1>11,
     <1>12, <1>13, <1>14, <1>15 DEF Next


\* The empty registry of BuildFileImpl's construction satisfies all of it.
LEMMA InitRefRest == Init => RefRest
BY NoneAssumption DEF Init, RefRest, Named, CurResolved, ListResolved,
   ReferencesResolve

\* Sharing of tools and nodes (getOrCreateTool, getOrCreateNode), for every
\* value of the constants: every tool and node a stored task holds is the
\* very object the registry holds under its name.
THEOREM RegistrySharing == Spec => []ReferencesResolve
<1>1. Init => TypeInv /\ RefRest
  BY InitTypeInv, InitRefRest
<1>2. TypeInv /\ RefRest /\ [Next]_vars => TypeInv' /\ RefRest'
  BY NextTypeInv, NextRefRest
<1>3. Spec => [](TypeInv /\ RefRest)
  BY <1>1, <1>2, PTL DEF Spec
<1> QED
  BY <1>3, PTL DEF RefRest

============================================================================

------------------------- MODULE BuildFileRegistry -------------------------
(***************************************************************************)
(* Proof that the loader implements the abstract registry of               *)
(* RegistryAbstract (BuildFile's ImplementsRegistry) for every value of    *)
(* the constants, under the refinement mapping of BuildFile's Registry     *)
(* instance: each registry variable is the abstract one of the same role.  *)
(***************************************************************************)
EXTENDS BuildFileLatest, BuildFileRefs

\* The task under construction is newer than every task of its name that
\* was announced: tool->createTask gave it the next gen (TaskEntry), and
\* only its attributes and node lists change until TaskEnd announces it.
CurFresh ==
    pc \in {"taskKeys", "taskItems"} =>
        \A u \in loadedTasks : u.name = cur.name => u.gen < cur.gen

\* The invariant the refinement rests on.
RegInv == TypeInv /\ ClientGate /\ RefRest /\ Latest /\ CurFresh

\* The variables the abstract registry sees.
regVars == <<clientOK, tools, nodes, targets, tasks, loadedTargets,
             loadedTasks>>

\* A step that announces no task and keeps the name and the gen of the
\* task under construction.
LEMMA CurFrame ==
    ASSUME CurFresh, UNCHANGED loadedTasks,
           pc' \in {"taskKeys", "taskItems"} =>
              /\ pc \in {"taskKeys", "taskItems"}
              /\ cur'.gen = cur.gen /\ cur'.name = cur.name
    PROVE  CurFresh'
BY DEF CurFresh

\* tool->createTask(name) gives the task the next gen for its name, above
\* every announced one.
LEMMA TaskEntryFresh ==
    ASSUME TypeCore, Latest, TaskEntry PROVE CurFresh'
<1>0. UNCHANGED loadedTasks /\ pc = "tasks"
  BY DEF TaskEntry
<1> PICK keyKind \in Kinds, valKind \in Kinds, k \in TaskNames,
         first \in {"tool", "other", "none"}, toolKind \in Kinds,
         n \in ToolNames :
       \/ /\ \/ keyKind # "scalar" \/ valKind # "mapping"
             \/ first # "tool" \/ toolKind # "scalar"
          /\ Fail
          /\ UNCHANGED <<tools, made, count, cur, keys>>
       \/ /\ keyKind = "scalar" /\ valKind = "mapping"
          /\ first = "tool" /\ toolKind = "scalar"
          /\ ~ToolResolved(n)
          /\ Fail
          /\ UNCHANGED <<tools, made, count, cur, keys>>
       \/ /\ keyKind = "scalar" /\ valKind = "mapping"
          /\ first = "tool" /\ toolKind = "scalar"
          /\ ToolResolved(n)
          /\ tools' = [tools EXCEPT ![n] = GetOrCreateTool(n)]
          /\ cur' = NewTask(k, GetOrCreateTool(n))
          /\ made' = [made EXCEPT !.tool[n] =
                                     GenAfter(@, GetOrCreateTool(n)),
                                  !.task[k] = @ + 1]
          /\ count' = count + 1
          /\ keys' = 0
          /\ pc' = "taskKeys"
          /\ UNCHANGED <<result, errors>>
  BY DEF TaskEntry
<1>1. CASE Fail
  BY <1>1 DEF Fail, CurFresh
<1>2. CASE cur' = NewTask(k, GetOrCreateTool(n))
  <2>1. cur'.name = k /\ cur'.gen = made.task[k] + 1
    BY <1>2 DEF NewTask
  <2>2. \A u \in loadedTasks : u.name = k => u.gen <= made.task[k]
    BY DEF Latest
  <2>3. \A u \in loadedTasks : u.gen \in Nat
    BY DEF TypeCore, TaskInst, Gen
  <2>4. made.task[k] \in Nat
    BY DEF TypeCore, MadeType
  <2> QED
    BY <1>0, <2>1, <2>2, <2>3, <2>4 DEF CurFresh
<1> QED
  BY <1>1, <1>2

\* Every step of the loader keeps CurFresh.
LEMMA NextCurFresh ==
    ASSUME TypeCore, TaskCur, Latest, CurFresh, [Next]_vars PROVE CurFresh'
<1>1. CASE OpenFile \/ ParseRoot \/ ParseClientMapping \/ EndStream \/ SectionEnd
  <2>1. pc' \in {"root", "client", "top", "done"}
    BY <1>1, Zenon DEF OpenFile, ParseRoot, ParseClientMapping, EndStream,
       SectionEnd, Fail, Crash
  <2>2. UNCHANGED loadedTasks
    BY <1>1 DEF OpenFile, ParseRoot, ParseClientMapping, EndStream, SectionEnd
  <2> QED
    BY <2>1, <2>2, CurFrame
<1>2. CASE NextSection
  <2>1. \/ pc' \in {"stream", "done"}
        \/ section' \in Later(section) /\ pc' = section'
    BY <1>2, Zenon DEF NextSection, Fail
  <2>2. pc' \notin {"taskKeys", "taskItems"}
    BY <2>1, LaterSections, SectionsList DEF TypeCore
  <2> QED
    BY <1>2, <2>2, CurFrame DEF NextSection
<1>3. CASE ToolsEntry
  <2>1. pc' \in {"tools", "done"}
    BY <1>3 DEF ToolsEntry, Fail, AfterAttrs, Stop
  <2> QED
    BY <1>3, <2>1, CurFrame DEF ToolsEntry
<1>4. CASE NodesEntry
  <2>1. pc' \in {"nodes", "done"}
    BY <1>4 DEF NodesEntry, Fail, AfterAttrs, Stop
  <2> QED
    BY <1>4, <2>1, CurFrame DEF NodesEntry
<1>5. CASE TargetsEntry
  <2>1. pc' \in {"targets", "done"}
    BY <1>5, Zenon DEF TargetsEntry, Fail
  <2> QED
    BY <1>5, <2>1, CurFrame DEF TargetsEntry
<1>6. CASE TaskItem
  BY <1>6, CurFrame DEF TaskItem
<1>7. CASE TaskKey
  <2>1. pc = "taskKeys" /\ cur \in TaskInst
    BY <1>7 DEF TaskKey, TaskCur
  <2>2. \E key : cur' = cur \/ cur' = [cur EXCEPT !.attrs = @ \cup {key}]
    BY <1>7, Zenon DEF TaskKey
  <2>3. cur'.gen = cur.gen /\ cur'.name = cur.name
    BY <2>1, <2>2 DEF TaskInst
  <2> QED
    BY <1>7, <2>1, <2>3, CurFrame DEF TaskKey
<1>8. CASE TaskItemsEnd
  <2>1. pc = "taskItems" /\ cur \in TaskInst /\ listKey \in {"inputs", "outputs"}
    BY <1>8 DEF TaskItemsEnd, TaskCur, TypeCore
  <2>2. cur'.gen = cur.gen /\ cur'.name = cur.name
    BY <1>8, <2>1 DEF TaskItemsEnd, TaskInst
  <2> QED
    BY <1>8, <2>1, <2>2, CurFrame DEF TaskItemsEnd
<1>9. CASE TaskEntry
  BY <1>9, TaskEntryFresh
<1>10. CASE TaskEnd
  BY <1>10 DEF TaskEnd, CurFresh
<1>11. CASE Done \/ UNCHANGED vars
  <2>1. UNCHANGED vars
    BY <1>11 DEF Done
  <2> QED
    BY <2>1 DEF vars, CurFresh
<1> QED
  BY <1>1, <1>2, <1>3, <1>4, <1>5, <1>6, <1>7, <1>8, <1>9, <1>10, <1>11
  DEF Next

----------------------------------------------------------------------------
(* Each kind of registry change is a step of RegistryAbstract.             *)

\* A step that leaves the registry alone is an abstract stutter.
LEMMA RegStutter ==
    ASSUME UNCHANGED regVars PROVE [Registry!Next]_Registry!rvars
BY DEF regVars, Registry!rvars

\* Storing getOrCreateTool(name) under its name (lines 126-140): a hit
\* stores the registered tool again, a miss adds a new one.
LEMMA ToolReg ==
    ASSUME TypeCore, clientOK = TRUE, NEW n \in ToolNames, ToolResolved(n),
           tools' = [tools EXCEPT ![n] = GetOrCreateTool(n)],
           UNCHANGED <<clientOK, nodes, targets, tasks, loadedTargets,
                       loadedTasks>>
    PROVE  [Registry!Next]_Registry!rvars
<1>1. CASE tools[n] # None
  <2>1. tools' = tools
    BY <1>1 DEF GetOrCreateTool, TypeCore
  <2> QED
    BY <2>1, RegStutter DEF regVars
<1>2. CASE tools[n] = None
  <2>1. tools'[n] = GetOrCreateTool(n) /\ GetOrCreateTool(n) \in ToolInst
    BY ToolLookupType DEF TypeCore
  <2>2. tools'[n] # None /\ tools'[n].name = n
    BY <1>2, <2>1, NoneAssumption DEF GetOrCreateTool, ToolResolved
  <2>3. tools' = [tools EXCEPT ![n] = tools'[n]]
    BY <2>1
  <2>4. Registry!AddTool(n)
    BY <1>2, <2>2, <2>3 DEF Registry!AddTool, Registry!Added
  <2> QED
    BY <2>4 DEF Registry!Next
<1> QED
  BY <1>1, <1>2

\* Storing getOrCreateNode(name, isImplicit) under its name (lines
\* 143-157): a hit stores the registered node again, a miss adds a new one.
LEMMA NodeReg ==
    ASSUME TypeCore, clientOK = TRUE, NEW n \in NodeNames, NEW b \in BOOLEAN,
           nodes' = [nodes EXCEPT ![n] = GetOrCreateNode(n, b)],
           UNCHANGED <<clientOK, tools, targets, tasks, loadedTargets,
                       loadedTasks>>
    PROVE  [Registry!Next]_Registry!rvars
<1>1. CASE nodes[n] # None
  <2>1. nodes' = nodes
    BY <1>1 DEF GetOrCreateNode, TypeCore
  <2> QED
    BY <2>1, RegStutter DEF regVars
<1>2. CASE nodes[n] = None
  <2>1. nodes'[n] = GetOrCreateNode(n, b) /\ GetOrCreateNode(n, b) \in NodeInst
    BY NodeLookupType DEF TypeCore
  <2>2. nodes'[n] # None /\ nodes'[n].name = n
    BY <1>2, <2>1, NoneAssumption DEF GetOrCreateNode
  <2>3. nodes' = [nodes EXCEPT ![n] = nodes'[n]]
    BY <2>1
  <2>4. Registry!AddNode(n)
    BY <1>2, <2>2, <2>3 DEF Registry!AddNode, Registry!Added
  <2> QED
    BY <2>4 DEF Registry!Next
<1> QED
  BY <1>1, <1>2


\* parseTargetsMapping (lines 382-386): the new Target is announced by
\* loadedTarget and stored over the earlier one of its name; it has the
\* next gen of the name, so it was never announced before.
LEMMA TargetReg ==
    ASSUME TypeCore, Latest, clientOK = TRUE, NEW g \in TargetNames,
           loadedTargets' =
               loadedTargets \cup {[name |-> g, gen |-> made.target[g] + 1]},
           targets' = [targets EXCEPT ![g] =
               Store(@, [name |-> g, gen |-> made.target[g] + 1])],
           UNCHANGED <<clientOK, tools, nodes, tasks, loadedTasks>>
    PROVE  [Registry!Next]_Registry!rvars
<1> DEFINE t == [name |-> g, gen |-> made.target[g] + 1]
<1>1. targets' = [targets EXCEPT ![g] = t] /\ targets'[g] = t
  BY DEF Store, TypeCore
<1>2. t # None /\ t.name = g
  <2>1. t \in TargetInst
    BY DEF TypeCore, MadeType, TargetInst, Gen
  <2> QED
    BY <2>1, NoneAssumption
<1>3. t \notin loadedTargets
  <2> SUFFICES ASSUME t \in loadedTargets PROVE FALSE
    OBVIOUS
  <2>1. t.gen <= made.target[g]
    BY DEF Latest
  <2> QED
    BY <2>1 DEF TypeCore, MadeType
<1>4. Registry!PublishTarget(g)
  BY <1>1, <1>2, <1>3 DEF Registry!PublishTarget, Registry!Announced
<1> QED
  BY <1>4 DEF Registry!Next

\* The end of a task mapping (lines 573-577): loadedTask, then the store
\* over the earlier task of the name.  The task is new (CurFresh) and
\* refers to registered objects only (CurResolved).
LEMMA TaskReg ==
    ASSUME TypeCore, TaskCur, CurResolved, CurFresh, clientOK = TRUE,
           pc = "taskKeys",
           loadedTasks' = loadedTasks \cup {cur},
           tasks' = [tasks EXCEPT ![cur.name] = Store(@, cur)],
           UNCHANGED <<clientOK, tools, nodes, targets, loadedTargets>>
    PROVE  [Registry!Next]_Registry!rvars
<1>1. cur \in TaskInst /\ cur # None /\ cur.name \in TaskNames
  BY NoneAssumption DEF TaskCur, TaskInst
<1> DEFINE k == cur.name
<1>2. tasks' = [tasks EXCEPT ![k] = cur] /\ tasks'[k] = cur
  BY <1>1 DEF Store, TypeCore
<1>3. cur \notin loadedTasks
  <2> SUFFICES ASSUME cur \in loadedTasks PROVE FALSE
    OBVIOUS
  <2>1. cur.gen < cur.gen
    BY DEF CurFresh
  <2> QED
    BY <1>1, <2>1 DEF TaskInst, Gen
<1>4. Registry!Refers(cur)
  BY DEF CurResolved, Resolved, Registry!Refers
<1>5. /\ clientOK
      /\ tasks'[k] # None /\ tasks'[k].name = k /\ tasks'[k] \notin loadedTasks
      /\ tasks' = [tasks EXCEPT ![k] = tasks'[k]]
      /\ loadedTasks' = loadedTasks \cup {tasks'[k]}
      /\ Registry!Refers(tasks'[k])
      /\ UNCHANGED <<clientOK, tools, nodes, targets, loadedTargets>>
  BY <1>1, <1>2, <1>3, <1>4
<1>6. \E kk \in TaskNames :
        /\ clientOK
        /\ tasks'[kk] # None /\ tasks'[kk].name = kk /\ tasks'[kk] \notin loadedTasks
        /\ tasks' = [tasks EXCEPT ![kk] = tasks'[kk]]
        /\ loadedTasks' = loadedTasks \cup {tasks'[kk]}
        /\ Registry!Refers(tasks'[kk])
        /\ UNCHANGED <<clientOK, tools, nodes, targets, loadedTargets>>
  BY <1>1, <1>5
<1> QED
  BY <1>6 DEF Registry!Next, Registry!PublishTask, Registry!Announced


\* What the start of a task mapping does to the tools: nothing, or the
\* store of getOrCreateTool under the name of its 'tool' key.
LEMMA TaskEntryTools ==
    ASSUME TaskEntry
    PROVE  \/ UNCHANGED tools
           \/ \E n \in ToolNames :
                 ToolResolved(n) /\ tools' = [tools EXCEPT ![n] = GetOrCreateTool(n)]
<1> PICK keyKind \in Kinds, valKind \in Kinds, k \in TaskNames,
         first \in {"tool", "other", "none"}, toolKind \in Kinds,
         n \in ToolNames :
       \/ /\ \/ keyKind # "scalar" \/ valKind # "mapping"
             \/ first # "tool" \/ toolKind # "scalar"
          /\ Fail
          /\ UNCHANGED <<tools, made, count, cur, keys>>
       \/ /\ keyKind = "scalar" /\ valKind = "mapping"
          /\ first = "tool" /\ toolKind = "scalar"
          /\ ~ToolResolved(n)
          /\ Fail
          /\ UNCHANGED <<tools, made, count, cur, keys>>
       \/ /\ keyKind = "scalar" /\ valKind = "mapping"
          /\ first = "tool" /\ toolKind = "scalar"
          /\ ToolResolved(n)
          /\ tools' = [tools EXCEPT ![n] = GetOrCreateTool(n)]
          /\ cur' = NewTask(k, GetOrCreateTool(n))
          /\ made' = [made EXCEPT !.tool[n] =
                                     GenAfter(@, GetOrCreateTool(n)),
                                  !.task[k] = @ + 1]
          /\ count' = count + 1
          /\ keys' = 0
          /\ pc' = "taskKeys"
          /\ UNCHANGED <<result, errors>>
  BY DEF TaskEntry
<1> QED
  BY Zenon

\* Inside a section, configureClient has accepted the client.
LEMMA GateOpen ==
    ASSUME ClientGate,
           pc \in {"tools", "targets", "nodes", "tasks", "taskKeys", "taskItems"}
    PROVE  clientOK = TRUE
BY DEF ClientGate

\* Every step of the loader is a step of RegistryAbstract or leaves the
\* registry alone.
LEMMA NextReg ==
    ASSUME RegInv, [Next]_vars PROVE [Registry!Next]_Registry!rvars
<1>0. TypeCore /\ TaskCur /\ ClientGate /\ CurResolved /\ CurFresh /\ Latest
  BY DEF RegInv, TypeInv, RefRest
<1>1. CASE OpenFile \/ ParseRoot \/ NextSection \/ EndStream \/ SectionEnd
           \/ TaskKey \/ TaskItemsEnd \/ Done \/ UNCHANGED vars
  <2>1. UNCHANGED regVars
    BY <1>1 DEF OpenFile, ParseRoot, NextSection, EndStream, SectionEnd,
       TaskKey, TaskItemsEnd, Done, vars, regVars
  <2> QED
    BY <2>1, RegStutter
<1>2. CASE ParseClientMapping
  <2>1. pc = "client" /\ clientOK = FALSE
    BY <1>0, <1>2 DEF ParseClientMapping, ClientGate
  <2>2. UNCHANGED <<tools, nodes, targets, tasks, loadedTargets, loadedTasks>>
    BY <1>2 DEF ParseClientMapping
  <2>3. clientOK' = clientOK \/ clientOK' = TRUE
    BY <1>2, Zenon DEF ParseClientMapping, ClientConfigured
  <2>4. CASE clientOK' = clientOK
    BY <2>2, <2>4, RegStutter DEF regVars
  <2>5. CASE clientOK' = TRUE
    <3>1. Registry!AcceptClient
      BY <2>1, <2>2, <2>5 DEF Registry!AcceptClient
    <3> QED
      BY <3>1 DEF Registry!Next
  <2> QED
    BY <2>3, <2>4, <2>5
<1>3. CASE ToolsEntry
  <2>1. clientOK = TRUE
    BY <1>0, <1>3, GateOpen DEF ToolsEntry
  <2>2. UNCHANGED <<clientOK, nodes, targets, tasks, loadedTargets, loadedTasks>>
    BY <1>3 DEF ToolsEntry
  <2>3. \/ UNCHANGED tools
        \/ \E n \in ToolNames :
              ToolResolved(n) /\ tools' = [tools EXCEPT ![n] = GetOrCreateTool(n)]
    BY <1>3, Zenon DEF ToolsEntry
  <2> QED
    BY <1>0, <2>1, <2>2, <2>3, ToolReg, RegStutter DEF regVars
<1>4. CASE TaskEntry
  <2>1. clientOK = TRUE
    BY <1>0, <1>4, GateOpen DEF TaskEntry
  <2>2. UNCHANGED <<clientOK, nodes, targets, tasks, loadedTargets, loadedTasks>>
    BY <1>4 DEF TaskEntry
  <2>3. \/ UNCHANGED tools
        \/ \E n \in ToolNames :
              ToolResolved(n) /\ tools' = [tools EXCEPT ![n] = GetOrCreateTool(n)]
    BY <1>4, TaskEntryTools
  <2> QED
    BY <1>0, <2>1, <2>2, <2>3, ToolReg, RegStutter DEF regVars
<1>5. CASE NodesEntry
  <2>1. clientOK = TRUE
    BY <1>0, <1>5, GateOpen DEF NodesEntry
  <2>2. UNCHANGED <<clientOK, tools, targets, tasks, loadedTargets, loadedTasks>>
    BY <1>5 DEF NodesEntry
  <2>3. \/ UNCHANGED nodes
        \/ \E n \in NodeNames :
              nodes' = [nodes EXCEPT ![n] = GetOrCreateNode(n, FALSE)]
    BY <1>5, Zenon DEF NodesEntry
  <2> QED
    BY <1>0, <2>1, <2>2, <2>3, NodeReg, RegStutter DEF regVars
<1>6. CASE TaskItem
  <2>1. clientOK = TRUE
    BY <1>0, <1>6, GateOpen DEF TaskItem
  <2>2. UNCHANGED <<clientOK, tools, targets, tasks, loadedTargets, loadedTasks>>
    BY <1>6 DEF TaskItem
  <2>3. \/ UNCHANGED nodes
        \/ \E n \in NodeNames :
              nodes' = [nodes EXCEPT ![n] = GetOrCreateNode(n, TRUE)]
    BY <1>6, Zenon DEF TaskItem
  <2> QED
    BY <1>0, <2>1, <2>2, <2>3, NodeReg, RegStutter DEF regVars
<1>7. CASE TargetsEntry
  <2>1. clientOK = TRUE
    BY <1>0, <1>7, GateOpen DEF TargetsEntry
  <2>2. UNCHANGED <<clientOK, tools, nodes, tasks, loadedTasks>>
    BY <1>7 DEF TargetsEntry
  <2>3. \/ UNCHANGED <<targets, loadedTargets>>
        \/ \E g \in TargetNames :
              /\ loadedTargets' = loadedTargets
                     \cup {[name |-> g, gen |-> made.target[g] + 1]}
              /\ targets' = [targets EXCEPT ![g] =
                     Store(@, [name |-> g, gen |-> made.target[g] + 1])]
    BY <1>7, Zenon DEF TargetsEntry
  <2> QED
    BY <1>0, <2>1, <2>2, <2>3, TargetReg, RegStutter DEF regVars
<1>8. CASE TaskEnd
  <2>1. pc = "taskKeys" /\ clientOK = TRUE
    BY <1>0, <1>8, GateOpen DEF TaskEnd
  <2> QED
    BY <1>0, <1>8, <2>1, TaskReg DEF TaskEnd
<1> QED
  BY <1>1, <1>2, <1>3, <1>4, <1>5, <1>6, <1>7, <1>8 DEF Next


----------------------------------------------------------------------------
LEMMA InitRegInv == Init => RegInv
<1> SUFFICES ASSUME Init PROVE RegInv
  OBVIOUS
<1>1. TypeInv /\ RefRest
  BY InitTypeInv, InitRefRest
<1>2. ClientGate /\ Latest /\ CurFresh
  BY DEF Init, ClientGate, ClientFirst, Latest, LaterEntriesWin, CurFresh
<1> QED
  BY <1>1, <1>2 DEF RegInv

LEMMA NextRegInv == RegInv /\ [Next]_vars => RegInv'
<1> SUFFICES ASSUME RegInv, [Next]_vars PROVE RegInv'
  OBVIOUS
<1>1. TypeCore /\ TaskCur /\ clientOK \in BOOLEAN
  BY DEF RegInv, TypeInv
<1>2. TypeInv'
  BY NextTypeInv DEF RegInv
<1>3. ClientGate'
  BY <1>1, NextClientGate DEF RegInv
<1>4. RefRest'
  BY NextRefRest DEF RegInv
<1>5. Latest' /\ CurFresh'
  BY <1>1, NextLatest, NextCurFresh DEF RegInv
<1> QED
  BY <1>2, <1>3, <1>4, <1>5 DEF RegInv

\* The start of load() is the start of the abstract registry.
LEMMA InitRegistry == Init => Registry!Init
BY DEF Init, Registry!Init

\* The registry as its users see it (the tools, nodes, targets and tasks
\* maps and the loadedTarget/loadedTask calls of BuildFile.cpp), for every
\* value of the constants: nothing is registered before configureClient
\* accepted the client, getOrCreateTool/getOrCreateNode add a tool or node
\* once and never replace it, each announced target and task is a new
\* object stored over the earlier one of its name, and an announced task
\* refers to the registered tool and nodes.
THEOREM RegistryRefinement == Spec => ImplementsRegistry
<1>1. Spec => []RegInv
  BY InitRegInv, NextRegInv, PTL DEF Spec
<1>2. RegInv /\ [Next]_vars => [Registry!Next]_Registry!rvars
  BY NextReg
<1> QED
  BY <1>1, <1>2, InitRegistry, PTL DEF Spec, ImplementsRegistry, Registry!Spec

============================================================================

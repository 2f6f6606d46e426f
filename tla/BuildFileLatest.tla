-------------------------- MODULE BuildFileLatest --------------------------
(***************************************************************************)
(* Proof that duplicate target and task names resolve to the latest entry *)
(* (LaterEntriesWin): the registry slot of a name holds the most recent   *)
(* object the delegate was told about under that name.                     *)
(***************************************************************************)
EXTENDS BuildFileSections

\* LaterEntriesWin alone is not inductive: it must know that an entry
\* announced now is newer than every entry announced before.  Every
\* announced entry is at most as recent as the last one created for its
\* name, and the task under construction is that last one.
Latest ==
    /\ LaterEntriesWin
    /\ \A t \in loadedTasks : t.gen <= made.task[t.name]
    /\ \A t \in loadedTargets : t.gen <= made.target[t.name]
    /\ pc \in {"taskKeys", "taskItems"} => cur.gen = made.task[cur.name]

\* A step that announces and stores nothing, creates no target or task,
\* and keeps the name and the gen of the task under construction.
LEMMA LatestFrame ==
    ASSUME Latest,
           UNCHANGED <<loadedTasks, loadedTargets, tasks, targets>>,
           made'.task = made.task, made'.target = made.target,
           pc' \in {"taskKeys", "taskItems"} =>
              /\ pc \in {"taskKeys", "taskItems"}
              /\ cur'.gen = cur.gen /\ cur'.name = cur.name
    PROVE  Latest'
BY DEF Latest, LaterEntriesWin

\* parseTargetsMapping (lines 348-385): the new Target is announced and
\* stored under its name, and it is the newest for that name.
LEMMA TargetsEntryLatest ==
    ASSUME TypeCore, Latest, TargetsEntry PROVE Latest'
<1>0. UNCHANGED <<tasks, cur, loadedTasks>> /\ pc = "targets"
  BY DEF TargetsEntry
<1> PICK keyKind \in Kinds, valKind \in Kinds, g \in TargetNames,
         itemsScalar \in BOOLEAN :
       \/ /\ (keyKind # "scalar" \/ valKind # "sequence" \/ ~itemsScalar)
          /\ Fail
          /\ UNCHANGED <<targets, made, count, loadedTargets>>
       \/ /\ keyKind = "scalar" /\ valKind = "sequence" /\ itemsScalar
          /\ LET t == [name |-> g, gen |-> made.target[g] + 1]
             IN /\ loadedTargets' = loadedTargets \cup {t}
                /\ targets' = [targets EXCEPT ![g] = Store(@, t)]
                /\ made' = [made EXCEPT !.target[g] = t.gen]
          /\ count' = count + 1
          /\ UNCHANGED <<pc, result, errors>>
  BY DEF TargetsEntry
<1>1. CASE Fail /\ UNCHANGED <<targets, made, count, loadedTargets>>
  BY <1>0, <1>1, LatestFrame DEF Fail
<1>2. CASE /\ LET t == [name |-> g, gen |-> made.target[g] + 1]
              IN /\ loadedTargets' = loadedTargets \cup {t}
                 /\ targets' = [targets EXCEPT ![g] = Store(@, t)]
                 /\ made' = [made EXCEPT !.target[g] = t.gen]
           /\ UNCHANGED pc
  <2> DEFINE t == [name |-> g, gen |-> made.target[g] + 1]
  <2>1. t \in TargetInst /\ t # None
    BY NoneAssumption DEF TypeCore, MadeType, TargetInst, Gen
  <2>2. /\ loadedTargets' = loadedTargets \cup {t}
        /\ targets' = [targets EXCEPT ![g] = t]
        /\ made'.target = [made.target EXCEPT ![g] = t.gen]
        /\ made'.task = made.task
    BY <1>2 DEF Store, TypeCore, MadeType
  <2>3. \A u \in loadedTargets' :
          /\ targets'[u.name] # None /\ u.gen <= targets'[u.name].gen
          /\ u.gen <= made'.target[u.name]
    <3> TAKE u \in loadedTargets'
    <3>1. CASE u = t
      BY <2>1, <2>2, <3>1 DEF TypeCore, MadeType
    <3>2. CASE u \in loadedTargets /\ u.name = g
      BY <2>1, <2>2, <3>2 DEF TypeCore, MadeType, Latest, TargetInst, Gen
    <3>3. CASE u \in loadedTargets /\ u.name # g
      BY <2>2, <3>3 DEF TypeCore, MadeType, Latest, LaterEntriesWin, TargetInst
    <3> QED
      BY <2>2, <3>1, <3>2, <3>3
  <2> QED
    BY <1>0, <1>2, <2>2, <2>3 DEF Latest, LaterEntriesWin
<1> QED
  BY <1>1, <1>2

\* tool->createTask(name) (parseTasksMapping): the task under construction
\* is the newest for its name.
LEMMA TaskEntryLatest ==
    ASSUME TypeCore, Latest, TaskEntry PROVE Latest'
<1>0. UNCHANGED <<tasks, targets, loadedTasks, loadedTargets>> /\ pc = "tasks"
  BY DEF TaskEntry
<1> PICK keyKind \in Kinds, valKind \in Kinds, k \in TaskNames,
         first \in {"tool", "other", "none"}, toolKind \in Kinds,
         n \in ToolNames :
       \/ /\ \/ keyKind # "scalar" \/ valKind # "mapping"
             \/ first # "tool" \/ toolKind # "scalar"
          /\ Fail
          /\ UNCHANGED <<tools, made, count, cur, keys>>
       \/ /\ keyKind = "scalar" /\ valKind = "mapping"
          /\ first = "tool" /\ toolKind = "scalar"
          /\ ~ToolResolved(n)
          /\ Fail
          /\ UNCHANGED <<tools, made, count, cur, keys>>
       \/ /\ keyKind = "scalar" /\ valKind = "mapping"
          /\ first = "tool" /\ toolKind = "scalar"
          /\ ToolResolved(n)
          /\ tools' = [tools EXCEPT ![n] = GetOrCreateTool(n)]
          /\ cur' = NewTask(k, GetOrCreateTool(n))
          /\ made' = [made EXCEPT !.tool[n] =
                                     GenAfter(@, GetOrCreateTool(n)),
                                  !.task[k] = @ + 1]
          /\ count' = count + 1
          /\ keys' = 0
          /\ pc' = "taskKeys"
          /\ UNCHANGED <<result, errors>>
  BY DEF TaskEntry
<1>1. CASE Fail /\ UNCHANGED <<made, cur>>
  BY <1>0, <1>1, LatestFrame DEF Fail
<1>2. CASE /\ cur' = NewTask(k, GetOrCreateTool(n))
           /\ made' = [made EXCEPT !.tool[n] =
                                      GenAfter(@, GetOrCreateTool(n)),
                                   !.task[k] = @ + 1]
           /\ pc' = "taskKeys"
  <2>1. /\ made'.task = [made.task EXCEPT ![k] = made.task[k] + 1]
        /\ made'.target = made.target
    BY <1>2 DEF TypeCore, MadeType
  <2>2. cur'.name = k /\ cur'.gen = made.task[k] + 1
    BY <1>2 DEF NewTask
  <2>3. \A t \in loadedTasks : t.gen <= made'.task[t.name]
    BY <1>0, <2>1 DEF Latest, TypeCore, MadeType, TaskInst, Gen
  <2> QED
    BY <1>0, <1>2, <2>1, <2>2, <2>3 DEF Latest, LaterEntriesWin, TypeCore, MadeType
<1> QED
  BY <1>1, <1>2

\* The end of a task mapping (lines 573-577): delegate.loadedTask, then
\* 'tasks[name] = std::move(task)' with the newest task for the name.
LEMMA TaskEndLatest ==
    ASSUME TypeCore, TaskCur, Latest, TaskEnd PROVE Latest'
<1>0. /\ pc = "taskKeys" /\ pc' = "tasks"
      /\ loadedTasks' = loadedTasks \cup {cur}
      /\ tasks' = [tasks EXCEPT ![cur.name] = cur]
      /\ UNCHANGED <<made, targets, loadedTargets>>
  BY DEF TaskEnd, Store
<1>1. cur \in TaskInst /\ cur # None /\ cur.gen = made.task[cur.name]
  BY <1>0, NoneAssumption DEF TaskCur, Latest
<1>2. \A t \in loadedTasks' :
        /\ tasks'[t.name] # None /\ t.gen <= tasks'[t.name].gen
        /\ t.gen <= made'.task[t.name]
  <2> TAKE t \in loadedTasks'
  <2>1. CASE t = cur
    BY <1>0, <1>1, <2>1 DEF TypeCore, TaskInst, MadeType
  <2>2. CASE t \in loadedTasks /\ t.name = cur.name
    BY <1>0, <1>1, <2>2 DEF TypeCore, TaskInst, MadeType, Latest, Gen
  <2>3. CASE t \in loadedTasks /\ t.name # cur.name
    BY <1>0, <1>1, <2>3 DEF TypeCore, TaskInst, MadeType, Latest, LaterEntriesWin
  <2> QED
    BY <1>0, <2>1, <2>2, <2>3
<1> QED
  BY <1>0, <1>2 DEF Latest, LaterEntriesWin

\* Every step of the loader keeps Latest.
LEMMA NextLatest ==
    ASSUME TypeCore, TaskCur, Latest, [Next]_vars PROVE Latest'
<1>1. CASE OpenFile \/ ParseRoot \/ ParseClientMapping \/ EndStream \/ SectionEnd
  <2>1. pc' \in {"root", "client", "top", "done"}
    BY <1>1, Zenon DEF OpenFile, ParseRoot, ParseClientMapping, EndStream,
       SectionEnd, Fail, Crash
  <2>2. UNCHANGED <<loadedTasks, loadedTargets, tasks, targets, made, cur>>
    BY <1>1 DEF OpenFile, ParseRoot, ParseClientMapping, EndStream, SectionEnd
  <2> QED
    BY <2>1, <2>2, LatestFrame
<1>2. CASE NextSection
  <2>1. \/ pc' \in {"stream", "done"}
        \/ section' \in Later(section) /\ pc' = section'
    BY <1>2, Zenon DEF NextSection, Fail
  <2>2. pc' \notin {"taskKeys", "taskItems"}
    BY <2>1, LaterSections, SectionsList DEF TypeCore
  <2>3. UNCHANGED <<loadedTasks, loadedTargets, tasks, targets, made, cur>>
    BY <1>2 DEF NextSection
  <2> QED
    BY <2>2, <2>3, LatestFrame
<1>3. CASE ToolsEntry
  <2>1. \E n \in ToolNames : \E x :
           made' = made \/ made' = [made EXCEPT !.tool[n] = x]
    BY <1>3, Zenon DEF ToolsEntry
  <2>2. made'.task = made.task /\ made'.target = made.target
    BY <2>1 DEF TypeCore, MadeType
  <2>3. pc' \in {"tools", "done"}
    BY <1>3 DEF ToolsEntry, Fail, AfterAttrs, Stop
  <2> QED
    BY <1>3, <2>2, <2>3, LatestFrame DEF ToolsEntry
<1>4. CASE NodesEntry
  <2>1. \E n \in NodeNames : \E x :
           made' = made \/ made' = [made EXCEPT !.node[n] = x]
    BY <1>4, Zenon DEF NodesEntry
  <2>2. made'.task = made.task /\ made'.target = made.target
    BY <2>1 DEF TypeCore, MadeType
  <2>3. pc' \in {"nodes", "done"}
    BY <1>4 DEF NodesEntry, Fail, AfterAttrs, Stop
  <2> QED
    BY <1>4, <2>2, <2>3, LatestFrame DEF NodesEntry
<1>5. CASE TaskItem
  <2>1. \E n \in NodeNames : \E x :
           made' = made \/ made' = [made EXCEPT !.node[n] = x]
    BY <1>5, Zenon DEF TaskItem
  <2>2. made'.task = made.task /\ made'.target = made.target
    BY <2>1 DEF TypeCore, MadeType
  <2> QED
    BY <1>5, <2>2, LatestFrame DEF TaskItem
<1>6. CASE TaskKey
  <2>1. pc = "taskKeys" /\ cur \in TaskInst
    BY <1>6 DEF TaskKey, TaskCur
  <2>2. \E key : cur' = cur \/ cur' = [cur EXCEPT !.attrs = @ \cup {key}]
    BY <1>6, Zenon DEF TaskKey
  <2>3. cur'.gen = cur.gen /\ cur'.name = cur.name
    BY <2>1, <2>2 DEF TaskInst
  <2> QED
    BY <1>6, <2>1, <2>3, TaskKeyPc, LatestFrame DEF TaskKey
<1>7. CASE TaskItemsEnd
  <2>1. pc = "taskItems" /\ cur \in TaskInst /\ listKey \in {"inputs", "outputs"}
    BY <1>7 DEF TaskItemsEnd, TaskCur, TypeCore
  <2>2. cur'.gen = cur.gen /\ cur'.name = cur.name
    BY <1>7, <2>1 DEF TaskItemsEnd, TaskInst
  <2> QED
    BY <1>7, <2>1, <2>2, LatestFrame DEF TaskItemsEnd
<1>8. CASE TargetsEntry
  BY <1>8, TargetsEntryLatest
<1>9. CASE TaskEntry
  BY <1>9, TaskEntryLatest
<1>10. CASE TaskEnd
  BY <1>10, TaskEndLatest
<1>11. CASE Done \/ UNCHANGED vars
  <2>1. UNCHANGED vars
    BY <1>11 DEF Done
  <2> QED
    BY <2>1 DEF vars, Latest, LaterEntriesWin
<1> QED
  BY <1>1, <1>2, <1>3, <1>4, <1>5, <1>6, <1>7, <1>8, <1>9, <1>10, <1>11
  DEF Next

\* Duplicate target and task names (the overwriting stores
\* 'targets[name] = std::move(target)', line 385, and 'tasks[name] =
\* std::move(task)', line 577), for every value of the constants: for every
\* target and task announced to the delegate, the map holds an entry for its
\* name that is the same one or a later one.
THEOREM LatestEntryKept == Spec => []LaterEntriesWin
<1>1. Init => TypeInv /\ Latest
  BY InitTypeInv DEF Init, Latest, LaterEntriesWin
<1>2. TypeInv /\ Latest /\ [Next]_vars => TypeInv' /\ Latest'
  BY NextTypeInv, NextLatest DEF TypeInv
<1>3. Spec => [](TypeInv /\ Latest)
  BY <1>1, <1>2, PTL DEF Spec
<1> QED
  BY <1>3, PTL DEF Latest
============================================================================

-------------------------- MODULE BuildFileProofs --------------------------
(***************************************************************************)
(* Proofs about the build-file loader of BuildFile.tla, for every value of *)
(* its constants.                                                          *)
(***************************************************************************)
EXTENDS BuildFile, SequenceTheorems, TLAPS

\* The table of the last gens created.
MadeType == [tool : [ToolNames -> Nat], node : [NodeNames -> Nat],
             target : [TargetNames -> Nat], task : [TaskNames -> Nat]]

\* TypeOK without its one Boolean-valued conjunct, which the proofs treat
\* apart (the SMT backend handles Boolean-valued variables poorly).
TypeCore ==
    /\ pc \in {"open", "root", "client", "top", "stream", "done",
               "tools", "targets", "nodes", "tasks", "taskKeys", "taskItems"}
    /\ result \in {"running", "ok", "fail", "crash"}
    /\ errors \in Nat
    /\ section \in Sections
    /\ count \in Nat /\ keys \in Nat /\ items \in Nat
    /\ tools \in [ToolNames -> ToolInst \cup {None}]
    /\ nodes \in [NodeNames -> NodeInst \cup {None}]
    /\ targets \in [TargetNames -> TargetInst \cup {None}]
    /\ tasks \in [TaskNames -> TaskInst \cup {None}]
    /\ made \in MadeType
    /\ cur \in TaskInst \cup {None}
    /\ list \in Seq(NodeInst)
    /\ listKey \in {"inputs", "outputs"}
    /\ declared \subseteq NodeNames
    /\ loadedTargets \subseteq TargetInst
    /\ loadedTasks \subseteq TaskInst

\* TypeOK is not inductive by itself: TaskEnd, TaskKey and TaskItemsEnd
\* read the task under construction, which exists exactly while the loader
\* is inside a task mapping.
TaskCur == pc \in {"taskKeys", "taskItems"} => cur \in TaskInst

TypeInv == TypeCore /\ clientOK \in BOOLEAN /\ TaskCur


LEMMA TypeInvTypeOK == TypeInv => TypeOK
BY DEF TypeInv, TypeCore, TypeOK, MadeType

\* getOrCreateTool yields a tool whenever the callers go on with it.
LEMMA ToolLookupType ==
    ASSUME TypeCore, NEW n \in ToolNames, ToolResolved(n)
    PROVE  GetOrCreateTool(n) \in ToolInst
BY DEF TypeCore, MadeType, ToolResolved, GetOrCreateTool, ToolInst, Gen

\* getOrCreateNode always yields a node.
LEMMA NodeLookupType ==
    ASSUME TypeCore, NEW n \in NodeNames, NEW b \in BOOLEAN
    PROVE  GetOrCreateNode(n, b) \in NodeInst
BY DEF TypeCore, MadeType, GetOrCreateNode, NodeInst, Gen

\* The section names, listed.
LEMMA SectionsList == Sections = {"client", "tools", "targets", "nodes", "tasks"}
BY DEF Sections, SectionOrder

\* Recording a gen keeps made a table of naturals.
LEMMA MadeUpdate ==
    ASSUME made \in MadeType, NEW x \in Nat, NEW y \in Nat
    PROVE  /\ \A n \in ToolNames : [made EXCEPT !.tool[n] = x] \in MadeType
           /\ \A n \in NodeNames : [made EXCEPT !.node[n] = x] \in MadeType
           /\ \A g \in TargetNames : [made EXCEPT !.target[g] = x] \in MadeType
           /\ \A n \in ToolNames, k \in TaskNames :
                 [made EXCEPT !.tool[n] = x, !.task[k] = y] \in MadeType
BY DEF MadeType

\* A failing step (delegate.error, return false) keeps the types.
LEMMA FailType ==
    ASSUME TypeCore, Fail,
           UNCHANGED <<section, count, keys, items, tools, nodes, targets,
                       tasks, made, cur, list, listKey, declared,
                       loadedTargets, loadedTasks>>
    PROVE  TypeCore' /\ TaskCur'
BY DEF TypeCore, Fail, TaskCur

\* So does a silent 'return false'.
LEMMA StopType ==
    ASSUME TypeCore, Stop,
           UNCHANGED <<section, count, keys, items, tools, nodes, targets,
                       tasks, made, cur, list, listKey, declared,
                       loadedTargets, loadedTasks>>
    PROVE  TypeCore' /\ TaskCur'
BY DEF TypeCore, Stop, TaskCur

LEMMA InitTypeInv == Init => TypeInv
<1> SUFFICES ASSUME Init PROVE TypeInv
  OBVIOUS
<1>1. TypeCore
  BY SectionsList DEF Init, TypeCore, MadeType
<1>2. clientOK \in BOOLEAN
  BY Zenon DEF Init
<1>3. TaskCur
  BY DEF Init, TaskCur
<1> QED
  BY <1>1, <1>2, <1>3 DEF TypeInv

\* Only ParseClientMapping writes clientOK, and it writes a Boolean.
LEMMA NextClientOK ==
    clientOK \in BOOLEAN /\ [Next]_vars => clientOK' \in BOOLEAN
<1> SUFFICES ASSUME clientOK \in BOOLEAN, [Next]_vars
             PROVE  clientOK' \in BOOLEAN
  OBVIOUS
<1>1. CASE ParseClientMapping
  BY <1>1, Zenon DEF ParseClientMapping
<1>2. CASE ~ParseClientMapping
  BY <1>2, Zenon DEF Next, vars, OpenFile, ParseRoot, NextSection, EndStream,
     SectionEnd, ToolsEntry, TargetsEntry, NodesEntry, TaskEntry, TaskKey,
     TaskItem, TaskItemsEnd, TaskEnd, Done
<1> QED
  BY <1>1, <1>2

LEMMA ToolsEntryType ==
    ASSUME TypeCore, TaskCur, ToolsEntry PROVE TypeCore' /\ TaskCur'
<1>0. UNCHANGED <<section, keys, items, clientOK, nodes, targets, tasks, cur,
                  list, listKey, declared, loadedTargets, loadedTasks>>
      /\ pc = "tools"
  BY DEF ToolsEntry
<1> PICK keyKind \in Kinds, valKind \in Kinds, n \in ToolNames,
         outcome \in AttrOutcomes :
       \/ keyKind # "scalar" /\ Fail /\ UNCHANGED <<tools, made, count>>
       \/ /\ keyKind = "scalar" /\ valKind # "mapping"
          /\ Fail
          /\ UNCHANGED <<tools, made, count>>
       \/ /\ keyKind = "scalar" /\ valKind = "mapping"
          /\ ~ToolResolved(n)
          /\ Fail
          /\ UNCHANGED <<tools, made, count>>
       \/ /\ keyKind = "scalar" /\ valKind = "mapping"
          /\ ToolResolved(n)
          /\ tools' = [tools EXCEPT ![n] = GetOrCreateTool(n)]
          /\ made' = [made EXCEPT !.tool[n] = GenAfter(@, GetOrCreateTool(n))]
          /\ AfterAttrs(outcome)
  BY DEF ToolsEntry
<1>1. CASE Fail /\ UNCHANGED <<tools, made, count>>
  BY <1>0, <1>1, FailType
<1>2. CASE /\ ToolResolved(n)
           /\ tools' = [tools EXCEPT ![n] = GetOrCreateTool(n)]
           /\ made' = [made EXCEPT !.tool[n] = GenAfter(@, GetOrCreateTool(n))]
           /\ AfterAttrs(outcome)
  <2>1. GetOrCreateTool(n) \in ToolInst
    BY <1>2, ToolLookupType
  <2>2. tools' \in [ToolNames -> ToolInst \cup {None}]
    BY <1>2, <2>1 DEF TypeCore
  <2>3. made' \in MadeType
    <3>1. GenAfter(made.tool[n], GetOrCreateTool(n)) \in Nat
      BY <2>1, NoneAssumption DEF GenAfter, ToolInst, Gen
    <3>2. made' = [made EXCEPT !.tool[n] =
                                GenAfter(made.tool[n], GetOrCreateTool(n))]
      BY <1>2
    <3> QED
      BY <3>1, <3>2, MadeUpdate DEF TypeCore
  <2>4. /\ count' \in Nat /\ pc' \in {"tools", "done"}
        /\ result' \in {"running", "ok", "fail", "crash"} /\ errors' \in Nat
    BY <1>0, <1>2 DEF AfterAttrs, Fail, Stop, TypeCore
  <2> QED
    BY <1>0, <2>2, <2>3, <2>4 DEF TypeCore, TaskCur
<1> QED
  BY <1>1, <1>2

LEMMA TargetsEntryType ==
    ASSUME TypeCore, TaskCur, TargetsEntry PROVE TypeCore' /\ TaskCur'
<1>0. UNCHANGED <<section, keys, items, clientOK, tools, nodes, tasks, cur,
                  list, listKey, declared, loadedTasks>> /\ pc = "targets"
  BY DEF TargetsEntry
<1> PICK keyKind \in Kinds, valKind \in Kinds, g \in TargetNames,
         itemsScalar \in BOOLEAN :
       \/ /\ (keyKind # "scalar" \/ valKind # "sequence" \/ ~itemsScalar)
          /\ Fail
          /\ UNCHANGED <<targets, made, count, loadedTargets>>
       \/ /\ keyKind = "scalar" /\ valKind = "sequence" /\ itemsScalar
          /\ LET t == [name |-> g, gen |-> made.target[g] + 1]
             IN /\ loadedTargets' = loadedTargets \cup {t}
                /\ targets' = [targets EXCEPT ![g] = Store(@, t)]
                /\ made' = [made EXCEPT !.target[g] = t.gen]
          /\ count' = count + 1
          /\ UNCHANGED <<pc, result, errors>>
  BY DEF TargetsEntry
<1>1. CASE Fail /\ UNCHANGED <<targets, made, count, loadedTargets>>
  BY <1>0, <1>1, FailType
<1>2. CASE /\ LET t == [name |-> g, gen |-> made.target[g] + 1]
              IN /\ loadedTargets' = loadedTargets \cup {t}
                 /\ targets' = [targets EXCEPT ![g] = Store(@, t)]
                 /\ made' = [made EXCEPT !.target[g] = t.gen]
           /\ count' = count + 1
           /\ UNCHANGED <<pc, result, errors>>
  <2> DEFINE t == [name |-> g, gen |-> made.target[g] + 1]
  <2>1. t \in TargetInst
    BY DEF TypeCore, MadeType, TargetInst, Gen
  <2>2. made' \in MadeType
    <3>1. made' = [made EXCEPT !.target[g] = made.target[g] + 1]
      BY <1>2
    <3>2. made.target[g] + 1 \in Nat
      BY DEF TypeCore, MadeType
    <3> QED
      BY <3>1, <3>2, MadeUpdate DEF TypeCore
  <2>3. targets' \in [TargetNames -> TargetInst \cup {None}]
    BY <1>2, <2>1 DEF TypeCore, Store
  <2>4. loadedTargets' \subseteq TargetInst
    BY <1>2, <2>1 DEF TypeCore
  <2>5. count' \in Nat /\ UNCHANGED <<pc, result, errors>>
    BY <1>2 DEF TypeCore
  <2> QED
    BY <1>0, <2>2, <2>3, <2>4, <2>5 DEF TypeCore, TaskCur
<1> QED
  BY <1>1, <1>2
LEMMA NodesEntryType ==
    ASSUME TypeCore, TaskCur, NodesEntry PROVE TypeCore' /\ TaskCur'
<1>0. UNCHANGED <<section, keys, items, clientOK, tools, targets, tasks, cur,
                  list, listKey, loadedTargets, loadedTasks>>
      /\ pc = "nodes"
  BY DEF NodesEntry
<1> PICK keyKind \in Kinds, valKind \in Kinds, n \in NodeNames,
         outcome \in AttrOutcomes :
       \/ /\ (keyKind # "scalar" \/ valKind # "mapping")
          /\ Fail
          /\ UNCHANGED <<nodes, made, count, declared>>
       \/ /\ keyKind = "scalar" /\ valKind = "mapping"
          /\ nodes' = [nodes EXCEPT ![n] = GetOrCreateNode(n, FALSE)]
          /\ made' = [made EXCEPT !.node[n] = GetOrCreateNode(n, FALSE).gen]
          /\ declared' = declared \cup {n}
          /\ AfterAttrs(outcome)
  BY DEF NodesEntry
<1>1. CASE Fail /\ UNCHANGED <<nodes, made, count, declared>>
  BY <1>0, <1>1, FailType
<1>2. CASE /\ nodes' = [nodes EXCEPT ![n] = GetOrCreateNode(n, FALSE)]
           /\ made' = [made EXCEPT !.node[n] = GetOrCreateNode(n, FALSE).gen]
           /\ declared' = declared \cup {n}
           /\ AfterAttrs(outcome)
  <2>1. GetOrCreateNode(n, FALSE) \in NodeInst
    BY NodeLookupType
  <2>2. nodes' \in [NodeNames -> NodeInst \cup {None}]
    BY <1>2, <2>1 DEF TypeCore
  <2>3. made' \in MadeType
    <3>1. GetOrCreateNode(n, FALSE).gen \in Nat
      BY <2>1 DEF NodeInst, Gen
    <3> QED
      BY <1>2, <3>1, MadeUpdate DEF TypeCore
  <2>4. /\ count' \in Nat /\ pc' \in {"nodes", "done"}
        /\ result' \in {"running", "ok", "fail", "crash"} /\ errors' \in Nat
    BY <1>0, <1>2 DEF AfterAttrs, Fail, Stop, TypeCore
  <2>5. declared' \subseteq NodeNames
    BY <1>2 DEF TypeCore
  <2> QED
    BY <1>0, <2>2, <2>3, <2>4, <2>5 DEF TypeCore, TaskCur
<1> QED
  BY <1>1, <1>2

LEMMA TaskEntryType ==
    ASSUME TypeCore, TaskCur, TaskEntry PROVE TypeCore' /\ TaskCur'
<1>0. UNCHANGED <<section, items, clientOK, nodes, targets, tasks, list,
                  listKey, declared, loadedTargets, loadedTasks>>
      /\ pc = "tasks"
  BY DEF TaskEntry
<1> PICK keyKind \in Kinds, valKind \in Kinds, k \in TaskNames,
         first \in {"tool", "other", "none"}, toolKind \in Kinds,
         n \in ToolNames :
       \/ /\ \/ keyKind # "scalar" \/ valKind # "mapping"
             \/ first # "tool" \/ toolKind # "scalar"
          /\ Fail
          /\ UNCHANGED <<tools, made, count, cur, keys>>
       \/ /\ keyKind = "scalar" /\ valKind = "mapping"
          /\ first = "tool" /\ toolKind = "scalar"
          /\ ~ToolResolved(n)
          /\ Fail
          /\ UNCHANGED <<tools, made, count, cur, keys>>
       \/ /\ keyKind = "scalar" /\ valKind = "mapping"
          /\ first = "tool" /\ toolKind = "scalar"
          /\ ToolResolved(n)
          /\ tools' = [tools EXCEPT ![n] = GetOrCreateTool(n)]
          /\ cur' = NewTask(k, GetOrCreateTool(n))
          /\ made' = [made EXCEPT !.tool[n] = GenAfter(@, GetOrCreateTool(n)),
                                  !.task[k] = @ + 1]
          /\ count' = count + 1
          /\ keys' = 0
          /\ pc' = "taskKeys"
          /\ UNCHANGED <<result, errors>>
  BY DEF TaskEntry
<1>1. CASE Fail /\ UNCHANGED <<tools, made, count, cur, keys>>
  BY <1>0, <1>1, FailType
<1>2. CASE /\ ToolResolved(n)
           /\ tools' = [tools EXCEPT ![n] = GetOrCreateTool(n)]
           /\ cur' = NewTask(k, GetOrCreateTool(n))
           /\ made' = [made EXCEPT !.tool[n] = GenAfter(@, GetOrCreateTool(n)),
                                   !.task[k] = @ + 1]
           /\ count' = count + 1
           /\ keys' = 0
           /\ pc' = "taskKeys"
           /\ UNCHANGED <<result, errors>>
  <2>1. GetOrCreateTool(n) \in ToolInst
    BY <1>2, ToolLookupType
  <2>2. tools' \in [ToolNames -> ToolInst \cup {None}]
    BY <1>2, <2>1 DEF TypeCore
  <2>3. made' \in MadeType
    <3>1. GenAfter(made.tool[n], GetOrCreateTool(n)) \in Nat
      BY <2>1, NoneAssumption DEF GenAfter, ToolInst, Gen
    <3>2. made.task[k] + 1 \in Nat
      BY DEF TypeCore, MadeType
    <3>3. made' = [made EXCEPT !.tool[n] =
                                 GenAfter(made.tool[n], GetOrCreateTool(n)),
                               !.task[k] = made.task[k] + 1]
      BY <1>2
    <3> QED
      BY <3>1, <3>2, <3>3, MadeUpdate DEF TypeCore
  <2>4. cur' \in TaskInst
    BY <1>2, <2>1 DEF NewTask, TaskInst, TypeCore, MadeType, Gen
  <2> QED
    BY <1>0, <1>2, <2>2, <2>3, <2>4 DEF TypeCore, TaskCur
<1> QED
  BY <1>1, <1>2

LEMMA TaskKeyType ==
    ASSUME TypeCore, TaskCur, TaskKey PROVE TypeCore' /\ TaskCur'
<1>0. /\ UNCHANGED <<section, count, clientOK, tools, nodes, targets, tasks,
                     made, declared, loadedTargets, loadedTasks>>
      /\ pc = "taskKeys" /\ keys' = keys + 1
  BY DEF TaskKey
<1>1. cur \in TaskInst
  BY <1>0 DEF TaskCur
<1> PICK key \in {"inputs", "outputs", "nonscalar"} \cup AttrKeys,
         valKind \in Kinds, accepted \in BOOLEAN :
       \/ /\ key \in {"inputs", "outputs"} /\ valKind # "sequence"
          /\ Fail
          /\ UNCHANGED <<cur, list, listKey, items>>
       \/ /\ key \in {"inputs", "outputs"} /\ valKind = "sequence"
          /\ pc' = "taskItems" /\ listKey' = key
          /\ list' = <<>> /\ items' = 0
          /\ UNCHANGED <<result, errors, cur>>
       \/ /\ key \notin {"inputs", "outputs"}
          /\ (key = "nonscalar" \/ valKind # "scalar")
          /\ Fail
          /\ UNCHANGED <<cur, list, listKey, items>>
       \/ /\ key \in AttrKeys /\ valKind = "scalar" /\ ~accepted
          /\ Stop
          /\ UNCHANGED <<cur, list, listKey, items>>
       \/ /\ key \in AttrKeys /\ valKind = "scalar" /\ accepted
          /\ cur' = [cur EXCEPT !.attrs = @ \cup {key}]
          /\ UNCHANGED <<pc, result, errors, list, listKey, items>>
  BY DEF TaskKey
<1>2. keys' \in Nat
  BY <1>0 DEF TypeCore
<1>3. CASE Fail /\ UNCHANGED <<cur, list, listKey, items>>
  BY <1>0, <1>2, <1>3 DEF TypeCore, Fail, TaskCur
<1>4. CASE Stop /\ UNCHANGED <<cur, list, listKey, items>>
  BY <1>0, <1>2, <1>4 DEF TypeCore, Stop, TaskCur
<1>5. CASE /\ key \in {"inputs", "outputs"}
           /\ pc' = "taskItems" /\ listKey' = key
           /\ list' = <<>> /\ items' = 0
           /\ UNCHANGED <<result, errors, cur>>
  BY <1>0, <1>1, <1>2, <1>5 DEF TypeCore, TaskCur
<1>6. CASE /\ key \in AttrKeys
           /\ cur' = [cur EXCEPT !.attrs = @ \cup {key}]
           /\ UNCHANGED <<pc, result, errors, list, listKey, items>>
  <2>1. cur' \in TaskInst
    BY <1>1, <1>6 DEF TaskInst, AttrKeys
  <2> QED
    BY <1>0, <1>2, <1>6, <2>1 DEF TypeCore, TaskCur
<1> QED
  BY <1>3, <1>4, <1>5, <1>6

LEMMA TaskItemType ==
    ASSUME TypeCore, TaskCur, TaskItem PROVE TypeCore' /\ TaskCur'
<1>0. UNCHANGED <<section, count, keys, clientOK, tools, targets, tasks, cur,
                  listKey, declared, loadedTargets, loadedTasks>>
      /\ pc = "taskItems"
  BY DEF TaskItem
<1> PICK kind \in Kinds, n \in NodeNames :
       \/ kind # "scalar" /\ Fail /\ UNCHANGED <<nodes, made, list, items>>
       \/ /\ kind = "scalar"
          /\ nodes' = [nodes EXCEPT ![n] = GetOrCreateNode(n, TRUE)]
          /\ made' = [made EXCEPT !.node[n] = GetOrCreateNode(n, TRUE).gen]
          /\ list' = Append(list, GetOrCreateNode(n, TRUE))
          /\ items' = items + 1
          /\ UNCHANGED <<pc, result, errors>>
  BY DEF TaskItem
<1>1. CASE Fail /\ UNCHANGED <<nodes, made, list, items>>
  BY <1>0, <1>1, FailType
<1>2. CASE /\ nodes' = [nodes EXCEPT ![n] = GetOrCreateNode(n, TRUE)]
           /\ made' = [made EXCEPT !.node[n] = GetOrCreateNode(n, TRUE).gen]
           /\ list' = Append(list, GetOrCreateNode(n, TRUE))
           /\ items' = items + 1
           /\ UNCHANGED <<pc, result, errors>>
  <2>1. GetOrCreateNode(n, TRUE) \in NodeInst
    BY NodeLookupType
  <2>2. made' \in MadeType
    <3>1. GetOrCreateNode(n, TRUE).gen \in Nat
      BY <2>1 DEF NodeInst, Gen
    <3> QED
      BY <1>2, <3>1, MadeUpdate DEF TypeCore
  <2>3. nodes' \in [NodeNames -> NodeInst \cup {None}]
    BY <1>2, <2>1 DEF TypeCore
  <2>4. list' \in Seq(NodeInst)
    <3>1. list \in Seq(NodeInst)
      BY DEF TypeCore
    <3>2. list' = Append(list, GetOrCreateNode(n, TRUE))
      BY <1>2
    <3> QED
      BY <3>1, <3>2, <2>1, AppendProperties
  <2>5. items' \in Nat
    BY <1>2 DEF TypeCore
  <2> QED
    BY <1>0, <1>2, <2>2, <2>3, <2>4, <2>5 DEF TypeCore, TaskCur
<1> QED
  BY <1>1, <1>2

LEMMA NextTypeInv == TypeInv /\ [Next]_vars => TypeInv'
<1> SUFFICES ASSUME TypeCore, TaskCur, clientOK \in BOOLEAN, [Next]_vars
             PROVE  TypeCore' /\ TaskCur'
  BY NextClientOK DEF TypeInv
<1>1. CASE OpenFile
  BY <1>1 DEF OpenFile, Fail, TypeCore, TaskCur
<1>2. CASE ParseRoot
  BY <1>2 DEF ParseRoot, Fail, Crash, TypeCore, TaskCur
<1>3. CASE ParseClientMapping
  <2>1. UNCHANGED <<section, count, keys, items, tools, nodes, targets, tasks,
                    made, cur, list, listKey, declared, loadedTargets,
                    loadedTasks>>
    BY <1>3 DEF ParseClientMapping
  <2>2. Fail \/ (pc' = "top" /\ UNCHANGED <<result, errors>>)
    BY <1>3, Zenon DEF ParseClientMapping
  <2> QED
    BY <2>1, <2>2 DEF Fail, TypeCore, TaskCur
<1>4. CASE NextSection
  <2>1. \A s \in Sections : Later(s) \subseteq Sections
    BY DEF Later
  <2> QED
    BY <1>4, <2>1, SectionsList DEF NextSection, Fail, TypeCore, TaskCur
<1>5. CASE EndStream
  BY <1>5 DEF EndStream, Fail, TypeCore, TaskCur
<1>6. CASE SectionEnd
  BY <1>6 DEF SectionEnd, TypeCore, TaskCur
<1>7. CASE ToolsEntry
  BY <1>7, ToolsEntryType
<1>8. CASE TargetsEntry
  BY <1>8, TargetsEntryType
<1>9. CASE NodesEntry
  BY <1>9, NodesEntryType
<1>10. CASE TaskEntry
  BY <1>10, TaskEntryType
<1>11. CASE TaskKey
  BY <1>11, TaskKeyType
<1>12. CASE TaskItem
  BY <1>12, TaskItemType
<1>13. CASE TaskItemsEnd
  BY <1>13 DEF TaskItemsEnd, TypeCore, TaskCur, TaskInst
<1>14. CASE TaskEnd
  BY <1>14 DEF TaskEnd, Store, TypeCore, TaskCur, TaskInst
<1>15. CASE Done
  BY <1>15 DEF Done, vars, TypeCore, TaskCur
<1>16. CASE UNCHANGED vars
  BY <1>16 DEF vars, TypeCore, TaskCur
<1> QED
  BY <1>1, <1>2, <1>3, <1>4, <1>5, <1>6, <1>7, <1>8, <1>9, <1>10, <1>11,
     <1>12, <1>13, <1>14, <1>15, <1>16 DEF Next

\* Type correctness of the loader: every variable keeps its type in every
\* reachable state, whatever document is read.
THEOREM TypeCorrect == Spec => []TypeOK
<1>1. Spec => []TypeInv
  BY InitTypeInv, NextTypeInv, PTL DEF Spec
<1> QED
  BY <1>1, TypeInvTypeOK, PTL

====

------------------------- MODULE BuildFileSections -------------------------
(***************************************************************************)
(* Proofs of the two invariants that rest on the fixed order in which     *)
(* parseRootNode accepts the sections (client, tools, targets, nodes,     *)
(* tasks): nothing is registered or announced before the client section    *)
(* was accepted (ClientFirst), and a node is implicit exactly when the     *)
(* 'nodes' section did not declare it (ImplicitFlag).                      *)
(***************************************************************************)
EXTENDS BuildFileProofs

\* ClientFirst is not inductive: a step of a section creates entities, and
\* ClientFirst must know that the loader only reaches a section after
\* configureClient accepted.  Before the client mapping is parsed nothing
\* was accepted; after it, while the loader runs, the client was accepted.
ClientGate ==
    /\ ClientFirst
    /\ pc \in {"open", "root", "client"} => clientOK = FALSE
    /\ pc \notin {"open", "root", "client", "done"} => clientOK = TRUE

\* ImplicitFlag is not inductive either: a 'nodes' entry for a node that a
\* task created implicitly, or a task item naming a node the 'nodes'
\* section declared, would break it.  Neither can happen because the
\* section being parsed is the one pc says, an implicit node only exists
\* once the 'tasks' section began, and every declared node is registered.
NodeGate ==
    /\ ImplicitFlag
    /\ \A n \in declared : nodes[n] # None
    /\ \A n \in NodeNames :
          nodes[n] # None /\ nodes[n].isImplicit => section = "tasks"
    /\ pc \in {"tools", "targets", "nodes", "tasks"} => section = pc
    /\ pc \in {"taskKeys", "taskItems"} => section = "tasks"

\* The chain of ifs in parseRootNode never goes back to 'client', and
\* accepts nothing after 'tasks'.
LEMMA LaterSections ==
    /\ \A s \in Sections : Later(s) \subseteq Sections \ {"client"}
    /\ Later("tasks") = {}
<1>1. /\ Rank("client") = 1 /\ Rank("tools") = 2 /\ Rank("targets") = 3
      /\ Rank("nodes") = 4 /\ Rank("tasks") = 5
  BY DEF Rank, SectionOrder
<1>2. \A s \in Sections : Rank(s) \in 1..5
  BY <1>1, SectionsList
<1> QED
  BY <1>1, <1>2, SectionsList DEF Later

\* The start of a task entry enters the task mapping or returns.
LEMMA TaskEntryPc ==
    ASSUME TaskEntry PROVE pc' \in {"done", "taskKeys"}
<1> PICK keyKind \in Kinds, valKind \in Kinds, k \in TaskNames,
         first \in {"tool", "other", "none"}, toolKind \in Kinds,
         n \in ToolNames :
       \/ /\ \/ keyKind # "scalar" \/ valKind # "mapping"
             \/ first # "tool" \/ toolKind # "scalar"
          /\ Fail
          /\ UNCHANGED <<tools, made, count, cur, keys>>
       \/ /\ keyKind = "scalar" /\ valKind = "mapping"
          /\ first = "tool" /\ toolKind = "scalar"
          /\ ~ToolResolved(n)
          /\ Fail
          /\ UNCHANGED <<tools, made, count, cur, keys>>
       \/ /\ keyKind = "scalar" /\ valKind = "mapping"
          /\ first = "tool" /\ toolKind = "scalar"
          /\ ToolResolved(n)
          /\ tools' = [tools EXCEPT ![n] = GetOrCreateTool(n)]
          /\ cur' = NewTask(k, GetOrCreateTool(n))
          /\ made' = [made EXCEPT !.tool[n] =
                                     GenAfter(@, GetOrCreateTool(n)),
                                  !.task[k] = @ + 1]
          /\ count' = count + 1
          /\ keys' = 0
          /\ pc' = "taskKeys"
          /\ UNCHANGED <<result, errors>>
  BY DEF TaskEntry
<1> QED
  BY DEF Fail

\* A key of a task mapping leaves the loader inside the task, in its
\* sequence of nodes, or returned.
LEMMA TaskKeyPc ==
    ASSUME TaskKey PROVE pc' \in {"done", "taskItems", "taskKeys"}
<1> PICK key \in {"inputs", "outputs", "nonscalar"} \cup AttrKeys,
         valKind \in Kinds, accepted \in BOOLEAN :
       \/ /\ key \in {"inputs", "outputs"} /\ valKind # "sequence"
          /\ Fail
          /\ UNCHANGED <<cur, list, listKey, items>>
       \/ /\ key \in {"inputs", "outputs"} /\ valKind = "sequence"
          /\ pc' = "taskItems" /\ listKey' = key
          /\ list' = <<>> /\ items' = 0
          /\ UNCHANGED <<result, errors, cur>>
       \/ /\ key \notin {"inputs", "outputs"}
          /\ (key = "nonscalar" \/ valKind # "scalar")
          /\ Fail
          /\ UNCHANGED <<cur, list, listKey, items>>
       \/ /\ key \in AttrKeys /\ valKind = "scalar" /\ ~accepted
          /\ Stop
          /\ UNCHANGED <<cur, list, listKey, items>>
       \/ /\ key \in AttrKeys /\ valKind = "scalar" /\ accepted
          /\ cur' = [cur EXCEPT !.attrs = @ \cup {key}]
          /\ UNCHANGED <<pc, result, errors, list, listKey, items>>
  BY DEF TaskKey
<1> QED
  BY DEF TaskKey, Fail, Stop

\* A step taken after the client mapping was parsed, while the loader
\* runs: it leaves clientOK alone and never goes back before the client.
PostClient ==
    /\ pc \notin {"open", "root", "client", "done"}
    /\ pc' \notin {"open", "root", "client"}
    /\ UNCHANGED clientOK

LEMMA SectionStepsPostClient ==
    ASSUME TypeCore,
           \/ NextSection \/ EndStream \/ SectionEnd \/ ToolsEntry
           \/ TargetsEntry \/ NodesEntry \/ TaskEntry \/ TaskKey
           \/ TaskItem \/ TaskItemsEnd \/ TaskEnd
    PROVE  PostClient
<1>1. CASE NextSection
  <2>1. pc = "top" /\ UNCHANGED clientOK
    BY <1>1 DEF NextSection
  <2>2. ASSUME NEW key \in Sections \cup {"other", "end"}
        PROVE  \/ key = "end" /\ pc' = "stream"
               \/ key \in Later(section) /\ pc' \in {"done", key}
               \/ pc' = "done"
               => pc' \notin {"open", "root", "client"}
    BY LaterSections, SectionsList DEF TypeCore
  <2>3. \E key \in Sections \cup {"other", "end"} :
          \/ key = "end" /\ pc' = "stream"
          \/ key \in Later(section) /\ pc' \in {"done", key}
          \/ pc' = "done"
    BY <1>1 DEF NextSection, Fail
  <2> QED
    BY <2>1, <2>2, <2>3 DEF PostClient
<1>2. CASE EndStream
  BY <1>2 DEF EndStream, PostClient, Fail
<1>3. CASE SectionEnd
  BY <1>3 DEF SectionEnd, PostClient
<1>4. CASE ToolsEntry
  BY <1>4 DEF ToolsEntry, PostClient, Fail, AfterAttrs, Stop
<1>5. CASE TargetsEntry
  BY <1>5, Zenon DEF TargetsEntry, PostClient, Fail
<1>6. CASE NodesEntry
  BY <1>6 DEF NodesEntry, PostClient, Fail, AfterAttrs, Stop
<1>7. CASE TaskEntry
  BY <1>7, TaskEntryPc DEF TaskEntry, PostClient
<1>8. CASE TaskKey
  BY <1>8, TaskKeyPc DEF TaskKey, PostClient
<1>9. CASE TaskItem
  BY <1>9 DEF TaskItem, PostClient, Fail
<1>10. CASE TaskItemsEnd
  BY <1>10 DEF TaskItemsEnd, PostClient
<1>11. CASE TaskEnd
  BY <1>11 DEF TaskEnd, PostClient
<1> QED
  BY <1>1, <1>2, <1>3, <1>4, <1>5, <1>6, <1>7, <1>8, <1>9, <1>10, <1>11

\* Nothing is registered or announced: the premise of ClientFirst fails.
Untouched ==
    /\ \A n \in ToolNames : tools[n] = None
    /\ \A n \in NodeNames : nodes[n] = None
    /\ loadedTargets = {} /\ loadedTasks = {}

\* The steps up to the client mapping touch no registry.
RegistriesKept == UNCHANGED <<clientOK, tools, nodes, loadedTargets, loadedTasks>>

LEMMA NextClientGate ==
    ASSUME TypeCore, clientOK \in BOOLEAN, ClientGate, [Next]_vars
    PROVE  ClientGate'
<1>1. CASE OpenFile
  <2>1. RegistriesKept /\ pc = "open" /\ pc' \in {"root", "done"}
    BY <1>1 DEF OpenFile, Fail, RegistriesKept
  <2> QED
    BY <2>1, Zenon DEF ClientGate, ClientFirst, RegistriesKept
<1>2. CASE ParseRoot
  <2>1. RegistriesKept /\ pc = "root" /\ pc' \in {"client", "done"}
    BY <1>2 DEF ParseRoot, Fail, Crash, RegistriesKept
  <2> QED
    BY <2>1, Zenon DEF ClientGate, ClientFirst, RegistriesKept
<1>3. CASE ParseClientMapping
  <2>1. Untouched
    BY <1>3, Zenon DEF ParseClientMapping, ClientGate, ClientFirst, Untouched
  <2>2. UNCHANGED <<tools, nodes, loadedTargets, loadedTasks>>
    BY <1>3 DEF ParseClientMapping
  <2>3. \/ pc' = "top" /\ clientOK' = TRUE
        \/ pc' = "done"
    BY <1>3, Zenon DEF ParseClientMapping, ClientConfigured, Fail
  <2> QED
    BY <2>1, <2>2, <2>3 DEF ClientGate, ClientFirst, Untouched
<1>4. CASE \/ NextSection \/ EndStream \/ SectionEnd \/ ToolsEntry
           \/ TargetsEntry \/ NodesEntry \/ TaskEntry \/ TaskKey
           \/ TaskItem \/ TaskItemsEnd \/ TaskEnd
  <2>1. PostClient
    BY <1>4, SectionStepsPostClient
  <2>2. clientOK' = TRUE
    BY <2>1 DEF PostClient, ClientGate
  <2> QED
    BY <2>1, <2>2 DEF PostClient, ClientGate, ClientFirst
<1>5. CASE Done \/ UNCHANGED vars
  <2>1. UNCHANGED vars
    BY <1>5 DEF Done
  <2> QED
    BY <2>1 DEF vars, ClientGate, ClientFirst
<1> QED
  BY <1>1, <1>2, <1>3, <1>4, <1>5 DEF Next

\* The client section gates the rest (parseRootNode's check of the first
\* key, lines 166-175, and 'if (!delegate.configureClient(...)) return
\* false', line 288), for every value of the constants: no tool or node is
\* created and no target or task is announced to the delegate unless
\* configureClient accepted the client.
THEOREM ClientGatesSections == Spec => []ClientFirst
<1>1. Init => TypeInv /\ ClientGate
  BY InitTypeInv DEF Init, ClientGate, ClientFirst
<1>2. TypeInv /\ ClientGate /\ [Next]_vars => TypeInv' /\ ClientGate'
  BY NextTypeInv, NextClientGate DEF TypeInv
<1>3. Spec => [](TypeInv /\ ClientGate)
  BY <1>1, <1>2, PTL DEF Spec
<1> QED
  BY <1>3, PTL DEF ClientGate

----------------------------------------------------------------------------
(* ImplicitFlag.                                                           *)

\* The section a sub-parser runs in is the one parseRootNode last entered.
SectionOfPc ==
    /\ pc \in {"tools", "targets", "nodes", "tasks"} => section = pc
    /\ pc \in {"taskKeys", "taskItems"} => section = "tasks"

LEMMA NodeGateSplit == NodeGate <=> (NodeGate /\ SectionOfPc)
BY DEF NodeGate, SectionOfPc

\* A step that touches neither the nodes, the declarations nor the section
\* keeps NodeGate as long as pc stays in its section.
LEMMA NodeGateFrame ==
    ASSUME NodeGate, UNCHANGED <<nodes, declared, section>>, SectionOfPc'
    PROVE  NodeGate'
BY DEF NodeGate, SectionOfPc, ImplicitFlag

\* The 'nodes' section: getOrCreateNode(name, /*isImplicit=*/false) finds
\* no implicit node, since tasks have not been parsed yet.
LEMMA DeclareNode ==
    ASSUME TypeCore, NodeGate, pc = "nodes", NEW n \in NodeNames,
           nodes' = [nodes EXCEPT ![n] = GetOrCreateNode(n, FALSE)],
           declared' = declared \cup {n}, UNCHANGED section,
           pc' \in {"nodes", "done"}
    PROVE  NodeGate'
<1>1. section = "nodes"
  BY DEF NodeGate
<1>2. nodes[n] # None => nodes[n].isImplicit = FALSE
  BY <1>1 DEF NodeGate, TypeCore, NodeInst
<1>3. nodes'[n] # None /\ nodes'[n].isImplicit = FALSE
  <2>1. nodes'[n] = GetOrCreateNode(n, FALSE)
    BY DEF TypeCore
  <2>2. GetOrCreateNode(n, FALSE) \in NodeInst
    BY NodeLookupType
  <2>3. GetOrCreateNode(n, FALSE).isImplicit = FALSE
    BY <1>2 DEF GetOrCreateNode
  <2> QED
    BY <2>1, <2>2, <2>3, NoneAssumption
<1>4. ASSUME NEW m \in NodeNames, m # n
      PROVE  nodes'[m] = nodes[m] /\ (m \in declared' <=> m \in declared)
  BY <1>4 DEF TypeCore
<1>5. ImplicitFlag'
  BY <1>3, <1>4 DEF NodeGate, ImplicitFlag
<1>6. \A m \in declared' : nodes'[m] # None
  BY <1>3, <1>4 DEF NodeGate, TypeCore
<1>7. \A m \in NodeNames :
        nodes'[m] # None /\ nodes'[m].isImplicit => section' = "tasks"
  BY <1>3, <1>4 DEF NodeGate
<1> QED
  BY <1>1, <1>5, <1>6, <1>7 DEF NodeGate

\* A task item: getOrCreateNode(name, /*isImplicit=*/true) creates an
\* implicit node only for a name the 'nodes' section did not declare.
LEMMA ReferNode ==
    ASSUME TypeCore, NodeGate, pc = "taskItems", NEW n \in NodeNames,
           nodes' = [nodes EXCEPT ![n] = GetOrCreateNode(n, TRUE)],
           UNCHANGED <<declared, section>>, pc' \in {"taskItems", "done"}
    PROVE  NodeGate'
<1>1. section = "tasks"
  BY DEF NodeGate
<1>2. nodes[n] = None => n \notin declared
  BY DEF NodeGate
<1>3. nodes'[n] = IF nodes[n] # None THEN nodes[n]
                  ELSE [name |-> n, gen |-> made.node[n] + 1, isImplicit |-> TRUE]
  BY DEF TypeCore, GetOrCreateNode
<1>4. ASSUME NEW m \in NodeNames, m # n PROVE nodes'[m] = nodes[m]
  BY <1>4 DEF TypeCore
<1>5. nodes'[n] # None /\ (nodes'[n].isImplicit <=> n \notin declared)
  <2>1. nodes'[n] \in NodeInst
    BY NodeLookupType DEF TypeCore
  <2>2. nodes'[n] # None
    BY <2>1, NoneAssumption
  <2>3. nodes'[n].isImplicit <=> n \notin declared
    <3>1. CASE nodes[n] # None
      BY <1>3, <3>1 DEF NodeGate, ImplicitFlag
    <3>2. CASE nodes[n] = None
      <4>1. nodes'[n] = [name |-> n, gen |-> made.node[n] + 1, isImplicit |-> TRUE]
        BY <1>3, <3>2
      <4>2. nodes'[n].isImplicit = TRUE
        BY ONLY <4>1
      <4> QED
        BY ONLY <1>2, <3>2, <4>2
    <3> QED
      BY <3>1, <3>2
  <2> QED
    BY <2>2, <2>3
<1>6. ImplicitFlag'
  BY <1>4, <1>5 DEF NodeGate, ImplicitFlag
<1>7. \A m \in declared' : nodes'[m] # None
  BY <1>4, <1>5 DEF NodeGate, TypeCore
<1>8. SectionOfPc'
  BY <1>1 DEF SectionOfPc
<1> QED
  BY <1>1, <1>6, <1>7, <1>8 DEF NodeGate, SectionOfPc

LEMMA NodesEntryGate ==
    ASSUME TypeCore, NodeGate, NodesEntry PROVE NodeGate'
<1>0. UNCHANGED section /\ pc = "nodes"
  BY DEF NodesEntry
<1> PICK keyKind \in Kinds, valKind \in Kinds, n \in NodeNames,
         outcome \in AttrOutcomes :
       \/ /\ (keyKind # "scalar" \/ valKind # "mapping")
          /\ Fail
          /\ UNCHANGED <<nodes, made, count, declared>>
       \/ /\ keyKind = "scalar" /\ valKind = "mapping"
          /\ nodes' = [nodes EXCEPT ![n] = GetOrCreateNode(n, FALSE)]
          /\ made' = [made EXCEPT !.node[n] = GetOrCreateNode(n, FALSE).gen]
          /\ declared' = declared \cup {n}
          /\ AfterAttrs(outcome)
  BY DEF NodesEntry
<1>1. CASE Fail /\ UNCHANGED <<nodes, made, count, declared>>
  BY <1>0, <1>1, NodeGateFrame DEF Fail, SectionOfPc
<1>2. CASE /\ nodes' = [nodes EXCEPT ![n] = GetOrCreateNode(n, FALSE)]
           /\ declared' = declared \cup {n}
           /\ AfterAttrs(outcome)
  <2>1. pc' \in {"nodes", "done"}
    BY <1>0, <1>2 DEF AfterAttrs, Fail, Stop
  <2> QED
    BY <1>0, <1>2, <2>1, DeclareNode
<1> QED
  BY <1>1, <1>2

LEMMA TaskItemGate ==
    ASSUME TypeCore, NodeGate, TaskItem PROVE NodeGate'
<1>0. UNCHANGED <<section, declared>> /\ pc = "taskItems"
  BY DEF TaskItem
<1> PICK kind \in Kinds, n \in NodeNames :
       \/ kind # "scalar" /\ Fail /\ UNCHANGED <<nodes, made, list, items>>
       \/ /\ kind = "scalar"
          /\ nodes' = [nodes EXCEPT ![n] = GetOrCreateNode(n, TRUE)]
          /\ made' = [made EXCEPT !.node[n] = GetOrCreateNode(n, TRUE).gen]
          /\ list' = Append(list, GetOrCreateNode(n, TRUE))
          /\ items' = items + 1
          /\ UNCHANGED <<pc, result, errors>>
  BY DEF TaskItem
<1>1. CASE Fail /\ UNCHANGED <<nodes, made, list, items>>
  BY <1>0, <1>1, NodeGateFrame DEF Fail, SectionOfPc
<1>2. CASE /\ nodes' = [nodes EXCEPT ![n] = GetOrCreateNode(n, TRUE)]
           /\ UNCHANGED pc
  BY <1>0, <1>2, ReferNode
<1> QED
  BY <1>1, <1>2

\* Leaving a section for a later one: an implicit node means the 'tasks'
\* section was entered, after which no section is accepted.
LEMMA NextSectionGate ==
    ASSUME TypeCore, NodeGate, NextSection PROVE NodeGate'
<1>0. UNCHANGED <<nodes, declared>> /\ pc = "top"
  BY DEF NextSection
<1>1. \/ pc' \in {"stream", "done"} /\ UNCHANGED section
      \/ section' \in Later(section) /\ pc' = section'
  BY Zenon DEF NextSection, Fail
<1>2. CASE pc' \in {"stream", "done"} /\ UNCHANGED section
  BY <1>0, <1>2, NodeGateFrame DEF SectionOfPc
<1>3. CASE section' \in Later(section) /\ pc' = section'
  <2>1. section # "tasks"
    BY <1>3, LaterSections
  <2>2. \A n \in NodeNames : nodes[n] # None => ~nodes[n].isImplicit
    BY <2>1 DEF NodeGate
  <2>3. SectionOfPc'
    BY <1>3, LaterSections, SectionsList DEF SectionOfPc, TypeCore
  <2> QED
    BY <1>0, <2>2, <2>3 DEF NodeGate, ImplicitFlag, SectionOfPc
<1> QED
  BY <1>1, <1>2, <1>3

\* The other steps leave the nodes, the declarations and the section
\* alone, and pc within the section.
LEMMA FrameGate ==
    ASSUME TypeCore, NodeGate,
           \/ OpenFile \/ ParseRoot \/ ParseClientMapping \/ EndStream
           \/ SectionEnd \/ ToolsEntry \/ TargetsEntry \/ TaskEntry
           \/ TaskKey \/ TaskItemsEnd \/ TaskEnd
    PROVE  NodeGate'
<1>1. SectionOfPc
  BY NodeGateSplit
<1>2. CASE OpenFile \/ ParseRoot \/ ParseClientMapping \/ EndStream
  <2>1. pc' \in {"root", "client", "top", "done"}
    BY <1>2, Zenon DEF OpenFile, ParseRoot, ParseClientMapping, EndStream,
       Fail, Crash
  <2>2. UNCHANGED <<nodes, declared, section>>
    BY <1>2 DEF OpenFile, ParseRoot, ParseClientMapping, EndStream
  <2> QED
    BY <2>1, <2>2, NodeGateFrame DEF SectionOfPc
<1>3. CASE SectionEnd
  BY <1>3, NodeGateFrame DEF SectionEnd, SectionOfPc
<1>4. CASE ToolsEntry
  <2>1. pc = "tools" /\ pc' \in {"tools", "done"}
    BY <1>4 DEF ToolsEntry, Fail, AfterAttrs, Stop
  <2> QED
    BY <1>1, <1>4, <2>1, NodeGateFrame DEF ToolsEntry, SectionOfPc
<1>5. CASE TargetsEntry
  <2>1. pc = "targets" /\ pc' \in {"targets", "done"}
    BY <1>5, Zenon DEF TargetsEntry, Fail
  <2> QED
    BY <1>1, <1>5, <2>1, NodeGateFrame DEF TargetsEntry, SectionOfPc
<1>6. CASE TaskEntry
  <2>1. pc = "tasks"
    BY <1>6 DEF TaskEntry
  <2> QED
    BY <1>1, <1>6, <2>1, TaskEntryPc, NodeGateFrame DEF TaskEntry, SectionOfPc
<1>7. CASE TaskKey
  <2>1. pc = "taskKeys"
    BY <1>7 DEF TaskKey
  <2> QED
    BY <1>1, <1>7, <2>1, TaskKeyPc, NodeGateFrame DEF TaskKey, SectionOfPc
<1>8. CASE TaskItemsEnd \/ TaskEnd
  BY <1>1, <1>8, NodeGateFrame DEF TaskItemsEnd, TaskEnd, SectionOfPc
<1> QED
  BY <1>2, <1>3, <1>4, <1>5, <1>6, <1>7, <1>8

LEMMA NextNodeGate ==
    ASSUME TypeCore, NodeGate, [Next]_vars PROVE NodeGate'
<1>1. CASE NodesEntry
  BY <1>1, NodesEntryGate
<1>2. CASE TaskItem
  BY <1>2, TaskItemGate
<1>3. CASE NextSection
  BY <1>3, NextSectionGate
<1>4. CASE Done \/ UNCHANGED vars
  <2>1. UNCHANGED vars
    BY <1>4 DEF Done
  <2> QED
    BY <2>1 DEF vars, NodeGate, ImplicitFlag
<1> QED
  BY <1>1, <1>2, <1>3, <1>4, FrameGate DEF Next

\* The implicit flag (getOrCreateNode's isImplicit argument: false in
\* parseNodesMapping, line 414, true for the items of a task's 'inputs'
\* and 'outputs', lines 517-546), for every value of the constants: a
\* registered node is implicit exactly when the 'nodes' section never
\* declared it, whatever tasks referred to it.
THEOREM ImplicitExactlyUndeclared == Spec => []ImplicitFlag
<1>1. Init => TypeInv /\ NodeGate
  BY InitTypeInv DEF Init, NodeGate, ImplicitFlag
<1>2. TypeInv /\ NodeGate /\ [Next]_vars => TypeInv' /\ NodeGate'
  BY NextTypeInv, NextNodeGate DEF TypeInv
<1>3. Spec => [](TypeInv /\ NodeGate)
  BY <1>1, <1>2, PTL DEF Spec
<1> QED
  BY <1>3, PTL DEF NodeGate
============================================================================

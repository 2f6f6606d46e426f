------------------------- MODULE BuildFileIdentity -------------------------
(***************************************************************************)
(* Proof of the identity of tools and nodes (RegistryIdentity) for every   *)
(* value of the constants: delegate.lookupTool / lookupNode is called for *)
(* a name only while nothing is registered under it, its object is        *)
(* registered in the same step, and no registered object is replaced.     *)
(***************************************************************************)
EXTENDS BuildFileProofs

\* A registered tool or node is the last object created for its name.
\* Without it a step could not tell, from made alone, that a cache hit
\* leaves the creation counter where it was.
ToolTracks == \A n \in ToolNames : tools[n] # None => tools[n].gen = made.tool[n]
NodeTracks == \A n \in NodeNames : nodes[n] # None => nodes[n].gen = made.node[n]
MadeTracks == ToolTracks /\ NodeTracks

\* The two halves of CreatedOnce.
ToolIdentity ==
    \A n \in ToolNames :
        /\ made'.tool[n] # made.tool[n] =>
              tools[n] = None /\ tools'[n] # None
              /\ tools'[n].gen = made'.tool[n]
        /\ tools[n] # None => tools'[n] = tools[n]
NodeIdentity ==
    \A n \in NodeNames :
        /\ made'.node[n] # made.node[n] =>
              nodes[n] = None /\ nodes'[n] # None
              /\ nodes'[n].gen = made'.node[n]
        /\ nodes[n] # None => nodes'[n] = nodes[n]

LEMMA IdentitySplit == ToolIdentity /\ NodeIdentity => CreatedOnce
BY DEF ToolIdentity, NodeIdentity, CreatedOnce

\* A step that leaves the tool registry and its counters alone.
LEMMA ToolFrame ==
    ASSUME ToolTracks, UNCHANGED tools, made'.tool = made.tool
    PROVE  ToolIdentity /\ ToolTracks'
BY DEF ToolIdentity, ToolTracks

\* Likewise for nodes.
LEMMA NodeFrame ==
    ASSUME NodeTracks, UNCHANGED nodes, made'.node = made.node
    PROVE  NodeIdentity /\ NodeTracks'
BY DEF NodeIdentity, NodeTracks

\* getOrCreateTool's result stored under its name (lines 126-142).
LEMMA ToolStep ==
    ASSUME TypeCore, ToolTracks, NEW n \in ToolNames, ToolResolved(n),
           tools' = [tools EXCEPT ![n] = GetOrCreateTool(n)],
           made'.tool = [made.tool EXCEPT ![n] = GenAfter(made.tool[n],
                                                          GetOrCreateTool(n))]
    PROVE  ToolIdentity /\ ToolTracks'
<1>1. GetOrCreateTool(n) \in ToolInst
  BY ToolLookupType
<1>2. tools[n] # None => GetOrCreateTool(n) = tools[n]
  BY DEF GetOrCreateTool
<1>3. tools[n] = None => GetOrCreateTool(n).gen = made.tool[n] + 1
  BY DEF GetOrCreateTool, ToolResolved
<1> QED
  BY <1>1, <1>2, <1>3, NoneAssumption
  DEF TypeCore, MadeType, ToolIdentity, ToolTracks, GenAfter

\* getOrCreateNode's result stored under its name (lines 144-157).
LEMMA NodeStep ==
    ASSUME TypeCore, NodeTracks, NEW n \in NodeNames, NEW b \in BOOLEAN,
           nodes' = [nodes EXCEPT ![n] = GetOrCreateNode(n, b)],
           made'.node = [made.node EXCEPT ![n] = GetOrCreateNode(n, b).gen]
    PROVE  NodeIdentity /\ NodeTracks'
<1>1. GetOrCreateNode(n, b) \in NodeInst
  BY NodeLookupType
<1>2. nodes[n] # None => GetOrCreateNode(n, b) = nodes[n]
  BY DEF GetOrCreateNode
<1>3. nodes[n] = None => GetOrCreateNode(n, b).gen = made.node[n] + 1
  BY DEF GetOrCreateNode
<1> QED
  BY <1>1, <1>2, <1>3, NoneAssumption
  DEF TypeCore, MadeType, NodeIdentity, NodeTracks

\* parseToolsMapping: a failing entry or a stored getOrCreateTool result.
LEMMA ToolsEntryId ==
    ASSUME TypeCore, MadeTracks, ToolsEntry PROVE CreatedOnce /\ MadeTracks'
<1>1. UNCHANGED nodes
  BY DEF ToolsEntry
<1>2. \/ UNCHANGED <<tools, made>>
      \/ \E n \in ToolNames :
            /\ ToolResolved(n)
            /\ tools' = [tools EXCEPT ![n] = GetOrCreateTool(n)]
            /\ made' = [made EXCEPT !.tool[n] = GenAfter(@, GetOrCreateTool(n))]
  BY DEF ToolsEntry
<1>3. CASE UNCHANGED <<tools, made>>
  BY <1>1, <1>3, ToolFrame, NodeFrame, IdentitySplit DEF MadeTracks
<1>4. CASE \E n \in ToolNames :
            /\ ToolResolved(n)
            /\ tools' = [tools EXCEPT ![n] = GetOrCreateTool(n)]
            /\ made' = [made EXCEPT !.tool[n] = GenAfter(@, GetOrCreateTool(n))]
  <2>1. PICK n \in ToolNames :
            /\ ToolResolved(n)
            /\ tools' = [tools EXCEPT ![n] = GetOrCreateTool(n)]
            /\ made' = [made EXCEPT !.tool[n] = GenAfter(@, GetOrCreateTool(n))]
    BY <1>4
  <2>2. /\ made'.tool = [made.tool EXCEPT ![n] = GenAfter(made.tool[n],
                                                          GetOrCreateTool(n))]
        /\ made'.node = made.node
    BY <2>1 DEF TypeCore, MadeType
  <2> QED
    BY <1>1, <2>1, <2>2, ToolStep, NodeFrame, IdentitySplit DEF MadeTracks
<1> QED
  BY <1>2, <1>3, <1>4

\* parseTasksMapping's first key: the task's tool, as for a tools entry.
LEMMA TaskEntryId ==
    ASSUME TypeCore, MadeTracks, TaskEntry PROVE CreatedOnce /\ MadeTracks'
<1>0. UNCHANGED nodes
  BY DEF TaskEntry
<1> PICK keyKind \in Kinds, valKind \in Kinds, k \in TaskNames,
         first \in {"tool", "other", "none"}, toolKind \in Kinds,
         n \in ToolNames :
       \/ /\ \/ keyKind # "scalar" \/ valKind # "mapping"
             \/ first # "tool" \/ toolKind # "scalar"
          /\ Fail
          /\ UNCHANGED <<tools, made, count, cur, keys>>
       \/ /\ keyKind = "scalar" /\ valKind = "mapping"
          /\ first = "tool" /\ toolKind = "scalar"
          /\ ~ToolResolved(n)
          /\ Fail
          /\ UNCHANGED <<tools, made, count, cur, keys>>
       \/ /\ keyKind = "scalar" /\ valKind = "mapping"
          /\ first = "tool" /\ toolKind = "scalar"
          /\ ToolResolved(n)
          /\ tools' = [tools EXCEPT ![n] = GetOrCreateTool(n)]
          /\ cur' = NewTask(k, GetOrCreateTool(n))
          /\ made' = [made EXCEPT !.tool[n] = GenAfter(@, GetOrCreateTool(n)),
                                  !.task[k] = @ + 1]
          /\ count' = count + 1
          /\ keys' = 0
          /\ pc' = "taskKeys"
          /\ UNCHANGED <<result, errors>>
  BY DEF TaskEntry
<1>1. CASE UNCHANGED <<tools, made>>
  BY <1>0, <1>1, ToolFrame, NodeFrame, IdentitySplit DEF MadeTracks
<1>2. CASE /\ ToolResolved(n)
           /\ tools' = [tools EXCEPT ![n] = GetOrCreateTool(n)]
           /\ made' = [made EXCEPT !.tool[n] = GenAfter(@, GetOrCreateTool(n)),
                                   !.task[k] = @ + 1]
  <2>1. /\ made'.tool = [made.tool EXCEPT ![n] = GenAfter(made.tool[n],
                                                          GetOrCreateTool(n))]
        /\ made'.node = made.node
    BY <1>2 DEF TypeCore, MadeType
  <2> QED
    BY <1>0, <1>2, <2>1, ToolStep, NodeFrame, IdentitySplit DEF MadeTracks
<1> QED
  BY <1>1, <1>2

\* parseNodesMapping: a failing entry or a stored explicit node.
LEMMA NodesEntryId ==
    ASSUME TypeCore, MadeTracks, NodesEntry PROVE CreatedOnce /\ MadeTracks'
<1>1. UNCHANGED tools
  BY DEF NodesEntry
<1>2. \/ UNCHANGED <<nodes, made>>
      \/ \E n \in NodeNames :
            /\ nodes' = [nodes EXCEPT ![n] = GetOrCreateNode(n, FALSE)]
            /\ made' = [made EXCEPT !.node[n] = GetOrCreateNode(n, FALSE).gen]
  BY DEF NodesEntry
<1>3. CASE UNCHANGED <<nodes, made>>
  BY <1>1, <1>3, ToolFrame, NodeFrame, IdentitySplit DEF MadeTracks
<1>4. CASE \E n \in NodeNames :
            /\ nodes' = [nodes EXCEPT ![n] = GetOrCreateNode(n, FALSE)]
            /\ made' = [made EXCEPT !.node[n] = GetOrCreateNode(n, FALSE).gen]
  <2>1. PICK n \in NodeNames :
            /\ nodes' = [nodes EXCEPT ![n] = GetOrCreateNode(n, FALSE)]
            /\ made' = [made EXCEPT !.node[n] = GetOrCreateNode(n, FALSE).gen]
    BY <1>4
  <2>2. /\ made'.node = [made.node EXCEPT ![n] = GetOrCreateNode(n, FALSE).gen]
        /\ made'.tool = made.tool
    BY <2>1 DEF TypeCore, MadeType
  <2> QED
    BY <1>1, <2>1, <2>2, NodeStep, ToolFrame, IdentitySplit DEF MadeTracks
<1> QED
  BY <1>2, <1>3, <1>4

\* An 'inputs'/'outputs' item: a failing item or a stored implicit node.
LEMMA TaskItemId ==
    ASSUME TypeCore, MadeTracks, TaskItem PROVE CreatedOnce /\ MadeTracks'
<1>1. UNCHANGED tools
  BY DEF TaskItem
<1>2. \/ UNCHANGED <<nodes, made>>
      \/ \E n \in NodeNames :
            /\ nodes' = [nodes EXCEPT ![n] = GetOrCreateNode(n, TRUE)]
            /\ made' = [made EXCEPT !.node[n] = GetOrCreateNode(n, TRUE).gen]
  BY DEF TaskItem
<1>3. CASE UNCHANGED <<nodes, made>>
  BY <1>1, <1>3, ToolFrame, NodeFrame, IdentitySplit DEF MadeTracks
<1>4. CASE \E n \in NodeNames :
            /\ nodes' = [nodes EXCEPT ![n] = GetOrCreateNode(n, TRUE)]
            /\ made' = [made EXCEPT !.node[n] = GetOrCreateNode(n, TRUE).gen]
  <2>1. PICK n \in NodeNames :
            /\ nodes' = [nodes EXCEPT ![n] = GetOrCreateNode(n, TRUE)]
            /\ made' = [made EXCEPT !.node[n] = GetOrCreateNode(n, TRUE).gen]
    BY <1>4
  <2>2. /\ made'.node = [made.node EXCEPT ![n] = GetOrCreateNode(n, TRUE).gen]
        /\ made'.tool = made.tool
    BY <2>1 DEF TypeCore, MadeType
  <2> QED
    BY <1>1, <2>1, <2>2, NodeStep, ToolFrame, IdentitySplit DEF MadeTracks
<1> QED
  BY <1>2, <1>3, <1>4
\* A step that touches neither registry nor their creation counters.
LEMMA FrameId ==
    ASSUME MadeTracks, UNCHANGED <<tools, nodes, made>>
    PROVE  CreatedOnce /\ MadeTracks'
BY ToolFrame, NodeFrame, IdentitySplit DEF MadeTracks

\* Every step of the loader keeps MadeTracks and satisfies CreatedOnce.
LEMMA NextId ==
    ASSUME TypeCore, MadeTracks, [Next]_vars
    PROVE  CreatedOnce /\ MadeTracks'
<1>1. CASE \/ OpenFile \/ ParseRoot \/ ParseClientMapping \/ NextSection
           \/ EndStream \/ SectionEnd \/ TaskKey \/ TaskItemsEnd \/ TaskEnd
           \/ Done \/ UNCHANGED vars
  <2>1. UNCHANGED <<tools, nodes, made>>
    BY <1>1 DEF OpenFile, ParseRoot, ParseClientMapping, NextSection,
       EndStream, SectionEnd, TaskKey, TaskItemsEnd, TaskEnd, Done, vars
  <2> QED
    BY <2>1, FrameId
<1>2. CASE TargetsEntry
  <2>1. UNCHANGED <<tools, nodes>>
    BY <1>2 DEF TargetsEntry
  <2>2. \E g \in TargetNames : \E x :
           made' = made \/ made' = [made EXCEPT !.target[g] = x]
    BY <1>2, Zenon DEF TargetsEntry
  <2>3. made'.tool = made.tool /\ made'.node = made.node
    BY <2>2 DEF TypeCore, MadeType
  <2> QED
    BY <2>1, <2>3, ToolFrame, NodeFrame, IdentitySplit DEF MadeTracks
<1>3. CASE ToolsEntry
  BY <1>3, ToolsEntryId
<1>4. CASE TaskEntry
  BY <1>4, TaskEntryId
<1>5. CASE NodesEntry
  BY <1>5, NodesEntryId
<1>6. CASE TaskItem
  BY <1>6, TaskItemId
<1> QED
  BY <1>1, <1>2, <1>3, <1>4, <1>5, <1>6 DEF Next

\* Nothing is registered before the parse starts.
LEMMA InitMadeTracks == Init => MadeTracks
BY DEF Init, MadeTracks, ToolTracks, NodeTracks

\* Object identity of tools and nodes (getOrCreateTool, getOrCreateNode,
\* lines 126-157), for every value of the constants: the delegate's factory
\* is asked for a name only while nothing is registered under it, the
\* object it returns is registered at once, and a registered tool or node
\* is never replaced.
THEOREM IdentityOfEntities == Spec => RegistryIdentity
<1>1. Init => TypeInv /\ MadeTracks
  BY InitTypeInv, InitMadeTracks
<1>2. TypeInv /\ MadeTracks /\ [Next]_vars => TypeInv' /\ MadeTracks'
  BY NextTypeInv, NextId DEF TypeInv
<1>3. TypeInv /\ MadeTracks /\ [Next]_vars => [CreatedOnce]_vars
  BY NextId DEF TypeInv
<1>4. Spec => [](TypeInv /\ MadeTracks)
  BY <1>1, <1>2, PTL DEF Spec
<1> QED
  BY <1>3, <1>4, PTL DEF Spec, RegistryIdentity
============================================================================

----------------------------- MODULE BuildFile -----------------------------
(***************************************************************************)
(* The build-file loader of llbuild (src/lib/BuildSystem/BuildFile.cpp):   *)
(* BuildFileImpl::load and the recursive-descent walk of the YAML document *)
(* (parseRootNode and the client, tools, targets, nodes and tasks          *)
(* sub-parsers), with the entity registry it fills and the calls it makes  *)
(* into the BuildFileDelegate.                                             *)
(*                                                                         *)
(* The YAML document is not chosen up front: the LLVM YAML stream is       *)
(* parsed lazily as the loader iterates over it, so every step that reads  *)
(* a key, a value or a sequence item chooses what it reads with \E.  The   *)
(* behaviours of the specification are therefore the walks of every        *)
(* document within the size bounds.  Names are model values; an entity     *)
(* instance is a record whose gen field tells apart the objects created    *)
(* for the same name (the C++ object identity).                            *)
(***************************************************************************)
EXTENDS Naturals, Sequences

CONSTANTS
    ToolNames,      \* names a document may give to tools
    KnownTools,     \* the names delegate.lookupTool recognises
    NodeNames,      \* names a document may give to nodes
    TargetNames,    \* names of entries of the 'targets' section
    TaskNames,      \* names of entries of the 'tasks' section
    MaxEntries,     \* entries read from one section mapping
    MaxKeys,        \* keys read from one task mapping after 'tool'
    MaxItems,       \* items read from one 'inputs'/'outputs' sequence
    None            \* the null pointer / empty registry slot

ASSUME KnownToolsAssumption == KnownTools \subseteq ToolNames
ASSUME BoundsAssumption ==
    /\ MaxEntries \in Nat /\ MaxKeys \in Nat /\ MaxItems \in Nat

VARIABLES
    pc,         \* where the loader is: the handler it is in
    result,     \* "running", or what load() returned: "ok", "fail", "crash"
    errors,     \* number of delegate.error calls
    section,    \* the last top-level section parsed (the iterator 'it')
    count,      \* entries read from the current section mapping
    keys,       \* keys read from the current task mapping after 'tool'
    items,      \* items read from the current inputs/outputs sequence
    clientOK,   \* delegate.configureClient has accepted the client
    tools,      \* BuildFileImpl::tools    name -> Tool*
    nodes,      \* BuildFileImpl::nodes    name -> Node*
    targets,    \* BuildFileImpl::targets  name -> Target*
    tasks,      \* BuildFileImpl::tasks    name -> Task*
    made,       \* per kind and name, the gen of the last instance created
    cur,        \* the task being parsed (the local 'task' unique_ptr)
    list,       \* the node list being collected for 'inputs'/'outputs'
    listKey,    \* which of the two that list is for
    declared,   \* history: node names looked up by the 'nodes' section
    loadedTargets, \* history: targets passed to delegate.loadedTarget
    loadedTasks    \* history: tasks passed to delegate.loadedTask

vars == <<pc, result, errors, section, count, keys, items, clientOK, tools,
          nodes, targets, tasks, made, cur, list, listKey, declared,
          loadedTargets, loadedTasks>>

----------------------------------------------------------------------------
(* Document vocabulary.  Null and alias YAML nodes behave everywhere like  *)
(* any other kind that is not the one expected, so three kinds suffice.    *)

Kinds == {"scalar", "mapping", "sequence"}

\* Mutant: 'nodes' accepted after 'tasks'.
SectionOrderNodesLast == <<"client", "tools", "targets", "tasks", "nodes">>

\* The sections of the top-level mapping, in the order parseRootNode
\* accepts them.
SectionOrder == <<"client", "tools", "targets", "nodes", "tasks">>

Sections == {SectionOrder[i] : i \in 1..Len(SectionOrder)}

Rank(s) == CHOOSE i \in 1..Len(SectionOrder) : SectionOrder[i] = s

\* The sections the chain of ifs in parseRootNode still accepts after s.
Later(s) == {t \in Sections : Rank(t) > Rank(s)}

\* The non-reserved scalar keys a task mapping may hold after 'tool'.
AttrKeys == {"tool", "args"}

\* What a loop of configureAttribute calls over a scalar mapping ends in:
\* all accepted, a non-scalar key or value, or a rejected attribute.
AttrOutcomes == {"ok", "badKind", "rejected"}

----------------------------------------------------------------------------
(* Entity instances.                                                       *)

Gen == Nat \ {0}
ToolInst == [name : ToolNames, gen : Gen]
NodeInst == [name : NodeNames, gen : Gen, isImplicit : BOOLEAN]
TargetInst == [name : TargetNames, gen : Gen]
TaskInst == [name : TaskNames, gen : Gen, tool : ToolInst,
             inputs : Seq(NodeInst), outputs : Seq(NodeInst),
             attrs : SUBSET AttrKeys]

\* None, the empty slot, is no entity.
ASSUME NoneAssumption ==
    None \notin ToolInst \cup NodeInst \cup TargetInst \cup TaskInst

\* Mutant: getOrCreateTool without its map lookup.
GetOrCreateToolUncached(n) ==
    IF n \in KnownTools THEN [name |-> n, gen |-> made.tool[n] + 1] ELSE None

\* getOrCreateTool: the registered tool, else delegate.lookupTool(name),
\* which yields a new tool for a known name and nullptr otherwise.
GetOrCreateTool(n) ==
    IF tools[n] # None THEN tools[n]
    ELSE IF n \in KnownTools THEN [name |-> n, gen |-> made.tool[n] + 1]
    ELSE None

\* Mutant: the null check dropped.
ToolResolvedUnchecked(n) == TRUE

\* The callers' 'if (!tool) return false;'.
ToolResolved(n) == GetOrCreateTool(n) # None

\* Mutant: getOrCreateNode without its map lookup.
GetOrCreateNodeUncached(n, isImplicit) ==
    [name |-> n, gen |-> made.node[n] + 1, isImplicit |-> isImplicit]

\* getOrCreateNode: the registered node, else delegate.lookupNode, which
\* never fails.
GetOrCreateNode(n, isImplicit) ==
    IF nodes[n] # None THEN nodes[n]
    ELSE [name |-> n, gen |-> made.node[n] + 1, isImplicit |-> isImplicit]

\* The gen recorded after a lookup that yielded inst.
GenAfter(old, inst) == IF inst = None THEN old ELSE inst.gen

\* Mutant: map.insert({name, ...}), which keeps an existing entry.
StoreIfAbsent(old, new) == IF old = None THEN new ELSE old

\* 'targets[name] = std::move(target)' and 'tasks[name] = std::move(task)'.
Store(old, new) == new

\* The Task a tool's createTask(name) factory returns.
NewTask(k, tool) ==
    [name |-> k, gen |-> made.task[k] + 1, tool |-> tool,
     inputs |-> <<>>, outputs |-> <<>>, attrs |-> {}]

----------------------------------------------------------------------------
(* Outcomes of a handler.                                                  *)

\* Mutant: delegate.error(...) without the 'return false'.
FailNoReturn == /\ errors' = errors + 1
                /\ UNCHANGED <<result, pc>>

\* delegate.error(...) followed by 'return false' up to load().
Fail == /\ errors' = errors + 1
        /\ result' = "fail"
        /\ pc' = "done"

\* 'return false' with no diagnostic.
Stop == /\ result' = "fail"
        /\ pc' = "done"
        /\ UNCHANGED errors

\* Undefined behaviour that ends the process.
Crash == /\ result' = "crash"
         /\ pc' = "done"
         /\ UNCHANGED errors

\* The end of a loop over scalar attributes, after one section entry.
AfterAttrs(outcome) ==
    \/ /\ outcome = "ok"
       /\ count' = count + 1
       /\ UNCHANGED <<pc, result, errors>>
    \/ /\ outcome = "badKind"
       /\ Fail
       /\ UNCHANGED count
    \/ /\ outcome = "rejected"
       /\ Stop
       /\ UNCHANGED count

\* Mutant: configureClient's result ignored.
ClientConfiguredIgnored(accepted) == TRUE

\* delegate.configureClient's verdict as the loader acts on it.
ClientConfigured(accepted) == accepted

----------------------------------------------------------------------------
Init ==
    /\ pc = "open"
    /\ result = "running"
    /\ errors = 0
    /\ section = "client"
    /\ count = 0
    /\ keys = 0
    /\ items = 0
    /\ clientOK = FALSE
    /\ tools = [n \in ToolNames |-> None]
    /\ nodes = [n \in NodeNames |-> None]
    /\ targets = [g \in TargetNames |-> None]
    /\ tasks = [k \in TaskNames |-> None]
    /\ made = [tool |-> [n \in ToolNames |-> 0],
               node |-> [n \in NodeNames |-> 0],
               target |-> [g \in TargetNames |-> 0],
               task |-> [k \in TaskNames |-> 0]]
    /\ cur = None
    /\ list = <<>>
    /\ listKey = "inputs"
    /\ declared = {}
    /\ loadedTargets = {}
    /\ loadedTasks = {}

\* load(): open the file and take the first document of the stream.
OpenFile ==
    /\ pc = "open"
    /\ \/ Fail                          \* unable to open / missing document
       \/ pc' = "root" /\ UNCHANGED <<result, errors>>
    /\ UNCHANGED <<section, count, keys, items, clientOK, tools, nodes,
                   targets, tasks, made, cur, list, listKey, declared,
                   loadedTargets, loadedTasks>>

\* parseRootNode up to the call of parseClientMapping.  An empty root
\* mapping makes mapping->begin() the end iterator, which it->getKey()
\* dereferences.
ParseRoot ==
    /\ pc = "root"
    /\ \E rootKind \in Kinds, first \in {"client", "other", "empty"},
          valKind \in Kinds :
          \/ rootKind # "mapping" /\ Fail
          \/ rootKind = "mapping" /\ first = "empty" /\ Crash
          \/ rootKind = "mapping" /\ first = "other" /\ Fail
          \/ /\ rootKind = "mapping" /\ first = "client"
             /\ valKind # "mapping"
             /\ Fail
          \/ /\ rootKind = "mapping" /\ first = "client"
             /\ valKind = "mapping"
             /\ pc' = "client"
             /\ UNCHANGED <<result, errors>>
    /\ UNCHANGED <<section, count, keys, items, clientOK, tools, nodes,
                   targets, tasks, made, cur, list, listKey, declared,
                   loadedTargets, loadedTasks>>

\* parseClientMapping: the scalar entries (name, version, properties),
\* then delegate.configureClient.
ParseClientMapping ==
    /\ pc = "client"
    /\ \E outcome \in {"ok", "badKind", "badVersion"}, accepted \in BOOLEAN :
          \/ outcome # "ok" /\ Fail /\ UNCHANGED clientOK
          \/ /\ outcome = "ok" /\ ~ClientConfigured(accepted)
             /\ Fail
             /\ UNCHANGED clientOK
          \/ /\ outcome = "ok" /\ ClientConfigured(accepted)
             /\ clientOK' = accepted
             /\ pc' = "top"
             /\ UNCHANGED <<result, errors>>
    /\ UNCHANGED <<section, count, keys, items, tools, nodes, targets, tasks,
                   made, cur, list, listKey, declared, loadedTargets,
                   loadedTasks>>

\* parseRootNode after a section: '++it', then the chain of ifs that
\* accepts only a later section, then the trailing-section check.
NextSection ==
    /\ pc = "top"
    /\ \E key \in Sections \cup {"other", "end"}, valKind \in Kinds :
          \/ key = "end" /\ pc' = "stream"
             /\ UNCHANGED <<result, errors, section, count>>
          \/ /\ key \in Later(section) /\ valKind # "mapping"
             /\ Fail
             /\ UNCHANGED <<section, count>>
          \/ /\ key \in Later(section) /\ valKind = "mapping"
             /\ pc' = key /\ section' = key /\ count' = 0
             /\ UNCHANGED <<result, errors>>
          \/ /\ key \notin Later(section) \cup {"end"}
             /\ Fail
             /\ UNCHANGED <<section, count>>
    /\ UNCHANGED <<keys, items, clientOK, tools, nodes, targets, tasks, made,
                   cur, list, listKey, declared, loadedTargets, loadedTasks>>

\* load() after parseRootNode returned true: a second document is an error.
EndStream ==
    /\ pc = "stream"
    /\ \/ Fail
       \/ result' = "ok" /\ pc' = "done" /\ UNCHANGED errors
    /\ UNCHANGED <<section, count, keys, items, clientOK, tools, nodes,
                   targets, tasks, made, cur, list, listKey, declared,
                   loadedTargets, loadedTasks>>

\* The end of a section mapping: the sub-parser returns true.
SectionEnd ==
    /\ pc \in {"tools", "targets", "nodes", "tasks"}
    /\ pc' = "top"
    /\ UNCHANGED <<result, errors, section, count, keys, items, clientOK,
                   tools, nodes, targets, tasks, made, cur, list, listKey,
                   declared, loadedTargets, loadedTasks>>

\* parseToolsMapping, one entry: the tool and all of its attributes.
ToolsEntry ==
    /\ pc = "tools"
    /\ count < MaxEntries
    /\ \E keyKind \in Kinds, valKind \in Kinds, n \in ToolNames,
          outcome \in AttrOutcomes :
          \/ keyKind # "scalar" /\ Fail /\ UNCHANGED <<tools, made, count>>
          \/ /\ keyKind = "scalar" /\ valKind # "mapping"
             /\ Fail
             /\ UNCHANGED <<tools, made, count>>
          \/ /\ keyKind = "scalar" /\ valKind = "mapping"
             /\ ~ToolResolved(n)
             /\ Fail
             /\ UNCHANGED <<tools, made, count>>
          \/ /\ keyKind = "scalar" /\ valKind = "mapping"
             /\ ToolResolved(n)
             /\ tools' = [tools EXCEPT ![n] = GetOrCreateTool(n)]
             /\ made' = [made EXCEPT !.tool[n] =
                                        GenAfter(@, GetOrCreateTool(n))]
             /\ AfterAttrs(outcome)
    /\ UNCHANGED <<section, keys, items, clientOK, nodes, targets, tasks, cur,
                   list, listKey, declared, loadedTargets, loadedTasks>>

\* parseTargetsMapping, one entry: a new Target with its node names
\* (kept as strings, never resolved), delegate.loadedTarget, then the
\* store into the map.
TargetsEntry ==
    /\ pc = "targets"
    /\ count < MaxEntries
    /\ \E keyKind \in Kinds, valKind \in Kinds, g \in TargetNames,
          itemsScalar \in BOOLEAN :
          \/ /\ (keyKind # "scalar" \/ valKind # "sequence" \/ ~itemsScalar)
             /\ Fail
             /\ UNCHANGED <<targets, made, count, loadedTargets>>
          \/ /\ keyKind = "scalar" /\ valKind = "sequence" /\ itemsScalar
             /\ LET t == [name |-> g, gen |-> made.target[g] + 1]
                IN /\ loadedTargets' = loadedTargets \cup {t}
                   /\ targets' = [targets EXCEPT ![g] = Store(@, t)]
                   /\ made' = [made EXCEPT !.target[g] = t.gen]
             /\ count' = count + 1
             /\ UNCHANGED <<pc, result, errors>>
    /\ UNCHANGED <<section, keys, items, clientOK, tools, nodes, tasks, cur,
                   list, listKey, declared, loadedTasks>>

\* parseNodesMapping, one entry: the explicit node and its attributes.
NodesEntry ==
    /\ pc = "nodes"
    /\ count < MaxEntries
    /\ \E keyKind \in Kinds, valKind \in Kinds, n \in NodeNames,
          outcome \in AttrOutcomes :
          \/ /\ (keyKind # "scalar" \/ valKind # "mapping")
             /\ Fail
             /\ UNCHANGED <<nodes, made, count, declared>>
          \/ /\ keyKind = "scalar" /\ valKind = "mapping"
             /\ nodes' = [nodes EXCEPT ![n] = GetOrCreateNode(n, FALSE)]
             /\ made' = [made EXCEPT !.node[n] = GetOrCreateNode(n, FALSE).gen]
             /\ declared' = declared \cup {n}
             /\ AfterAttrs(outcome)
    /\ UNCHANGED <<section, keys, items, clientOK, tools, targets, tasks, cur,
                   list, listKey, loadedTargets, loadedTasks>>

\* parseTasksMapping, start of one entry: the initial 'tool' key, the
\* tool's lookup and tool->createTask(name).
TaskEntry ==
    /\ pc = "tasks"
    /\ count < MaxEntries
    /\ \E keyKind \in Kinds, valKind \in Kinds, k \in TaskNames,
          first \in {"tool", "other", "none"}, toolKind \in Kinds,
          n \in ToolNames :
          \/ /\ \/ keyKind # "scalar" \/ valKind # "mapping"
                \/ first # "tool" \/ toolKind # "scalar"
             /\ Fail
             /\ UNCHANGED <<tools, made, count, cur, keys>>
          \/ /\ keyKind = "scalar" /\ valKind = "mapping"
             /\ first = "tool" /\ toolKind = "scalar"
             /\ ~ToolResolved(n)
             /\ Fail
             /\ UNCHANGED <<tools, made, count, cur, keys>>
          \/ /\ keyKind = "scalar" /\ valKind = "mapping"
             /\ first = "tool" /\ toolKind = "scalar"
             /\ ToolResolved(n)
             /\ tools' = [tools EXCEPT ![n] = GetOrCreateTool(n)]
             /\ cur' = NewTask(k, GetOrCreateTool(n))
             /\ made' = [made EXCEPT !.tool[n] =
                                        GenAfter(@, GetOrCreateTool(n)),
                                     !.task[k] = @ + 1]
             /\ count' = count + 1
             /\ keys' = 0
             /\ pc' = "taskKeys"
             /\ UNCHANGED <<result, errors>>
    /\ UNCHANGED <<section, items, clientOK, nodes, targets, tasks, list,
                   listKey, declared, loadedTargets, loadedTasks>>

\* parseTasksMapping, one key after 'tool': 'inputs'/'outputs' open a
\* node sequence, any other key is a scalar attribute for
\* task->configureAttribute.
TaskKey ==
    /\ pc = "taskKeys"
    /\ keys < MaxKeys
    /\ \E key \in {"inputs", "outputs", "nonscalar"} \cup AttrKeys,
          valKind \in Kinds, accepted \in BOOLEAN :
          \/ /\ key \in {"inputs", "outputs"} /\ valKind # "sequence"
             /\ Fail
             /\ UNCHANGED <<cur, list, listKey, items>>
          \/ /\ key \in {"inputs", "outputs"} /\ valKind = "sequence"
             /\ pc' = "taskItems" /\ listKey' = key
             /\ list' = <<>> /\ items' = 0
             /\ UNCHANGED <<result, errors, cur>>
          \/ /\ key \notin {"inputs", "outputs"}
             /\ (key = "nonscalar" \/ valKind # "scalar")
             /\ Fail
             /\ UNCHANGED <<cur, list, listKey, items>>
          \/ /\ key \in AttrKeys /\ valKind = "scalar" /\ ~accepted
             /\ Stop
             /\ UNCHANGED <<cur, list, listKey, items>>
          \/ /\ key \in AttrKeys /\ valKind = "scalar" /\ accepted
             /\ cur' = [cur EXCEPT !.attrs = @ \cup {key}]
             /\ UNCHANGED <<pc, result, errors, list, listKey, items>>
    /\ keys' = keys + 1
    /\ UNCHANGED <<section, count, clientOK, tools, nodes, targets, tasks,
                   made, declared, loadedTargets, loadedTasks>>

\* One item of an 'inputs'/'outputs' sequence: getOrCreateNode(name,
\* /*isImplicit=*/true), appended to the local 'nodes' vector.
TaskItem ==
    /\ pc = "taskItems"
    /\ items < MaxItems
    /\ \E kind \in Kinds, n \in NodeNames :
          \/ kind # "scalar" /\ Fail /\ UNCHANGED <<nodes, made, list, items>>
          \/ /\ kind = "scalar"
             /\ nodes' = [nodes EXCEPT ![n] = GetOrCreateNode(n, TRUE)]
             /\ made' = [made EXCEPT !.node[n] = GetOrCreateNode(n, TRUE).gen]
             /\ list' = Append(list, GetOrCreateNode(n, TRUE))
             /\ items' = items + 1
             /\ UNCHANGED <<pc, result, errors>>
    /\ UNCHANGED <<section, count, keys, clientOK, tools, targets, tasks, cur,
                   listKey, declared, loadedTargets, loadedTasks>>

\* The end of the sequence: task->configureInputs / configureOutputs.
TaskItemsEnd ==
    /\ pc = "taskItems"
    /\ cur' = [cur EXCEPT ![listKey] = list]
    /\ pc' = "taskKeys"
    /\ UNCHANGED <<result, errors, section, count, keys, items, clientOK,
                   tools, nodes, targets, tasks, made, list, listKey,
                   declared, loadedTargets, loadedTasks>>

\* The end of the task mapping: delegate.loadedTask, then the store.
TaskEnd ==
    /\ pc = "taskKeys"
    /\ loadedTasks' = loadedTasks \cup {cur}
    /\ tasks' = [tasks EXCEPT ![cur.name] = Store(@, cur)]
    /\ cur' = None
    /\ pc' = "tasks"
    /\ UNCHANGED <<result, errors, section, count, keys, items, clientOK,
                   tools, nodes, targets, made, list, listKey, declared,
                   loadedTargets>>

\* load() has returned; nothing happens any more.
Done ==
    /\ pc = "done"
    /\ UNCHANGED vars

Next ==
    \/ OpenFile \/ ParseRoot \/ ParseClientMapping \/ NextSection
    \/ EndStream \/ SectionEnd
    \/ ToolsEntry \/ TargetsEntry \/ NodesEntry
    \/ TaskEntry \/ TaskKey \/ TaskItem \/ TaskItemsEnd \/ TaskEnd
    \/ Done

Spec == Init /\ [][Next]_vars

----------------------------------------------------------------------------
(* Properties.                                                             *)

\* Every variable holds a value of its intended kind.
TypeOK ==
    /\ pc \in {"open", "root", "client", "top", "stream", "done",
               "tools", "targets", "nodes", "tasks", "taskKeys", "taskItems"}
    /\ result \in {"running", "ok", "fail", "crash"}
    /\ errors \in Nat
    /\ section \in Sections
    /\ count \in Nat /\ keys \in Nat /\ items \in Nat
    /\ clientOK \in BOOLEAN
    /\ tools \in [ToolNames -> ToolInst \cup {None}]
    /\ nodes \in [NodeNames -> NodeInst \cup {None}]
    /\ targets \in [TargetNames -> TargetInst \cup {None}]
    /\ tasks \in [TaskNames -> TaskInst \cup {None}]
    /\ made \in [tool : [ToolNames -> Nat], node : [NodeNames -> Nat],
                 target : [TargetNames -> Nat], task : [TaskNames -> Nat]]
    /\ cur \in TaskInst \cup {None}
    /\ list \in Seq(NodeInst)
    /\ listKey \in {"inputs", "outputs"}
    /\ declared \subseteq NodeNames
    /\ loadedTargets \subseteq TargetInst
    /\ loadedTasks \subseteq TaskInst

\* Identity of shared entities (getOrCreateTool/getOrCreateNode): every
\* tool and node a stored task holds is the very object the registry holds
\* under its name, however many tasks and sections referred to the name.
Resolved(t) ==
    /\ tools[t.tool.name] = t.tool
    /\ \A i \in DOMAIN t.inputs : nodes[t.inputs[i].name] = t.inputs[i]
    /\ \A i \in DOMAIN t.outputs : nodes[t.outputs[i].name] = t.outputs[i]

ReferencesResolve == \A k \in TaskNames : tasks[k] # None => Resolved(tasks[k])

\* The implicit flag (spec 8, open question of spec 9): a registered node is
\* implicit exactly when the 'nodes' section never declared it, whatever
\* tasks referred to it.  It rests on parseRootNode's fixed section order.
ImplicitFlag ==
    \A n \in NodeNames :
        nodes[n] # None => (nodes[n].isImplicit <=> n \notin declared)

\* Duplicate target and task names: for each name the registry holds the
\* latest entry the delegate was told about (loadedTarget / loadedTask).
LaterEntriesWin ==
    /\ \A t \in loadedTasks :
          tasks[t.name] # None /\ t.gen <= tasks[t.name].gen
    /\ \A t \in loadedTargets :
          targets[t.name] # None /\ t.gen <= targets[t.name].gen

\* The client section gates the rest: no tool or node is created and no
\* target or task is announced unless delegate.configureClient accepted.
ClientFirst ==
    (\/ \E n \in ToolNames : tools[n] # None
     \/ \E n \in NodeNames : nodes[n] # None
     \/ loadedTargets # {} \/ loadedTasks # {}) => clientOK

\* Error reporting (spec 6, 7): delegate.error is called at most once, and
\* never while the parse goes on or when load() succeeds.
ErrorDiscipline ==
    /\ errors <= 1
    /\ result \in {"running", "ok"} => errors = 0

\* Spec 4.1 and 4.3: load() returning false comes with at least one
\* delegate.error call, a rejected attribute included.
FailureIsReported == result = "fail" => errors >= 1

\* Spec 5: the registry keeps every entity it created for the life of the
\* parse result, so references handed to loadedTarget/loadedTask stay valid.
LoadedEntitiesOwned ==
    /\ \A t \in loadedTasks : tasks[t.name] = t
    /\ \A t \in loadedTargets : targets[t.name] = t

\* Spec 3: a task's attributes exclude the reserved key 'tool'.
ReservedKeysExcluded ==
    \A k \in TaskNames : tasks[k] # None => "tool" \notin tasks[k].attrs

\* Spec 4.1/7: every malformed document is reported; a document without a
\* 'client' key gives the "expected initial mapping key" error, no crash.
NoUndefinedBehaviour == result # "crash"

\* Object identity of tools and nodes (getOrCreateTool/getOrCreateNode,
\* lines 126-157): delegate.lookupTool/lookupNode is called for a name only
\* while no object is registered under it, the object it yields is
\* registered in the same step, and a registered object is never replaced.
CreatedOnce ==
    /\ \A n \in ToolNames :
          /\ made'.tool[n] # made.tool[n] =>
                tools[n] = None /\ tools'[n] # None
                /\ tools'[n].gen = made'.tool[n]
          /\ tools[n] # None => tools'[n] = tools[n]
    /\ \A n \in NodeNames :
          /\ made'.node[n] # made.node[n] =>
                nodes[n] = None /\ nodes'[n] # None
                /\ nodes'[n].gen = made'.node[n]
          /\ nodes[n] # None => nodes'[n] = nodes[n]

RegistryIdentity == [][CreatedOnce]_vars

\* The registry as its users see it (RegistryAbstract): the client gates
\* every registration, tools and nodes are added once and never replaced
\* (getOrCreateTool/getOrCreateNode, lines 126-157), every target and task
\* announced by loadedTarget/loadedTask is a new object stored over the
\* earlier one of its name (lines 382-385, 573-577), and an announced task
\* refers to the registered tool and nodes.
Registry == INSTANCE RegistryAbstract WITH
    rclient <- clientOK, rtools <- tools, rnodes <- nodes,
    rtargets <- targets, rtasks <- tasks,
    rloadedTargets <- loadedTargets, rloadedTasks <- loadedTasks

ImplementsRegistry == Registry!Spec

=============================================================================

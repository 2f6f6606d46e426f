# TLA+ verification of the llbuild build-file loader

This directory models `src/lib/BuildSystem/BuildFile.cpp`, the loader that
turns a YAML build description into llbuild's tools, nodes, targets and
tasks. It holds TLA+ modules, TLC configurations for checking them on small
instances, and TLAPS proofs of type correctness, registry sharing, error reporting and the identity
of tools and nodes.

## The system

`BuildFile::load` forwards to `BuildFileImpl::load`, which works in these steps:

1. It opens the file and takes the first YAML document of the stream.
2. It walks the root through `parseRootNode`. The root must be a mapping
   whose first key is `client`. The optional sections then follow in a fixed
   order, `tools`, `targets`, `nodes`, `tasks`, and nothing may trail them.
   Each section has a sub-parser: `parseClientMapping`, `parseToolsMapping`,
   `parseTargetsMapping`, `parseNodesMapping` and `parseTasksMapping`.
3. It rejects a second document.

The parts interact as follows:

| Part | Code | Role |
|---|---|---|
| Document Parser | `load`, `parseRootNode`, the five sub-parsers | All of the control flow. The first error ends the parse. |
| Entity Registry | the `tools`, `nodes`, `targets` and `tasks` maps | Tools and nodes are get-or-create and deduplicated by name (`getOrCreateTool`, `getOrCreateNode`). Targets and tasks are built fresh for each entry, so a repeated name overwrites the earlier one. |
| Extension Delegate | `BuildFileDelegate` (host code) | The factories `lookupTool` and `lookupNode`, the verdict of `configureClient`, the notifications `loadedTarget` and `loadedTask`, and the error sink `error`. |
| Entity Contracts | `Tool`, `Node`, `Task` (host code) | `configureAttribute` verdicts, `createTask`, `configureInputs` and `configureOutputs`. |
| YAML tree and file I/O | `llvm::yaml`, `MemoryBuffer` | Not modelled. Only node kinds and the presence of entries are visible. |

The code is single-threaded and synchronous. What makes it hard is not
concurrency but the number of paths: every section and entry can fail in
several ways, and the registry's sharing and overwrite rules interact across
sections.

## Modules

- **`BuildFile.tla`** is the loader, the registry and the delegate as its environment.
  - **Constants:**
    - the name sets `ToolNames`, `KnownTools` (the names `lookupTool` accepts), `NodeNames`, `TargetNames` and `TaskNames`;
    - the bounds `MaxEntries` (entries per section), `MaxKeys` (keys per task after `tool`) and `MaxItems` (items per `inputs`/`outputs` list);
    - the model value `None`, which stands for the null pointer.
  - **Input is read lazily.** The YAML stream is parsed as the loader iterates over it, so each action chooses what it reads with `\E`. Each choice is a node kind (`Kinds`), a name, or an attribute outcome (`AttrOutcomes`: accepted, non-scalar, or rejected by `configureAttribute`).
  - **Entity instances are records.** The `gen` field is C++ object identity, and `made` counts the instances created per kind and name.
  - **`pc` says which handler runs.** There is one action per handler step:

    | Action | Code |
    |---|---|
    | `OpenFile` | `load` up to the first document |
    | `ParseRoot` | root kind, first key, and the `client` value kind |
    | `ParseClientMapping` | the whole client parse, including `configureClient` |
    | `NextSection` | the chain of `if`s after `++it`, and the trailing-section check |
    | `ToolsEntry`, `TargetsEntry`, `NodesEntry` | one section entry each, with all of its attributes |
    | `TaskEntry` | a task's first key `tool`, the tool lookup and `createTask` |
    | `TaskKey` | one later key of a task |
    | `TaskItem` | one item of an `inputs`/`outputs` list |
    | `TaskItemsEnd` | `configureInputs` / `configureOutputs` |
    | `TaskEnd` | `loadedTask` and the store |
    | `SectionEnd` | a sub-parser returning true |
    | `EndStream` | the second-document check |
    | `Done` | the final state, once `load` has returned |

  - **Errors:**
    - `Fail` is `delegate.error` followed by `return false`.
    - `Stop` is a `return false` with no diagnostic.
    - `Crash` is undefined behaviour.
  - **History variables** keep the delegate's view of the parse:
    - `declared`: the names looked up by the `nodes` section;
    - `loadedTargets` and `loadedTasks`: what was passed to `loadedTarget` and `loadedTask`.
- **`ClientMapping.tla`** is `parseClientMapping` (lines 253-294) in detail. `BuildFile` treats this sub-parser as one step.
  - **State:** the locals `name`, `version` and `properties`, the result and the error count, the arguments of the `configureClient` call (`configured`), and a history `seen` of the scalar entries read.
  - **Actions:** one per branch of the loop body, plus the final call.

    | Action | Code |
    |---|---|
    | `NonScalarEntry` | lines 261-268 |
    | `NameEntry` | line 274 |
    | `VersionEntry` | lines 276-281 |
    | `PropertyEntry` | line 283 |
    | `ConfigureClient` | lines 288-293 |

  - **The version conversion is modelled by what it does.** `GetAsInteger` is `StringRef::getAsInteger(10, uint32_t&)` as LLVM implements it:
    - `GetAsUnsignedInteger` is a recursive function over the text's prefixes (not a `RECURSIVE` operator);
    - `DigitStep` is one iteration of its digit loop, with letters valued 10-35 and thus rejected by radix 10;
    - the multiply-add wraps at `AccWidth` bits (64 in the code);
    - `Overflowed` is the shift-back test `Result/Radix < PrevResult`;
    - `Narrowed` is the test `static_cast<uint32_t>(v) != v` for `VersionWidth` bits (32 in the code).
  - **Reference definition:** `DecimalValues(s)` is written without recursion. It is the set of numbers below `2^VersionWidth` whose zero-padded decimal numeral is `s`.
  - **Refinement:** `Abstract == INSTANCE ClientAbstract WITH ...` maps the detailed state onto the abstract one:
    - `aphase` is "done" once `cpc` is;
    - the result, the error count and `configured` map to themselves.
- **`ClientAbstract.tla`** is the atomic client step that `BuildFile`'s `ParseClientMapping` models. It either reports one error without calling `configureClient`, or calls it once with a version that fits `VersionWidth` bits, and its verdict is the result.
- **`RegistryAbstract.tla`** is what the registry promises its users, with the parse abstracted away. Its state is the client flag, the four maps and the sets of announced targets and tasks. Its steps:
  - `AcceptClient`;
  - `AddTool` and `AddNode`: a new object in an empty slot, only after the client is accepted;
  - `PublishTarget` and `PublishTask`: an object never announced before, stored over the earlier one of its name; a task must refer to the registered tool and nodes.

  `BuildFile` instantiates it as `Registry` with each variable mapped to the one of the same role, and `ImplementsRegistry == Registry!Spec`.
- **`MC_ClientMapping.tla`** gives the character set of the version texts.
- **`MC_BuildFile.tla`** instantiates `BuildFile` for TLC, with symmetry over the node, task, known-tool and unknown-tool names.
- **`BuildFileProofs.tla`** holds the TLAPS proof of type correctness.
- **`BuildFileRefs.tla`** holds the TLAPS proof of `ReferencesResolve`.
- **`BuildFileIdentity.tla`** holds the TLAPS proof of `RegistryIdentity`.
- **`BuildFileErrors.tla`** holds the TLAPS proof of `ErrorDiscipline`.
- **`BuildFileSections.tla`** holds the TLAPS proofs of `ClientFirst` and `ImplicitFlag`.
- **`BuildFileLatest.tla`** holds the TLAPS proof of `LaterEntriesWin`.
- **`BuildFileRegistry.tla`** holds the TLAPS proof that `BuildFile` implements `RegistryAbstract`.
- **`ClientMappingProofs.tla`** holds the TLAPS proofs of `ClientForwarded` and of the exactness of the digit loop's overflow test.

`PROJECT.json` (`map`) gives the source lines behind each definition.

## Runs

| Run | Config | Expect | What it shows |
|---|---|---|---|
| `main_safety` | `MC_BuildFile.cfg` | pass | `TypeOK`, `ReferencesResolve`, `ImplicitFlag`, `LaterEntriesWin`, `ClientFirst` and `ErrorDiscipline` hold on every walk of every document within the bounds: about 1.15M distinct states, depth 36. |
| `client_mapping` | `MC_ClientMapping.cfg` | pass | `TypeOK`, `VersionIsDecimal`, `ClientForwarded` and the refinement `ImplementsAbstract` hold for every client mapping of up to three entries, with version texts of up to two characters over `0`, `1`, `7`, `a` and `-` (about 9.4K distinct states). |
| `registry_identity` | `MC_BuildFile_Identity.cfg` | pass | The action property `RegistryIdentity` holds. The instance has no symmetry and one task name (about 98K distinct states). |
| `registry_refinement` | `MC_BuildFile_Registry.cfg` | pass | `ImplementsRegistry`: every walk is a behaviour of `RegistryAbstract`. The instance has no symmetry, one task name and one key per task (about 24K distinct states); a task name repeated across two entries still makes a task be announced over an earlier one. |
| `silent_attribute_rejection` | `MC_BuildFile_FailureIsReported.cfg` | violation | A rejected attribute makes `load()` return false without any `delegate.error` (lines 340, 436, 568). |
| `duplicate_destroys_loaded` | `MC_BuildFile_LoadedEntitiesOwned.cfg` | violation | A repeated task or target name frees the instance the delegate was given (lines 577, 386). |
| `reserved_tool_key` | `MC_BuildFile_ReservedKeysExcluded.cfg` | violation | A second `tool` key reaches `task->configureAttribute` (line 563). |
| `empty_root_crash` | `MC_BuildFile_NoUndefinedBehaviour.cfg` | violation | An empty root mapping dereferences `mapping->begin()` when it equals `end()` (lines 168-169). |

What the passing properties say:

- **`ReferencesResolve`:** every tool and node a stored task holds is the very object the registry holds under that name.
- **`ImplicitFlag`:** a node is implicit exactly when the `nodes` section never declared it.
  - This holds only because of the fixed section order.
  - The mutant that parses `nodes` after `tasks` breaks it.
- **`LaterEntriesWin`:** for each repeated target or task name, the registry holds the latest entity the delegate was told about.
- **`ClientFirst`:** nothing is created or announced before `configureClient` accepts the client.
- **`ErrorDiscipline`:** `delegate.error` is called at most once, and never on success.
- **`VersionIsDecimal`:** when `configureClient` is called, every `version` text read was the decimal numeral of a number that fits a `uint32_t`, and the version passed is the number the last such text spells, or 0 if there was none.
  - The bounds put "17" past the 4-bit version, as "4294967296" is past 32 bits in the code.
  - "71" wraps the 6-bit accumulator, as a 20-digit text wraps 64 bits.
  - The mutant that drops the shift-back in the overflow test accepts "71" as 7.
- **`ClientForwarded`:** `configureClient` receives the last `name` and, in document order, every other non-reserved entry. "In document order" is stated with an increasing map `f` from the property list onto the indices of the non-reserved entries of `seen` (`ListsInOrder`), not with `SelectSeq`, so that TLAPS can reason about it. `PropKeysAssumption` says the property keys are not `name` or `version`.
- **`ImplementsAbstract`:** the client sub-parser implements `ClientAbstract!Spec`. This is the justification for modelling it as one step in `BuildFile`.
- **`ImplementsRegistry`:** the registry behaves as `RegistryAbstract` says. It combines client gating, identity of tools and nodes, sharing and the latest-entry rule into one specification, and adds that every announced target and task is a new object. The mutant that keeps the earlier target or task (`map.insert` semantics) breaks it.
- **`RegistryIdentity`:** `[][CreatedOnce]_vars`.
  - A tool or node factory is called for a name only while nothing is registered under it.
  - Its object is registered in the same step.
  - A registered object is never replaced.

Each property has a mutant in `PROJECT.json`: a plausible bug in a mapped definition that TLC shows breaks it.

**Bounds.** The configuration uses:

- two tool names, one known and one unknown;
- two node names;
- one target name;
- two task names;
- two entries per section, two keys per task and two items per list.

These bounds are enough for every case the properties are about:

- a tool or node referenced twice;
- a node referenced both from `nodes` and from a task;
- a duplicate task name;
- a second `tool` key;
- an unknown tool;
- every failure path.

**Deadlock and termination.** Deadlock is checked. `Done` is the only state with no other successor, and it stutters.

**No liveness property.** `load()` is one synchronous walk over a finite document: every loop in it advances an iterator, and the section iterator only moves forward (lines 183-248). That it returns follows from the code's structure and the model's bounds alike, so no property or fairness assumption is stated for it.

**Why `registry_identity` has no symmetry.** The action property compares one name's slot across a step.

## Proofs (`BuildFileProofs.tla`)

**`THEOREM TypeCorrect == Spec => []TypeOK`** is proved for all values of
the constants. It uses the assumptions `KnownToolsAssumption`,
`BoundsAssumption` and `NoneAssumption`; the last says `None` is no entity.

**`TypeOK` is not inductive on its own.** The proof uses the invariant
`TypeInv`, which adds `TaskCur`: while a task is being parsed (`pc` is
`taskKeys` or `taskItems`), `cur` is a task and not `None`. The task actions
need this to update `cur`.

**Argument:**

- `InitTypeInv` shows that `Init` satisfies `TypeInv`.
- `NextTypeInv` shows that every step preserves it. There is one lemma per action that writes the registry (`ToolsEntryType`, `TargetsEntryType`, `NodesEntryType`, `TaskEntryType`, `TaskKeyType`, `TaskItemType`), and the other actions are proved inline.
- These lemmas rest on three facts:
  - `ToolLookupType` and `NodeLookupType`: a successful get-or-create yields an instance of the right kind;
  - `MadeUpdate`: the `made` counters stay natural numbers;
  - `FailType` and `StopType`: the error exits preserve the invariant.

## Proofs (`BuildFileRefs.tla`)

**`THEOREM RegistrySharing == Spec => []ReferencesResolve`** is proved for
all values of the constants. It says every tool and node held by a stored
task is the object the registry holds under that name.

**`ReferencesResolve` is not inductive either.** A task is stored by
`TaskEnd` from `cur`, and its node lists come from `list`. The invariant
`TypeInv /\ RefRest` adds three conjuncts:

- `Named`: every registry slot holds an entity of its own name;
- `CurResolved`: the task under construction refers to registered objects;
- `ListResolved`: the node list being collected refers to registered nodes.

**Argument:**

- `ToolStore` and `NodeStore` show that storing the result of `getOrCreateTool` or `getOrCreateNode` never replaces a registered object (`RegistryStable`), because a registered name is returned from the cache.
- `StableResolved` shows that resolved references then stay resolved.
- Each action has its own preservation lemma:
  - `TaskEntryRefs` (the new task's tool is `tools'[n]`);
  - `TaskItemRefs` (the appended node is `nodes'[n]`);
  - `TaskItemsEndRefs` (the collected list becomes the task's list);
  - `TaskEndRefs` (the stored task is `cur`);
  - the other actions go through `FrameStep` and `Preserve`.

TLC checked `TypeInv /\ RefRest` as an invariant of the `main_safety`
instance before it was proved.

## Proofs (`BuildFileIdentity.tla`)

**`THEOREM IdentityOfEntities == Spec => RegistryIdentity`** is proved for all values of the constants. `RegistryIdentity` is `[][CreatedOnce]_vars`.

**The step property needs an invariant.** Knowing from `made` that a cache hit leaves the creation counter unchanged takes `MadeTracks`: a registered tool or node carries the gen of the last object created for its name. `Init` satisfies `TypeInv /\ MadeTracks`, and every step preserves it.

**Argument:**

- `ToolStep` and `NodeStep` show that storing `getOrCreateTool` or `getOrCreateNode` under its name satisfies the tool or node half of `CreatedOnce` and keeps `MadeTracks`:
  - a hit returns the registered object and leaves the counter;
  - a miss only happens on an empty slot and stores the new object.
- There is one lemma per action that calls a factory: `ToolsEntryId`, `TaskEntryId`, `NodesEntryId` and `TaskItemId`.
- `FrameId` and `NextId` cover the other actions.
- The theorem combines these with `PTL`.

## Proofs (`BuildFileErrors.tla`)

**`THEOREM SingleDiagnostic == Spec => []ErrorDiscipline`** is proved for all values of the constants.

**The strengthening.** `ErrorDiscipline` is not inductive, because a `Fail` taken after an earlier error would make two. `ErrInv` adds that while `pc` is not "done", the result is "running" and no error has been reported.

**Argument:**

- `NextOutcome` shows that every step of a running loader is an `Outcome`. It either leaves the verdict and the error count alone and stays running, or it is one of the exits:
  - `Fail`;
  - `Stop`;
  - `Crash`;
  - success at the end of the stream.
- `OutcomeErrInv` shows that each of these keeps `ErrInv`.
- Once `pc` is "done", only `Done` is enabled, and it stutters.

## Proofs (`BuildFileSections.tla`)

**`THEOREM ClientGatesSections == Spec => []ClientFirst`** is proved for all values of the constants. It says nothing is registered or loaded unless `configureClient` has accepted the client.

**The strengthening.** `ClientGate` adds that `clientOK` is FALSE while `pc` is `open`, `root` or `client`, and TRUE in every section state. The lemmas behind it:

- `LaterSections` shows that `NextSection` never goes back to `client`.
- `SectionStepsPostClient` shows that the section actions run only after the gate opened.
- `Untouched` and `RegistriesKept` show that the steps before the gate leave the registries empty.

**`THEOREM ImplicitExactlyUndeclared == Spec => []ImplicitFlag`** is proved for all values of the constants. It says a registered node is implicit exactly when the `nodes` section did not declare it.

**The strengthening.** `NodeGate` adds three facts:

- every declared name has a node;
- an implicit node exists only once `section` is `tasks`;
- `pc` and `section` agree.

These make two cases impossible:

- A task item cannot meet a node that is later declared, because sections never return.
- A `nodes` entry cannot find an implicit node.

`DeclareNode` (line 414) and `ReferNode` (lines 517-546) prove the two writes of the flag. `NextNodeGate` combines them.

## Proofs (`BuildFileLatest.tla`)

**`THEOREM LatestEntryKept == Spec => []LaterEntriesWin`** is proved for all values of the constants.

**The strengthening.** `Latest` adds three facts:

- every loaded task and target has a gen no larger than the creation count of its name;
- while a task is being parsed, `cur` is the newest task of its name;
- (from `TypeInv`) `made` only grows.

A store (`TargetsEntryLatest` at lines 348-385, `TaskEndLatest` at lines 573-577) therefore writes the newest object, and every older loaded one is outdated.

## Proofs (`BuildFileRegistry.tla`)

**`THEOREM RegistryRefinement == Spec => ImplementsRegistry`** is proved for all values of the constants, in the standard form: `Init => Registry!Init`, and under an invariant every step is `[Registry!Next]_rvars`.

**The invariant.** `RegInv` is `TypeInv /\ ClientGate /\ RefRest /\ Latest /\ CurFresh`. The first four are the inductive invariants of the earlier proofs, and their preservation lemmas are reused. `CurFresh` is new: every announced task with the name of the task under construction has a smaller gen. Without it, `TaskEnd` could not be shown to announce a new object, since `Latest` only bounds announced gens by the creation count. TLC checked `RegInv` on the `main_safety` instance (1.15M states) before it was proved.

**Argument:** one lemma per kind of registry change.

- `ToolReg` and `NodeReg` (lines 126-157): a cache hit is a stutter, and a miss is `AddTool` or `AddNode`.
- `TargetReg` (lines 382-386): the new target has the next gen of its name, so it was never announced.
- `TaskReg` (lines 573-577): the task is new by `CurFresh` and refers to registered objects by `CurResolved`.
- `GateOpen`: every section step runs with `clientOK` true.
- `NextReg` maps each action onto these, and `ParseClientMapping` onto `AcceptClient`.

## Proofs (`ClientMappingProofs.tla`)

**`THEOREM ForwardedToConfigure == Spec => []ClientForwarded`** is proved for all values of the constants. `ClientForwarded` relates the arguments of `configureClient` to the history `seen`, so it is not inductive. `FwdInv` states the same relation for the locals `name` and `properties` at every step of the loop:

- `NameIsLast`: `name` is the value of the last `name` entry, or empty;
- `ListsInOrder(properties, seen)`;
- `configured` copies the locals once `cpc` is "done".

**Lemmas on sequences:**

- `AppendIndices`: appending keeps the old indices and adds `Len + 1`.
- `AppendNameIsLast`: `NameIsLast` holds after `Append`.
- `AppendListsInOrder`: `ListsInOrder` holds after `Append`.
- `NameIsLastName`: the CHOOSE in `LastName` picks the largest index.

TLC checked `FwdInv` on the `client_mapping` instance before it was proved.

**`THEOREM OverflowTestExact`** is proved for every `AccWidth` with `2^AccWidth >= 10`, and so for 64 bits. Take one iteration of `DigitStep` on a decimal digit with no earlier error. It reports an error exactly when `10 * prev + digit` reaches `2^AccWidth`, and otherwise holds that value. The arithmetic is in `ShiftBackExact`: a wrap subtracts between 1 and 9 times the modulus, which brings `r / 10` below `prev`. This is the step on which `VersionIsDecimal` rests. TLC checks that property with a 6-bit accumulator, and the lemma shows that the same test is exact at 64 bits.

## What is only model-checked

- **`ClientMapping`'s `TypeOK` and `VersionIsDecimal`, and the refinement `ImplementsAbstract`:** each needs what the recursive function `GetAsUnsignedInteger` computes for every text. For the refinement, that is the range of the version passed to `configureClient`. Carrying `OverflowTestExact` from one iteration to a whole text needs induction over the text. The library's induction theorems take an operator parameter, which the installed provers cannot instantiate, so this stays with TLC.

## Not modelled

- **The YAML library and file I/O:** these are external.
- **The text of names and messages:** names are model values. In `BuildFile` the version conversion is abstracted to the outcomes `ok` and `badVersion`. `ClientMapping` models it in full.
- **The LLVM library code behind `getAsInteger`:** it is modelled from LLVM's `StringRef.cpp` as it is called at line 277. The map points at that call.
- **`createTask` returning null (line 489):** the Tool contract lives outside this repository.
- **`dumpNode`:** a debug printer.

## Plan for later work

1. **Composition:** instantiate `ClientMapping` inside `BuildFile` in place of the atomic `ParseClientMapping`.

-------------------------- MODULE BuildFileErrors --------------------------
(***************************************************************************)
(* Proof of the error discipline of the loader (ErrorDiscipline) for every *)
(* value of the constants: delegate.error is called at most once, and     *)
(* never while the parse goes on or when load() succeeds.                 *)
(***************************************************************************)
EXTENDS BuildFileProofs

\* The ways a step of the loader may end: it goes on without touching the
\* verdict or the error count, or it returns through one of the exits
\* (delegate.error and return false, a silent return false, undefined
\* behaviour, or success at the end of the stream).
Outcome ==
    \/ pc' # "done" /\ UNCHANGED <<result, errors>>
    \/ Fail
    \/ Stop
    \/ Crash
    \/ pc' = "done" /\ result' = "ok" /\ UNCHANGED errors

\* ErrorDiscipline is not inductive: a Fail from a state with an error
\* already reported would make two.  While load() runs, no error has been
\* reported and there is no verdict yet.
ErrInv ==
    /\ pc # "done" => result = "running" /\ errors = 0
    /\ ErrorDiscipline

\* Any of these exits, taken while the loader runs, keeps ErrInv.
LEMMA OutcomeErrInv ==
    ASSUME errors \in Nat, ErrInv, pc # "done", Outcome PROVE ErrInv'
<1>1. result = "running" /\ errors = 0
  BY DEF ErrInv
<1> QED
  BY <1>1 DEF Outcome, Fail, Stop, Crash, ErrInv, ErrorDiscipline

\* The exits of an entry of a section with attributes (AfterAttrs).
LEMMA AfterAttrsOutcome ==
    ASSUME NEW outcome, AfterAttrs(outcome), pc \in {"tools", "nodes"}
    PROVE  Outcome
BY DEF AfterAttrs, Outcome, Fail, Stop

\* Every step the loader takes while it runs ends in one of the exits.
LEMMA NextOutcome ==
    ASSUME pc # "done", Next PROVE Outcome
<1>1. CASE OpenFile
  BY <1>1 DEF OpenFile, Outcome
<1>2. CASE ParseRoot
  BY <1>2 DEF ParseRoot, Outcome
<1>3. CASE ParseClientMapping
  BY <1>3, Zenon DEF ParseClientMapping, Outcome
<1>4. CASE NextSection
  <2>1. \A s \in Sections : Later(s) \subseteq Sections
    BY DEF Later
  <2> QED
    BY <1>4, <2>1, SectionsList DEF NextSection, Outcome
<1>5. CASE EndStream
  BY <1>5 DEF EndStream, Outcome
<1>6. CASE SectionEnd
  BY <1>6 DEF SectionEnd, Outcome
<1>7. CASE ToolsEntry
  <2>1. pc = "tools"
    BY <1>7 DEF ToolsEntry
  <2>2. Fail \/ \E outcome \in AttrOutcomes : AfterAttrs(outcome)
    BY <1>7 DEF ToolsEntry
  <2> QED
    BY <2>1, <2>2, AfterAttrsOutcome DEF Outcome
<1>8. CASE NodesEntry
  <2>1. pc = "nodes"
    BY <1>8 DEF NodesEntry
  <2>2. Fail \/ \E outcome \in AttrOutcomes : AfterAttrs(outcome)
    BY <1>8 DEF NodesEntry
  <2> QED
    BY <2>1, <2>2, AfterAttrsOutcome DEF Outcome
<1>9. CASE TargetsEntry
  BY <1>9, Zenon DEF TargetsEntry, Outcome
<1>10. CASE TaskEntry
  BY <1>10 DEF TaskEntry, Outcome
<1>11. CASE TaskKey
  BY <1>11, Zenon DEF TaskKey, Outcome
<1>12. CASE TaskItem
  BY <1>12 DEF TaskItem, Outcome
<1>13. CASE TaskItemsEnd
  BY <1>13 DEF TaskItemsEnd, Outcome
<1>14. CASE TaskEnd
  BY <1>14 DEF TaskEnd, Outcome
<1>15. CASE Done
  BY <1>15 DEF Done
<1> QED
  BY <1>1, <1>2, <1>3, <1>4, <1>5, <1>6, <1>7, <1>8, <1>9, <1>10, <1>11,
     <1>12, <1>13, <1>14, <1>15 DEF Next
\* Every step keeps ErrInv: a running loader takes one of the exits, and
\* a returned one only stutters.
LEMMA NextErrInv ==
    ASSUME TypeCore, ErrInv, [Next]_vars PROVE ErrInv'
<1>1. CASE pc # "done" /\ Next
  BY <1>1, NextOutcome, OutcomeErrInv DEF TypeCore
<1>2. CASE pc = "done" /\ Next
  <2>1. UNCHANGED vars
    BY <1>2 DEF Next, OpenFile, ParseRoot, ParseClientMapping, NextSection,
       EndStream, SectionEnd, ToolsEntry, TargetsEntry, NodesEntry,
       TaskEntry, TaskKey, TaskItem, TaskItemsEnd, TaskEnd, Done
  <2> QED
    BY <2>1 DEF vars, ErrInv, ErrorDiscipline
<1>3. CASE UNCHANGED vars
  BY <1>3 DEF vars, ErrInv, ErrorDiscipline
<1> QED
  BY <1>1, <1>2, <1>3

\* Error reporting (spec 6, 7; delegate.error at lines 161-164 and every
\* 'return false' after it), for every value of the constants: at most one
\* diagnostic, and none while the parse goes on or when load() succeeds.
THEOREM SingleDiagnostic == Spec => []ErrorDiscipline
<1>1. Init => TypeInv /\ ErrInv
  BY InitTypeInv DEF Init, ErrInv, ErrorDiscipline
<1>2. TypeInv /\ ErrInv /\ [Next]_vars => TypeInv' /\ ErrInv'
  BY NextTypeInv, NextErrInv DEF TypeInv
<1>3. Spec => [](TypeInv /\ ErrInv)
  BY <1>1, <1>2, PTL DEF Spec
<1> QED
  BY <1>3, PTL DEF ErrInv
============================================================================

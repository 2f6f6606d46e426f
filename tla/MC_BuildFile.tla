---------------------------- MODULE MC_BuildFile ----------------------------
(* Model-checking instance of BuildFile: the names are model values given  *)
(* in the cfg; names of one kind are interchangeable, so each kind is a    *)
(* symmetry set (known and unknown tool names apart).                      *)
EXTENDS BuildFile, TLC

MCSymmetry ==
    Permutations(NodeNames) \cup Permutations(TaskNames)
    \cup Permutations(KnownTools) \cup Permutations(ToolNames \ KnownTools)
=============================================================================

----------------------------- MODULE MCTasksApi -----------------------------
(* Instances of TasksApi.                                                  *)
EXTENDS TasksApi, TLC

RequestSymmetry == Permutations(Posts \ Poison) \cup Permutations(Gets)
=============================================================================

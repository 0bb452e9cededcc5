-------------------------- MODULE MCModelSessions --------------------------
(* Two threads on the run of one task, and a service that is restarted with *)
(* another route, for model checking ModelSessions.                         *)
EXTENDS ModelSessions, TLC

CONSTANTS narrow, wide

Routes == {[repoPurpose |-> Unset, repoDefault |-> m, purpose |-> wide, default |-> wide,
            allowed |-> {narrow, wide}, ready |-> {narrow, wide}] : m \in {narrow, Unset}}
Itself == [m \in {narrow, wide} |-> m]
Interchangeable ==
  UNION {Permutations(set) : set \in {Callers, Sessions, Requests, Results, Tools}}
OneAndTwo == narrow :> 1 @@ wide :> 2
=============================================================================

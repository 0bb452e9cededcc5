----------------------------- MODULE MCWorkflow -----------------------------
(* Instances of Workflow: comments, users, configurations and commands.     *)
EXTENDS Workflow, TLC

CONSTANTS c1, c2, c3, alice, x, y

(* The starter is the operator, or nobody.                                  *)
Roles(starters) ==
  [start |-> "explicit", design |-> "collaborative",
   startOverrides |-> {"on_approval"}, designOverrides |-> {"automatic"},
   roles |-> [r \in RoleNames |-> IF r = "starter" THEN starters ELSE {alice}]]
WithStarter == {Roles({alice}), Roles({})}

Cmd(name, revision) == [name |-> name, revision |-> revision, start |-> "same", design |-> "same"]
Quick(revision) == [name |-> "approve_requirements", revision |-> revision,
                    start |-> "on_approval", design |-> "automatic"]
Written == {Quick(1), Cmd("approve_requirements", 1), Cmd("start", 1), Cmd("approve_design", 1),
            Cmd("amend", 1), Cmd("stop", 0), Cmd("resume", 0), Cmd("cancel", 0)}
Swap == Permutations(Comments) \cup Permutations(Contents)
=============================================================================

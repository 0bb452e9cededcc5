---------------------------- MODULE MCExecution ----------------------------
(* One owner, who approves once and then stops or cancels.                  *)
EXTENDS Execution

CONSTANTS c1, c2, c3, alice, x

Policy == [start |-> "on_approval", design |-> "automatic",
           startOverrides |-> {}, designOverrides |-> {},
           roles |-> [r \in RoleNames |-> {alice}]]
OnePolicy == {Policy}
Cmd(name, revision) == [name |-> name, revision |-> revision, start |-> "same", design |-> "same"]
Controls == {Cmd("approve_requirements", 1), Cmd("stop", 0), Cmd("cancel", 0)}
=============================================================================

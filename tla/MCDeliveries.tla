---------------------------- MODULE MCDeliveries ----------------------------
(* A command and an edit of one issue, for model checking Deliveries.      *)
EXTENDS Deliveries, TLC

CONSTANTS c, i

CommandAndEdit == c :> "command" @@ i :> "reconcile"
EditFirst == i :> 0 @@ c :> 1
OnlyCommand == c :> "command"
JustThat == c :> 0
=============================================================================

--------------------------- MODULE MCFileJournal ---------------------------
(***************************************************************************)
(* FileJournal for TLC: two tasks in one repository whose directory is not *)
(* on disk, two events, one of which can be redelivered with other         *)
(* content, and a blob that two contents share.                            *)
(***************************************************************************)
EXTENDS FileJournal, TLC

CONSTANTS k1, k2, r1, a, b, x, y, t1, t2

OneTask == k1 :> r1
SharedRepo == (k1 :> r1) @@ (k2 :> r1)
TwoBlobs == (a :> {x}) @@ (b :> {x, y})
OneBlob == a :> {x}
BothFaults == {"io", "power"}
NoFaults == {}
=============================================================================

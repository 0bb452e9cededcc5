-------------------------- MODULE MCFairScheduler --------------------------
(* Two repositories with model work, one with webhook deliveries only.     *)
EXTENDS FairScheduler

CONSTANTS a1, a2, b1, c1, c2, A, B, C, p, q

MCRepoOf == [w \in Works |-> IF w \in {a1, a2} THEN A ELSE IF w = b1 THEN B ELSE C]
MCModel == Works \cap {a1, a2, b1}
MCProviderOf == [w \in Works |-> IF w = b1 THEN q ELSE p]
OneProviderLimited == [x \in {p} |-> 1]
=============================================================================

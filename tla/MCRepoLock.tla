------------------------------ MODULE MCRepoLock ------------------------------
(* Four calls on two repositories: three of them contend for one.           *)
EXTENDS RepoLock

CONSTANTS c1, c2, c3, c4, shared, other

MCCalls == {c1, c2, c3, c4}
MCKeys  == {shared, other}
MCKeyOf == [c \in MCCalls |-> IF c = c4 THEN other ELSE shared]
=============================================================================

---------------------------- MODULE MCVaultStore ----------------------------
(* Values for the constants of VaultStore that a .cfg cannot write.        *)
EXTENDS VaultStore

CONSTANTS u1, u2, v1, i1, h1

MCOwner0 == [v \in {v1} |-> u1]
MCRows0 == [i \in {i1} |-> [vault |-> v1, hash |-> h1, by |-> u1]]
=============================================================================

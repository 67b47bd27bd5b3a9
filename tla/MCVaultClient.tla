---------------------------- MODULE MCVaultClient ----------------------------
(* An account that has two vaults with an item each before the login.      *)
EXTENDS VaultClient
CONSTANTS v1, v2, i1, i2
MCStored == [i \in {i1, i2} |->
                [vault |-> IF i = i1 THEN v1 ELSE v2, name |-> "a",
                 fav |-> FALSE]]
=============================================================================

----------------------------- MODULE MCVaultKeys -----------------------------
(***************************************************************************)
(* Small instances of RecoveryKeys and CatalogEncryption in one run: `part` *)
(* says which of them an execution is about, the other one rests.           *)
(***************************************************************************)
EXTENDS RecoveryKeys, CatalogEncryption

CONSTANTS d1, d2, x, y

VARIABLE part

vaultKeysVars == <<part, keyVars, catalogVars>>

KeysRest == keychain["vault"] = 0 /\ marker = "none" /\ ~lib["home"].there /\ backup = 1
              /\ \A r \in Restores : run[r].dest = d1
CatalogRests == catalogKey = 0 /\ state = "none" /\ ~env.barrier

VaultKeysInit ==
    /\ part \in {"keys", "catalog"}
    /\ KeyInit /\ run[x].dest = d1      \* the destinations are alike
    /\ (part # "keys" => KeysRest)
    /\ CatalogInit /\ (part # "catalog" => CatalogRests)

VaultKeysNext ==
    /\ UNCHANGED part
    /\ \/ part = "keys" /\ KeyNext /\ UNCHANGED catalogVars
       \/ part = "catalog" /\ CatalogNext /\ UNCHANGED keyVars

\* The fairness of RecoveryKeys and of CatalogEncryption.
VaultKeysSpec ==
    /\ VaultKeysInit /\ [][VaultKeysNext]_vaultKeysVars
    /\ \A l \in Libraries : WF_keyVars(part = "keys" /\ Provisioning(l))
    /\ \A r \in Restores : /\ WF_keyVars(part = "keys" /\ RestoreStep(r))
                           /\ SF_keyVars(part = "keys" /\ Lock(r))
    /\ WF_catalogVars(part = "catalog" /\ Continue)

\* After every crash the daemon serves the catalog again (see ServesAgain).
CatalogServesAgain == part = "catalog" => ServesAgain
=============================================================================

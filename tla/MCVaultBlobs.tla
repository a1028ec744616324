---------------------------- MODULE MCVaultBlobs ----------------------------
(***************************************************************************)
(* Small instances of four specifications about the blobs of a vault, in    *)
(* one run: `part` says which of them an execution is about, the others     *)
(* rest in one of their initial states.                                     *)
(***************************************************************************)
EXTENDS QuarantineRepair, SyncReceive, SyncTransfers, PhoneStorage, TLC

CONSTANTS a, b, gone, here, p1, p2, r1, r2, e1, e2, k1, k2

VARIABLE part

blobsVars == <<part, repairVars, receiveVars, vars, disturbed, phoneVars>>

RepairRests == store.files = {} /\ rows.uploads = {} /\ rows.blobs = {}
                 /\ rows.owner = NoVault /\ \A v \in Vaults : rows.entries[v] = "none"
ReceiveRests == blobRows = NoBlobRows /\ ~storageOnly

BlobsInit ==
    /\ part \in {"repair", "receive", "transfers", "phones"}
    /\ RepairInit /\ (part # "repair" => RepairRests)
    /\ rows.entries[gone] = "none"     \* the vault that is gone left blobs and receipts
    /\ ReceiveInit /\ (part # "receive" => ReceiveRests)
    /\ Init /\ disturbed /\ PhonesInit

\* The calls are alike and so are the peers: the first transfer is one of r1 to p1.
FirstCallFirst ==
    mem.rows = <<>> => /\ runs[r1] = Idle => runs'[r2] = Idle
                       /\ \A n \in DOMAIN mem'.rows : mem'.rows[n].to = p1

\* Phones fetch the chunks in order, and only the first one pauses; only the
\* first assignment is canceled or lapses.  A save fails when it would have
\* changed the rows; with a mishap nobody pauses and nothing lapses.
PhonesInOrder ==
    /\ \A p \in Phones : k2 \in kept'[p] => k1 \in kept'[p]
    /\ \A p \in Phones : pool'.profile[p] = "paused" => p = 1 /\ mishaps' = 0
    /\ \A i \in DOMAIN pool'.rows :
          /\ pool'.rows[i].status = "Aborted" => i = 1
          /\ pool'.rows[i].late => i = 1 /\ mishaps' = 0
    /\ mishaps' > mishaps => poolDb # pool' \/ chunkFiles' # chunkFiles

\* Exchanges are alike and so are sealings: the second exchange begins while the
\* first is under way, and the first of an unknown blob brings sealing 1.  A
\* process is killed once more only when what it left before is cleaned up.
ExchangesInOrder ==
    /\ rx'[e2] # NoExchange => rx[e1] # NoExchange \/ rx[e2] # NoExchange
    /\ blobRows.seal = 0 => rx'[e1].seal < 2
    /\ orphans' > orphans => orphans = 0
    /\ oddities # {} => oddities' = oddities

\* The last blob is one a repair makes.
RepairMakesLastBlob == job.at = "idle" /\ job'.at = "idle" => issued'.blobs < MaxBlobs

BlobsNext ==
    /\ UNCHANGED part
    /\ \/ /\ part = "repair" /\ UNCHANGED <<receiveVars, vars, disturbed, phoneVars>>
          /\ RepairNext /\ RepairMakesLastBlob
       \/ /\ part = "receive" /\ UNCHANGED <<repairVars, vars, disturbed, phoneVars>>
          /\ ReceiveNext /\ ExchangesInOrder
       \/ /\ part = "transfers" /\ UNCHANGED <<repairVars, receiveVars, phoneVars>>
          /\ Next /\ FirstCallFirst
       \/ /\ part = "phones" /\ UNCHANGED <<repairVars, receiveVars, vars, disturbed>>
          /\ PhonesNext /\ PhonesInOrder

BlobsSpec == BlobsInit /\ [][BlobsNext]_blobsVars

\* The vaults that are left are alike.
LiveVaultsAlike == Permutations(LiveVaults)
=============================================================================

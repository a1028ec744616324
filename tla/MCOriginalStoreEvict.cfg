\* Evicting after the original was sealed again.
SPECIFICATION Spec
CONSTANTS
    d1 = d1
    q1 = q1
    Desktops = {d1}
    Phones = {}
    MinReplicas = 1
    ImportModes = {"Copy"}
    Policies = {"EncryptedOnly", "KeepPlaintextCopy"}
    MaxGen = 2
    ChunkLoss = TRUE
INVARIANT EvictedIsProtected

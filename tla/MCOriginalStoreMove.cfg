\* A crash between the end of a Move import and its save.
SPECIFICATION Spec
CONSTANTS
    d1 = d1
    q1 = q1
    Desktops = {}
    Phones = {}
    MinReplicas = 1
    ImportModes = {"Move"}
    Policies = {"EncryptedOnly", "KeepPlaintextCopy"}
    MaxGen = 1
    ChunkLoss = FALSE
INVARIANT FailureKeepsTheOriginal

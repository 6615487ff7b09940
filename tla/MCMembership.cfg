SPECIFICATION Spec
CONSTANTS
    CredTypes = {"TAG"}
    CredIds = {1}
    Bodies = {a}
    ComMaxDelta = 1
    CredMaxDelta = 1
    Peers = {p}
    Timestamps = {1, 2}
    Configs <- MCConfigs
INVARIANTS
    TypeOK
    RevokedCredUnusable
    NewestCredInUse
    AdmittedWithNewestCom

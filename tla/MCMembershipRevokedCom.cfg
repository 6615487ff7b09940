SPECIFICATION Spec
CONSTANTS
    CredTypes = {"TAG"}
    CredIds = {0, 1}
    Bodies = {a}
    ComMaxDelta = 1
    CredMaxDelta = 1
    Peers = {p}
    Timestamps = {1, 2, 3}
    Configs <- MCConfigs
INVARIANT RevokedComRefused

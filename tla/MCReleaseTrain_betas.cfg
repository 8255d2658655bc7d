CONSTANTS
    feat = feat
    fix = fix
    docs = docs
    Files = {"pyproject.toml", "uv.lock"}
    Releasable = {feat, fix}
    Noise = {docs}
    Configs <- MCConfigs
    MaxBase = 2
    MaxSerial = 2
    MaxCommits = 9
SPECIFICATION Spec
INVARIANTS
    PublishedWasTested
    VersionsAgree
    BetasAdvance
CHECK_DEADLOCK FALSE

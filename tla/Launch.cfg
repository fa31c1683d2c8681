\* A file, an environment and flags with at most one setting each besides the
\* key, every kind of value among them.
CONSTANTS
    Files <- MCFiles
    Envs <- MCEnvs
    Flags <- MCFlags
SPECIFICATION Spec
INVARIANTS
    TypeOK
    ValidAtUse
    StrongestSourceWins
    SystemConfigWins
    WholeBinary

\* One CronJob whose command has a "--" of its own.
CONSTANTS
    Dashed <- DashedWords
    Words <- AllWords
    Agents <- Binaries
    Manifests <- NestedManifests
    ExtraArgs <- TimeoutFlag
    PrivacyEnv <- Redaction
SPECIFICATION Spec
INVARIANT JobPreserved

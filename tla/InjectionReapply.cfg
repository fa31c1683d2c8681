\* A plain CronJob, applied, edited and applied again.
CONSTANTS
    Dashed <- DashedWords
    Words <- AllWords
    Agents <- Binaries
    Manifests <- PlainManifests
    ExtraArgs <- TimeoutFlag
    PrivacyEnv <- Redaction
SPECIFICATION Spec
INVARIANT AdmittedIsMonitored

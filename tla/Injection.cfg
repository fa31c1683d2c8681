\* Manifests that opt in with every command, mode and set of lists, some that
\* cannot be wrapped, and some written with the macro, edited into each other.
CONSTANTS
    Dashed <- DashedWords
    Words <- AllWords
    Agents <- Binaries
    Manifests <- AllManifests
    ExtraArgs <- TimeoutFlag
    PrivacyEnv <- Redaction
SPECIFICATION Spec
INVARIANTS
    TypeOK
    NeverBlocks
    JobPreserved
    WrappedOnce
    WrapperComplete

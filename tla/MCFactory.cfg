SPECIFICATION Spec
CONSTANTS
    Texts <- ThreeTexts
    Stem <- OneStem
    Namespace <- OneNamespace
    Version <- Releases
    Bare = Bare
INVARIANTS
    KeysTellTextsApart
    WiredOnce
    BuiltIsComplete
    RebuildKeepsTranslations

CONSTANTS
    Configs <- MCConfigs
    Letters <- MCLetters
    Codes <- MCCodes
SPECIFICATION MSpecRuns
INVARIANTS
    NothingInClear
    AckDecides
    WholeEnvelope
    ClassifiedByCause
    HeadersTruthful
    LinesPreserved
PROPERTIES
    ImplementsAttempt
    SessionComesToRest
    SessionEnds

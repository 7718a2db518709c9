CONSTANTS
    Configs <- MCConfigs
    Letters <- MCLetters
    Codes <- MCCodes
SPECIFICATION MSpecRuns
PROPERTIES
    CancellationEnds

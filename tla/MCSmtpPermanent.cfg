CONSTANTS
    Configs <- MCConfigs
    Letters <- MCLetters
    Codes <- MCCodes
SPECIFICATION MSpecRuns
INVARIANTS
    PermanentStaysPermanent

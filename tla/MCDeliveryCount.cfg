CONSTANTS
    Plans <- MCExtreme
    MaxInt <- MCMaxInt
    Failures <- MCFailures
SPECIFICATION RSpec
INVARIANTS
    CountHonored

CONSTANTS
    Plans <- MCPlans
    MaxInt <- MCMaxInt
    Failures <- MCFailures
SPECIFICATION RSpec
INVARIANTS
    NilMeansDelivered

CONSTANT Apps <- MCApps
SPECIFICATION Spec
CHECK_DEADLOCK FALSE
INVARIANTS
    ValidatedNeverPanics
    EveryRuleIsInPlace
    ConfigIsAsWritten

CONSTANTS
    Calls <- MCCalls
    Requests <- MCRequests
    ServiceErrors <- MCServiceErrors
    Statuses <- MCStatuses
    RuleGrants <- MCRuleGrants
    RuleMeans <- MCRuleMeans
SPECIFICATION FairSpec
CHECK_DEADLOCK FALSE
INVARIANTS
    Admitted
    NoForgottenTx
    SuccessIsCommitted
    CountedAsAnswered
    DeadlineIs504
    AlarmIsExact
    RestResultIsWhole
PROPERTIES
    RequestEnds

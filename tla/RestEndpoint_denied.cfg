CONSTANTS
    Calls <- MCCalls
    Requests <- MCRequests
    ServiceErrors <- MCServiceErrors
    Statuses <- MCStatuses
    RuleGrants <- MCRuleGrants
    RuleMeans <- MCRuleMeans
SPECIFICATION Spec
CHECK_DEADLOCK FALSE
INVARIANT
    DeniedIs401

CONSTANT Apps <- LoggerApps
SPECIFICATION Spec
CHECK_DEADLOCK FALSE
INVARIANT BootstrapLoggerIsGone

SPECIFICATION FairSpec
CONSTANTS
  Callers = {c1, c2, c3}
  MaxConcurrentRenders = 2
  InactiveShutdownDelay = 1
  MaxBrowserLifetime = 2
  MaySetupFail = TRUE
  None = None
INVARIANTS SlotsExact ShutdownOnlyIdle
PROPERTIES RendersKeepBrowser PrintReturns IdleBrowserCloses

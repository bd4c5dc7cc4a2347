SPECIFICATION FairSpec
CONSTANTS
  Runners = {compose, host}
  Slots = {c1, c2}
  MaxFailures = 2
INVARIANTS LedgerIsTrue ExitsTellTheTruth
PROPERTIES SettlesEventually

SPECIFICATION FairSpec
CONSTANTS
  Clients = {c1, c2}
  Levels = {1}
  Amounts = {1, 2}
  MaxBalance = 2
  Retries = 1
  MaxEvents = 2
  MaxCalls = 1
  MaxCrashes = 1
CHECK_DEADLOCK FALSE
INVARIANTS LedgerBalances FailsOnlyWhenOvertaken AllocatedOnce
PROPERTIES ImplementsAccounts InvoiceApplied

SPECIFICATION Spec
CONSTANTS
    PageEntries = 2
    MaxLevel = 2
    Untimed = Untimed
    DirectoryEntries = 3
    MaxDirectoryLevel = 2
    Workloads <- ManyWorkloads
    Inherited <- InheritedRoots
    MaxRequest = 2
    MaxPasses = 2
    Ages = {NoLimit, 1}
    Limits = {NoLimit, 0, 9}
    NoLimit = NoLimit
    Clocks = {1, 2}
    MaxMillis = 2
    MaxObjects = {11, 40}
    Budgets = {0, 2, 5}
INVARIANTS TreeHoldsLog PagesReadable SelectionExact LookupExact RetentionExact BudgetForeseen
CHECK_DEADLOCK FALSE

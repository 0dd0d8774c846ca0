\* Three transactions and two statements outside, with failures and crashes, under fairness.
CONSTANTS
    Txs = {t1, t2, t3}
    Plains = {p1, p2}
    Failures = TRUE
    Crashes = TRUE
    MaxWrites = 2
SPECIFICATION FairSpec
INVARIANTS
    TypeOK
    BeginsClosed
    AllOrNothing
PROPERTIES
    TransactionsSettle
    AtomicStoreSpec
CHECK_DEADLOCK FALSE

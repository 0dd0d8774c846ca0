\* Two readers and two writers, under fairness: what the memo holds and hands out.
CONSTANTS
    Writers = {w1, w2}
    Readers = {r1, r2}
    MaxChanges = 2
    None = None
SPECIFICATION FairSpec
INVARIANTS
    TypeOK
    CacheIsFresh
    AnswersAreFresh
PROPERTIES
    CallersAnswered

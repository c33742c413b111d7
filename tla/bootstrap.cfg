\* Three callers, two address stacks of one host.
CONSTANTS
    c1 = c1  c2 = c2  c3 = c3
    v4 = v4  both = both
    Caller = {c1, c2, c3}
    Key = {v4, both}
SPECIFICATION FairSpec
INVARIANTS OneLookup
PROPERTIES LookupsSpaced OutcomeRecorded AnswersHonest StaleMeansTried CallersEnd

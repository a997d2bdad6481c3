\* Five posts at most.
CONSTANT MaxRetries = 4
SPECIFICATION FairCallSpec
INVARIANTS CallTypeOK PostsAccounted
PROPERTY KeepsContract
CHECK_DEADLOCK FALSE

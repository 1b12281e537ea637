\* A block assigns a variable that its method has named, but not assigned.
SPECIFICATION FairSpec
CONSTANT Programs <- StrayPrograms
PROPERTY WritesWhereItReads
CHECK_DEADLOCK FALSE

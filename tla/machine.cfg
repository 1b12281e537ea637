\* Loops, blocks and calls, compiled and run.
SPECIFICATION FairSpec
CONSTANT Programs <- MCPrograms
INVARIANTS RunsAsWritten OperandsKept
PROPERTY Terminates
CHECK_DEADLOCK FALSE

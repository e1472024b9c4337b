\* The loop over the acceptances ends.
CONSTANT Blocks <- PossibleBlocks
SPECIFICATION Spec
INVARIANT SnipeKeysDiffer
CHECK_DEADLOCK FALSE

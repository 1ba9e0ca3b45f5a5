SPECIFICATION Spec
CONSTANT MaxLines = 7
INVARIANT TypeOK
INVARIANT CertsAreTheBlocks
INVARIANT AcceptsExactlyBundles
INVARIANT ChainOrder
CHECK_DEADLOCK FALSE

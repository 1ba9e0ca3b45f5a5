SPECIFICATION Spec
CONSTANT None = None
INVARIANT KdsRequestNamesChip
CHECK_DEADLOCK FALSE

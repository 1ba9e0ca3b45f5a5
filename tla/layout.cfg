SPECIFICATION Spec
CONSTANT None = None
INVARIANT AcceptedIffIntact
INVARIANT PrintedIsMeasured
INVARIANT ReadBack
CHECK_DEADLOCK FALSE

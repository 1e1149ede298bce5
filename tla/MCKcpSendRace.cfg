SPECIFICATION Spec
CONSTANT MaxNodes = 3
INVARIANT AcceptedIsQueued
CHECK_DEADLOCK FALSE

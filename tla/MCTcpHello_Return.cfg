SPECIFICATION Spec
CONSTANT MaxResumes = 1
INVARIANT ZeroIsSuccess
CHECK_DEADLOCK FALSE

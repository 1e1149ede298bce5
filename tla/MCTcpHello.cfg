SPECIFICATION FairSpec
CONSTANT MaxResumes = 2
INVARIANTS TypeOK KcpNeedsHello AckStartsKcp HelloCleansUp
PROPERTY ResumeEnds
CHECK_DEADLOCK FALSE

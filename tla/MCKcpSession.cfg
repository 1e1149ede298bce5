SPECIFICATION FairSpec
CONSTANT MaxStarts = 3
INVARIANTS TypeOK NoUseAfterRelease OneReceiver NothingLeaks
PROPERTY ReceiversEnd

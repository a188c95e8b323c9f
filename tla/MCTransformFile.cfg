SPECIFICATION FileSpec
CONSTANT Sources <- ManyFiles
INVARIANTS
    WordsAreAccountedFor
    OnlyUnseenChildrenAreLost
    OnlyInnerHooksHide
CHECK_DEADLOCK FALSE

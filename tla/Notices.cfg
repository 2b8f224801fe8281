SPECIFICATION MCSpec
CONSTANTS
    t1 = t1
    t2 = t2
    Tools = {t1, t2}
    Turns = 2
    Setups <- Setting
    Threaded = FALSE
    Parts = {"notices", "activities", "context"}
INVARIANTS
    NoInvalidationLost
    ToldAtOnce
    NoticesInPlace
    AsksInWords
    DrawsWhatIsPushed
    ContextIsFenced

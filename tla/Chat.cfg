SPECIFICATION FairSpec
CONSTANTS
    A = A
    B = B
    C = C
    t1 = t1
    f1 = f1
    Pages = {A, B, C}
    Texts = {t1}
    Files = {f1}
    HistoryMax = 2
    Scenes <- ChatScenes
INVARIANT TrueAuthor
INVARIANT BubbleWasSent
INVARIANT HandedIsUnderWay
PROPERTY NothingVanishes
PROPERTY HandedOverIsShown
CHECK_DEADLOCK FALSE

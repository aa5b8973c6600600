SPECIFICATION FairSpec
CONSTANTS
    Titles = {"a", "b"}
    Menus = {"games", "saves"}
    Listed <- GamesAndSaves
    MayClear = {"games"}
    ModsFrom = {"other"}
    MaxClears = 1
INVARIANT ResultsAlive
PROPERTY EntriesLoad
PROPERTY ExitEnds

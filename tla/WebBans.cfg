SPECIFICATION Spec
CONSTANTS
    MaxVersion = 2
    MaxCalls = 2
    MaxFailures = 1
    Crowded = {"stations", "station", "queue", "suggestions", "browse", "genreStations", "genres", "pipeline", "playlists", "playlist", "picks", "genreReview", "poolGenres", "stationSearch"}
    Admin = TRUE
    Unheard = {}
CHECK_DEADLOCK FALSE
INVARIANT OwnChangesShow

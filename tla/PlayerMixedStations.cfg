CONSTANTS
    song1 = song1
    song2 = song2
    rock = rock
    jazz = jazz
    NoTrack = NoTrack
    NoStation = NoStation
    Tracks = {song1, song2}
    LongTracks = {}
    Lookahead = 1
    RecentSkip = 0
    FadeSteps = 1
    Volumes = {1}
    Places = {"start", "tail"}
    Pages <- McPages
    MaxQueue = 2
    Stations = {rock, jazz}
    Songs <- McSongs
    MaxRequests = 1
SPECIFICATION PlayerSpec
INVARIANTS UpNextIsOfStation
CHECK_DEADLOCK FALSE

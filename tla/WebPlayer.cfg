CONSTANTS
    song1 = song1
    song2 = song2
    rock = rock
    jazz = jazz
    NoTrack = NoTrack
    NoStation = NoStation
    Tracks = {song1, song2}
    LongTracks = {}
    Lookahead = 1
    RecentSkip = 1
    FadeSteps = 1
    Volumes = {1}
    Places = {"start", "tail"}
    Pages <- McPages
    MaxQueue = 2
    Stations = {rock, jazz}
    Songs <- McSongs
    MaxRequests = 1
SPECIFICATION PlayerSpec
INVARIANTS ShownIsReal ShownStationIsLoaded LoadingIsAwaited OneMoreAtATime DryIsAsked
CHECK_DEADLOCK FALSE

CONSTANTS
    song1 = song1
    song2 = song2
    song3 = song3
    NoTrack = NoTrack
    Tracks = {song1, song2, song3}
    LongTracks = {song1, song2}
    Lookahead = 1
    RecentSkip = 1
    FadeSteps = 2
    Volumes = {1, 2}
    Places = {"start", "body", "tail"}
    Pages <- McPages
    MaxQueue = 3
SPECIFICATION Spec
INVARIANTS TypeOK PlaysWhatIsWanted OneSounds StandbyIsNext VolumeIsSet
PROPERTIES KeepsOrder
CHECK_DEADLOCK FALSE

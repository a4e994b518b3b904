------------------------------- MODULE MCWebData -------------------------------
(* WebData for TLC: every query, a scan that starts and ends, two changes in    *)
(* flight and one failure.                                                      *)
EXTENDS WebData

\* What no hook tells: the search for stations and the genres of playlists at
\* all; a ban to the stations, a like to the queue; hidden songs, copies and
\* deleted users to the review; a scan to the pipeline's card; the picks that the
\* genre stations' settings rebuild to the playlists, a pick to the suggestions.
MCUnheard ==
    (Mutations \X {"stationSearch", "poolGenres"})
        \cup ({"ban"} \X {"stations", "station", "queue"})
        \cup ({"hide", "restore", "refresh", "deleteUser"} \X {"genreReview"})
        \cup ({"scan", "rescan"} \X {"pipeline"})
        \cup ({"genreStations", "genreStation"} \X {"playlists", "playlist", "picks"})
        \cup {<<"like", "queue">>, <<"removePick", "suggestions">>}
=============================================================================

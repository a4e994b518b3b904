--------------------------- MODULE MCScanPipeline ---------------------------
(* Instances of ScanPipeline: the constants of its TLC configurations.     *)
EXTENDS ScanPipeline, TLC

CONSTANTS w1, w2, c1, c2, s1, s2

MCWorkers == {w1, w2}
OneWorker == {w1}
OneCaller == {c1}
MCCallers == {c1, c2}
OneScan == {s1}
TwoScans == {s1, s2}

NoTask == {}
FolderTasks == {"process_audio_folder"}
TriggerTasks == {"trigger_library_scan"}
FinalizeTasks == {"finalize_scan"}
FetchTasks == {"fetch_artist_genres"}
FolderAndFinalizeTasks == FolderTasks \cup FinalizeTasks

=============================================================================

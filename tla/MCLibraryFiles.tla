---------------------------- MODULE MCLibraryFiles ----------------------------
(* Instances of LibraryFiles: the constants of its TLC configurations.     *)
EXTENDS LibraryFiles, TLC

CONSTANTS p1, p2, p3, f1, f2, v1, v2, v3

\* Two folders, of two files and of one.
ThreePaths == {p1, p2, p3}
TwoFolders == {f1, f2}
FolderOfThree == [p \in ThreePaths |-> IF p \in {p1, p2} THEN f1 ELSE f2]

TwoVersions == {v1, v2}
ThreeVersions == {v1, v2, v3}

\* All versions differ in size, or v1 and v2 do not.
AllDiffer == {<<v, v>> : v \in Versions}
SameSize == AllDiffer \cup {<<v1, v2>>, <<v2, v1>>}

\* Of two versions, v2 has no duration.
SecondSilent == {<<v1, v1>>}

\* p1 and p2 are in one folder, v1 and v2 have one size in SameSize: each pair
\* can be exchanged.
AlikePaths == Permutations({p1, p2})
Alike == AlikePaths \cup Permutations({v1, v2})
=============================================================================

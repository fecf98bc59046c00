---------------------------- MODULE MCTaskClaims ----------------------------
(* Small instances of TaskClaims for TLC.                                     *)
EXTENDS TaskClaims, TLC

CONSTANTS s1, s2, t1, dir, file

TwoSessions == {s1, s2}
OneTraced   == {s2}
OneId       == {t1}
TwoFiles    == {dir, file}
OneFile     == {file}

\* A claim on the directory reaches the file in it.
DirCovers  == dir :> {dir, file} @@ file :> {file}
FileCovers == file :> {file}

=============================================================================

--------------------------- MODULE MC_FileSystem ---------------------------
(* FileSystem on a few blocks, descriptors and open slots.                   *)
EXTENDS FileSystem, TLC

CONSTANTS f1, f2

TwoNames == {f1, f2}
NameSymmetry == Permutations(TwoNames)

\* Once the file system is damaged, at most one file is open at a time.
OneOpenOnceDamaged == intact \/ opened_file_count <= 1
=============================================================================

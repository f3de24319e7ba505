-------------------------- MODULE MCMigrationFiles --------------------------
(* Two resources, two versions and two patches, all interchangeable.       *)
EXTENDS MigrationFiles, TLC

CONSTANTS v1, v2, p1, p2, f1, f2

MCVersions == {v1, v2}
MCPatches  == {p1, p2}
MCFiles    == {f1, f2}
Symmetry   == Permutations(MCVersions) \cup Permutations(MCPatches)
                \cup Permutations(MCFiles)
=============================================================================

--------------------------- MODULE MCPluginManager ---------------------------
(* Two users and four commands; the user's directory, which add and remove   *)
(* work on, and the global one behind it; two file names.  A plugin "a" in   *)
(* two versions, the second with a binary for another platform first, and a  *)
(* plugin "ab"; a manifest of "a" that calls a version "ab" and has another  *)
(* without a binary.                                                         *)
EXTENDS PluginManager, TLC

CONSTANTS u1, u2

MCUsers      == {u1, u2}
Symmetry     == Permutations(MCUsers)
MCDirs       == <<"user", "global">>
MCNameOrder  == <<"a", "ab">>
MCAddDirs    == {"user"}
MCRemoveDirs == {"user"}

Binary(p, v, f) == [plugin |-> p, version |-> v, platform |-> f]
A1     == Binary("a", 1, "here")
A2     == Binary("a", 2, "here")
A2Else == Binary("a", 2, "elsewhere")
AB1    == Binary("ab", 1, "here")
MCBinaries == {A1, A2, A2Else, AB1}

MCSkips   == {{}, {"a"}}
MCMatches == {<<"a", "a">>, <<"a", "ab">>, <<"ab", "ab">>}

Version(n, v, bs) == [name |-> n, version |-> v, binaries |-> bs]
TwoVersions == [a  |-> <<Version("a", 1, <<A1>>), Version("a", 2, <<A2Else, A2>>)>>,
                ab |-> <<Version("ab", 1, <<AB1>>)>>]
NewestFirst == [a |-> <<Version("a", 2, <<A2>>), Version("a", 1, <<A1>>)>>]
ForElsewhere == [a  |-> <<Version("a", 2, <<A2Else>>)>>,
                 ab |-> <<Version("ab", 1, <<AB1>>)>>]
OtherNames == [a |-> <<Version("ab", 1, <<A1>>), Version("a", 2, <<>>)>>]
MCIndexes == {TwoVersions, NewestFirst, ForElsewhere, OtherNames}

\* Nothing; a copy of "a" under the name of "ab"; or "a" in the global
\* directory.
MCInstalled ==
  {<<>>,
   [p \in {<<"user", "ab">>} |-> Body(A1)],
   [p \in {<<"global", "a">>} |-> Body(A2)]}
=============================================================================

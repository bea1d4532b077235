------------------------------- MODULE MCTree -------------------------------
(* A share with a directory d and a file o; in d a directory s and a file u,   *)
(* whose name is `..`, a separator and o; in s a file g and a file p, whose     *)
(* name is `.`, a separator, g and a space.                                   *)
EXTENDS Tree

SmallNodes == {"share", "d", "o", "u", "s", "g", "p"}
SmallDirs == {"share", "d", "s"}
SmallParent == [n \in SmallNodes \ {"share"} |->
                  CASE n \in {"d", "o"} -> "share"
                    [] n \in {"s", "u"} -> "d"
                    [] OTHER -> "s"]

Padded == "g "  \* g and a space, which is no node's name
SmallTrimmed(name) == IF name = Padded THEN "g" ELSE name
SmallSplit(name) == CASE name = "u" -> <<"..", "o">>
                      [] name = "p" -> <<".", Padded>>
                      [] OTHER -> <<name>>

\* A path to every node but u and p, where none leads: one by way of `..`, one with a
\* doubled separator, one through `.` and one that is trimmed; and the paths that are
\* refused: absolute, above the share, above it and back, and with a null byte.
SmallTarget == <<"d">>
SmallPaths == {<<"d">>, <<"d", "..", "o">>, <<"d", "", "s">>, <<"d", "s", ".", "g">>,
               <<"d", "s", Padded>>,
               <<"", "o">>, <<"..">>, <<"d", "..", "..", "o">>, <<"d", "NUL">>}
=============================================================================

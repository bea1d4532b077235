----------------------------- MODULE SharePath -----------------------------
(***************************************************************************)
(* Paths inside a share: the policy of SharePath (src/src/unc.rs) and the   *)
(* shapes built on it (src/src/path.rs).  A path is the sequence of its     *)
(* components, `/` and `\` being one separator by then; the root is the     *)
(* empty one, and an empty component is a leading, doubled or trailing      *)
(* separator.                                                              *)
(***************************************************************************)
EXTENDS Integers, Sequences, SequencesExt

CONSTANTS
    Trimmed(_),  \* what white space trimmed off its end leaves of a name
    Split(_)     \* the components a name falls into at the separators it carries

NullByte == "NUL"  \* a component that carries one

\* The depth below the share at which each component of a path leaves it.
Depths(path) ==
    LET depth[i \in 0 .. Len(path)] ==
          IF i = 0 THEN 0
          ELSE IF path[i] \in {"", "."} THEN depth[i - 1]
          ELSE IF path[i] = ".." THEN depth[i - 1] - 1
          ELSE depth[i - 1] + 1
    IN  depth

\* A mutant of EscapesShareRoot: the depth is judged at the end.
EscapesShareRootAtEnd(path) == Depths(path)[Len(path)] < 0

\* escapes_share_root: the depth is judged at every component, not at the end.
EscapesShareRoot(path) == \E i \in 1 .. Len(path) : Depths(path)[i] < 0

\* SharePath::new: the trimming, of a path's two ends alone (no name here begins
\* with white space, so it is the end of the last name that it reaches),
Normalized(path) ==
    IF path = <<>> THEN path ELSE Append(Front(path), Trimmed(Last(path)))

\* and the three refusals, of what the trimming leaves.  A path of one empty
\* component is the root; an empty one before others makes it absolute.
InvalidPath(path) ==
    LET normalized == Normalized(path)
    IN  \/ NullByte \in ToSet(normalized)
        \/ Len(normalized) > 1 /\ Head(normalized) = ""
        \/ EscapesShareRoot(normalized)

\* search_pattern, without its asterisk: the directory it lists.
SearchPattern(path) ==
    IF path # <<>> /\ Last(path) = "" THEN Front(path) ELSE path

\* join, of a directory and an entry's name.  Neither the listing nor the join refuses
\* a name that carries a separator, and the path takes it apart.
Join(path, name) == SearchPattern(path) \o Split(name)
=============================================================================

---------------------------- MODULE EvidencePaths ----------------------------
(***************************************************************************)
(* How the indexer turns the artifacts a JUnit failure points to into      *)
(* paths under its roots (indexing/indexer.py).  An artifact is where it   *)
(* lies and what it is called; a link also says where it leads.  A pointer *)
(* is written as the test runner wrote it, on another machine perhaps.     *)
(***************************************************************************)
EXTENDS Integers, FiniteSets, SequencesExt

CONSTANTS
    NoLink,   \* an artifact that is no symbolic link
    NoIndex,  \* no artifact has been looked up by its basename yet
    Glob      \* Glob[name]: the names that match `name` read as a pattern, as rglob reads it

\* "own": empty, or the name of the file itself; "absolute": a path of the machine that ran
\* the test; "relative": a path from the file's directory or, `up`, from the one above.
Pointers(names, dirs) ==
    [form : {"own"}] \cup [form : {"absolute"}, name : names]
        \cup [form : {"relative"}, dir : dirs, name : names, up : BOOLEAN]

(***************************************************************************)
(* _find_artifact_by_basename.  The index is built at the first lookup,    *)
(* from the artifacts that match that lookup's name, and kept.             *)
(***************************************************************************)
IsFile(a) == a.link = NoLink

BuildIndex(tree, name) ==
    [name |-> name, found |-> {a \in tree : IsFile(a) /\ a.name \in Glob[name]}]

IndexAfter(index, tree, name) == IF index = NoIndex THEN BuildIndex(tree, name) ELSE index

Parts(a) == Range(a.dir) \cup {a.name}
Shared(a, source) == Cardinality(Parts(a) \cap Parts(source))

NearestByDir(matches, source) == \* mutant: any artifact of the name will do
    matches

\* max() takes the first of several, in the order in which the directory was listed.
Nearest(matches, source) ==
    {a \in matches : \A b \in matches : Shared(b, source) <= Shared(a, source)}

FindArtifact(index, name, source) ==
    Nearest({a \in index.found : a.name = name}, source)

(***************************************************************************)
(* _resolve_evidence_paths, one pointer at a time: the paths it may become *)
(* and, below, whether _normalize_evidence_refs keeps it.                  *)
(***************************************************************************)
External(name) == [external |-> name]
Unresolved(pointer) == [asis |-> pointer]

\* resolve() follows a link before is_symlink() is asked, so a link is where it leads.
Target(a) == IF IsFile(a) THEN [dir |-> a.dir, name |-> a.name] ELSE a.link
Above(source) == IF source.dir = << >> THEN {} ELSE {Front(source.dir)}
Sibling(tree, source, pointer) ==
    LET from == IF pointer.up THEN Above(source) ELSE {source.dir} IN
    {Target(a) : a \in {b \in tree : b.name = pointer.name
                                       /\ b.dir \in {d \o pointer.dir : d \in from}}}

Place(a) == [dir |-> a.dir, name |-> a.name]

Resolve(pointer, tree, source, index) ==
    CASE pointer.form = "own" -> {Place(source)}
      [] pointer.form = "absolute" ->
            LET found == FindArtifact(index, pointer.name, source) IN
            IF found = {} THEN {External(pointer.name)} ELSE {Place(a) : a \in found}
      [] pointer.form = "relative" ->
            LET sibling == Sibling(tree, source, pointer) IN
            IF sibling = {} THEN {Unresolved(pointer)} ELSE sibling

\* A path with a ".." left in it is dropped.
Kept(path) == "asis" \notin DOMAIN path \/ ~path.asis.up
=============================================================================

---------------------------- MODULE MCOpenFiles ----------------------------
(* OpenFiles for TLC.  Handles, paths, keys and edits are interchangeable:  *)
(* the initial states and Next treat all of each alike.                     *)
EXTENDS OpenFiles, TLC

Symmetry == Permutations(Handles) \cup Permutations(Paths) \cup Permutations(Keys)
              \cup Permutations(Edits)

MCOpSets == {{"writers", "rename"}, {"unlink", "dup"}}

\* Renames concern the bags, which do not depend on contents: one edit is
\* enough while files are renamed.
Made == UNION {UNION {hist[k][i] : i \in DOMAIN hist[k]} : k \in Keys}
          \cup UNION {c \in {fresh[k][r] : k \in Keys, r \in Revs} : c # None}
          \cup UNION {handle[h].data : h \in Open}
FewEdits == "rename" \in ops => Cardinality(Made') <= 1
=============================================================================

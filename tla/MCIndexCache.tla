----------------------------- MODULE MCIndexCache -----------------------------
(* Small instances of IndexCache. *)
EXTENDS IndexCache

CONSTANTS image, meta, index, other,     \* keys
          a1, a2, m1, i1, o1         \* calls

(* Two checks of an image, whose fetch reads metadata, and lookups of two indexes. *)
ScanCalls   == {a1, a2, m1, i1, o1}
ScanKeys    == [c \in ScanCalls |-> CASE c \in {a1, a2} -> image [] c = m1 -> meta
                                      [] c = i1 -> index [] c = o1 -> other]
ScanParents == [c \in ScanCalls |-> IF c = m1 THEN a1 ELSE None]
=============================================================================

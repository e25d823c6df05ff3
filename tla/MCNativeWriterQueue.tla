------------------------- MODULE MCNativeWriterQueue -------------------------
(* The instances of NativeWriterQueue that TLC checks.                      *)
EXTENDS NativeWriterQueue, TLC

CONSTANTS
  c1,  \* a catalog
  t1   \* one of its tables

(* All tables in one catalog, or t1 in c1 and the others in another one.   *)
OneCatalog == [t \in Tables |-> c1]

CatalogOfEach ==
  [t \in Tables |-> IF t = t1 THEN c1 ELSE CHOOSE c \in Catalogs : c # c1]

Symmetry == Permutations(Backends)
=============================================================================

--------------------------- MODULE MCEditorCache ---------------------------
EXTENDS EditorCache, TLC

CONSTANTS t1, t2, c1, c2, d1, d2, d3, d4

TwoTabs == (t1 :> c1) @@ (t2 :> c2)
LocalTabs == [t \in Tabs |-> c1]
Sizes == [d \in Digests |-> BundleMax]
MixedSizes == [d \in Digests |-> IF d = d3 THEN BundleMax ELSE 1]
Swap == Permutations({d1, d2, d3, d4})
=============================================================================

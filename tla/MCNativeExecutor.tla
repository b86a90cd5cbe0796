--------------------------- MODULE MCNativeExecutor ---------------------------
(* Instances of NativeExecutor for TLC. *)
EXTENDS NativeExecutor, TLC

Op(kind, content) == [kind |-> kind, content |-> content]

(* Every kind of operation; the documents and the diagrams are equal.      *)
Mixed == <<Op("document", "text"), Op("create", "table"), Op("document", "text"),
           Op("update", "text box"), Op("comment", "note"), Op("read", "history"),
           Op("delete", "widget"), Op("canvas", "flow"), Op("canvas", "flow")>>

=============================================================================

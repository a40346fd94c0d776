----------------------------- MODULE MCEditor -----------------------------
(* Two nodes and two connections; each kind of edit in turn.                *)
EXTENDS Editor

MCProfiles ==
  {[edits |-> {}, len |-> 7],
   [edits |-> {"move"}, len |-> 3],
   [edits |-> {"adjust"}, len |-> 4],
   [edits |-> {"prop", "dag"}, len |-> 3],
   [edits |-> {"prop", "nested"}, len |-> 4],
   [edits |-> {"prop", "nested", "remote"}, len |-> 3],
   [edits |-> {"import"}, len |-> 4],
   [edits |-> {"import", "layout"}, len |-> 3]}
=============================================================================

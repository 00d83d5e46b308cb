---------------------------- MODULE MCPipeline ----------------------------
(* Model-checking instances of Pipeline. *)
EXTENDS Pipeline

Event(ruby) ==
  [decodes |-> TRUE, timestamp |-> TRUE, ruby |-> ruby, apiPostProcessed |-> ruby]

\* Events whose usage must be flagged, and events the API post-processed.
BothSources == {Event(TRUE), Event(FALSE)}
PlainEvents == {Event(FALSE)}
=============================================================================

----------------------------- MODULE MCPipeline -----------------------------
\* Two records, so that a run may cut them into one segment or two.
EXTENDS Pipeline
=============================================================================

-------------------------- MODULE MCStatefulWorker --------------------------
\* One input segment, committed with its output and then once more with the final answer,
\* and two faults; the operation is checkpointed or not.
EXTENDS StatefulWorker
=============================================================================

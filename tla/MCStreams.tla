----------------------------- MODULE MCStreams -----------------------------
(* Module Streams on small instances. *)
EXTENDS Streams

CONSTANTS c1, c2

\* c1 reaches the end of the rows with a full batch, c2 with one that is not.
MCCursors == {c1, c2}
MCBatchSize == [c \in MCCursors |-> IF c = c1 THEN 1 ELSE 3]

\* No cursors.
MCNoBatches == [c \in {} |-> 1]
=============================================================================

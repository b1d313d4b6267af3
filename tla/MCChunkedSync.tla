--------------------------- MODULE MCChunkedSync ---------------------------
\* Three partitions, the first two adjacent, a gap before the third.
EXTENDS ChunkedSync

MCStart == <<0, 2, 5>>
MCEnd   == <<2, 3, 6>>
=============================================================================

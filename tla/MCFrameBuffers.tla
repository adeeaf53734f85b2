--------------------------- MODULE MCFrameBuffers ---------------------------
EXTENDS FrameBuffers, TLC

\* Clients and buffers are interchangeable, and only safety is checked.
Interchangeable == Permutations(Clients) \cup Permutations(Buffers)
=============================================================================

------------------------- MODULE MC_StreamLifecycle -------------------------
\* One stream and the one after it: there is nothing to bound.
EXTENDS StreamLifecycle
=============================================================================

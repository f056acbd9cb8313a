---------------------------- MODULE MC_DoffHold ----------------------------
\* The hold of a removed headset on small clocks.
EXTENDS DoffHold
=============================================================================

--------------------------- MODULE MC_XrSession ----------------------------
\* Two starts and, when one comes up, its session, on a display that offers 72
\* and 90 Hz for a stream of 90; the forced rate is one it does not offer.
EXTENDS XrSession
=============================================================================

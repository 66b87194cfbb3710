----------------------------- MODULE MCSurfaces -----------------------------
\* Two openers, so that one finds the instance of the other, and a surface that
\* comes back.
EXTENDS Surfaces
=============================================================================

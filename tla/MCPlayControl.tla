--------------------------- MODULE MCPlayControl ---------------------------
\* One camera and three events: enough for a second opener beside a failing one,
\* for a second failure, and for a refresh between them.
EXTENDS PlayControl
=============================================================================

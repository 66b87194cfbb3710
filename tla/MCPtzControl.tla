---------------------------- MODULE MCPtzControl ----------------------------
\* Two cameras: enough for a stop to be sent to the wrong one.
EXTENDS PtzControl
=============================================================================

----------------------------- MODULE MCEchoAck ------------------------------
\* One window typing into one pane.
EXTENDS EchoAck
=============================================================================

---------------------------- MODULE MCPaneStream -----------------------------
\* PaneStream for TLC: the constants get their values in the .cfg files.
EXTENDS PaneStream
=============================================================================

------------------------------ MODULE MCRivtd --------------------------------
\* The daemon alone, any client sending any request at any time.
EXTENDS Rivtd
=============================================================================

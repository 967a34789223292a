-------------------------- MODULE MCContentControl --------------------------
EXTENDS ContentControl
MCPrograms == {"p"}
MCZeroFirst == {3}
=============================================================================

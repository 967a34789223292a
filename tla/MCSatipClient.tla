---------------------------- MODULE MCSatipClient ----------------------------
EXTENDS SatipClient
=============================================================================

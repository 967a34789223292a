---------------------------- MODULE MCCamSession ----------------------------
EXTENDS CamSession

\* the resource manager, conditional access, the operator profile and menus
MCWanted == {"RM", "CA", "OPRF", "MMI"}
=============================================================================

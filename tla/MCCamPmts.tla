----------------------------- MODULE MCCamPmts -----------------------------
EXTENDS CamPmts, TLC
CONSTANTS a1, a2, b1, b2, c1, c2

\* Three channels in two versions.  The service id of b is the number of slot
\* 1.  The second version of b has CAIDs the CAM does not have, the second one
\* of c none at all.
MCSlots == {0, 1}
MCStreams == {a1, a2, b1, b2, c1, c2}
MCRealSid == [es \in MCStreams |-> CASE es \in {a1, a2} -> 10 [] es \in {b1, b2} -> 1 [] OTHER -> 11]
MCForeign == {b2}
MCClear == {c2}
Symmetry == Permutations(Pmts)
=============================================================================

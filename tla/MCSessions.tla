----------------------------- MODULE MCSessions -----------------------------
EXTENDS Sessions, TLC

CONSTANTS r1, h1, m1, m2

\* connections and muxes are interchangeable
Symmetry == Permutations(RtspConns) \cup Permutations(HttpConns)
            \cup Permutations(Muxes)

\* the bound: nothing is explored beyond the first request that goes on with
\* a stream closed under it, drops a tune, or reopens an adapter that was
\* lost under a stream: the sid_cnt is wrong from then on
BeforeFault == ~fault /\ \A a \in lost : Up(a) => proc[Main].pc # "idle"
=============================================================================

--------------------------- MODULE MCPmtElection ---------------------------
EXTENDS PmtElection
Lay(a, d, e) == [av |-> a, data |-> d, ecm |-> e]
MCPmts == {1, 2}
\* 11 and 12 video, 13 data of one version and the ECM pid of others
MCStreams == 11 .. 13
MCLayouts ==
    <<{Lay({11}, {13}, {}), Lay({11, 12}, {}, {13})},
      {Lay({11, 12}, {}, {13}), Lay({12}, {13}, {13})}>>
=============================================================================

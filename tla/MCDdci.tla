------------------------------- MODULE MCDdci -------------------------------
EXTENDS Ddci, TLC
Lay(s, e) == [streams |-> s, ecm |-> e]
MCAdapterOf == <<"a", "a", "b">>
MCSid == <<1, 2, 3>>
MCPmtPid == <<3, 5, 7>>
MCLayouts == <<{Lay(<<11>>, {15}), Lay(<<12>>, {15})}, {Lay(<<12>>, {15})}, {Lay(<<11, 30>>, {})}>>
MCSuits == <<{1}, {1, 2}, {1}>>
MCMaxChannels == <<2, 1>>
MCEmm == [a |-> {25}, b |-> {25}]
MCFiles == {<<>>, 3 :> <<>>}
=============================================================================

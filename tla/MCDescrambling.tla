--------------------------- MODULE MCDescrambling ---------------------------
(* Two programs of one adapter, of one algorithm, and a table that both    *)
(* fill. *)
EXTENDS Descrambling

MCPmts == {1, 2}
MCAlgo == <<1, 1>>
MCLastPeriod == <<3, 0>>
=============================================================================

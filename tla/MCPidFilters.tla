---------------------------- MODULE MCPidFilters ----------------------------
(* Three installations: a table and a demultiplexer that are too small for *)
(* what is asked for, the same with pids=all emulated, and long chains of  *)
(* section filters.                                                        *)
EXTENDS PidFilters

MCSetups == {[emulate |-> FALSE, pids |-> 2, limit |-> 2, filters |-> 1],
             [emulate |-> TRUE, pids |-> 2, limit |-> 2, filters |-> 1],
             [emulate |-> FALSE, pids |-> 1, limit |-> 1, filters |-> 3]}
=============================================================================

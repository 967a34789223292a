--------------------------- MODULE MCSocketBuffer ---------------------------
(* The instances: frames of two or three cells, a fifo of two or three      *)
(* frames, room for one waiting reply.                                      *)
EXTENDS SocketBuffer
=============================================================================

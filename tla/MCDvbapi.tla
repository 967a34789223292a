------------------------------ MODULE MCDvbapi ------------------------------
(***************************************************************************)
(* Instances of Dvbapi for TLC.                                            *)
(***************************************************************************)
EXTENDS Dvbapi

MCAdapterOf == <<1, 2>>
MCEcmPid == <<101, 102>>
MCContents == <<{0, 1}, {0}>>
=============================================================================

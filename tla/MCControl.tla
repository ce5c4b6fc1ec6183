------------------------------ MODULE MCControl ------------------------------
(***************************************************************************)
(* Control for TLC.                                                        *)
(***************************************************************************)
EXTENDS Control

==============================================================================

---------------------------- MODULE MCLogReaders ----------------------------
(***************************************************************************)
(* Instance of LogReaders for TLC: blocks of six bytes, headers of two     *)
(* and three bytes, and records that fit, that leave every length of       *)
(* trailer, and that span three blocks.                                    *)
(***************************************************************************)
EXTENDS LogReaders
=============================================================================

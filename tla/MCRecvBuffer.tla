---------------------------- MODULE MCRecvBuffer ----------------------------
(* Small instances of RecvBuffer for TLC.                                  *)
EXTENDS RecvBuffer
=============================================================================

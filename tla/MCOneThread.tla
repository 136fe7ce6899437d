---------------------------- MODULE MCOneThread -----------------------------
(***************************************************************************)
(* OneThread with the values of MCThreadedFS.                              *)
(***************************************************************************)
EXTENDS OneThread, MCThreadedFS

\* No action reads the reply, and with one thread none reads spare.
OneView == <<WithoutReply, run, whole>>
=============================================================================

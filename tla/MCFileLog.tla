----------------------------- MODULE MCFileLog -----------------------------
(* Instances of FileLog for TLC. *)
EXTENDS FileLogInv
=============================================================================

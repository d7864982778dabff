------------------------------ MODULE MCUpload ------------------------------
(* Small uploads for TLC; the instances are in the configurations.         *)
EXTENDS Upload
=============================================================================

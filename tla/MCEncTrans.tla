---------------------------- MODULE MCEncTrans ------------------------------
(* A ring of 24 cells holds three small frames, fewer of the larger ones,   *)
(* and wraps inside a header, inside a payload and between the two.         *)
EXTENDS EncTrans

\* Once an unread byte is overwritten nothing more is claimed.
NotClobbered == ~clobbered
=============================================================================

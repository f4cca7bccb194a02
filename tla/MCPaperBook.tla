---------------------------- MODULE MCPaperBook ----------------------------
(* TLC instance of PaperBook: two symbols of one sector and a third of     *)
(* another that is correlated with one of them.                            *)
EXTENDS PaperBook, TLC

CONSTANTS s1, s2, s3

MCSectors    == (s1 :> "energy") @@ (s2 :> "energy") @@ (s3 :> "banks")
MCCorrelated == {{s2, s3}}
=============================================================================

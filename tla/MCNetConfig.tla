---------------------------- MODULE MCNetConfig ----------------------------
(* A small instance of NetConfig for TLC. *)
EXTENDS NetConfig

CONSTANTS d1, d2, b, r, typedAddr

MCDhcp == {d1, d2}
MCOffer == [s \in {d1, d2, b, r} |-> IF s = d1 THEN "a1" ELSE IF s = d2 THEN "a2"
                                      ELSE IF s = b THEN "a3" ELSE "a4"]
=============================================================================

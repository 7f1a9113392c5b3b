---------------------------- MODULE MCExpertCache ----------------------------
(* ExpertCache, driven by itself or by a RoutingCapture, on a small         *)
(* instance.                                                                *)
EXTENDS RoutingCapture

MCExperts == 1 .. 3
(* Events of one expert and of several, with a repetition, and without any. *)
MCEvents == {<<>>, <<1>>, <<2>>, <<3, 2, 3>>, <<1, 3>>}
(* exp(-age / 8), times 1000. *)
MCRecency == [a \in 1 .. MaxStep |-> <<882, 779, 687, 607, 535>>[a]]

(* A model whose two layers have gates, and one without a gate. *)
MCModels == {"moe", "dense"}
MCLayers == {0, 1}
MCGates == [m \in MCModels |-> IF m = "moe" THEN MCLayers ELSE {}]
MCCallerSteps == 0 .. 2
(* Two valid rows that share an expert and an invalid one. *)
MCRows == {<<1>>, <<2, 1>>, <<3, 3>>}
=============================================================================

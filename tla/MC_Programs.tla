---------------------------- MODULE MC_Programs -----------------------------
(* The inputs of eet in run.sh, a model and a test, and a file of both. *)
EXTENDS Programs

MCFiles == {"model", "test", "more"}
MCInput == [f \in MCFiles |-> CASE f = "model" -> <<"C", "C">>
                                [] f = "test" -> <<"E", "E", "E", "E">>
                                [] OTHER -> <<"E", "C">>]
MCUnterminated == {"test"}
=============================================================================

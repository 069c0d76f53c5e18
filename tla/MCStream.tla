------------------------------ MODULE MCStream ------------------------------
(* Instances of StreamBuffer: every mode, with chunks of two bytes (payloads *)
(* of two chunks) and of three (longer than a ring of two).                  *)
EXTENDS StreamBuffer

Configs == [mode : {"block", "drop", "error"}, chunk : {2, 3}]
ThreePayloads == { <<1>>, <<1, 0>>, <<0, 1, 1>> }
=============================================================================

--------------------------- MODULE MCEmailDelivery ---------------------------
(* Instances of EmailDelivery small enough for TLC. *)
EXTENDS EmailDelivery, TLC

\* Rows and worker processes are interchangeable (safety runs only).
Interchangeable == Permutations(Deliveries) \cup Permutations(Workers)
=============================================================================

-------------------------- MODULE MCOutboxDispatch --------------------------
(* Instances of OutboxDispatch for TLC.                                    *)
EXTENDS OutboxDispatch, TLC

WorkerSymmetry == Permutations(Workers)
=============================================================================

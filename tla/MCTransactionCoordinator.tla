---------------------- MODULE MCTransactionCoordinator ----------------------
(* Instances of TransactionCoordinator for TLC.                            *)
EXTENDS TransactionCoordinator

TwoBurrows == 1 .. 2
ThreeBurrows == 1 .. 3
=============================================================================

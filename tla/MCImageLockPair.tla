-------------------------- MODULE MCImageLockPair --------------------------
(* LockTraffic on the instances of MCImageLock.                              *)
EXTENDS MCImageLock, LockTraffic
=============================================================================

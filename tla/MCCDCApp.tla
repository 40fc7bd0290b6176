-------------------------------- MODULE MCCDCApp --------------------------------
(* Instances of CDCApp.tla for TLC. *)
EXTENDS CDCApp

\* Signals land anywhere but where self._lock is held.
OutsideLock == (MainLabels \ LockedLabels) \cup {"acquire", "stop"}

\* Signals land anywhere.
Anywhere == MainLabels \cup FrameLabels
=============================================================================

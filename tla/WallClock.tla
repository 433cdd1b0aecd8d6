----------------------------- MODULE WallClock -----------------------------
(***************************************************************************)
(* The clock the parts of the server read.  It starts at Start and a run   *)
(* ends its time at MaxTime.                                               *)
(***************************************************************************)
EXTENDS Naturals, Integers

CONSTANTS Start, MaxTime

ASSUME TimeAssumption == Start \in Nat /\ MaxTime \in Nat

VARIABLE now

Tick == now < MaxTime /\ now' = now + 1
=============================================================================

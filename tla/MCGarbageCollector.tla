------------------------ MODULE MCGarbageCollector ------------------------
(* Instances of GarbageCollector for TLC. *)
EXTENDS GarbageCollector

ThreeThings == 1 .. 3
TwoIds == 1 .. 2
Nobody == {}
LastThing == {3}
=============================================================================

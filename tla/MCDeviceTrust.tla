--------------------------- MODULE MCDeviceTrust ---------------------------
(* Instances of DeviceTrust for TLC: the CA's secret changes, the controller's  *)
(* other settings are installed and stay.                                       *)
EXTENDS DeviceTrust, TLC

\* Ctl!Watches, from which no value of a constant of Ctl can be taken.
Settings == {"tls", "ca", "trust", "devops", "tenant"}

OneTenant == {"t1"}
OneObjectEach == [w \in Settings |-> w]
AllInstalled == [w \in Settings |-> IF w = "tenant" THEN "t1" ELSE "sound"]
OnlySecret == {"trust"}
SoundOrBad == [w \in Settings |-> IF w = "trust" THEN {"sound", "bad"} ELSE {}]
NoWatch == {}

\* An hour of 10 in a Duration of eight bits: 9 hours fit and are beyond the limit,
\* 26 do not fit and wrap to a life of 4.
SomeHours == {9, 26}

\* One failure, of either program.
OneFailure == failures + mishaps <= 1

Symmetry == Permutations(Requests)
=============================================================================

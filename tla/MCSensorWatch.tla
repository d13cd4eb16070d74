--------------------------- MODULE MCSensorWatch ----------------------------
(* Instances of SensorWatch for TLC: three sensors, two to a command. *)
EXTENDS SensorWatch

CONSTANTS s1, s2, s3

MCSensors == {s1, s2, s3}
MCLists == {<<>>, <<s1>>, <<s2, s3>>, <<s3, s1, s2>>}

\* Where answers go wrong as well: fewer lists.
FaultLists == {<<s1>>, <<s3, s1, s2>>}
=============================================================================

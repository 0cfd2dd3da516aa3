--------------------------- MODULE MCCompensation ---------------------------
(* Calibration words of the size a sensor has, and readings over its whole *)
(* range, closer together where the pressure formula changes branches.     *)
EXTENDS Compensation

MCSensor == <<112, 107, 67, 103, 24, 252, 125, 142, 67, 214, 208, 11, 39, 11, 140, 0, 249, 255,
          140, 60, 248, 198, 112, 23, 0, 75>>
MCTp == {MCSensor, [MCSensor EXCEPT ![7] = 0, ![8] = 0]}   \* p1 = 0: a divisor of 0
MCHum == {<<114, 1, 0, 19, 41, 3, 30>>, <<99, 1, 0, 21, 4, 0, 30>>, <<106, 1, 0, 249, 204, 254, 226>>}
MCAdcT == {313000 + 33111 * i : i \in 0 .. 11}
MCAdcP == {100003 + 20017 * i : i \in 0 .. 29} \cup {308000 + 25 * i : i \in 0 .. 600}
MCAdcH == {4001 + 821 * i : i \in 0 .. 55}
=============================================================================

----------------------------- MODULE MCFirmware -----------------------------
(* Firmware on a sensor of eight registers: the calibration blocks are     *)
(* 0..2 and 3, the configuration 4, 6 and 7, and the readback 4..7, in the *)
(* order and with the gap main.c has them.                                 *)
EXTENDS Firmware

MCFactory == [r \in Byte |-> IF r < 4 THEN r + 4 ELSE 0]
MCTpCalib == <<0, 3>>
MCHumCalib == <<3, 1>>
MCConfig == <<<<7, 4, 6>>, <<1, 2, 3>>>>
MCReadback == <<4, 4>>
=============================================================================

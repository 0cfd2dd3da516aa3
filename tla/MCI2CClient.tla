---------------------------- MODULE MCI2CClient ----------------------------
(* Small instances of I2CClient for TLC.                                   *)
EXTENDS I2CClient

MCFactory == [r \in Byte |-> RegCount - 1 - r]
MCReads == {<<1, 4>>, <<2, 1>>}
MCWrites == {<<<<1, 2, 1>>, <<3, 0, 2>>>>, <<<<2>>, <<2>>>>}
MCShortReads == {<<1, 3>>, <<2, 1>>}
MCShortWrites == {<<<<1, 2>>, <<3, 0>>>>, <<<<2>>, <<2>>>>}
=============================================================================

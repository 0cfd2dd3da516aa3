--------------------------- MODULE I2CRefinement ---------------------------
(***************************************************************************)
(* The interrupt-driven driver implements RegisterAccess.  A transfer      *)
(* begins for the caller when its start call sets i2c1_state, and is over  *)
(* when the handler sets it again; what the FIFOs and the bus do between   *)
(* is hidden, except the moment a value reaches a register of the sensor.  *)
(***************************************************************************)
EXTENDS I2CClient

StatusOf ==
  CASE i2c1_state = "I2C_IDLE" -> "idle"
    [] i2c1_state = "I2C_DONE" -> "done"
    [] i2c1_state = "I2C_ERROR" -> "failed"
    [] OTHER -> "busy"

NoRequest == [kind |-> "none", reg |-> 0, length |-> 0, addresses |-> <<>>, data |-> <<>>]

RequestOf ==
  IF i2c1_state = "I2C_IDLE" THEN NoRequest
  ELSE [kind |-> IF IsRead THEN "read" ELSE "write",
        reg |-> desc.reg_addr, length |-> desc.length,
        addresses |-> desc.write_registers, data |-> desc.data]

ResultOf == IF i2c1_state = "I2C_DONE" /\ IsRead THEN buf ELSE <<>>

Requests ==
  {[kind |-> "read", reg |-> r[1], length |-> r[2],
    addresses |-> <<>>, data |-> <<>>] : r \in Reads}
  \cup
  {[kind |-> "write", reg |-> 0, length |-> Len(w[1]),
    addresses |-> w[1], data |-> w[2]] : w \in Writes}

Abstract == INSTANCE RegisterAccess WITH
  status <- StatusOf, request <- RequestOf, result <- ResultOf

(* Every step of the driver, the handler, the controller and the client is *)
(* a step of RegisterAccess or changes nothing a caller can see: writes    *)
(* take effect in the order of their pairs and only while the transfer is  *)
(* in progress, success means the whole effect, and no transfer begins     *)
(* before the last one has been acknowledged.                              *)
ImplementsRegisterAccess == Abstract!Spec
=============================================================================

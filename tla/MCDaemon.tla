------------------------------ MODULE MCDaemon ------------------------------
(***************************************************************************)
(* A small set of back covers for Daemon: a lamp with a readable memory    *)
(* chip of one block, units of the user session and two devices, one of    *)
(* them at the address of the chip; a sensor with a readable chip of 64 kB *)
(* that uses the other address under another name and has a unit that does *)
(* not allow to be stopped; a bare board without chip or devices; a broken *)
(* cover whose chip cannot be read to the end, at one of two addresses;    *)
(* and one with a resistor nothing identifies.                             *)
(***************************************************************************)
EXTENDS Daemon, TLC

CONSTANTS lamp, sensor, board, broken, other, rom, rom2

MCTohs == {lamp, sensor, board, broken, other}

MCResistor ==
    lamp :> "memory" @@ sensor :> "memory" @@ board :> "bare"
    @@ broken :> "memory" @@ other :> "unknown"

MCChip ==
    lamp :> "good" @@ sensor :> "good" @@ board :> "silent"
    @@ broken :> "short" @@ other :> "silent"

MCEeprom == <<rom, rom2>>

\* Behind the block of the lamp nothing answers.
MCTried == [t \in MCTohs |-> IF t \in {lamp, broken} THEN 2 ELSE 1]

MCLeaveOn == [t \in MCTohs |-> t \in {sensor, board}]

\* The lamp's chip asks for power, its configuration overrides that.
MCChipLeaveOn == [t \in MCTohs |-> t \in {lamp, sensor, board}]

MCDevices ==
    lamp :> (rom :> "24c02" @@ rom2 :> "none") @@ sensor :> (rom2 :> "lm75")
    @@ board :> <<>> @@ broken :> <<>> @@ other :> <<>>
=============================================================================

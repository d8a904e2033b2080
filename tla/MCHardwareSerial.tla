-------------------------- MODULE MCHardwareSerial --------------------------
(* Two UARTs that share the interrupt handler, scaled down: a ring of four *)
(* slots behind a FIFO of two, wrapped around by the bytes of port 0 while *)
(* port 1 brings one byte, so that one port's interrupt services the other. *)
EXTENDS HardwareSerial, TLC

MCMaxBytes == 0 :> 5 @@ 1 :> 1
=============================================================================

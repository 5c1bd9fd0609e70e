---------------------------- MODULE MCUartBridge ----------------------------
(* Instances of UartBridge for TLC. *)
EXTENDS UartBridge

\* The controller sends telemetry and a frame that is refused, the ESP32 commands.
MCMessages == {<<"mcu", "auto", TRUE>>, <<"esp", "cmd", TRUE>>, <<"mcu", "odd", FALSE>>}
=============================================================================

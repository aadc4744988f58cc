---------------------------- MODULE MCLifecycle ----------------------------
(* A module with a timer and the UART, one with neither, the scheduler and *)
(* the broadcaster: every kind of module the firmware has six of.          *)
EXTENDS Lifecycle

MCDrivers == <<"GPIO", "UART", "I2C">>
MCDdlModules == <<"distance", "temperature_humidity">>
MCAppModules == <<"scheduler", "broadcaster">>
MCTimed == {"distance", "scheduler"}
MCUartUsers == {"distance"}
=============================================================================

----------------------------- MODULE MCSerialPort ----------------------------
(* The instance of the run serial_ports: two device nodes, two handles, two   *)
(* opens.  No symmetry: the run checks liveness.                            *)
EXTENDS SerialPort
==============================================================================

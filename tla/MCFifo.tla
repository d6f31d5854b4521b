------------------------------- MODULE MCFifo -------------------------------
(***************************************************************************)
(* All the uses and all the builds: an interrupt writes what a thread      *)
(* reads, connected or not, or reads what a thread writes, with and        *)
(* without the callback of usart_stream.                                   *)
(***************************************************************************)
EXTENDS FifoStream

AllSetups == Setup
=============================================================================

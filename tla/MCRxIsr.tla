------------------------------ MODULE MCRxIsr -------------------------------
(***************************************************************************)
(* Lines one byte short of the buffer, as long as it and longer, with the  *)
(* stores of clear_rx in the order of the source.                          *)
(***************************************************************************)
EXTENDS RxIsr

MCSourceOrder == { <<"len", "ready", "overflow">> }

=============================================================================

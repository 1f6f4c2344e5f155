------------------------------- MODULE MCSlip -------------------------------
(***************************************************************************)
(* Datagrams with the two bytes that are escaped, with the codes that      *)
(* follow an ESC as plain data, and one for another port.                  *)
(***************************************************************************)
EXTENDS Slip

MCDatagrams == {[port |-> 47, data |-> <<1, END>>],
                [port |-> 47, data |-> <<ESC, ESC_END, 2>>],
                [port |-> 48, data |-> <<ESC_ESC>>]}
=============================================================================

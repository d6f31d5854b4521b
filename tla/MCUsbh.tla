------------------------------- MODULE MCUsbh -------------------------------
(***************************************************************************)
(* A root hub with one port, as the host controller of the repository has  *)
(* it; behind it a hub with two ports and behind that one with one port, a *)
(* function whose driver matches the second configuration, one that has no *)
(* driver and one that never answers.                                      *)
(***************************************************************************)
EXTENDS Usbh, TLC

CONSTANTS rh, ha, hb, fa, odd, dead, none

MCThings == {rh, ha, hb, fa, odd, dead}
MCNPort == [t \in MCThings |-> CASE t \in {rh, hb} -> 1 [] t = ha -> 2 [] OTHER -> 0]
MCDrivers == [t \in MCThings |-> CASE t = fa -> <<FALSE, TRUE>> [] t = odd -> <<FALSE>>
                                   [] OTHER -> <<TRUE>>]
MCBoot == [p \in {<<rh, 1>>, <<ha, 1>>, <<ha, 2>>, <<hb, 1>>} |->
             CASE p = <<rh, 1>> -> ha [] p = <<ha, 1>> -> hb [] p = <<ha, 2>> -> fa
               [] OTHER -> none]
=============================================================================

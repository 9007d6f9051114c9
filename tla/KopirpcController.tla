-------------------------- MODULE KopirpcController --------------------------
(***************************************************************************)
(* KopirpcController (src/src/kopirpccontroller.cc): what a call tells its *)
(* caller.  A caller may pass a null pointer instead.                      *)
(***************************************************************************)

NullController == [null |-> TRUE, isFailed |-> FALSE, errText |-> ""]

KopirpcController == [null |-> FALSE, isFailed |-> FALSE, errText |-> ""]

Failed(controller) == controller.isFailed

SetFailed(controller, reason) == [controller EXCEPT !.isFailed = TRUE, !.errText = reason]

(* if (controller) controller->SetFailed(...)                              *)
SetFailedIfAny(controller, reason) ==
    IF controller.null THEN controller ELSE SetFailed(controller, reason)

=============================================================================

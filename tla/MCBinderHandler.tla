-------------------------- MODULE MCBinderHandler --------------------------
(***************************************************************************)
(* handle_binder_write_read as a whole: patch_payload_ptr prepares the     *)
(* write buffer, then come the ioctl, the marshaler and the answer.  What  *)
(* the driver returns is chosen freely, whatever the write buffer holds,   *)
(* so the second half is explored for one payload only.                    *)
(***************************************************************************)
EXTENDS MCBinderMarshal, PatchPayload

handlerVars == <<vars, patchVars>>

\* Bound: the payload with which the handler goes on to the ioctl.
ThisPayload ==
    /\ original = [w \in Words |-> 0]
    /\ offset = 0 /\ entries = 0

HandlerInit == Init /\ PatchInit

Patch == PatchNext /\ UNCHANGED vars

GoesOn == patchAt = "ioctl" /\ ThisPayload /\ UNCHANGED patchVars

HandlerNext == Patch \/ (Next /\ GoesOn)

\* The handler runs on; the ioctl may sleep.
HandlerSpec ==
    /\ HandlerInit /\ [][HandlerNext]_handlerVars
    /\ WF_handlerVars(Patch)
    /\ WF_handlerVars((Parse \/ AppendSegment \/ AppendDone \/ Answer) /\ GoesOn)
=============================================================================

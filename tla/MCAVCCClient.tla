---------------------------- MODULE MCAVCCClient ----------------------------
(* Small instance of AVCCClient: a limit of a few chunks, so that every     *)
(* admission rule, the half limit of disposable deltas and keyframes larger *)
(* than the limit are all reached.                                          *)
EXTENDS AVCCClient

MCSizes == [k \in Kind |->
    CASE k = "keyframe" -> {2, 5}
      [] k = "seed"     -> {2}
      [] OTHER          -> {1}]
=============================================================================

----------------------- MODULE MCDeviceRegistration -----------------------
(***************************************************************************)
(* DeviceRegistration for TLC.  Requests are interchangeable: no action and *)
(* no property names one.                                                   *)
(***************************************************************************)
EXTENDS DeviceRegistration, TLC

Symmetry == Permutations(Request)
===========================================================================

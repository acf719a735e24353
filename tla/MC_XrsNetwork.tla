---------------------------- MODULE MC_XrsNetwork ----------------------------
EXTENDS XrsNetwork

CONSTANTS c1, c2, c3, h1

MCConns == {c1, c2, c3}
MCHttps == {h1}
(* Everything a local client can send except an AuthRequest naming the   *)
(* listed validator key.                                                   *)
MCMsgsNoValidatorAuth == MsgKinds \ {"AuthValidator"}
(* Only well-formed submit bodies: the network mutex is never poisoned. *)
MCSignedBodies == {"Signed"}
=============================================================================

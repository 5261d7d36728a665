---------------------------- MODULE MCBlueZManager ----------------------------
(***************************************************************************)
(* An instance of BlueZManager for TLC: one adapter with a device, whose    *)
(* service has a characteristic.                                            *)
(***************************************************************************)
EXTENDS BlueZManager

CONSTANTS hci, dev, srv, chr

Tree  == {hci, dev, srv, chr}
Kind  == [o \in Tree |-> CASE o = hci -> "adapter" [] o = dev -> "device"
                           [] o = srv -> "service" [] OTHER -> "char"]
Above == [o \in Tree |-> CASE o = hci -> None [] o = dev -> hci
                           [] o = srv -> dev [] OTHER -> srv]
=============================================================================

---------------------------- MODULE MCDevicePath ----------------------------
(* DevicePath on buffers of at most three nodes: two PCI nodes that differ *)
(* in their data, a node whose length field is 0, one whose length field  *)
(* is 2 (below the header size), one whose length field (8) exceeds its   *)
(* size, an End Entire node of length 4 or 0; MCDevicePathMulti adds End  *)
(* Instance.                                                               *)
EXTENDS DevicePath

Pci0 == <<TYPE_HARDWARE, SUBTYPE_PCI, 6, 0, 0, 28>>
Pci1 == <<TYPE_HARDWARE, SUBTYPE_PCI, 6, 0, 2, 0>>
ZeroLength == <<TYPE_HARDWARE, SUBTYPE_PCI, 0, 0, 0, 0>>
ShortLength == <<TYPE_HARDWARE, SUBTYPE_PCI, 2, 0, 0, 0>>
OverLength == <<TYPE_HARDWARE, SUBTYPE_PCI, 8, 0, 0, 0>>
EndEntire == <<TYPE_END, SUBTYPE_ENTIRE, 4, 0>>
EndEntireZero == <<TYPE_END, SUBTYPE_ENTIRE, 0, 0>>
EndInstance == <<TYPE_END, SUBTYPE_INSTANCE, 4, 0>>

MCBodyNodes == {Pci0, Pci1, ZeroLength, ShortLength, OverLength}
MCBodyNodesMulti == {Pci0, Pci1, EndInstance}
MCEndNodes == {EndEntire, EndEntireZero}
====

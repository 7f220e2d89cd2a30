---------------------------- MODULE MCLifecycle ----------------------------
(* Model checking of Lifecycle on small instances. *)
EXTENDS Lifecycle, TLC

CONSTANTS disk1, disk2, sea, virtual

DiskPlaces == {disk1, disk2}
SeaPlaces == {sea}
VirtualPlaces == {virtual}
Places == <<disk1, sea, virtual, disk2>>
=============================================================================

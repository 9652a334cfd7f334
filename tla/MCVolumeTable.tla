--------------------------- MODULE MCVolumeTable ---------------------------
(* VolumeTable on a small disk: cylinders of 3 sectors, 3 slots. *)
EXTENDS VolumeTable

\* 0 is an empty volume; 5 crosses one or two boundaries of a 3-sector cylinder,
\* depending on where the volume starts.
MCBlocCounts == {0, 5}

\* new keeps no volume within the disk; the run stops behind this cylinder.
MaxCylinder == 3
SmallDisk == \A i \in Present(mbr) : mbr.volumes[i].debutCyl <= MaxCylinder
=============================================================================

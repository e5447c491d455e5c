------------------------------ MODULE RootDisk ------------------------------
(***************************************************************************)
(* How anvil-agent finds the root disk of the default profile              *)
(* (selectProfileRootDisk of internal/lifecycle/lifecycle.go): a create    *)
(* needs it, and the state report tells whether it is there.               *)
(***************************************************************************)
CONSTANT DeviceIds  \* names of devices in the default profile

(* A device of the profile: root iff it is a disk mounted at / without a   *)
(* source, pool iff it names a storage pool.                               *)
Device == [id: DeviceIds, root: BOOLEAN, pool: BOOLEAN]

RootDisks(devs) == {d \in devs : d.root}

(* The verdict of selectProfileRootDisk: "ok" or the code of its refusal.  *)
RootDiskVerdictAnyMatch(devs) ==
    IF RootDisks(devs) = {} \/ \A d \in RootDisks(devs) : ~d.pool
    THEN "INCUS_PROFILE_ROOT_DISK_UNAVAILABLE" ELSE "ok"

RootDiskVerdict(devs) ==
    IF RootDisks(devs) = {} THEN "INCUS_PROFILE_ROOT_DISK_UNAVAILABLE"
    ELSE IF \E d, e \in RootDisks(devs) : d # e
         THEN "INCUS_PROFILE_ROOT_DISK_AMBIGUOUS"
    ELSE IF \E d \in RootDisks(devs) : ~d.pool
         THEN "INCUS_PROFILE_ROOT_DISK_UNAVAILABLE"
    ELSE "ok"
=============================================================================

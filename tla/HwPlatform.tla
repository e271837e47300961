----------------------------- MODULE HwPlatform -----------------------------
(***************************************************************************)
(* hw_platform.c: the memory-mapped register regions, shared by VideoAO    *)
(* (clock, timing controllers, GPIO) and SubtitleAO (overlay, BRAM).  Each *)
(* service acquires the platform when it initialises and releases it when  *)
(* it cleans up; the first acquisition maps, the last release unmaps.      *)
(***************************************************************************)
EXTENDS Naturals

VARIABLES refcount, mapped

HwInit == refcount = 0 /\ mapped = FALSE

(***************************************************************************)
(* hw_platform_init, successful: map on the first reference.  The failing  *)
(* case (open or mmap refused, partial mapping undone) is only possible    *)
(* with refcount = 0 and changes nothing.                                  *)
(***************************************************************************)
Acquire == refcount' = refcount + 1 /\ mapped' = TRUE

(***************************************************************************)
(* hw_platform_cleanup: with no reference it is a no-op.                   *)
(***************************************************************************)
Release == /\ refcount' = IF refcount = 0 THEN 0 ELSE refcount - 1
           /\ mapped' = IF refcount = 0 THEN mapped ELSE refcount > 1

HwUnchanged == UNCHANGED <<refcount, mapped>>
=============================================================================

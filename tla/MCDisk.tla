------------------------------- MODULE MCDisk -------------------------------
(* Instances of Disk.  Seven descriptors hold two requests and one spare;  *)
(* with four, two of three threads wait for descriptors.  The ring indices *)
(* wrap after the second turn of the rings.                                *)
EXTENDS Disk, TLC

Symmetry == Permutations(Thread) \cup Permutations(Buf)

(* States are told apart without what nobody reads again before it is      *)
(* written: ring entries outside the indices, headers of no request.       *)
Written == IF \E t \in Thread : pc[t] = "publish" THEN {avail} ELSE {}

View ==
    <<vdisk_lock, free, desc, info, status, avail, used, used_idx, bdisk, bdata, ipc, tvars, dvars,
      [i \in {j \in Desc : info[j] # None} |-> ops[i]],
      [n \in Unread(last_avail, avail) \cup Written |-> avail_ring[n % NUM]],
      [n \in Unread(used_idx, used) |-> used_ring[n % NUM]]>>
=============================================================================

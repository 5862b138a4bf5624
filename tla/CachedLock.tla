----------------------------- MODULE CachedLock -----------------------------
(***************************************************************************)
(* The lock of the cluster, as its users see it: CachedLockingService (not *)
(* in this repository) keeps the lock in the database and answers          *)
(* hasLock() from what it last knew.  At most one node is answered true    *)
(* (CachedLockingServiceTest.multipleInstancesLockingNotOverlapping); a    *)
(* lock expires without its holder's doing and may then go to any node.    *)
(***************************************************************************)
CONSTANTS Nodes, None

ASSUME LockAssumption == None \notin Nodes

VARIABLE holder   \* the node that hasLock(), or None

hasLock(n) == holder = n

LockInit == holder = None
AcquireLock(n) == holder = None /\ holder' = n
LoseLock == holder # None /\ holder' = None

LockTypeOK == holder \in Nodes \cup {None}
=============================================================================

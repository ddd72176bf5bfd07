----------------------------- MODULE MCSemaphore ----------------------------
(* One permit among two users, of which a producer may make two and a      *)
(* consumer none again.                                                    *)
EXTENDS Semaphore
=============================================================================

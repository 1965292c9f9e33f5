----------------------------- MODULE Publisher -----------------------------
(***************************************************************************)
(* What the task queue promises to its callers: versions of some data are  *)
(* published, never an older one after a newer one, never one that does    *)
(* not exist, and the newest one eventually, unless the queue is closed.   *)
(* Nothing is said of items, stamps, skips, failures or retries.           *)
(***************************************************************************)
EXTENDS Integers

VARIABLES version,   \* the newest version of the data
          published, \* the newest version that was published
          closed     \* nothing more is promised

vars == <<version, published, closed>>

Init == version = 0 /\ published = 0 /\ closed = FALSE

NewVersion ==
  /\ version' = version + 1
  /\ UNCHANGED <<published, closed>>

(* Versions may be passed over. *)
Publish ==
  /\ published < version
  /\ published' \in published + 1 .. version
  /\ UNCHANGED <<version, closed>>

Close ==
  /\ ~closed
  /\ closed' = TRUE
  /\ UNCHANGED <<version, published>>

Next == NewVersion \/ Publish \/ Close

Spec == Init /\ [][Next]_vars

FairSpec == Spec /\ WF_vars(~closed /\ Publish)
=============================================================================

-------------------------- MODULE OperationLedger --------------------------
(***************************************************************************)
(* What the state file of the daemon promises about operation sets, said   *)
(* without a device, a clock, jobs or crashes: a set is accepted against   *)
(* the current revision, waits, and is applied or rejected once and for    *)
(* all; a waiting set is applied only while the revision it was accepted   *)
(* against is still current; no step applies two of them; the revision     *)
(* grows by at most one at a time.                                         *)
(*                                                                         *)
(* Saving may settle rejections decided earlier along with anything else.  *)
(***************************************************************************)
EXTENDS Integers

CONSTANT Ids

VARIABLES
  revision,   \* the public state revision
  status,     \* of each operation set
  expected    \* the revision a waiting set was accepted against

vars == <<revision, status, expected>>

Waiting == {id \in Ids : status[id] = "queued"}

Init ==
  /\ revision = 0
  /\ status = [id \in Ids |-> "unknown"]
  /\ expected = [id \in Ids |-> 0]

(***************************************************************************)
(* The sets R are rejected, and id becomes st (if id is not None).         *)
(***************************************************************************)
Become(R, S, st) ==
  /\ status' = [id \in Ids |-> IF id \in S THEN st
                               ELSE IF id \in R THEN "rejected" ELSE status[id]]
  /\ expected' = [id \in Ids |-> IF id \in S /\ st = "queued" THEN revision
                                 ELSE IF id \in R \cup S THEN 0 ELSE expected[id]]

Advance == revision' \in {revision, revision + 1}

Accept(id, R) ==
  /\ status[id] = "unknown"
  /\ Become(R, {id}, "queued")
  /\ UNCHANGED revision

ApplyWaiting(id, R) ==
  /\ id \in Waiting \ R
  /\ expected[id] = revision
  /\ Become(R, {id}, "applied")
  /\ Advance

ApplyAtOnce(id, R) ==
  /\ status[id] = "unknown"
  /\ Become(R, {id}, "applied")
  /\ Advance

Observe(R) ==
  /\ Become(R, {}, "rejected")
  /\ Advance

Next ==
  \E R \in SUBSET Waiting :
    \/ \E id \in Ids : Accept(id, R) \/ ApplyWaiting(id, R) \/ ApplyAtOnce(id, R)
    \/ Observe(R)

Spec == Init /\ [][Next]_vars

=============================================================================

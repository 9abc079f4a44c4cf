----------------------------- MODULE MC_Blocks -----------------------------
(***************************************************************************)
(* An instance for TLC of four parts that share nothing: what becomes of   *)
(* hooks, the two blocks of a generated test that wait, polling and await, *)
(* and snapshot blocks, whose golden files outlive the run.  A behaviour   *)
(* of the run is a behaviour of one part while the others are idle.        *)
(***************************************************************************)
EXTENDS Hooks, Polling, Await, Snapshot, TLC

CONSTANTS b1, b2, b3, b4, n1, n2, v1

\* A serial block that shares its file with a parallel one, and two parallel rows.
Shared == b1 :> n1 @@ b2 :> n1 @@ b3 :> n2 @@ b4 :> n2

BlocksInit == Init /\ PollInit /\ AwaitInit /\ SnapshotInit

OneOf(busy) ==
  /\ busy = "hooks" \/ tree = <<>>
  /\ busy = "polling" \/ at = "idle"
  /\ busy = "await" \/ capacity = -1
  /\ \/ busy = "snapshot"
     \/ running = "none" /\ golden \in [Names -> {Missing}] /\ value \in [Snapshots -> {v1}]

BlocksNext ==
  \/ OneOf("hooks") /\ Next /\ UNCHANGED <<pollVars, awaitVars, snapshotVars>>
  \/ OneOf("polling") /\ PollNext /\ UNCHANGED <<vars, awaitVars, snapshotVars>>
  \/ OneOf("await") /\ AwaitNext /\ UNCHANGED <<vars, pollVars, snapshotVars>>
  \/ OneOf("snapshot") /\ SnapshotNext /\ UNCHANGED <<vars, pollVars, awaitVars>>

BlocksSpec ==
  /\ BlocksInit /\ [][BlocksNext]_<<vars, pollVars, awaitVars, snapshotVars>>
  /\ PollFairness /\ AwaitFairness

(* emitPolling, danmujiAwait: whatever waits for the code under test comes *)
(* to an end, a poll with a verdict and an await with a value or a timeout.*)
WaitsEnd == <>[](~Polled /\ ~Waiting)
=============================================================================

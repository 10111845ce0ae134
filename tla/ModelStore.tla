------------------------------ MODULE ModelStore ------------------------------
(***************************************************************************)
(* What ModelManager promises to the callers of downloadModel for one      *)
(* model: the model is either absent or completely stored, a call stores   *)
(* it at most once, success is reported only by a call that stored it, and *)
(* only the owner of a call about to publish, or deleteModel, may take the *)
(* stored model away.                                                      *)
(***************************************************************************)

CONSTANT Downloaders      \* the concurrent callers of downloadModel

VARIABLES stored,         \* "absent" or "complete"
          call,           \* the phase of each caller's call
          told            \* the result the caller's last call returned

storeVars == <<stored, call, told>>

StoreTypeOK ==
  /\ stored \in {"absent", "complete"}
  /\ call \in [Downloaders -> {"idle", "working", "replacing", "published", "failed"}]
  /\ told \in [Downloaders -> {"none", "success", "failure", "cancelled"}]

Init ==
  /\ stored = "absent"
  /\ call = [d \in Downloaders |-> "idle"]
  /\ told = [d \in Downloaders |-> "none"]

Phase(d, from, to) ==
  /\ call[d] \in from
  /\ call' = [call EXCEPT ![d] = to]

Begin(d) ==
  /\ Phase(d, {"idle"}, "working")
  /\ told' = [told EXCEPT ![d] = "none"]
  /\ UNCHANGED stored

\* The old copy is withdrawn before the new one takes its place.
Withdraw(d) ==
  /\ Phase(d, {"working"}, "replacing")
  /\ stored' = "absent"
  /\ UNCHANGED told

Publish(d) ==
  /\ Phase(d, {"replacing"}, "published")
  /\ stored' = "complete"
  /\ UNCHANGED told

Fail(d) ==
  /\ Phase(d, {"working", "replacing"}, "failed")
  /\ UNCHANGED <<stored, told>>

\* A cancelled caller learns neither outcome.
Answer(d, r) ==
  /\ call[d] = "published" => r \in {"success", "cancelled"}
  /\ call[d] = "failed" => r \in {"failure", "cancelled"}
  /\ told' = [told EXCEPT ![d] = r]

Return(d) ==
  /\ Phase(d, {"published", "failed"}, "idle")
  /\ \E r \in {"success", "failure", "cancelled"} : Answer(d, r)
  /\ UNCHANGED stored

Remove ==
  /\ stored' = "absent"
  /\ UNCHANGED <<call, told>>

\* The process dies: calls vanish, the stored model does not.
Crash ==
  /\ call' = [d \in Downloaders |-> "idle"]
  /\ told' = [d \in Downloaders |-> "none"]
  /\ UNCHANGED stored

Next ==
  \/ \E d \in Downloaders : Begin(d) \/ Withdraw(d) \/ Publish(d) \/ Fail(d) \/ Return(d)
  \/ Remove
  \/ Crash

Spec == Init /\ [][Next]_storeVars
===============================================================================

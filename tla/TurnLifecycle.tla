--------------------------- MODULE TurnLifecycle ---------------------------
(***************************************************************************)
(* What the platform promises about a chat turn, seen through its row      *)
(* alone: the life of a turn for a reader that knows nothing of outboxes,  *)
(* brokers, workers or retries.  A turn that was never degraded to inline  *)
(* execution runs one attempt at a time, and once completed keeps its      *)
(* state and its result; a degraded turn may be completed at any time and  *)
(* may even fail again after that.  Module ChatTurn implements this.       *)
(***************************************************************************)
EXTENDS Naturals

CONSTANT Keys

VARIABLES state,     \* teacher_turns.state
          result,    \* teacher_turns.final_result_json
          degraded   \* teacher_turns.degraded_execution

lifecycleVars == <<state, result, degraded>>

Init == /\ state    = [k \in Keys |-> "none"]
        /\ result   = [k \in Keys |-> 0]
        /\ degraded = [k \in Keys |-> FALSE]

Accept(k) == /\ state[k] = "none"
             /\ state' = [state EXCEPT ![k] = "accepted"]
             /\ UNCHANGED <<result, degraded>>

Queue(k) == /\ state[k] = "accepted"
            /\ state' = [state EXCEPT ![k] = "queued"]
            /\ UNCHANGED <<result, degraded>>

\* An attempt starts: the first, or one more after a failed one.
Start(k) == /\ state[k] \in {"accepted", "queued", "failed"}
            /\ state' = [state EXCEPT ![k] = "running"]
            /\ UNCHANGED <<result, degraded>>

\* With some result, the same as before or another.
Succeed(k) == /\ state[k] = "running" \/ (state[k] # "none" /\ degraded[k])
              /\ state'  = [state EXCEPT ![k] = "completed"]
              /\ result' = [result EXCEPT ![k] = result'[k]]
              /\ result'[k] \in Nat \ {0}
              /\ UNCHANGED degraded

Fail(k) == /\ state[k] = "running" \/ (state[k] = "completed" /\ degraded[k])
           /\ state' = [state EXCEPT ![k] = "failed"]
           /\ UNCHANGED <<result, degraded>>

Degrade(k) == /\ state[k] # "none"
              /\ degraded' = [degraded EXCEPT ![k] = TRUE]
              /\ UNCHANGED <<state, result>>

Next == \E k \in Keys :
            \/ Accept(k) \/ Queue(k) \/ Start(k)
            \/ Succeed(k) \/ Fail(k) \/ Degrade(k)

Spec == Init /\ [][Next]_lifecycleVars
=============================================================================

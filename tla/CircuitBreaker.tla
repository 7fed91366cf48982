--------------------------- MODULE CircuitBreaker ---------------------------
(***************************************************************************)
(* The two circuit breakers of app/redaction/circuit as operators on their *)
(* state: Breaker (breaker.py), an object of one process whose methods run *)
(* under a lock, and SharedBreaker (shared.py), a Redis hash changed by    *)
(* Lua scripts.  Who calls them, and when, is in ModelStage.               *)
(*                                                                         *)
(* Abstractions.  Only differences of times are compared, so opened_at is  *)
(* kept as wait, the ticks left of the cooldown; the replicas' clocks are  *)
(* taken to agree.  consecutive_failures is only compared with the         *)
(* threshold, so it stops there.  The lifetime totals, which nothing       *)
(* reads but the stats endpoint, are left out.                             *)
(***************************************************************************)
EXTENDS Naturals

CONSTANTS
  Threshold,   \* settings.pipeline_breaker_threshold
  Cooldown     \* settings.pipeline_breaker_cooldown_s, in ticks

ASSUME BreakerAssumption == Threshold \in Nat \ {0} /\ Cooldown \in Nat \ {0}

BreakerState ==
  [state : {"closed", "open"}, failures : 0..Threshold, wait : 0..Cooldown, probe : BOOLEAN]

Brk(s, f, t, p) == [state |-> s, failures |-> f, wait |-> t, probe |-> p]

Closed == Brk("closed", 0, 0, FALSE)

(* allow and ALLOW_SCRIPT: what a call is told, and the state it leaves.   *)
BugTakesProbe(b) == b.state = "open" /\ b.wait = 0
TakesProbe(b) == b.state = "open" /\ b.wait = 0 /\ ~b.probe
Allows(b) == b.state = "closed" \/ TakesProbe(b)
AfterAllow(b) == Brk(b.state, b.failures, b.wait, b.probe \/ TakesProbe(b))

(* A failure is counted, and opens the breaker at the threshold or when it *)
(* was the probe's.                                                        *)
OneMore(b) == IF b.failures < Threshold THEN b.failures + 1 ELSE Threshold
Trips(b, wasProbe) == wasProbe \/ OneMore(b) >= Threshold
Failed(b, wasProbe, slot) ==
  IF Trips(b, wasProbe) THEN Brk("open", OneMore(b), Cooldown, slot)
                        ELSE Brk(b.state, OneMore(b), b.wait, b.probe)

(* Breaker.on_success and on_failure: only the probe gives the slot back.  *)
BugOnSuccess(b, wasProbe) == Brk("closed", 0, 0, b.probe)
OnSuccess(b, wasProbe) == Brk("closed", 0, 0, b.probe /\ ~wasProbe)
OnFailure(b, wasProbe) == Failed(b, wasProbe, b.probe /\ ~wasProbe)

(* SUCCESS_SCRIPT and FAILURE_SCRIPT: any report that closes or opens the  *)
(* breaker clears the slot.                                                *)
SharedOnSuccess == Closed
SharedOnFailure(b, wasProbe) == Failed(b, wasProbe, FALSE)

(* Time passes. *)
BugCool(b) == Brk(b.state, b.failures, IF b.wait > 1 THEN b.wait - 1 ELSE b.wait, b.probe)
Cool(b) == Brk(b.state, b.failures, IF b.wait > 0 THEN b.wait - 1 ELSE 0, b.probe)
=============================================================================

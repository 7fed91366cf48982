----------------------------- MODULE RedisAudit -----------------------------
(***************************************************************************)
(* The shared audit list of app/audit/redis.py: APPEND_AUDIT_SCRIPT on the *)
(* list of events and the parallel list of their timestamps, called by     *)
(* record of several replicas.                                             *)
(*                                                                         *)
(* record takes its timestamp before the call, so the script may run the   *)
(* calls in another order, up to MaxDelay later (the socket timeout, and   *)
(* the skew of the replicas' clocks).  Events written before timestamps    *)
(* existed (Legacy) have none.  Payloads and signatures are left out.      *)
(***************************************************************************)
EXTENDS Naturals, Sequences, FiniteSets

CONSTANTS
  Events,       \* one record call each
  Legacy,       \* events that are in the list already, without a timestamp
  MaxEvents,    \* settings.audit_redis_max_events
  Retention,    \* settings.audit_retention_seconds, in ticks
  MaxDelay,     \* the longest a call is under way
  Horizon,      \* the clock stops here
  FaultSets     \* what may go wrong together

FaultKinds ==
  {"store",    \* the call fails without effect
   "lost",     \* it takes effect and its reply is lost
   "resend"}   \* the client repeats it after a timeout (retry_on_timeout)

ListAssumption ==
  /\ MaxEvents \in Nat \ {0} /\ Retention \in Nat \ {0}
  /\ MaxDelay \in Nat /\ Horizon \in Nat
  /\ Legacy \in Seq(Events) /\ Len(Legacy) <= MaxEvents
  /\ FaultSets \subseteq SUBSET FaultKinds

VARIABLES
  faults,    \* the member of FaultSets in force
  events,    \* {ns}:audit:events
  stamps,    \* {ns}:audit:event-timestamps
  touched,   \* when EXPIRE last set both keys' TTL
  now,
  pc,        \* "new", "sent", "ok", "error": each record call
  stamp      \* the timestamp it took

lists == <<events, stamps, touched>>
vars == <<faults, lists, now, pc, stamp>>

InLegacy(e) == \E i \in 1..Len(Legacy) : Legacy[i] = e

Init ==
  /\ faults \in FaultSets
  /\ events = Legacy
  /\ stamps = <<>>
  /\ touched = 0
  /\ now = 0
  /\ pc = [e \in Events |-> IF InLegacy(e) THEN "ok" ELSE "new"]
  /\ stamp = [e \in Events |-> 0]

(* LTRIM key -n -1 and n times LPOP. *)
LastOf(s, n) == IF Len(s) <= n THEN s ELSE SubSeq(s, Len(s) - n + 1, Len(s))
Without(s, n) == SubSeq(s, n + 1, Len(s))

(* The repair of unequal lists: missing timestamps count as now.  There    *)
(* are never more timestamps than events (Stamped), so the script's other  *)
(* branch, an LTRIM, is dead and left out.                                 *)
BugRepaired(es, ts, t) == ts
Repaired(es, ts, t) == ts \o [i \in 1..(Len(es) - Len(ts)) |-> t]

(* How many timestamps at the head are before the cutoff, t - Retention.   *)
IsDue(s, t) == s + Retention < t
Due(ts, t) ==
  CHOOSE n \in 0..Len(ts) :
    /\ \A i \in 1..n : IsDue(ts[i], t)
    /\ n < Len(ts) => ~IsDue(ts[n + 1], t)

(* APPEND_AUDIT_SCRIPT on both lists. *)
Limit == MaxEvents
Pushed(s, x) == LastOf(Append(s, x), Limit)
Stamps(es, ts, t) == Pushed(Repaired(es, ts, t), t)
Script(es, ts, e, t) ==
  LET n == Due(Stamps(es, ts, t), t)
  IN  [events |-> Without(Pushed(es, e), n), stamps |-> Without(Stamps(es, ts, t), n)]

Apply(e) ==
  LET r == Script(events, stamps, e, stamp[e])
  IN  events' = r.events /\ stamps' = r.stamps /\ touched' = now
ApplyTwice(e) ==
  LET r == Script(events, stamps, e, stamp[e])
      q == Script(r.events, r.stamps, e, stamp[e])
  IN  events' = q.events /\ stamps' = q.stamps /\ touched' = now

-----------------------------------------------------------------------------
(* record: the timestamp, then the call. *)
Record(e) ==
  /\ pc[e] = "new"
  /\ pc' = [pc EXCEPT ![e] = "sent"]
  /\ stamp' = [stamp EXCEPT ![e] = now]
  /\ UNCHANGED <<faults, lists, now>>

Reply(e, a) == pc' = [pc EXCEPT ![e] = a] /\ UNCHANGED <<faults, now, stamp>>
Eval(e) ==
  /\ pc[e] = "sent"
  /\ \/ Apply(e) /\ Reply(e, "ok")
     \/ "store" \in faults /\ UNCHANGED lists /\ Reply(e, "error")
     \/ "lost" \in faults /\ Apply(e) /\ Reply(e, "error")
     \/ "resend" \in faults /\ ApplyTwice(e) /\ Reply(e, "ok")

(* Time passes; the keys expire together.  A call is not under way for     *)
(* longer than MaxDelay.                                                   *)
Tick ==
  /\ now < Horizon
  /\ \A e \in Events : pc[e] = "sent" => now < stamp[e] + MaxDelay
  /\ now' = now + 1
  /\ IF stamps # <<>> /\ now' >= touched + Retention
     THEN events' = <<>> /\ stamps' = <<>> /\ UNCHANGED touched
     ELSE UNCHANGED lists
  /\ UNCHANGED <<faults, pc, stamp>>

Next == Tick \/ \E e \in Events : Record(e) \/ Eval(e)

Spec == Init /\ [][Next]_vars

-----------------------------------------------------------------------------
(* Properties.                                                             *)

(* Once the script has run, every event has a timestamp of its own and the *)
(* list is within its bound, whatever was there before                     *)
(* (APPEND_AUDIT_SCRIPT).                                                  *)
Stamped ==
  /\ Len(events) <= MaxEvents
  /\ stamps # <<>> => /\ Len(stamps) = Len(events)
                      /\ \A i \in 1..Len(stamps) : stamps[i] >= stamp[events[i]]

(* An event leaves the list for its age or for MaxEvents newer ones, never *)
(* because another event's timestamp was taken for its own (the repair,    *)
(* LPOP and LTRIM of both lists), unless a call was repeated; and every    *)
(* step leaves the lists paired.                                           *)
IsIn(e, s) == \E i \in 1..Len(s) : s[i] = e
LeavesOnlyWhenDue ==
  [][/\ Stamped'
     /\ \A i \in 1..Len(events) :
          ~IsIn(events[i], events') /\ "resend" \notin faults =>
            \/ now' >= stamp[events[i]] + Retention
            \/ Len(events) - i >= MaxEvents - 1]_vars
=============================================================================

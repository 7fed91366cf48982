----------------------------- MODULE FileAudit ------------------------------
(***************************************************************************)
(* The JSONL audit log of app/audit/file.py: its life cycle, record, the   *)
(* background drain and, cut at every system call, append_line,            *)
(* rotate_if_needed and prune_old_events.                                  *)
(*                                                                         *)
(* With audit_required each record call runs append_line on a thread of    *)
(* its own; otherwise the drain task runs it for one queued event at a     *)
(* time.  A process opens the log once; processes that share it            *)
(* ("overlap", as the API and the worker of docker-compose.yml do) run at  *)
(* the same time, otherwise one follows the other.  A line is the event it *)
(* holds and a file's size is its number of lines; a file is an inode, so  *)
(* that a descriptor survives a rename.  Lines are signed and stamped      *)
(* before they reach this module; aged says which are past the retention.  *)
(* The settings, and what may go wrong, are chosen when a behaviour starts. *)
(***************************************************************************)
EXTENDS Naturals, FiniteSets, Sequences

CONSTANTS
  Events,        \* one record call each
  Procs, ProcOf, \* processes, and the one that records an event
  QueueSize,     \* asyncio.Queue(maxsize)
  Setups,        \* settings, and the faults to expect under them
  Sentinel, None

FaultKinds ==
  {"disk",      \* an open or a write fails
   "cancel",    \* the request is cancelled while it awaits its line
   "deadline",  \* stop runs out of time
   "overlap",   \* processes share the log
   "age"}       \* events get older than the retention

ASSUME AuditAssumption ==
  /\ IsFiniteSet(Events) /\ ProcOf \in [Events -> Procs]
  /\ QueueSize \in Nat \ {0}
  /\ \A s \in Setups : /\ s.required \in BOOLEAN
                       /\ s.maxLines \in Nat \ {0} /\ s.backups \in Nat
                       /\ s.faults \subseteq FaultKinds
  /\ Sentinel \notin Events /\ None \notin Events

VARIABLES
  setup,    \* the member of Setups in force
  dir,      \* path and path.1 to path.Backups: the inode, if any
  data,     \* the lines of each inode
  up,       \* each process's backend
  kept,     \* the lines its prune_old_events wants to keep
  failed,   \* FileAudit.failed
  queue,    \* FileAudit.queue
  task,     \* the event the drain task waits for
  pc,       \* where each event is
  slot,     \* i of the rotation loop
  fd,       \* the inode append_line has open
  told,     \* what record's caller was told
  log,      \* history: the lines written, in order
  aged      \* events past the retention

files == <<dir, data>>
own == <<pc, slot, fd, told>>
vars == <<setup, files, up, kept, failed, queue, task, own, log, aged>>

Required == setup.required    \* settings.audit_required
MaxLines == setup.maxLines    \* settings.audit_max_bytes, in lines
Backups == setup.backups      \* settings.audit_rotation_backups
Faults == setup.faults

Inodes == 0..(Backups + Cardinality(Events) + 1)
Slots == 0..Backups
Stage == {"new", "queued", "exists", "stat", "truncate", "probe", "shift", "move", "open", "write",
          "over"}
Running(e) == pc[e] \notin {"new", "queued", "over"}

Init ==
  /\ setup \in Setups
  /\ dir = [k \in Slots |-> None]
  /\ data = [i \in Inodes |-> {}]
  /\ up = [p \in Procs |-> "off"]
  /\ kept = [p \in Procs |-> {}]
  /\ failed = [p \in Procs |-> FALSE]
  /\ queue = [p \in Procs |-> <<>>]
  /\ task = [p \in Procs |-> None]
  /\ pc = [e \in Events |-> "new"]
  /\ slot = [e \in Events |-> 0]
  /\ fd = [e \in Events |-> 0]
  /\ told = [e \in Events |-> "nothing"]
  /\ log = <<>>
  /\ aged = {}

(* A new file gets an inode that no name and no descriptor refers to.      *)
Used == {dir[k] : k \in Slots} \cup {fd[e] : e \in {x \in Events : pc[x] = "write"}}
FreeInode == CHOOSE i \in Inodes : i \notin Used
Current == IF dir[0] = None THEN FreeInode ELSE dir[0]
(* open(path) in a mode that creates the file. *)
OpenPath(lines) ==
  /\ dir' = [dir EXCEPT ![0] = Current]
  /\ data' = [data EXCEPT ![Current] = lines]
Lines(k) == IF dir[k] = None THEN {} ELSE data[dir[k]]
OnDisk == UNION {Lines(k) : k \in Slots}

-----------------------------------------------------------------------------
(* append_line for event e: exists, stat, the renames, open, write.        *)
Goto(e, l) == pc' = [pc EXCEPT ![e] = l] /\ UNCHANGED <<slot, fd, told>>

(* The executor's future is done.  A caller or drain task that was         *)
(* cancelled no longer listens.                                            *)
Waits(e) == IF Required THEN told[e] = "nothing" ELSE task[ProcOf[e]] = e
BugDone(e, ok) ==
  /\ pc' = [pc EXCEPT ![e] = "over"]
  /\ failed' = [failed EXCEPT ![ProcOf[e]] = @ \/ (Waits(e) /\ ~ok)]
  /\ told' = [told EXCEPT ![e] = IF Required /\ Waits(e) THEN IF ok THEN "ok" ELSE "error" ELSE @]
  /\ task' = [task EXCEPT ![ProcOf[e]] = IF @ = e /\ ok THEN None ELSE @]
  /\ UNCHANGED <<slot, fd>>
Done(e, ok) ==
  /\ pc' = [pc EXCEPT ![e] = "over"]
  /\ failed' = [failed EXCEPT ![ProcOf[e]] = @ \/ (Waits(e) /\ ~ok)]
  /\ told' = [told EXCEPT ![e] = IF Required /\ Waits(e) THEN IF ok THEN "ok" ELSE "error" ELSE @]
  /\ task' = [task EXCEPT ![ProcOf[e]] = IF @ = e THEN None ELSE @]
  /\ UNCHANGED <<slot, fd>>

(* A system call that finds what it needs, or raises FileNotFoundError.    *)
Needs(e, k, Effect) ==
  \/ dir[k] # None /\ Effect /\ UNCHANGED <<failed, task>>
  \/ dir[k] = None /\ Done(e, FALSE) /\ UNCHANGED dir

Exists(e) ==
  /\ pc[e] = "exists"
  /\ Goto(e, IF dir[0] = None THEN "open" ELSE "stat")
  /\ UNCHANGED <<files, failed, task, log>>

(* The rotation loop over i goes on below slot i, or ends. *)
Loop(e, i) ==
  /\ pc' = [pc EXCEPT ![e] = IF i > 1 THEN "probe" ELSE "move"]
  /\ slot' = [slot EXCEPT ![e] = i]
  /\ UNCHANGED <<fd, told>>
IsFull == Cardinality(Lines(0)) >= MaxLines
Stat(e) ==
  /\ pc[e] = "stat"
  /\ Needs(e, 0, /\ \/ ~IsFull /\ Goto(e, "open")
                    \/ IsFull /\ Backups = 0 /\ Goto(e, "truncate")
                    \/ IsFull /\ Backups > 0 /\ Loop(e, Backups)
                 /\ UNCHANGED dir)
  /\ UNCHANGED <<data, log>>

Truncate(e) ==
  /\ pc[e] = "truncate"
  /\ OpenPath({})
  /\ Goto(e, "open")
  /\ UNCHANGED <<failed, task, log>>

BugRename(k, n) == dir' = [dir EXCEPT ![n] = dir[k]]
Rename(k, n) == dir' = [dir EXCEPT ![k] = None, ![n] = dir[k]]
Probe(e) ==
  /\ pc[e] = "probe"
  /\ IF dir[slot[e] - 1] = None THEN Loop(e, slot[e] - 1) ELSE Goto(e, "shift")
  /\ UNCHANGED <<files, failed, task, log>>
Shift(e) ==
  /\ pc[e] = "shift"
  /\ Needs(e, slot[e] - 1, Rename(slot[e] - 1, slot[e]) /\ Loop(e, slot[e] - 1))
  /\ UNCHANGED <<data, log>>
Move(e) ==
  /\ pc[e] = "move"
  /\ Needs(e, 0, Rename(0, 1) /\ Goto(e, "open"))
  /\ UNCHANGED <<data, log>>

Open(e) ==
  /\ pc[e] = "open"
  /\ \/ /\ OpenPath(Lines(0))
        /\ pc' = [pc EXCEPT ![e] = "write"]
        /\ fd' = [fd EXCEPT ![e] = Current]
        /\ UNCHANGED <<slot, told, failed, task>>
     \/ "disk" \in Faults /\ Done(e, FALSE) /\ UNCHANGED files
  /\ UNCHANGED log

Write(e) ==
  /\ pc[e] = "write"
  /\ \/ /\ data' = [data EXCEPT ![fd[e]] = @ \cup {e}]
        /\ log' = Append(log, e)
        /\ Done(e, TRUE)
     \/ /\ "disk" \in Faults
        /\ Done(e, FALSE)
        /\ \/ UNCHANGED <<data, log>>
           \/ data' = [data EXCEPT ![fd[e]] = @ \cup {e}] /\ log' = Append(log, e)
  /\ UNCHANGED dir

AppendLine(e) ==
  /\ \/ Exists(e) \/ Stat(e) \/ Truncate(e) \/ Probe(e) \/ Shift(e) \/ Move(e) \/ Open(e) \/ Write(e)
  /\ UNCHANGED <<setup, up, kept, queue, aged>>

-----------------------------------------------------------------------------
(* record.  The queue is gone once stop has ended. *)
Answer(e, l, t) ==
  /\ pc' = [pc EXCEPT ![e] = l] /\ told' = [told EXCEPT ![e] = t] /\ UNCHANGED <<slot, fd>>
Room(p) == Len(queue[p]) < QueueSize
Record(e) ==
  LET p == ProcOf[e] IN
  /\ pc[e] = "new" /\ up[p] \in {"on", "stopping", "stopped"}
  /\ \/ /\ up[p] = "stopped"
        /\ Answer(e, "over", IF Required THEN "error" ELSE "ok") /\ UNCHANGED queue
     \/ up[p] # "stopped" /\ Required /\ failed[p] /\ Answer(e, "over", "error") /\ UNCHANGED queue
     \/ up[p] # "stopped" /\ Required /\ ~failed[p] /\ Goto(e, "exists") /\ UNCHANGED queue
     \/ /\ up[p] # "stopped" /\ ~Required /\ Room(p)
        /\ queue' = [queue EXCEPT ![p] = Append(@, e)]
        /\ Answer(e, "queued", "ok")
     \/ /\ up[p] # "stopped" /\ ~Required /\ ~Room(p)
        /\ Answer(e, "over", "ok") /\ UNCHANGED queue
  /\ UNCHANGED <<setup, files, up, kept, failed, task, log, aged>>

(* The request gives up; its thread goes on. *)
CancelRecord(e) ==
  /\ "cancel" \in Faults
  /\ Required /\ Running(e) /\ told[e] = "nothing"
  /\ told' = [told EXCEPT ![e] = "cancelled"]
  /\ UNCHANGED <<setup, files, up, kept, failed, queue, task, pc, slot, fd, log, aged>>

(* drain: the next event, or the sentinel. *)
Lost(p) == {e \in Events : ProcOf[e] = p /\ pc[e] = "queued"}
Close(p) ==
  /\ up' = [up EXCEPT ![p] = "stopped"]
  /\ queue' = [queue EXCEPT ![p] = <<>>]
  /\ pc' = [e \in Events |-> IF e \in Lost(p) THEN "over" ELSE pc[e]]
  /\ UNCHANGED <<slot, fd, told>>
BugDrain(p) ==
  /\ up[p] \in {"on", "stopping"} /\ queue[p] # <<>>
  /\ IF Head(queue[p]) = Sentinel
     THEN Close(p) /\ UNCHANGED task
     ELSE /\ task' = [task EXCEPT ![p] = Head(queue[p])]
          /\ queue' = [queue EXCEPT ![p] = Tail(@)]
          /\ Goto(Head(queue[p]), "exists") /\ UNCHANGED up
  /\ UNCHANGED <<setup, files, kept, failed, log, aged>>
Drain(p) ==
  /\ up[p] \in {"on", "stopping"} /\ task[p] = None /\ queue[p] # <<>>
  /\ IF Head(queue[p]) = Sentinel
     THEN Close(p) /\ UNCHANGED task
     ELSE /\ task' = [task EXCEPT ![p] = Head(queue[p])]
          /\ queue' = [queue EXCEPT ![p] = Tail(@)]
          /\ Goto(Head(queue[p]), "exists") /\ UNCHANGED up
  /\ UNCHANGED <<setup, files, kept, failed, log, aged>>

(* stop: the sentinel is put, waiting for room, then the task is awaited.  *)
Stop(p) ==
  /\ up[p] = "on" /\ Room(p)
  /\ up' = [up EXCEPT ![p] = "stopping"]
  /\ queue' = [queue EXCEPT ![p] = Append(@, Sentinel)]
  /\ UNCHANGED <<setup, files, kept, failed, task, own, log, aged>>

(* Out of time: waiting for room, or, in teardown_state, for the task.     *)
StopTimeout(p) ==
  /\ "deadline" \in Faults
  /\ up[p] = "stopping" \/ (up[p] = "on" /\ ~Room(p))
  /\ Close(p)
  /\ task' = [task EXCEPT ![p] = None]
  /\ UNCHANGED <<setup, files, kept, failed, log, aged>>

-----------------------------------------------------------------------------
(* start: touch, then prune_old_events, which reads the current file and   *)
(* writes it back only without expired lines.                              *)
Quiet == \A p \in Procs : up[p] \in {"off", "stopped"}
Start(p) ==
  /\ up[p] = "off"
  /\ "overlap" \in Faults \/ (Quiet /\ \A e \in Events : ~Running(e))
  /\ failed' = [failed EXCEPT ![p] = FALSE]
  /\ OpenPath(Lines(0))
  /\ up' = [up EXCEPT ![p] = "prune"]
  /\ UNCHANGED <<setup, kept, queue, task, own, log, aged>>

PruneRead(p) ==
  /\ up[p] = "prune"
  /\ kept' = [kept EXCEPT ![p] = Lines(0) \ aged]
  /\ up' = [up EXCEPT ![p] = IF Lines(0) \cap aged = {} THEN "on" ELSE "rewrite"]
  /\ UNCHANGED <<setup, files, failed, queue, task, own, log, aged>>

PruneRewrite(p) ==
  /\ up[p] = "rewrite"
  /\ OpenPath(kept[p])
  /\ up' = [up EXCEPT ![p] = "on"]
  /\ UNCHANGED <<setup, kept, failed, queue, task, own, log, aged>>

Age(e) ==
  /\ "age" \in Faults /\ pc[e] = "over" /\ e \notin aged
  /\ aged' = aged \cup {e}
  /\ UNCHANGED <<setup, files, up, kept, failed, queue, task, own, log>>

Next ==
  \/ \E e \in Events : Record(e) \/ AppendLine(e) \/ CancelRecord(e) \/ Age(e)
  \/ \E p \in Procs : Start(p) \/ PruneRead(p) \/ PruneRewrite(p) \/ Drain(p) \/ Stop(p) \/ StopTimeout(p)

Spec == Init /\ [][Next]_vars

(* Threads end and the drain task is scheduled.  Nothing is assumed of     *)
(* callers, and nothing of start and stop.                                 *)
FairSpec == /\ Spec
            /\ \A e \in Events : WF_vars(AppendLine(e))
            /\ \A p \in Procs : WF_vars(Drain(p))

-----------------------------------------------------------------------------
(* Properties.                                                             *)

(* How many lines were written after e's. *)
Later(e) == Cardinality({n \in DOMAIN log : \E m \in 1..(n - 1) : log[m] = e})
Written == {log[n] : n \in DOMAIN log}

(* A line that was written, or in required mode acknowledged, leaves the   *)
(* log only by its age or after as many newer lines as the backups hold,   *)
(* across rotations, restarts and stops (record, rotate_if_needed,         *)
(* prune_old_events).  Rotations that race, which the drain task rules out *)
(* and required mode does not, and a start over a log that another process *)
(* writes, are the exceptions.                                             *)
Acknowledged == {e \in Events : Required /\ told[e] = "ok"}
MayRace == (Required /\ MaxLines < Cardinality(Events)) \/ "overlap" \in Faults
LostOnlyWhenOld ==
  \/ MayRace
  \/ \A e \in Written \cup Acknowledged :
       e \notin OnDisk => e \in aged \/ Later(e) >= Backups * MaxLines

(* A line is in one file at most, however rotations race (the renames of   *)
(* rotate_if_needed, and prune_old_events), unless a start rewrites a log  *)
(* that another process rotates.                                           *)
OneCopy ==
  "overlap" \in Faults \/ \A e \in Events : Cardinality({k \in Slots : e \in Lines(k)}) <= 1

(* A line leaves the log only when it is due and is never there twice.     *)
LogIsKept == LostOnlyWhenOld /\ OneCopy

(* The backend never takes itself out of service on a working disk: no     *)
(* system call of append_line fails for what another call did              *)
(* (rotate_if_needed; failed is cleared only by start).                    *)
HealthyDiskNeverFails == MayRace \/ "disk" \in Faults \/ \A p \in Procs : ~failed[p]

(* A queued event's turn comes, whatever writes fail before it (drain).    *)
QueuedIsTaken == \A e \in Events : pc[e] = "queued" ~> pc[e] # "queued"

-----------------------------------------------------------------------------
(* What the documentation says that the code does not do.                  *)

(* A line of required mode that record acknowledged stays in the log until *)
(* it is old: pruning drops old lines only (the docstring of               *)
(* prune_old_events, which reads the log and later writes back what it     *)
(* kept, while another process may be appending to it).                    *)
AcknowledgedIsKept ==
  \A e \in Acknowledged : e \notin OnDisk => e \in aged \/ Later(e) >= Backups * MaxLines
=============================================================================

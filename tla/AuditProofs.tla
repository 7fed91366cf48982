---------------------------- MODULE AuditProofs -----------------------------
(***************************************************************************)
(* What holds of the audit file for every number of events and processes,  *)
(* every rotation size and number of backups, whatever rotates, restarts,  *)
(* stops late or fails.                                                    *)
(*                                                                         *)
(* A rotation shifts one file at a time, so while it is under way a line   *)
(* is followed by as many newer ones as the place it has reached, or is    *)
(* about to reach, asks for (Followed).  That needs one rotation at a time *)
(* (Turns) and files that share nothing (Apart).                           *)
(***************************************************************************)
EXTENDS FileAudit, FiniteSetTheorems, SequenceTheorems, TLAPS

Alone == "overlap" \notin Faults
Calm == Alone /\ (Required => MaxLines >= Cardinality(Events))
Active(p) == up[p] \notin {"off", "stopped"}
Rotating(e) == pc[e] \in {"probe", "shift", "move"}

Typed ==
  /\ setup \in Setups
  /\ dir \in [Slots -> Inodes \cup {None}]
  /\ data \in [Inodes -> SUBSET Events]
  /\ up \in [Procs -> {"off", "prune", "rewrite", "on", "stopping", "stopped"}]
  /\ kept \in [Procs -> SUBSET Events]
  /\ failed \in [Procs -> BOOLEAN]
  /\ queue \in [Procs -> Seq(Events \cup {Sentinel})]
  /\ task \in [Procs -> Events \cup {None}]
  /\ pc \in [Events -> Stage]
  /\ slot \in [Events -> Nat]
  /\ fd \in [Events -> Inodes]
  /\ told \in [Events -> {"nothing", "ok", "error", "cancelled"}]
  /\ log \in Seq(Events)
  /\ aged \in SUBSET Events

(* A queue holds events of its process that wait in it, each once. *)
Lined ==
  \A p \in Procs : \A n \in 1..Len(queue[p]) : queue[p][n] # Sentinel =>
    /\ ProcOf[queue[p][n]] = p /\ pc[queue[p][n]] = "queued"
    /\ \A m \in 1..Len(queue[p]) : queue[p][m] = queue[p][n] => m = n

(* One process at a time, and without audit_required one append_line.      *)
Turns ==
  /\ \A p, q \in Procs : Active(p) /\ Active(q) => p = q
  /\ \A e \in Events : Running(e) =>
       /\ up[ProcOf[e]] \in {"on", "stopping", "stopped"}
       /\ \A q \in Procs : Active(q) => q = ProcOf[e]
       /\ Required \/ up[ProcOf[e]] = "stopped" \/ task[ProcOf[e]] = e
  /\ Required \/ \A e, f \in Events : Running(e) /\ Running(f) => e = f

(* Where a rotation is. *)
Rounds ==
  \A e \in Events :
    /\ pc[e] \in {"probe", "shift"} => slot[e] \in 2..Backups
    /\ pc[e] = "move" => slot[e] = 1 /\ Backups >= 1
    /\ pc[e] = "truncate" => Backups = 0

(* No two names for a file, no line in two files. *)
Apart ==
  /\ \A j, k \in Slots : dir[j] = dir[k] => j = k \/ dir[k] = None
  /\ \A h, i \in Inodes : h # i => data[h] \cap data[i] = {}
  /\ \A i \in Inodes : \A e \in data[i] : pc[e] = "over" /\ e \in Written

(* What prune_old_events read is still there. *)
Pruning ==
  \A p \in Procs : up[p] = "rewrite" =>
    dir[0] # None /\ kept[p] \subseteq Lines(0) /\ Lines(0) \ kept[p] \subseteq aged

(* What append_line saw is still so. *)
Steady ==
  \A e \in Events :
    /\ pc[e] \in {"stat", "truncate", "probe", "shift", "move"} => dir[0] # None
    /\ pc[e] = "write" => dir[0] # None /\ fd[e] = dir[0]
    /\ pc[e] = "shift" => dir[slot[e] - 1] # None
    /\ Rotating(e) => IsFull /\ (slot[e] < Backups => dir[slot[e]] = None)
    /\ Required => ~Rotating(e) /\ pc[e] # "truncate"

(* How many lines have followed one that is in a backup. *)
Followed ==
  \A k \in Slots \ {0} : \A e \in Lines(k) :
    /\ Later(e) >= (k - 1) * MaxLines
    /\ \A r \in Events : Rotating(r) /\ k <= slot[r] => Later(e) >= k * MaxLines
    /\ \/ \E r \in Events : Rotating(r)
       \/ Later(e) >= (k - 1) * MaxLines + Cardinality(Lines(0))

Kept == \A e \in Written : e \notin OnDisk => e \in aged \/ Later(e) >= Backups * MaxLines
Told == Required => \A e \in Events : told[e] = "ok" => e \in Written

AloneInv == Turns /\ Apart /\ Pruning
CalmInv == Steady /\ Followed /\ Kept
AuditInv ==
  /\ Typed /\ Rounds /\ Lined /\ Told
  /\ Alone => AloneInv
  /\ Calm => CalmInv
  /\ Calm /\ "disk" \notin Faults => \A p \in Procs : ~failed[p]

-----------------------------------------------------------------------------
(* Facts about the operators of the model.                                 *)

LEMMA SetupIs ==
  ASSUME Typed
  PROVE  /\ Required \in BOOLEAN /\ MaxLines \in Nat \ {0} /\ Backups \in Nat
         /\ IsFiniteSet(Events) /\ Cardinality(Events) \in Nat
         /\ Slots = 0..Backups /\ 0 \in Slots
         /\ Inodes = 0..(Backups + Cardinality(Events) + 1) /\ 0 \in Inodes
<1>1. Required \in BOOLEAN /\ MaxLines \in Nat \ {0} /\ Backups \in Nat /\ IsFiniteSet(Events)
  BY AuditAssumption DEF Typed, Required, MaxLines, Backups
<1>2. Cardinality(Events) \in Nat
  BY <1>1, FS_CardinalityType
<1>3. QED BY <1>1, <1>2 DEF Slots, Inodes

(* A place of the log that comes after e's. *)
After(e) == {n \in DOMAIN log : \E m \in 1..(n - 1) : log[m] = e}

LEMMA LaterIs ==
  ASSUME Typed, NEW e
  PROVE  IsFiniteSet(After(e)) /\ Later(e) = Cardinality(After(e)) /\ Later(e) \in Nat
<1>1. Len(log) \in Nat /\ After(e) \in SUBSET (1..Len(log))
  BY DEF Typed, After
<1>2. IsFiniteSet(1..Len(log))
  BY <1>1, FS_Interval
<1>3. IsFiniteSet(After(e))
  BY <1>1, <1>2, FS_Subset
<1>4. QED BY <1>3, FS_CardinalityType DEF Later, After

LEMMA WrittenGrows ==
  ASSUME Typed, NEW x \in Events, log' = Append(log, x)
  PROVE  /\ log' \in Seq(Events)
         /\ Written' = Written \cup {x}
         /\ \A e : Later(e)' \in Nat /\ Later(e)' >= Later(e)
         /\ \A e \in Written : Later(e)' = Later(e) + 1
<1> DEFINE n == Len(log) + 1
<1>1. n \in Nat \ {0} /\ log \in Seq(Events) /\ DOMAIN log = 1..(n - 1)
  BY DEF Typed
<1>2. log' \in Seq(Events) /\ DOMAIN log' = 1..n /\ log'[n] = x /\ \A m \in 1..(n - 1) : log'[m] = log[m]
  BY <1>1
<1> HIDE DEF n
<1>3. Written' = Written \cup {x}
  BY <1>1, <1>2 DEF Written
<1>4. ASSUME NEW e
      PROVE  /\ After(e)' = IF e \in Written THEN After(e) \cup {n} ELSE After(e)
             /\ n \notin After(e)
  <2>1. \A m \in 1..(n - 1) : m \in After(e)' <=> m \in After(e)
    BY <1>1, <1>2 DEF After
  <2>2. n \in After(e)' <=> e \in Written
    BY <1>1, <1>2 DEF After, Written
  <2>3. After(e) \subseteq 1..(n - 1) /\ After(e)' \subseteq 1..n
    BY <1>1, <1>2 DEF After
  <2>4. \A m \in 1..n : m = n \/ m \in 1..(n - 1)
    BY <1>1
  <2>5. n \notin 1..(n - 1) /\ 1..(n - 1) \subseteq 1..n /\ n \in 1..n
    BY <1>1
  <2>6. \A m : m \in After(e)' <=> m \in After(e) \/ (m = n /\ e \in Written)
    BY <2>1, <2>2, <2>3, <2>4, <2>5, Zenon
  <2>7. CASE e \in Written
    BY <2>3, <2>5, <2>6, <2>7
  <2>8. CASE e \notin Written
    BY <2>3, <2>5, <2>6, <2>8
  <2>9. QED BY <2>7, <2>8
<1>5. ASSUME NEW e
      PROVE  Later(e)' = IF e \in Written THEN Later(e) + 1 ELSE Later(e)
  <2>1. IsFiniteSet(After(e)) /\ Later(e) = Cardinality(After(e)) /\ Later(e) \in Nat
    BY LaterIs
  <2>2. Later(e)' = Cardinality(After(e)')
    BY DEF Later, After
  <2>3. Cardinality(After(e) \cup {n}) = Cardinality(After(e)) + 1
    BY <1>4, <2>1, FS_AddElement
  <2>4. QED BY <2>1, <2>2, <2>3, <1>4
<1>6. \A e : Later(e) \in Nat
  BY LaterIs
<1>7. QED BY <1>2, <1>3, <1>5, <1>6

(* A name or a descriptor each for fewer inodes than there are. *)
LEMMA FreeInodeIs ==
  ASSUME Typed
  PROVE  FreeInode \in Inodes /\ FreeInode \notin Used
<1> DEFINE A == {dir[k] : k \in Slots}
           W == {x \in Events : pc[x] = "write"}
           B == {fd[e] : e \in W}
           g == [e \in W |-> fd[e]]
<1>1. IsFiniteSet(Slots) /\ Cardinality(Slots) = Backups + 1
  <2>1. 0 \in Int /\ Backups \in Int /\ Backups \in Nat /\ Slots = 0..Backups
    BY SetupIs
  <2>2. QED BY <2>1, FS_Interval
<1>2. IsFiniteSet(Inodes) /\ Cardinality(Inodes) = Backups + Cardinality(Events) + 2
  <2> DEFINE z == Backups + Cardinality(Events) + 1
  <2>1. z \in Nat /\ Inodes = 0..z
    BY SetupIs
  <2> HIDE DEF z
  <2>2. IsFiniteSet(0..z) /\ Cardinality(0..z) = z + 1
    BY <2>1, FS_Interval
  <2>3. QED BY <2>1, <2>2, SetupIs DEF z
<1>3. IsFiniteSet(A) /\ Cardinality(A) <= Cardinality(Slots)
  <2>1. dir \in Surjection(Slots, A)
    BY DEF Surjection, Typed
  <2> HIDE DEF A
  <2>2. QED BY <2>1, <1>1, FS_Surjection
<1>4. IsFiniteSet(W) /\ Cardinality(W) <= Cardinality(Events)
  BY SetupIs, FS_Subset
<1>5. IsFiniteSet(B) /\ Cardinality(B) <= Cardinality(W)
  <2>1. g \in Surjection(W, B)
    BY DEF Surjection
  <2> HIDE DEF g, B, W
  <2>2. QED BY <2>1, <1>4, FS_Surjection
<1>6. Used = A \cup B
  BY DEF Used
<1> HIDE DEF A, B, W
<1>7. IsFiniteSet(A \cup B) /\ Cardinality(A \cup B) <= Cardinality(A) + Cardinality(B)
  <2>1. IsFiniteSet(A \cap B)
    BY <1>3, FS_Subset
  <2>2. Cardinality(A) \in Nat /\ Cardinality(B) \in Nat /\ Cardinality(A \cap B) \in Nat
    BY <1>3, <1>5, <2>1, FS_CardinalityType
  <2>3. IsFiniteSet(A \cup B)
        /\ Cardinality(A \cup B) = Cardinality(A) + Cardinality(B) - Cardinality(A \cap B)
    BY <1>3, <1>5, FS_Union
  <2>4. QED BY <2>2, <2>3
<1>8. Cardinality(A) \in Nat /\ Cardinality(B) \in Nat /\ Cardinality(W) \in Nat
      /\ Cardinality(A \cup B) \in Nat
  BY <1>3, <1>4, <1>5, <1>7, FS_CardinalityType
<1>9. ~(Inodes \subseteq Used)
  <2> SUFFICES ASSUME Inodes \in SUBSET Used PROVE FALSE
    OBVIOUS
  <2>1. Cardinality(Inodes) <= Cardinality(A \cup B)
    BY <1>6, <1>7, FS_Subset
  <2>2. QED BY <2>1, <1>1, <1>2, <1>3, <1>4, <1>5, <1>7, <1>8, SetupIs
<1>10. QED BY <1>9 DEF FreeInode

(* open(path) yields the current file, or one that nothing refers to.      *)
LEMMA CurrentIs ==
  ASSUME Typed
  PROVE  /\ Current \in Inodes /\ Current # None
         /\ dir[0] = None => Current \notin Used
         /\ dir[0] # None => Current = dir[0]
<1>1. 0 \in Slots /\ dir[0] \in Inodes \cup {None} /\ dir[0] \in Used
  BY SetupIs DEF Typed, Used
<1>2. QED BY <1>1, FreeInodeIs DEF Current

-----------------------------------------------------------------------------
(* What a step of append_line for e leaves alone. *)
Frame(e) ==
  /\ \E l \in Stage \ {"new", "queued"} : pc' = [pc EXCEPT ![e] = l]
  /\ told' \in [Events -> {"nothing", "ok", "error", "cancelled"}]
  /\ \A f \in Events : told'[f] = "ok" => told[f] = "ok" \/ (f = e /\ pc[e] = "write" /\ log' = Append(log, e))
  /\ failed' \in [Procs -> BOOLEAN]
  /\ task' \in [Procs -> Events \cup {None}]
  /\ \A p \in Procs : task'[p] = task[p] \/ (task[p] = e /\ pc'[e] = "over")

(* A call that failed, and one that did not. *)
LEMMA DoneFrame ==
  ASSUME Typed, NEW e \in Events, NEW ok \in BOOLEAN, Done(e, ok),
         ok => pc[e] = "write" /\ log' = Append(log, e)
  PROVE  /\ Frame(e) /\ pc' = [pc EXCEPT ![e] = "over"] /\ UNCHANGED <<slot, fd>>
         /\ ok => failed' = failed
<1> USE DEF Done, Typed
<1>1. ProcOf[e] \in Procs
  BY AuditAssumption
<1>2. pc' = [pc EXCEPT ![e] = "over"] /\ pc'[e] = "over" /\ "over" \in Stage \ {"new", "queued"}
  BY DEF Stage
<1>3. \A f \in Events : told'[f] = IF f = e /\ Required /\ Waits(e) THEN IF ok THEN "ok" ELSE "error" ELSE told[f]
  OBVIOUS
<1>4. told' \in [Events -> {"nothing", "ok", "error", "cancelled"}]
  OBVIOUS
<1>5. failed' \in [Procs -> BOOLEAN] /\ (ok => failed' = failed)
  <2>1. failed' = [failed EXCEPT ![ProcOf[e]] = @ \/ (Waits(e) /\ ~ok)]
    OBVIOUS
  <2>2. Waits(e) \in BOOLEAN
    BY DEF Waits
  <2>3. failed[ProcOf[e]] \in BOOLEAN
    BY <1>1
  <2>4. QED BY <1>1, <2>1, <2>2, <2>3
<1>6. task' \in [Procs -> Events \cup {None}] /\ \A p \in Procs : task'[p] = task[p] \/ task[p] = e
  BY <1>1
<1>7. QED BY <1>2, <1>3, <1>4, <1>5, <1>6 DEF Frame

LEMMA GotoFrame ==
  ASSUME Typed, NEW e \in Events, UNCHANGED <<told, failed, task>>,
         NEW l \in Stage \ {"new", "queued"}, pc' = [pc EXCEPT ![e] = l]
  PROVE  Frame(e)
<1>1. \A p \in Procs : task'[p] = task[p]
  OBVIOUS
<1>2. QED BY <1>1 DEF Frame, Typed

LEMMA AppendFrame ==
  ASSUME Typed, NEW e \in Events, AppendLine(e)
  PROVE  Running(e) /\ UNCHANGED <<setup, up, kept, queue, aged>> /\ Frame(e)
<1>1. UNCHANGED <<setup, up, kept, queue, aged>>
  BY DEF AppendLine
<1>2. CASE Exists(e)
  <2>1. UNCHANGED <<told, failed, task>> /\ \E l \in {"open", "stat"} : pc' = [pc EXCEPT ![e] = l]
    BY <1>2 DEF Exists, Goto
  <2>2. QED BY <1>1, <1>2, <2>1, GotoFrame DEF Exists, Running, Stage
<1>3. CASE Stat(e)
  <2>1. CASE dir[0] = None
    BY <2>1, <1>1, <1>3, DoneFrame DEF Stat, Needs, Running
  <2>2. CASE dir[0] # None
    <3>1. UNCHANGED <<told, failed, task>>
          /\ \E l \in {"open", "truncate", "probe", "move"} : pc' = [pc EXCEPT ![e] = l]
      BY <2>2, <1>3 DEF Stat, Needs, Goto, Loop
    <3>2. QED BY <1>1, <1>3, <3>1, GotoFrame DEF Stat, Running, Stage
  <2>3. QED BY <2>1, <2>2
<1>4. CASE Truncate(e)
  BY <1>1, <1>4, GotoFrame DEF Truncate, Goto, Running, Stage
<1>5. CASE Probe(e)
  <2>1. UNCHANGED <<told, failed, task>> /\ \E l \in {"shift", "probe", "move"} : pc' = [pc EXCEPT ![e] = l]
    BY <1>5 DEF Probe, Goto, Loop
  <2>2. QED BY <1>1, <1>5, <2>1, GotoFrame DEF Probe, Running, Stage
<1>6. CASE Shift(e)
  <2>1. CASE dir[slot[e] - 1] = None
    BY <2>1, <1>1, <1>6, DoneFrame DEF Shift, Needs, Running
  <2>2. CASE dir[slot[e] - 1] # None
    <3>1. UNCHANGED <<told, failed, task>> /\ \E l \in {"probe", "move"} : pc' = [pc EXCEPT ![e] = l]
      BY <2>2, <1>6 DEF Shift, Needs, Loop
    <3>2. QED BY <1>1, <1>6, <3>1, GotoFrame DEF Shift, Running, Stage
  <2>3. QED BY <2>1, <2>2
<1>7. CASE Move(e)
  <2>1. CASE dir[0] = None
    BY <2>1, <1>1, <1>7, DoneFrame DEF Move, Needs, Running
  <2>2. CASE dir[0] # None
    BY <2>2, <1>1, <1>7, GotoFrame DEF Move, Needs, Goto, Running, Stage
  <2>3. QED BY <2>1, <2>2
<1>8. CASE Open(e)
  <2>1. CASE Done(e, FALSE)
    BY <2>1, <1>1, <1>8, DoneFrame DEF Open, Running
  <2>2. CASE ~Done(e, FALSE)
    BY <2>2, <1>1, <1>8, GotoFrame DEF Open, Running, Stage
  <2>3. QED BY <2>1, <2>2
<1>9. CASE Write(e)
  <2>1. PICK ok \in BOOLEAN : Done(e, ok) /\ (ok => log' = Append(log, e))
    BY <1>9 DEF Write
  <2>2. QED BY <2>1, <1>1, <1>9, DoneFrame DEF Write, Running
<1>10. QED BY <1>2, <1>3, <1>4, <1>5, <1>6, <1>7, <1>8, <1>9 DEF AppendLine

LEMMA SameSetup ==
  ASSUME setup' = setup
  PROVE  /\ Slots' = Slots /\ Inodes' = Inodes /\ Required' = Required /\ MaxLines' = MaxLines
         /\ Backups' = Backups /\ Faults' = Faults /\ (Alone <=> Alone') /\ (Calm <=> Calm')
  BY DEF Slots, Inodes, Required, MaxLines, Backups, Faults, Alone, Calm

LEMMA OpenPathTyped ==
  ASSUME Typed, NEW S \in SUBSET Events, OpenPath(S)
  PROVE  dir' \in [Slots -> Inodes \cup {None}] /\ data' \in [Inodes -> SUBSET Events]
  BY CurrentIs, SetupIs DEF OpenPath, Typed

LEMMA LinesTyped ==
  ASSUME Typed
  PROVE  \A k \in Slots : Lines(k) \in SUBSET Events
  BY DEF Typed, Lines

LEMMA AppendTyped ==
  ASSUME Typed, Rounds, NEW e \in Events, AppendLine(e)
  PROVE  Typed' /\ Rounds'
<1> USE SetupIs
<1>0. /\ setup' = setup /\ Slots' = Slots /\ Inodes' = Inodes /\ Backups' = Backups
      /\ UNCHANGED <<up, kept, queue, aged>> /\ Frame(e)
  BY AppendFrame, SameSetup
<1>1. SUFFICES /\ dir' \in [Slots -> Inodes \cup {None}] /\ data' \in [Inodes -> SUBSET Events]
               /\ slot' \in [Events -> Nat] /\ fd' \in [Events -> Inodes] /\ log' \in Seq(Events)
               /\ \A f \in Events : f # e => slot'[f] = slot[f]
               /\ pc'[e] \in {"probe", "shift"} => slot'[e] \in 2..Backups
               /\ pc'[e] = "move" => slot'[e] = 1 /\ Backups >= 1
               /\ pc'[e] = "truncate" => Backups = 0
  <2>1. PICK l \in Stage : pc' = [pc EXCEPT ![e] = l]
    BY <1>0 DEF Frame
  <2>2. pc' \in [Events -> Stage] /\ \A f \in Events : f # e => pc'[f] = pc[f]
    BY <2>1 DEF Typed
  <2>3. Typed'
    BY <1>0, <1>1, <2>2 DEF Typed, Frame
  <2>4. Rounds'
    BY <1>0, <1>1, <2>2 DEF Rounds
  <2>5. QED BY <2>3, <2>4
<1>2. CASE Exists(e)
  BY <1>2 DEF Exists, Goto, files, Typed
<1>3. CASE Stat(e)
  <2>1. UNCHANGED <<dir, data, log, fd>>
    BY <1>3 DEF Stat, Needs, Goto, Loop, Done
  <2>2. CASE slot' = slot /\ \E l \in {"open", "over"} : pc' = [pc EXCEPT ![e] = l]
    BY <2>1, <2>2 DEF Typed
  <2>3. CASE Backups = 0 /\ Goto(e, "truncate")
    BY <2>1, <2>3 DEF Goto, Typed
  <2>4. CASE Backups > 0 /\ Loop(e, Backups)
    BY <2>1, <2>4 DEF Loop, Typed
  <2>5. QED BY <1>3, <2>2, <2>3, <2>4 DEF Stat, Needs, Goto, Done
<1>4. CASE Truncate(e)
  <2>1. UNCHANGED <<slot, fd, log>> /\ pc' = [pc EXCEPT ![e] = "open"] /\ OpenPath({})
    BY <1>4 DEF Truncate, Goto
  <2>2. QED BY <2>1, OpenPathTyped DEF Typed
<1>5. CASE Probe(e)
  <2>1. UNCHANGED <<dir, data, log, fd>> /\ slot[e] \in 2..Backups
    BY <1>5 DEF Probe, Goto, Loop, files, Rounds
  <2>2. CASE Loop(e, slot[e] - 1)
    BY <2>1, <2>2 DEF Loop, Typed
  <2>3. CASE Goto(e, "shift")
    BY <2>1, <2>3 DEF Goto, Typed
  <2>4. QED BY <1>5, <2>2, <2>3 DEF Probe
<1>6. CASE Shift(e)
  <2>1. UNCHANGED <<data, log, fd>> /\ slot[e] \in 2..Backups
    BY <1>6 DEF Shift, Needs, Loop, Done, Rounds
  <2>2. CASE Rename(slot[e] - 1, slot[e]) /\ Loop(e, slot[e] - 1)
    <3>1. slot[e] - 1 \in Slots /\ slot[e] \in Slots
      BY <2>1
    <3>2. dir' \in [Slots -> Inodes \cup {None}]
      BY <3>1, <2>2 DEF Rename, Typed
    <3>3. QED BY <2>1, <2>2, <3>2 DEF Loop, Typed
  <2>3. CASE Done(e, FALSE) /\ UNCHANGED dir
    BY <2>1, <2>3 DEF Done, Typed
  <2>4. QED BY <1>6, <2>2, <2>3 DEF Shift, Needs
<1>7. CASE Move(e)
  <2>1. UNCHANGED <<data, log, fd, slot>> /\ 1 \in Slots
    BY <1>7 DEF Move, Needs, Goto, Done, Rounds
  <2>2. CASE Rename(0, 1) /\ Goto(e, "open")
    <3>1. dir' \in [Slots -> Inodes \cup {None}]
      BY <2>1, <2>2 DEF Rename, Typed
    <3>2. QED BY <2>1, <2>2, <3>1 DEF Goto, Typed
  <2>3. CASE Done(e, FALSE) /\ UNCHANGED dir
    BY <2>1, <2>3 DEF Done, Typed
  <2>4. QED BY <1>7, <2>2, <2>3 DEF Move, Needs
<1>8. CASE Open(e)
  <2>1. CASE Done(e, FALSE) /\ UNCHANGED files
    BY <2>1, <1>8 DEF Open, Done, files, Typed
  <2>2. CASE OpenPath(Lines(0)) /\ pc' = [pc EXCEPT ![e] = "write"] /\ fd' = [fd EXCEPT ![e] = Current]
             /\ UNCHANGED slot
    BY <2>2, <1>8, OpenPathTyped, LinesTyped, CurrentIs DEF Open, Typed
  <2>3. QED BY <1>8, <2>1, <2>2 DEF Open
<1>9. CASE Write(e)
  <2>1. UNCHANGED <<dir, slot, fd>> /\ pc' = [pc EXCEPT ![e] = "over"]
    BY <1>9 DEF Write, Done
  <2>2. CASE UNCHANGED <<data, log>>
    BY <2>1, <2>2 DEF Typed
  <2>3. CASE data' = [data EXCEPT ![fd[e]] = @ \cup {e}] /\ log' = Append(log, e)
    <3>1. data' \in [Inodes -> SUBSET Events]
      BY <2>3 DEF Typed
    <3>2. QED BY <2>1, <2>3, <3>1, WrittenGrows DEF Typed
  <2>4. QED BY <1>9, <2>2, <2>3 DEF Write
<1>10. QED BY <1>2, <1>3, <1>4, <1>5, <1>6, <1>7, <1>8, <1>9 DEF AppendLine

(* The queue, the answers and the turns do not depend on where append_line *)
(* is.                                                                     *)
LEMMA AppendTurns ==
  ASSUME AuditInv, NEW e \in Events, AppendLine(e)
  PROVE  Lined' /\ Told' /\ (Alone => Turns')
<1>1. /\ Typed /\ Running(e) /\ Frame(e) /\ UNCHANGED <<up, queue>>
      /\ setup' = setup /\ Required' = Required
  BY AppendFrame, SameSetup DEF AuditInv
<1>2. PICK l \in Stage \ {"new", "queued"} : pc' = [pc EXCEPT ![e] = l]
  BY <1>1 DEF Frame
<1>3. pc'[e] = l /\ \A f \in Events : f # e => pc'[f] = pc[f]
  BY <1>1, <1>2 DEF Typed
<1>4. \A f \in Events : Running(f)' => Running(f) /\ (f = e => pc'[e] # "over")
  BY <1>1, <1>3 DEF Running
<1>5. \A f \in Events : pc[f] = "queued" => pc'[f] = "queued"
  BY <1>1, <1>3 DEF Running
<1>6. Lined'
  <2> SUFFICES ASSUME NEW p \in Procs, NEW n \in 1..Len(queue[p]), queue[p][n] # Sentinel
               PROVE  /\ ProcOf[queue[p][n]] = p /\ pc'[queue[p][n]] = "queued"
                      /\ \A m \in 1..Len(queue[p]) : queue[p][m] = queue[p][n] => m = n
    BY <1>1 DEF Lined
  <2>1. queue[p] \in Seq(Events \cup {Sentinel})
    BY <1>1 DEF Typed
  <2>2. queue[p][n] \in Events
    BY <2>1
  <2>3. QED BY <2>2, <1>5 DEF AuditInv, Lined
<1>7. Told'
  <2>1. CASE log' = Append(log, e)
    BY <1>1, <2>1, WrittenGrows DEF AuditInv, Told, Frame
  <2>2. CASE log' # Append(log, e)
    <3>1. Written \subseteq Written'
      <4>1. CASE Write(e)
        <5>1. UNCHANGED log
          BY <2>2, <4>1 DEF Write
        <5>2. QED BY <5>1 DEF Written
      <4>2. CASE ~Write(e)
        <5>1. UNCHANGED log
          BY <4>2 DEF AppendLine, Exists, Stat, Truncate, Probe, Shift, Move, Open
        <5>2. QED BY <5>1 DEF Written
      <4>3. QED BY <4>1, <4>2
    <3>2. QED BY <1>1, <2>2, <3>1 DEF AuditInv, Told, Frame
  <2>3. QED BY <2>1, <2>2
<1>8. ASSUME Alone PROVE Turns'
  <2>1. Turns
    BY <1>8 DEF AuditInv, AloneInv
  <2>2. \A p \in Procs : Active(p)' <=> Active(p)
    BY <1>1 DEF Active
  <2>3. ASSUME NEW f \in Events, Running(f)' PROVE ProcOf[f] \in Procs /\ (task[ProcOf[f]] = f => task'[ProcOf[f]] = f)
    <3>1. ProcOf[f] \in Procs
      BY AuditAssumption
    <3>2. QED BY <1>1, <1>4, <2>3, <3>1 DEF Frame
  <2>4. QED BY <1>1, <1>4, <2>1, <2>2, <2>3 DEF Turns
<1>9. QED BY <1>6, <1>7, <1>8

(* A step that leaves the files alone, and no append_line is further.      *)
Idle ==
  /\ UNCHANGED <<setup, dir, data, log, slot, fd>> /\ aged \subseteq aged'
  /\ \A e \in Events :
       pc'[e] = pc[e] \/ (pc[e] \in {"new", "queued"} /\ pc'[e] \in {"queued", "exists", "over"})

LEMMA IdleKeepsFiles ==
  ASSUME AuditInv, Idle
  PROVE  Rounds' /\ (Alone => Apart') /\ (Calm => CalmInv')
<1>1. /\ UNCHANGED <<setup, dir, data, log, slot, fd>> /\ aged \subseteq aged'
      /\ Slots' = Slots /\ Inodes' = Inodes /\ Required' = Required /\ MaxLines' = MaxLines
      /\ Backups' = Backups
  BY SameSetup DEF Idle
<1>2. /\ Written' = Written /\ OnDisk' = OnDisk /\ IsFull' = IsFull
      /\ \A k : Lines(k)' = Lines(k)
      /\ \A e : Later(e)' = Later(e)
  BY <1>1 DEF Written, OnDisk, IsFull, Lines, Later
<1>3. \A e \in Events : Rotating(e)' <=> Rotating(e)
  BY DEF Idle, Rotating
<1>4. \A e \in Events : /\ pc'[e] \notin {"new", "queued", "exists", "over"} => pc'[e] = pc[e]
                        /\ pc[e] = "over" => pc'[e] = "over"
  BY DEF Idle
<1>5. Rounds'
  BY <1>1, <1>4 DEF AuditInv, Rounds
<1>6. Alone => Apart'
  BY <1>1, <1>2, <1>4 DEF AuditInv, AloneInv, Apart, Typed
<1>7. ASSUME Calm PROVE Steady' /\ Followed' /\ Kept'
  <2>1. Steady /\ Followed /\ Kept
    BY <1>7 DEF AuditInv, CalmInv
  <2>2. Steady'
    BY <2>1, <1>1, <1>2, <1>3, <1>4 DEF Steady
  <2>3. Followed'
    BY <2>1, <1>1, <1>2, <1>3 DEF Followed
  <2>4. Kept'
    BY <2>1, <1>1, <1>2 DEF Kept
  <2>5. QED BY <2>2, <2>3, <2>4
<1>8. QED BY <1>5, <1>6, <1>7 DEF CalmInv

LEMMA CancelKeeps ==
  ASSUME AuditInv, NEW e \in Events, CancelRecord(e)
  PROVE  AuditInv'
<1>1. /\ UNCHANGED <<setup, dir, data, up, kept, failed, queue, task, pc, slot, fd, log, aged>>
      /\ told' = [told EXCEPT ![e] = "cancelled"]
      /\ Required' = Required /\ Faults' = Faults
      /\ (Alone <=> Alone') /\ (Calm <=> Calm') /\ Slots' = Slots /\ Inodes' = Inodes
  BY SameSetup DEF CancelRecord, files
<1>2. Idle
  BY <1>1 DEF Idle
<1>3. Typed'
  BY <1>1 DEF AuditInv, Typed
<1>4. Lined' /\ Told'
  BY <1>1 DEF AuditInv, Lined, Told, Typed, Written
<1>5. Alone => Turns' /\ Pruning'
  BY <1>1 DEF AuditInv, AloneInv, Turns, Pruning, Active, Running, Lines
<1>6. QED BY <1>1, <1>2, <1>3, <1>4, <1>5, IdleKeepsFiles DEF AuditInv, AloneInv

LEMMA AgeKeeps ==
  ASSUME AuditInv, NEW e \in Events, Age(e)
  PROVE  AuditInv'
<1>1. /\ UNCHANGED <<setup, dir, data, up, kept, failed, queue, task, pc, slot, fd, told, log>>
      /\ aged' = aged \cup {e}
      /\ Required' = Required /\ Faults' = Faults
      /\ (Alone <=> Alone') /\ (Calm <=> Calm') /\ Slots' = Slots /\ Inodes' = Inodes
  BY SameSetup DEF Age, files, own
<1>2. Idle
  BY <1>1 DEF Idle
<1>3. Typed'
  BY <1>1 DEF AuditInv, Typed
<1>4. Lined' /\ Told'
  BY <1>1 DEF AuditInv, Lined, Told, Typed, Written
<1>5. Alone => Turns' /\ Pruning'
  BY <1>1 DEF AuditInv, AloneInv, Turns, Pruning, Active, Running, Lines
<1>6. QED BY <1>1, <1>2, <1>3, <1>4, <1>5, IdleKeepsFiles DEF AuditInv, AloneInv

LEMMA RecordKeeps ==
  ASSUME AuditInv, NEW e \in Events, Record(e)
  PROVE  AuditInv'
<1> DEFINE p == ProcOf[e]
<1>0. p \in Procs /\ e # Sentinel /\ Typed
  BY AuditAssumption DEF AuditInv
<1>1. /\ UNCHANGED <<setup, dir, data, up, kept, failed, task, slot, fd, log, aged>>
      /\ Required' = Required /\ Faults' = Faults
      /\ (Alone <=> Alone') /\ (Calm <=> Calm') /\ Slots' = Slots /\ Inodes' = Inodes
      /\ pc[e] = "new" /\ up[p] \in {"on", "stopping", "stopped"}
  BY SameSetup DEF Record, files, Answer, Goto
<1>2. PICK l \in {"exists", "queued", "over"} : pc' = [pc EXCEPT ![e] = l]
  BY DEF Record, Answer, Goto
<1>3. pc' \in [Events -> Stage] /\ pc'[e] = l /\ \A f \in Events : f # e => pc'[f] = pc[f]
  BY <1>0, <1>2 DEF Typed, Stage
<1>4. told' \in [Events -> {"nothing", "ok", "error", "cancelled"}]
      /\ (Required => \A f \in Events : told'[f] = "ok" => told[f] = "ok")
  BY <1>0 DEF Record, Answer, Goto, Typed
<1>5. l = "exists" => Required /\ up[p] \in {"on", "stopping"}
  BY <1>0, <1>1, <1>2, <1>3 DEF Record, Answer, Goto, Typed
<1>6. Idle
  BY <1>1, <1>3 DEF Idle
<1>7. \/ queue' = queue
      \/ queue' = [queue EXCEPT ![p] = Append(@, e)] /\ l = "queued"
  BY <1>0, <1>2, <1>3 DEF Record, Answer, Typed
<1>8. queue' \in [Procs -> Seq(Events \cup {Sentinel})]
  <2>1. queue[p] \in Seq(Events \cup {Sentinel}) /\ e \in Events \cup {Sentinel}
    BY <1>0 DEF Typed
  <2>2. Append(queue[p], e) \in Seq(Events \cup {Sentinel})
    BY <2>1, AppendProperties
  <2>3. QED BY <1>0, <1>7, <2>2 DEF Typed
<1>9. Typed'
  BY <1>0, <1>1, <1>3, <1>4, <1>8 DEF Typed
<1>10. Lined'
  <2> SUFFICES ASSUME NEW q \in Procs, NEW n \in 1..Len(queue'[q]), queue'[q][n] # Sentinel
               PROVE  /\ ProcOf[queue'[q][n]] = q /\ pc'[queue'[q][n]] = "queued"
                      /\ \A m \in 1..Len(queue'[q]) : queue'[q][m] = queue'[q][n] => m = n
    BY DEF Lined
  <2>1. /\ queue[q] \in Seq(Events \cup {Sentinel})
        /\ \A m \in 1..Len(queue[q]) : queue[q][m] # Sentinel =>
             /\ queue[q][m] \in Events /\ queue[q][m] # e
             /\ ProcOf[queue[q][m]] = q /\ pc'[queue[q][m]] = "queued"
             /\ \A j \in 1..Len(queue[q]) : queue[q][j] = queue[q][m] => j = m
    <3>1. queue[q] \in Seq(Events \cup {Sentinel})
      BY <1>0 DEF Typed
    <3>2. ASSUME NEW m \in 1..Len(queue[q]), queue[q][m] # Sentinel
          PROVE  /\ queue[q][m] \in Events /\ pc[queue[q][m]] = "queued" /\ ProcOf[queue[q][m]] = q
                 /\ \A j \in 1..Len(queue[q]) : queue[q][j] = queue[q][m] => j = m
      <4>1. queue[q][m] \in Events
        BY <3>1, <3>2
      <4>2. QED BY <3>2, <4>1 DEF AuditInv, Lined
    <3>3. QED BY <3>1, <3>2, <1>1, <1>3
  <2>2. CASE queue'[q] = queue[q]
    BY <2>1, <2>2
  <2>3. CASE queue'[q] # queue[q]
    <3>1. q = p /\ queue'[q] = Append(queue[q], e) /\ l = "queued"
      BY <2>3, <1>0, <1>7 DEF Typed
    <3>2. /\ Len(queue'[q]) = Len(queue[q]) + 1 /\ queue'[q][Len(queue[q]) + 1] = e
          /\ \A m \in 1..Len(queue[q]) : queue'[q][m] = queue[q][m]
          /\ Len(queue[q]) \in Nat
      BY <2>1, <3>1, AppendProperties
    <3>3. CASE n = Len(queue[q]) + 1
      <4>1. \A m \in 1..Len(queue[q]) : queue'[q][m] # e
        BY <2>1, <3>2, <1>0
      <4>2. queue'[q][n] = e /\ ProcOf[e] = q /\ pc'[e] = "queued"
        BY <3>1, <3>2, <3>3, <1>3
      <4>3. \A m \in 1..Len(queue'[q]) : m \in 1..Len(queue[q]) \/ m = n
        BY <3>2, <3>3
      <4>4. QED BY <4>1, <4>2, <4>3
    <3>4. CASE n \in 1..Len(queue[q])
      BY <2>1, <3>2, <3>4
    <3>5. QED BY <3>2, <3>3, <3>4
  <2>4. QED BY <2>2, <2>3
<1>11. Told'
  BY <1>1, <1>4 DEF AuditInv, Told, Written
<1>12. ASSUME Alone PROVE Turns' /\ Pruning'
  <2>1. Turns /\ Pruning
    BY <1>12 DEF AuditInv, AloneInv
  <2>2. \A q \in Procs : Active(q)' <=> Active(q)
    BY <1>1 DEF Active
  <2>3. \A f \in Events : Running(f)' => Running(f) \/ (f = e /\ Required /\ up[p] \in {"on", "stopping"})
    BY <1>3, <1>5 DEF Running
  <2>4. up[p] \in {"on", "stopping"} => Active(p)
    BY DEF Active
  <2>5. Turns'
    BY <1>0, <1>1, <2>1, <2>2, <2>3, <2>4 DEF Turns
  <2>6. Pruning'
    BY <1>1, <2>1 DEF Pruning, Lines
  <2>7. QED BY <2>5, <2>6
<1>13. QED BY <1>1, <1>6, <1>9, <1>10, <1>11, <1>12, IdleKeepsFiles DEF AuditInv, AloneInv

(* What stands in a queue. *)
LEMMA QueueIs ==
  ASSUME AuditInv, NEW p \in Procs
  PROVE  /\ queue[p] \in Seq(Events \cup {Sentinel})
         /\ \A n \in 1..Len(queue[p]) : queue[p][n] # Sentinel =>
              /\ queue[p][n] \in Events /\ ProcOf[queue[p][n]] = p /\ pc[queue[p][n]] = "queued"
              /\ \A m \in 1..Len(queue[p]) : queue[p][m] = queue[p][n] => m = n
<1>1. queue[p] \in Seq(Events \cup {Sentinel})
  BY DEF AuditInv, Typed
<1>2. ASSUME NEW n \in 1..Len(queue[p]), queue[p][n] # Sentinel
      PROVE  /\ queue[p][n] \in Events /\ ProcOf[queue[p][n]] = p /\ pc[queue[p][n]] = "queued"
             /\ \A m \in 1..Len(queue[p]) : queue[p][m] = queue[p][n] => m = n
  <2>1. queue[p][n] \in Events
    BY <1>1, <1>2
  <2>2. QED BY <1>2, <2>1 DEF AuditInv, Lined
<1>3. QED BY <1>1, <1>2

LEMMA CloseKeeps ==
  ASSUME AuditInv, NEW p \in Procs, Close(p), up[p] \in {"on", "stopping"},
         UNCHANGED <<setup, dir, data, kept, failed, log, aged>>,
         task' \in [Procs -> Events \cup {None}], \A q \in Procs : q # p => task'[q] = task[q]
  PROVE  AuditInv'
<1>1. /\ UNCHANGED <<slot, fd, told>> /\ up' = [up EXCEPT ![p] = "stopped"]
      /\ queue' = [queue EXCEPT ![p] = <<>>]
      /\ pc' = [e \in Events |-> IF e \in Lost(p) THEN "over" ELSE pc[e]]
      /\ Required' = Required /\ Faults' = Faults
      /\ (Alone <=> Alone') /\ (Calm <=> Calm') /\ Slots' = Slots /\ Inodes' = Inodes
  BY SameSetup DEF Close
<1>2. \A e \in Events : pc'[e] = pc[e] \/ (pc[e] = "queued" /\ pc'[e] = "over" /\ ProcOf[e] = p)
  BY <1>1 DEF Lost
<1>3. Idle
  BY <1>1, <1>2 DEF Idle
<1>4. Typed'
  <2>1. pc' \in [Events -> Stage]
    BY <1>1 DEF AuditInv, Typed, Stage
  <2>2. queue' \in [Procs -> Seq(Events \cup {Sentinel})]
    BY <1>1, EmptySeq DEF AuditInv, Typed
  <2>3. QED BY <1>1, <2>1, <2>2 DEF AuditInv, Typed
<1>5. Lined'
  <2> SUFFICES ASSUME NEW q \in Procs, NEW n \in 1..Len(queue'[q]), queue'[q][n] # Sentinel
               PROVE  /\ ProcOf[queue'[q][n]] = q /\ pc'[queue'[q][n]] = "queued"
                      /\ \A m \in 1..Len(queue'[q]) : queue'[q][m] = queue'[q][n] => m = n
    BY DEF Lined
  <2>1. q # p /\ queue'[q] = queue[q]
    BY <1>1 DEF AuditInv, Typed
  <2>2. QED BY <2>1, <1>2, QueueIs
<1>6. Told'
  BY <1>1 DEF AuditInv, Told, Written
<1>7. ASSUME Alone PROVE Turns' /\ Pruning'
  <2>1. Turns /\ Pruning
    BY <1>7 DEF AuditInv, AloneInv
  <2>2. up'[p] = "stopped" /\ \A q \in Procs : q # p => up'[q] = up[q]
    BY <1>1 DEF AuditInv, Typed
  <2>3. \A q \in Procs : Active(q)' => Active(q)
    BY <2>2 DEF Active
  <2>4. \A f \in Events : Running(f)' => Running(f)
    BY <1>2 DEF Running
  <2>5. \A f \in Events : ProcOf[f] \in Procs
    BY AuditAssumption
  <2>6. Turns'
    BY <1>1, <2>1, <2>2, <2>3, <2>4, <2>5 DEF Turns
  <2>7. Pruning'
    BY <1>1, <2>1, <2>2 DEF Pruning, Lines
  <2>8. QED BY <2>6, <2>7
<1>8. QED BY <1>1, <1>3, <1>4, <1>5, <1>6, <1>7, IdleKeepsFiles DEF AuditInv, AloneInv

LEMMA StopTimeoutKeeps ==
  ASSUME AuditInv, NEW p \in Procs, StopTimeout(p)
  PROVE  AuditInv'
<1>1. UNCHANGED <<setup, dir, data, kept, failed, log, aged>> /\ Close(p) /\ up[p] \in {"on", "stopping"}
  BY DEF StopTimeout, files
<1>2. task' \in [Procs -> Events \cup {None}] /\ \A q \in Procs : q # p => task'[q] = task[q]
  BY DEF StopTimeout, AuditInv, Typed
<1>3. QED BY <1>1, <1>2, CloseKeeps

LEMMA StopKeeps ==
  ASSUME AuditInv, NEW p \in Procs, Stop(p)
  PROVE  AuditInv'
<1>1. /\ UNCHANGED <<setup, dir, data, kept, failed, task, pc, slot, fd, told, log, aged>>
      /\ up[p] = "on" /\ up' = [up EXCEPT ![p] = "stopping"]
      /\ queue' = [queue EXCEPT ![p] = Append(@, Sentinel)]
      /\ Required' = Required /\ Faults' = Faults
      /\ (Alone <=> Alone') /\ (Calm <=> Calm') /\ Slots' = Slots /\ Inodes' = Inodes
  BY SameSetup DEF Stop, files, own
<1>2. Idle
  BY <1>1 DEF Idle
<1>3. Typed'
  <2>1. Append(queue[p], Sentinel) \in Seq(Events \cup {Sentinel})
    <3>1. queue[p] \in Seq(Events \cup {Sentinel}) /\ Sentinel \in Events \cup {Sentinel}
      BY DEF AuditInv, Typed
    <3>2. QED BY <3>1, AppendProperties
  <2>2. queue' \in [Procs -> Seq(Events \cup {Sentinel})]
    BY <1>1, <2>1 DEF AuditInv, Typed
  <2>3. QED BY <1>1, <2>2 DEF AuditInv, Typed
<1>4. Lined'
  <2> SUFFICES ASSUME NEW q \in Procs, NEW n \in 1..Len(queue'[q]), queue'[q][n] # Sentinel
               PROVE  /\ ProcOf[queue'[q][n]] = q /\ pc'[queue'[q][n]] = "queued"
                      /\ \A m \in 1..Len(queue'[q]) : queue'[q][m] = queue'[q][n] => m = n
    BY DEF Lined
  <2>1. CASE q # p
    <3>1. queue'[q] = queue[q] /\ pc' = pc
      BY <2>1, <1>1 DEF AuditInv, Typed
    <3>2. QED BY <3>1, QueueIs
  <2>2. CASE q = p
    <3>1. queue'[q] = Append(queue[q], Sentinel) /\ queue[q] \in Seq(Events \cup {Sentinel}) /\ pc' = pc
      BY <2>2, <1>1 DEF AuditInv, Typed
    <3>2. /\ Len(queue'[q]) = Len(queue[q]) + 1 /\ queue'[q][Len(queue[q]) + 1] = Sentinel
          /\ \A m \in 1..Len(queue[q]) : queue'[q][m] = queue[q][m]
          /\ Len(queue[q]) \in Nat
      BY <3>1, AppendProperties
    <3>3. n \in 1..Len(queue[q])
      BY <3>2
    <3>4. \A m \in 1..Len(queue'[q]) : m \in 1..Len(queue[q]) \/ queue'[q][m] = Sentinel
      BY <3>2
    <3>5. QED BY <3>1, <3>2, <3>3, <3>4, QueueIs
  <2>3. QED BY <2>1, <2>2
<1>5. Told'
  BY <1>1 DEF AuditInv, Told, Written
<1>6. ASSUME Alone PROVE Turns' /\ Pruning'
  <2>1. Turns /\ Pruning
    BY <1>6 DEF AuditInv, AloneInv
  <2>2. up'[p] = "stopping" /\ \A q \in Procs : q # p => up'[q] = up[q]
    BY <1>1 DEF AuditInv, Typed
  <2>3. \A q \in Procs : Active(q)' => Active(q)
    BY <1>1, <2>2 DEF Active
  <2>4. \A f \in Events : (Running(f)' <=> Running(f)) /\ ProcOf[f] \in Procs
    BY <1>1, AuditAssumption DEF Running
  <2>5. Turns'
    BY <1>1, <2>1, <2>2, <2>3, <2>4 DEF Turns
  <2>6. Pruning'
    BY <1>1, <2>1, <2>2 DEF Pruning, Lines
  <2>7. QED BY <2>5, <2>6
<1>7. QED BY <1>1, <1>2, <1>3, <1>4, <1>5, <1>6, IdleKeepsFiles DEF AuditInv, AloneInv

LEMMA DrainKeeps ==
  ASSUME AuditInv, NEW p \in Procs, Drain(p)
  PROVE  AuditInv'
<1> DEFINE e == Head(queue[p])
<1>1. /\ UNCHANGED <<setup, dir, data, kept, failed, log, aged>>
      /\ up[p] \in {"on", "stopping"} /\ task[p] = None /\ queue[p] # <<>>
  BY DEF Drain, files
<1>2. CASE e = Sentinel
  BY <1>1, <1>2, CloseKeeps DEF Drain, AuditInv, Typed
<1>3. CASE e # Sentinel
  <2>1. /\ task' = [task EXCEPT ![p] = e] /\ queue' = [queue EXCEPT ![p] = Tail(@)]
        /\ pc' = [pc EXCEPT ![e] = "exists"] /\ UNCHANGED <<up, slot, fd, told>>
        /\ Required' = Required /\ Faults' = Faults
        /\ (Alone <=> Alone') /\ (Calm <=> Calm') /\ Slots' = Slots /\ Inodes' = Inodes
    BY <1>1, <1>3, SameSetup DEF Drain, Goto
  <2>2. /\ queue[p] \in Seq(Events \cup {Sentinel}) /\ Len(queue[p]) \in Nat \ {0} /\ e = queue[p][1]
        /\ 1 \in 1..Len(queue[p])
    BY <1>1, QueueIs
  <2>3. /\ e \in Events /\ ProcOf[e] = p /\ pc[e] = "queued"
        /\ \A m \in 1..Len(queue[p]) : queue[p][m] = e => m = 1
    BY <1>3, <2>2, QueueIs
  <2> HIDE DEF e
  <2>4. pc' \in [Events -> Stage] /\ pc'[e] = "exists" /\ \A f \in Events : f # e => pc'[f] = pc[f]
    BY <2>1, <2>3 DEF AuditInv, Typed, Stage
  <2>5. Idle
    BY <1>1, <2>1, <2>3, <2>4 DEF Idle
  <2>6. /\ Tail(queue[p]) \in Seq(Events \cup {Sentinel}) /\ Len(Tail(queue[p])) = Len(queue[p]) - 1
        /\ \A n \in 1..(Len(queue[p]) - 1) : Tail(queue[p])[n] = queue[p][n + 1]
    BY <1>1, <2>2, HeadTailProperties
  <2>7. Typed'
    <3>1. queue' \in [Procs -> Seq(Events \cup {Sentinel})]
      BY <2>1, <2>6 DEF AuditInv, Typed
    <3>2. QED BY <1>1, <2>1, <2>3, <2>4, <3>1 DEF AuditInv, Typed
  <2>8. Lined'
    <3> SUFFICES ASSUME NEW q \in Procs, NEW n \in 1..Len(queue'[q]), queue'[q][n] # Sentinel
                 PROVE  /\ ProcOf[queue'[q][n]] = q /\ pc'[queue'[q][n]] = "queued"
                        /\ \A m \in 1..Len(queue'[q]) : queue'[q][m] = queue'[q][n] => m = n
      BY DEF Lined
    <3>1. CASE q # p
      <4>1. queue'[q] = queue[q]
        BY <2>1, <3>1 DEF AuditInv, Typed
      <4>2. QED BY <2>3, <2>4, <3>1, <4>1, QueueIs
    <3>2. CASE q = p
      <4>1. queue'[q] = Tail(queue[p])
        BY <2>1, <3>2 DEF AuditInv, Typed
      <4>2. \A m \in 1..Len(queue'[q]) : m + 1 \in 1..Len(queue[p]) /\ queue'[q][m] = queue[p][m + 1]
        BY <2>2, <2>6, <4>1
      <4>3. /\ queue[p][n + 1] \in Events /\ ProcOf[queue[p][n + 1]] = p /\ pc[queue[p][n + 1]] = "queued"
            /\ \A m \in 1..Len(queue[p]) : queue[p][m] = queue[p][n + 1] => m = n + 1
        BY <4>2, QueueIs
      <4>4. queue[p][n + 1] # e
        BY <2>3, <4>2
      <4>5. \A m \in 1..Len(queue'[q]) : queue'[q][m] = queue'[q][n] => m = n
        BY <2>2, <2>6, <4>1, <4>2, <4>3
      <4>6. QED BY <2>4, <3>2, <4>2, <4>3, <4>4, <4>5
    <3>3. QED BY <3>1, <3>2
  <2>9. Told'
    BY <1>1, <2>1 DEF AuditInv, Told, Written
  <2>10. ASSUME Alone PROVE Turns' /\ Pruning'
    <3>1. Turns /\ Pruning
      BY <2>10 DEF AuditInv, AloneInv
    <3>2. \A q \in Procs : Active(q)' <=> Active(q)
      BY <2>1 DEF Active
    <3>3. \A f \in Events : (Running(f)' => Running(f) \/ f = e) /\ ProcOf[f] \in Procs
      BY <2>4, AuditAssumption DEF Running
    <3>4. task'[p] = e /\ Active(p) /\ \A q \in Procs : q # p => task'[q] = task[q]
      BY <1>1, <2>1, <2>3 DEF Active, AuditInv, Typed
    <3>5. \A f \in Events : Running(f) => ProcOf[f] = p /\ Required
      BY <1>1, <3>1, <3>4, AuditAssumption DEF Turns
    <3>6. Turns'
      BY <1>1, <2>1, <2>3, <3>1, <3>2, <3>3, <3>4, <3>5 DEF Turns
    <3>7. Pruning'
      BY <1>1, <2>1, <3>1 DEF Pruning, Lines
    <3>8. QED BY <3>6, <3>7
  <2>11. QED BY <1>1, <2>1, <2>5, <2>7, <2>8, <2>9, <2>10, IdleKeepsFiles DEF AuditInv, AloneInv
<1>4. QED BY <1>2, <1>3

LEMMA PruneReadKeeps ==
  ASSUME AuditInv, NEW p \in Procs, PruneRead(p)
  PROVE  AuditInv'
<1>1. /\ UNCHANGED <<setup, dir, data, failed, queue, task, pc, slot, fd, told, log, aged>>
      /\ up[p] = "prune" /\ kept' = [kept EXCEPT ![p] = Lines(0) \ aged]
      /\ up' = [up EXCEPT ![p] = IF Lines(0) \cap aged = {} THEN "on" ELSE "rewrite"]
      /\ Required' = Required /\ Faults' = Faults
      /\ (Alone <=> Alone') /\ (Calm <=> Calm') /\ Slots' = Slots /\ Inodes' = Inodes
  BY SameSetup DEF PruneRead, files, own
<1>2. Idle
  BY <1>1 DEF Idle
<1>3. Typed'
  <2>1. Lines(0) \in SUBSET Events
    BY LinesTyped, SetupIs DEF AuditInv
  <2>2. QED BY <1>1, <2>1 DEF AuditInv, Typed
<1>4. Lined' /\ Told'
  BY <1>1 DEF AuditInv, Lined, Told, Written
<1>5. ASSUME Alone PROVE Turns' /\ Pruning'
  <2>1. Turns /\ Pruning
    BY <1>5 DEF AuditInv, AloneInv
  <2>2. up'[p] \in {"on", "rewrite"} /\ \A q \in Procs : q # p => up'[q] = up[q] /\ kept'[q] = kept[q]
    BY <1>1 DEF AuditInv, Typed
  <2>3. \A q \in Procs : Active(q)' => Active(q)
    BY <1>1, <2>2 DEF Active
  <2>4. \A f \in Events : (Running(f)' <=> Running(f)) /\ ProcOf[f] \in Procs
    BY <1>1, AuditAssumption DEF Running
  <2>5. \A f \in Events : Running(f) => ProcOf[f] # p
    BY <1>1, <2>1 DEF Turns
  <2>6. Turns'
    BY <1>1, <2>1, <2>2, <2>3, <2>4, <2>5 DEF Turns
  <2>7. up'[p] = "rewrite" => dir[0] # None
    BY <1>1 DEF Lines, AuditInv, Typed
  <2>8. kept'[p] = Lines(0) \ aged
    BY <1>1 DEF AuditInv, Typed
  <2>9. Lines(0)' = Lines(0)
    BY <1>1 DEF Lines
  <2>10. Pruning'
    BY <1>1, <2>1, <2>2, <2>7, <2>8, <2>9 DEF Pruning
  <2>11. QED BY <2>6, <2>10
<1>6. QED BY <1>1, <1>2, <1>3, <1>4, <1>5, IdleKeepsFiles DEF AuditInv, AloneInv

-----------------------------------------------------------------------------
(* Opening path with lines of the current file, S, leaves the backups.     *)
Opened(S) ==
  /\ dir'[0] # None /\ (dir[0] # None => dir'[0] = dir[0])
  /\ \A k \in Slots \ {0} : dir'[k] = dir[k] /\ Lines(k)' = Lines(k)
  /\ Lines(0)' = S
  /\ \A i \in Inodes : data'[i] \subseteq data[i]
  /\ \A j, k \in Slots : dir'[j] = dir'[k] => j = k \/ dir'[k] = None

LEMMA OpenPathOpens ==
  ASSUME AuditInv, Alone, NEW S \in SUBSET Lines(0), OpenPath(S)
  PROVE  Opened(S)
<1>1. Typed /\ Apart /\ 0 \in Slots
  BY SetupIs DEF AuditInv, AloneInv
<1>2. /\ Current \in Inodes /\ Current # None
      /\ dir[0] = None => Current \notin Used
      /\ dir[0] # None => Current = dir[0]
  BY <1>1, CurrentIs
<1>3. dir' = [dir EXCEPT ![0] = Current] /\ data' = [data EXCEPT ![Current] = S]
  BY DEF OpenPath
<1>4. /\ dir'[0] = Current /\ \A k \in Slots \ {0} : dir'[k] = dir[k]
      /\ data'[Current] = S /\ \A i \in Inodes : i # Current => data'[i] = data[i]
  BY <1>1, <1>2, <1>3 DEF Typed
<1>5. \A k \in Slots \ {0} : dir[k] # Current
  <2>1. CASE dir[0] = None
    BY <2>1, <1>2 DEF Used
  <2>2. CASE dir[0] # None
    BY <2>2, <1>1, <1>2 DEF Apart
  <2>3. QED BY <2>1, <2>2
<1>6. S \subseteq data[Current]
  <2>1. CASE dir[0] = None
    BY <2>1 DEF Lines
  <2>2. CASE dir[0] # None
    BY <2>2, <1>2 DEF Lines
  <2>3. QED BY <2>1, <2>2
<1>7. ASSUME NEW k \in Slots \ {0} PROVE Lines(k)' = Lines(k)
  <2>1. dir'[k] = dir[k] /\ dir[k] \in Inodes \cup {None} /\ dir[k] # Current
    BY <1>1, <1>4, <1>5 DEF Typed
  <2>2. QED BY <2>1, <1>4 DEF Lines
<1>8. Lines(0)' = S
  BY <1>2, <1>4 DEF Lines
<1>9. \A i \in Inodes : data'[i] \subseteq data[i]
  BY <1>4, <1>6
<1>10. \A j, k \in Slots : dir'[j] = dir'[k] => j = k \/ dir'[k] = None
  BY <1>1, <1>4, <1>5 DEF Apart
<1>11. QED BY <1>2, <1>4, <1>7, <1>8, <1>9, <1>10 DEF Opened

LEMMA OpenedApart ==
  ASSUME AuditInv, Alone, NEW S, Opened(S), setup' = setup, log' = log,
         \A e \in Events : pc[e] = "over" => pc'[e] = "over"
  PROVE  Apart'
<1>1. Slots' = Slots /\ Inodes' = Inodes /\ Written' = Written /\ Apart /\ Typed
  BY SameSetup DEF Written, AuditInv, AloneInv
<1>2. QED BY <1>1 DEF Apart, Opened, Typed

LEMMA OpenedKept ==
  ASSUME AuditInv, Calm, NEW S, Opened(S), UNCHANGED <<setup, log, slot>>, aged' = aged,
         S \subseteq Lines(0), Lines(0) \ S \subseteq aged,
         \A r \in Events : Rotating(r)' <=> Rotating(r)
  PROVE  Followed' /\ Kept'
<1>1. /\ Slots' = Slots /\ MaxLines' = MaxLines /\ Backups' = Backups /\ Written' = Written
      /\ \A e : Later(e)' = Later(e) /\ Later(e) \in Nat
      /\ Typed /\ Followed /\ Kept /\ 0 \in Slots
  BY SameSetup, LaterIs, SetupIs DEF Written, Later, AuditInv, CalmInv
<1>2. \A e : e \in OnDisk => e \in OnDisk' \/ e \in aged
  <2> SUFFICES ASSUME NEW k \in Slots, NEW e \in Lines(k), e \notin aged PROVE e \in OnDisk'
    BY DEF OnDisk
  <2>1. e \in Lines(k)'
    BY DEF Opened
  <2>2. QED BY <2>1, <1>1 DEF OnDisk
<1>3. Kept'
  BY <1>1, <1>2 DEF Kept
<1>4. Cardinality(Lines(0)') <= Cardinality(Lines(0)) /\ Cardinality(Lines(0)) \in Nat
      /\ Cardinality(Lines(0)') \in Nat
  <2>1. Lines(0) \in SUBSET Events
    BY <1>1, LinesTyped
  <2>2. IsFiniteSet(Lines(0))
    BY <2>1, <1>1, SetupIs, FS_Subset
  <2>3. S \in SUBSET Lines(0) /\ Lines(0)' = S
    BY DEF Opened
  <2>4. IsFiniteSet(S) /\ Cardinality(S) <= Cardinality(Lines(0))
    BY <2>2, <2>3, FS_Subset
  <2>5. QED BY <2>2, <2>3, <2>4, FS_CardinalityType
<1>5. Followed'
  <2> SUFFICES ASSUME NEW k \in Slots \ {0}, NEW e \in Lines(k)
               PROVE  /\ Later(e)' >= (k - 1) * MaxLines
                      /\ \A r \in Events : Rotating(r)' /\ k <= slot'[r] => Later(e)' >= k * MaxLines
                      /\ \/ \E r \in Events : Rotating(r)'
                         \/ Later(e)' >= (k - 1) * MaxLines + Cardinality(Lines(0)')
    BY <1>1 DEF Followed, Opened
  <2>1. /\ Later(e) >= (k - 1) * MaxLines
        /\ \A r \in Events : Rotating(r) /\ k <= slot[r] => Later(e) >= k * MaxLines
        /\ \/ \E r \in Events : Rotating(r)
           \/ Later(e) >= (k - 1) * MaxLines + Cardinality(Lines(0))
    BY <1>1 DEF Followed
  <2>2. (k - 1) * MaxLines \in Int /\ Later(e)' = Later(e) /\ Later(e) \in Nat
    BY <1>1, SetupIs
  <2>3. QED BY <1>4, <2>1, <2>2
<1>6. QED BY <1>3, <1>5

LEMMA StartKeeps ==
  ASSUME AuditInv, NEW p \in Procs, Start(p)
  PROVE  AuditInv'
<1>1. /\ UNCHANGED <<setup, kept, queue, task, pc, slot, fd, told, log, aged>>
      /\ up[p] = "off" /\ up' = [up EXCEPT ![p] = "prune"]
      /\ failed' = [failed EXCEPT ![p] = FALSE] /\ OpenPath(Lines(0))
      /\ Required' = Required /\ Faults' = Faults /\ Backups' = Backups
      /\ (Alone <=> Alone') /\ (Calm <=> Calm') /\ Slots' = Slots /\ Inodes' = Inodes
  BY SameSetup DEF Start, own
<1>2. Typed /\ Lines(0) \in SUBSET Events /\ 0 \in Slots
  BY LinesTyped, SetupIs DEF AuditInv
<1>3. Typed'
  BY <1>1, <1>2, OpenPathTyped DEF Typed
<1>4. Lined' /\ Told' /\ Rounds'
  BY <1>1 DEF AuditInv, Lined, Told, Written, Rounds
<1>5. ASSUME Alone
      PROVE  /\ \A e \in Events : ~Running(e) /\ ~Running(e)'
             /\ \A q \in Procs : Active(q)' => q = p
             /\ Opened(Lines(0))
  <2>1. Quiet /\ \A e \in Events : ~Running(e)
    BY <1>5 DEF Start, Alone
  <2>2. \A q \in Procs : Active(q)' => q = p
    BY <1>1, <1>2, <2>1 DEF Quiet, Active, Typed
  <2>3. QED BY <1>1, <1>2, <1>5, <2>1, <2>2, OpenPathOpens DEF Running
<1>6. ASSUME Alone PROVE AloneInv'
  <2>1. Apart'
    BY <1>1, <1>5, <1>6, OpenedApart
  <2>2. Turns'
    BY <1>5, <1>6 DEF Turns
  <2>3. \A q \in Procs : up'[q] # "rewrite"
    BY <1>1, <1>2, <1>5, <1>6 DEF Active, Typed
  <2>4. QED BY <2>1, <2>2, <2>3 DEF AloneInv, Pruning
<1>7. ASSUME Calm PROVE CalmInv'
  <2>1. Alone
    BY <1>7 DEF Calm
  <2>2. \A e \in Events : pc'[e] \in {"new", "queued", "over"}
    BY <1>5, <2>1 DEF Running
  <2>3. Steady'
    BY <2>2 DEF Steady, Rotating
  <2>4. Followed' /\ Kept'
    BY <1>1, <1>5, <1>7, <2>1, OpenedKept DEF Rotating
  <2>5. QED BY <2>3, <2>4 DEF CalmInv
<1>8. (\A q \in Procs : ~failed[q]) => \A q \in Procs : ~failed'[q]
  BY <1>1, <1>2 DEF Typed
<1>9. QED BY <1>1, <1>3, <1>4, <1>6, <1>7, <1>8 DEF AuditInv

LEMMA PruneRewriteKeeps ==
  ASSUME AuditInv, NEW p \in Procs, PruneRewrite(p)
  PROVE  AuditInv'
<1>1. /\ UNCHANGED <<setup, kept, failed, queue, task, pc, slot, fd, told, log, aged>>
      /\ up[p] = "rewrite" /\ up' = [up EXCEPT ![p] = "on"] /\ OpenPath(kept[p])
      /\ Required' = Required /\ Faults' = Faults /\ Backups' = Backups
      /\ (Alone <=> Alone') /\ (Calm <=> Calm') /\ Slots' = Slots /\ Inodes' = Inodes
  BY SameSetup DEF PruneRewrite, own
<1>2. Typed /\ kept[p] \in SUBSET Events
  BY DEF AuditInv, Typed
<1>3. Typed'
  BY <1>1, <1>2, OpenPathTyped DEF Typed
<1>4. Lined' /\ Told' /\ Rounds'
  BY <1>1 DEF AuditInv, Lined, Told, Written, Rounds
<1>5. ASSUME Alone
      PROVE  /\ \A e \in Events : ~Running(e) /\ ~Running(e)'
             /\ \A q \in Procs : Active(q)' => q = p
             /\ kept[p] \subseteq Lines(0) /\ Lines(0) \ kept[p] \subseteq aged
             /\ Opened(kept[p])
  <2>1. Turns /\ Pruning
    BY <1>5 DEF AuditInv, AloneInv
  <2>2. kept[p] \in SUBSET Lines(0) /\ Lines(0) \ kept[p] \subseteq aged
    BY <1>1, <2>1 DEF Pruning
  <2>3. Active(p)
    BY <1>1 DEF Active
  <2>4. \A e \in Events : ~Running(e)
    BY <1>1, <2>1, <2>3 DEF Turns
  <2>5. \A q \in Procs : Active(q)' => q = p
    BY <1>1, <1>2, <2>1, <2>3 DEF Active, Typed, Turns
  <2>6. QED BY <1>1, <1>5, <2>2, <2>4, <2>5, OpenPathOpens DEF Running
<1>6. ASSUME Alone PROVE AloneInv'
  <2>1. Apart'
    BY <1>1, <1>5, <1>6, OpenedApart
  <2>2. Turns'
    BY <1>5, <1>6 DEF Turns
  <2>3. \A q \in Procs : up'[q] # "rewrite"
    BY <1>1, <1>2, <1>5, <1>6 DEF Active, Typed
  <2>4. QED BY <2>1, <2>2, <2>3 DEF AloneInv, Pruning
<1>7. ASSUME Calm PROVE CalmInv'
  <2>1. Alone
    BY <1>7 DEF Calm
  <2>2. \A e \in Events : pc'[e] \in {"new", "queued", "over"}
    BY <1>5, <2>1 DEF Running
  <2>3. Steady'
    BY <2>2 DEF Steady, Rotating
  <2>4. Followed' /\ Kept'
    BY <1>1, <1>5, <1>7, <2>1, OpenedKept DEF Rotating
  <2>5. QED BY <2>3, <2>4 DEF CalmInv
<1>8. QED BY <1>1, <1>3, <1>4, <1>6, <1>7 DEF AuditInv

-----------------------------------------------------------------------------
(* The steps of append_line.  Each keeps Rest, what the lemmas above leave. *)
Rest ==
  /\ Alone => Apart'
  /\ Calm => CalmInv'
  /\ Calm /\ "disk" \notin Faults => failed' = failed

(* Nothing is pruned while append_line runs, and the drain task runs one.  *)
LEMMA AppendAlone ==
  ASSUME AuditInv, Alone, NEW e \in Events, Running(e)
  PROVE  /\ \A p \in Procs : up[p] # "rewrite"
         /\ ~Required => \A f \in Events : f # e => ~Running(f)
<1>1. Turns
  BY DEF AuditInv, AloneInv
<1>2. \A p \in Procs : up[p] = "rewrite" => Active(p)
  BY DEF Active
<1>3. QED BY <1>1, <1>2 DEF Turns

LEMMA AppendKeeps ==
  ASSUME AuditInv, NEW e \in Events, AppendLine(e), Rest
  PROVE  AuditInv'
<1>1. /\ setup' = setup /\ Running(e) /\ UNCHANGED up
      /\ (Alone <=> Alone') /\ (Calm <=> Calm') /\ Faults' = Faults
  BY AppendFrame, SameSetup DEF AuditInv
<1>2. Typed' /\ Rounds' /\ Lined' /\ Told' /\ (Alone => Turns')
  BY AppendTyped, AppendTurns DEF AuditInv
<1>3. Alone => Pruning'
  BY <1>1, AppendAlone DEF Pruning
<1>4. QED BY <1>1, <1>2, <1>3 DEF AuditInv, AloneInv, Rest

(* A step that leaves the files alone. *)
LEMMA StillFiles ==
  ASSUME AuditInv, UNCHANGED <<setup, dir, data, log, aged>>,
         \A f \in Events : pc[f] = "over" => pc'[f] = "over"
  PROVE  /\ Slots' = Slots /\ Inodes' = Inodes /\ Required' = Required /\ MaxLines' = MaxLines
         /\ Backups' = Backups /\ (IsFull' <=> IsFull) /\ Typed /\ Rounds
         /\ \A k : Lines(k)' = Lines(k)
         /\ \A f : Later(f)' = Later(f) /\ Later(f) \in Nat
         /\ Alone => Apart'
         /\ Calm => Kept'
<1>1. /\ Slots' = Slots /\ Inodes' = Inodes /\ Required' = Required /\ MaxLines' = MaxLines
      /\ Backups' = Backups
  BY SameSetup
<1>2. /\ Written' = Written /\ OnDisk' = OnDisk /\ IsFull' = IsFull
      /\ \A k : Lines(k)' = Lines(k)
      /\ \A f : Later(f)' = Later(f)
  BY <1>1 DEF Written, OnDisk, IsFull, Lines, Later
<1>3. Typed /\ Rounds /\ \A f : Later(f) \in Nat
  BY LaterIs DEF AuditInv
<1>4. Alone => Apart'
  BY <1>1, <1>2, <1>3 DEF AuditInv, AloneInv, Apart, Typed
<1>5. Calm => Kept'
  BY <1>1, <1>2 DEF AuditInv, CalmInv, Kept
<1>6. QED BY <1>1, <1>2, <1>3, <1>4, <1>5

(* ... and that takes no rotation back. *)
LEMMA StillFollowed ==
  ASSUME AuditInv, Calm, UNCHANGED <<setup, dir, data, log, aged>>,
         \A f \in Events : pc[f] = "over" => pc'[f] = "over",
         \A r \in Events : Rotating(r)' => Rotating(r) /\ slot'[r] \in Nat /\ slot'[r] <= slot[r],
         (\E r \in Events : Rotating(r)) => \E r \in Events : Rotating(r)'
  PROVE  Followed'
<1>1. /\ Slots' = Slots /\ MaxLines' = MaxLines /\ \A k : Lines(k)' = Lines(k)
      /\ \A f : Later(f)' = Later(f) /\ Later(f) \in Nat
      /\ Typed /\ Followed
  BY StillFiles DEF AuditInv, CalmInv
<1>2. ASSUME NEW k \in Slots \ {0}, NEW r \in Events, Rotating(r)', k <= slot'[r] PROVE k <= slot[r]
  BY <1>1, <1>2, SetupIs DEF Typed
<1>3. QED BY <1>1, <1>2 DEF Followed

LEMMA ExistsKeeps ==
  ASSUME AuditInv, NEW e \in Events, AppendLine(e), Exists(e)
  PROVE  Rest
<1>1. /\ UNCHANGED <<setup, dir, data, log, aged, slot, fd, failed>> /\ pc[e] = "exists"
      /\ pc' = [pc EXCEPT ![e] = IF dir[0] = None THEN "open" ELSE "stat"]
  BY DEF Exists, AppendLine, Goto, files
<1>2. /\ pc'[e] \in {"open", "stat"} /\ (pc'[e] = "stat" => dir[0] # None)
      /\ \A f \in Events : f # e => pc'[f] = pc[f]
  BY <1>1 DEF AuditInv, Typed
<1>3. \A f \in Events : pc[f] = "over" => pc'[f] = "over"
  BY <1>1, <1>2
<1>4. \A r \in Events : Rotating(r)' <=> Rotating(r)
  BY <1>1, <1>2 DEF Rotating
<1>5. ASSUME Calm PROVE Steady' /\ Followed'
  <2>1. Steady /\ Typed
    BY <1>5 DEF AuditInv, CalmInv
  <2>2. Steady'
    BY <1>1, <1>2, <1>3, <1>4, <2>1, StillFiles DEF Steady
  <2>3. Followed'
    BY <1>1, <1>3, <1>4, <1>5, <2>1, StillFollowed DEF Typed
  <2>4. QED BY <2>2, <2>3
<1>6. QED BY <1>1, <1>3, <1>5, StillFiles DEF Rest, CalmInv

LEMMA ProbeKeeps ==
  ASSUME AuditInv, NEW e \in Events, AppendLine(e), Probe(e)
  PROVE  Rest
<1>1. UNCHANGED <<setup, dir, data, log, aged, fd, failed>> /\ pc[e] = "probe"
  BY DEF Probe, AppendLine, Goto, Loop, files
<1>2. slot[e] \in 2..Backups /\ Backups \in Nat /\ Typed
  BY <1>1, SetupIs DEF AuditInv, Rounds
<1>3. /\ \A f \in Events : f # e => pc'[f] = pc[f] /\ slot'[f] = slot[f]
      /\ \/ pc'[e] = "shift" /\ slot'[e] = slot[e] /\ dir[slot[e] - 1] # None
         \/ pc'[e] \in {"probe", "move"} /\ slot'[e] = slot[e] - 1 /\ dir[slot[e] - 1] = None
  <2>1. CASE dir[slot[e] - 1] = None
    BY <2>1, <1>2 DEF Probe, Loop, Typed
  <2>2. CASE dir[slot[e] - 1] # None
    BY <2>2, <1>2 DEF Probe, Goto, Typed
  <2>3. QED BY <2>1, <2>2
<1>4. \A f \in Events : pc[f] = "over" => pc'[f] = "over"
  BY <1>1, <1>3
<1>5. \A r \in Events : (Rotating(r)' <=> Rotating(r)) /\ slot'[r] \in Nat /\ slot'[r] <= slot[r]
  BY <1>1, <1>2, <1>3 DEF Rotating, Typed
<1>6. ASSUME Calm PROVE Steady' /\ Followed'
  <2>1. Steady /\ Typed
    BY <1>6 DEF AuditInv, CalmInv
  <2>2. Steady'
    BY <1>1, <1>2, <1>3, <1>4, <1>5, <2>1, StillFiles DEF Steady
  <2>3. Followed'
    BY <1>1, <1>4, <1>5, <1>6, StillFollowed
  <2>4. QED BY <2>2, <2>3
<1>7. QED BY <1>1, <1>4, <1>6, StillFiles DEF Rest, CalmInv

(* A call that fails: on a quiet disk there is none. *)
LEMMA FailKeeps ==
  ASSUME AuditInv, NEW e \in Events, UNCHANGED <<setup, dir, data, log, aged>>, Done(e, FALSE),
         Running(e), Calm => ~Rotating(e) /\ "disk" \in Faults
  PROVE  Rest
<1>1. Typed /\ pc' = [pc EXCEPT ![e] = "over"] /\ UNCHANGED <<slot, fd>>
  BY DEF Done, AuditInv
<1>2. pc'[e] = "over" /\ \A f \in Events : f # e => pc'[f] = pc[f]
  BY <1>1 DEF Typed
<1>3. \A f \in Events : pc[f] = "over" => pc'[f] = "over"
  BY <1>2
<1>4. ASSUME Calm PROVE Steady' /\ Followed'
  <2>1. Steady
    BY <1>4 DEF AuditInv, CalmInv
  <2>2. \A r \in Events : Rotating(r)' <=> Rotating(r)
    BY <1>2, <1>4 DEF Rotating
  <2>3. Steady'
    BY <1>1, <1>2, <1>3, <2>1, <2>2, StillFiles DEF Steady
  <2>4. Followed'
    BY <1>1, <1>3, <1>4, <2>2, StillFollowed DEF Typed
  <2>5. QED BY <2>3, <2>4
<1>5. QED BY <1>3, <1>4, StillFiles DEF Rest, CalmInv

LEMMA LinesCount ==
  ASSUME Typed
  PROVE  IsFiniteSet(Lines(0)) /\ Cardinality(Lines(0)) \in Nat /\ Lines(0) \in SUBSET Events
<1>1. Lines(0) \in SUBSET Events /\ IsFiniteSet(Events)
  BY LinesTyped, SetupIs
<1>2. IsFiniteSet(Lines(0))
  BY <1>1, FS_Subset
<1>3. QED BY <1>1, <1>2, FS_CardinalityType

(* In required mode a calm log never fills up. *)
LEMMA RequiredIsRoomy ==
  ASSUME AuditInv, Calm, Required, NEW e \in Events, pc[e] # "over"
  PROVE  ~IsFull
<1>1. Typed /\ Apart /\ MaxLines >= Cardinality(Events) /\ MaxLines \in Nat /\ 0 \in Slots
      /\ IsFiniteSet(Events) /\ Cardinality(Events) \in Nat
  BY SetupIs DEF AuditInv, AloneInv, Calm
<1>2. e \notin Lines(0)
  BY <1>1 DEF Lines, Apart, Typed
<1>3. Lines(0) \in SUBSET Events /\ Cardinality(Lines(0)) \in Nat
  BY <1>1, LinesCount
<1>4. Cardinality(Lines(0)) <= Cardinality(Events) /\ (Cardinality(Events) = Cardinality(Lines(0)) => Events = Lines(0))
  BY <1>1, <1>3, FS_Subset
<1>5. QED BY <1>1, <1>2, <1>3, <1>4 DEF IsFull

LEMMA StatKeeps ==
  ASSUME AuditInv, NEW e \in Events, AppendLine(e), Stat(e)
  PROVE  Rest
<1>1. UNCHANGED <<setup, dir, data, log, aged>> /\ pc[e] = "stat" /\ Running(e) /\ ~Rotating(e)
  BY DEF Stat, Needs, Loop, Goto, Done, AppendLine, Running, Rotating
<1>2. Typed /\ MaxLines \in Nat \ {0} /\ Backups \in Nat /\ (Calm => Steady /\ dir[0] # None)
      /\ (Calm => Alone)
  BY <1>1, SetupIs DEF AuditInv, CalmInv, Steady, Calm
<1>3. CASE dir[0] = None
  BY <1>1, <1>2, <1>3, FailKeeps DEF Stat, Needs
<1>4. CASE dir[0] # None
  <2>1. UNCHANGED <<failed, fd>>
    BY <1>4 DEF Stat, Needs, Goto, Loop
  <2>2. CASE Goto(e, "open") \/ (IsFull /\ Backups = 0 /\ Goto(e, "truncate"))
    <3>1. /\ slot' = slot /\ pc'[e] \in {"open", "truncate"} /\ \A f \in Events : f # e => pc'[f] = pc[f]
          /\ pc'[e] = "truncate" => IsFull
      BY <2>2, <1>2 DEF Goto, Typed
    <3>2. \A f \in Events : pc[f] = "over" => pc'[f] = "over"
      BY <1>1, <3>1
    <3>3. \A r \in Events : Rotating(r)' <=> Rotating(r)
      BY <1>1, <3>1 DEF Rotating
    <3>4. ASSUME Calm PROVE Steady' /\ Followed'
      <4>1. Required => pc'[e] # "truncate"
        BY <1>1, <3>1, <3>4, RequiredIsRoomy
      <4>2. Steady'
        BY <1>1, <1>2, <2>1, <3>1, <3>2, <3>3, <3>4, <4>1, StillFiles DEF Steady
      <4>3. Followed'
        BY <1>1, <1>2, <3>1, <3>2, <3>3, <3>4, StillFollowed DEF Typed
      <4>4. QED BY <4>2, <4>3
    <3>5. QED BY <1>1, <2>1, <3>2, <3>4, StillFiles DEF Rest, CalmInv
  <2>3. CASE IsFull /\ Backups > 0 /\ Loop(e, Backups)
    <3>1. /\ pc'[e] \in {"probe", "move"} /\ slot'[e] = Backups
          /\ \A f \in Events : f # e => pc'[f] = pc[f] /\ slot'[f] = slot[f]
      BY <2>3, <1>2 DEF Loop, Typed
    <3>2. \A f \in Events : pc[f] = "over" => pc'[f] = "over"
      BY <1>1, <3>1
    <3>3. Rotating(e)' /\ \A r \in Events : r # e => (Rotating(r)' <=> Rotating(r))
      BY <3>1 DEF Rotating
    <3>4. ASSUME Calm PROVE Steady' /\ Followed'
      <4>1. ~Required
        BY <1>1, <2>3, <3>4, RequiredIsRoomy
      <4>2. \A f \in Events : f # e => ~Running(f) /\ ~Rotating(f)
        BY <1>1, <1>2, <3>4, <4>1, AppendAlone DEF Running, Rotating
      <4>3. Steady'
        BY <1>1, <1>2, <2>1, <2>3, <3>1, <3>2, <3>3, <3>4, <4>1, StillFiles DEF Steady
      <4>4. /\ Slots' = Slots /\ MaxLines' = MaxLines /\ \A k : Lines(k)' = Lines(k)
            /\ \A f : Later(f)' = Later(f) /\ Later(f) \in Nat
            /\ Slots = 0..Backups
        BY <1>1, <1>2, <3>2, StillFiles, SetupIs
      <4>5. ASSUME NEW k \in Slots \ {0}, NEW f \in Lines(k)
            PROVE  Later(f) >= (k - 1) * MaxLines /\ Later(f) >= k * MaxLines
        <5>1. Later(f) >= (k - 1) * MaxLines + Cardinality(Lines(0)) /\ Later(f) >= (k - 1) * MaxLines
          BY <1>1, <3>4, <4>2 DEF AuditInv, CalmInv, Followed
        <5>2. Cardinality(Lines(0)) \in Nat /\ Cardinality(Lines(0)) >= MaxLines
          BY <1>2, <2>3, LinesCount DEF IsFull
        <5>3. (k - 1) * MaxLines + MaxLines = k * MaxLines /\ (k - 1) * MaxLines \in Int
          BY <1>2, <4>4
        <5>4. QED BY <1>2, <4>4, <5>1, <5>2, <5>3
      <4>6. Followed'
        BY <3>3, <4>4, <4>5 DEF Followed
      <4>7. QED BY <4>3, <4>6
    <3>5. QED BY <1>1, <2>1, <3>2, <3>4, StillFiles DEF Rest, CalmInv
  <2>4. QED BY <1>4, <2>2, <2>3 DEF Stat, Needs
<1>5. QED BY <1>3, <1>4

(* A rename moves the lines of one name to another. *)
LEMMA RenameMoves ==
  ASSUME AuditInv, NEW k \in Slots, NEW n \in Slots, k # n, dir[k] # None, Rename(k, n),
         UNCHANGED <<setup, data, log>>, \A f \in Events : pc[f] = "over" => pc'[f] = "over"
  PROVE  /\ dir'[k] = None /\ dir'[n] = dir[k] /\ \A j \in Slots \ {k, n} : dir'[j] = dir[j]
         /\ Lines(k)' = {} /\ Lines(n)' = Lines(k) /\ \A j \in Slots \ {k, n} : Lines(j)' = Lines(j)
         /\ \A f : f \in OnDisk => f \in OnDisk' \/ f \in Lines(n)
         /\ Alone => Apart'
<1>1. Typed /\ Slots' = Slots /\ Inodes' = Inodes /\ Written' = Written
  BY SameSetup DEF AuditInv, Written
<1>2. dir'[k] = None /\ dir'[n] = dir[k] /\ \A j \in Slots \ {k, n} : dir'[j] = dir[j]
  BY <1>1 DEF Rename, Typed
<1>3. Lines(k)' = {} /\ Lines(n)' = Lines(k) /\ \A j \in Slots \ {k, n} : Lines(j)' = Lines(j)
  BY <1>2 DEF Lines
<1>4. \A f : f \in OnDisk => f \in OnDisk' \/ f \in Lines(n)
  <2> SUFFICES ASSUME NEW j \in Slots, NEW f \in Lines(j), f \notin Lines(n) PROVE f \in OnDisk'
    BY DEF OnDisk
  <2>1. CASE j = k
    BY <2>1, <1>1, <1>3 DEF OnDisk
  <2>2. CASE j \in Slots \ {k, n}
    BY <2>2, <1>1, <1>3 DEF OnDisk
  <2>3. QED BY <2>1, <2>2
<1>5. Alone => Apart'
  <2>1. Alone => Apart
    BY DEF AuditInv, AloneInv
  <2>2. Alone => \A i, j \in Slots : dir'[i] = dir'[j] => i = j \/ dir'[j] = None
    BY <1>2, <2>1 DEF Apart
  <2>3. QED BY <1>1, <2>1, <2>2 DEF Apart, Typed
<1>6. QED BY <1>2, <1>3, <1>4, <1>5

LEMMA ShiftKeeps ==
  ASSUME AuditInv, NEW e \in Events, AppendLine(e), Shift(e)
  PROVE  Rest
<1>0. PICK i \in Nat : i = slot[e]
  BY DEF AuditInv, Typed
<1>1. UNCHANGED <<setup, data, log, aged, fd>> /\ pc[e] = "shift" /\ Running(e) /\ Rotating(e)
  BY DEF Shift, Needs, Loop, Done, AppendLine, Running, Rotating
<1>2. /\ Typed /\ MaxLines \in Nat \ {0} /\ Backups \in Nat /\ i \in 2..Backups /\ Slots = 0..Backups
      /\ (Calm => Steady /\ Followed /\ Kept /\ Alone /\ ~Required /\ dir[i - 1] # None)
  BY <1>0, <1>1, SetupIs DEF AuditInv, CalmInv, Steady, Calm, Rounds
<1>3. CASE dir[i - 1] = None
  BY <1>0, <1>1, <1>2, <1>3, FailKeeps DEF Shift, Needs
<1>4. CASE dir[i - 1] # None
  <2>1. Rename(i - 1, i) /\ Loop(e, i - 1) /\ UNCHANGED failed
    BY <1>0, <1>4 DEF Shift, Needs
  <2>2. /\ pc'[e] \in {"probe", "move"} /\ slot'[e] = i - 1
        /\ \A f \in Events : f # e => pc'[f] = pc[f] /\ slot'[f] = slot[f]
    BY <2>1, <1>2 DEF Loop, Typed
  <2>3. \A f \in Events : pc[f] = "over" => pc'[f] = "over"
    BY <1>1, <2>2
  <2>4. i - 1 \in Slots /\ i \in Slots /\ i - 1 # i /\ 0 \in Slots \ {i - 1, i} /\ i \in Nat
    BY <1>2
  <2>5. /\ dir'[i - 1] = None /\ \A j \in Slots \ {i - 1, i} : dir'[j] = dir[j]
        /\ Lines(i - 1)' = {} /\ Lines(i)' = Lines(i - 1)
        /\ \A j \in Slots \ {i - 1, i} : Lines(j)' = Lines(j)
        /\ \A f : f \in OnDisk => f \in OnDisk' \/ f \in Lines(i)
        /\ Alone => Apart'
    BY <1>1, <1>4, <2>1, <2>3, <2>4, RenameMoves
  <2>6. ASSUME Calm PROVE CalmInv'
    <3>1. \A f \in Events : f # e => ~Running(f) /\ ~Rotating(f)
      BY <1>1, <1>2, <2>6, AppendAlone DEF Running, Rotating
    <3>2. /\ Slots' = Slots /\ MaxLines' = MaxLines /\ Backups' = Backups /\ Required' = Required
          /\ Written' = Written /\ \A f : Later(f)' = Later(f) /\ Later(f) \in Nat
      BY <1>1, <1>2, SameSetup, LaterIs DEF Written, Later
    <3>3. Rotating(e)' /\ \A f \in Events : f # e => ~Rotating(f)' /\ pc'[f] \in {"new", "queued", "over"}
      BY <2>2, <3>1 DEF Rotating, Running
    <3>4. IsFull'
      <4>1. IsFull
        BY <1>1, <1>2, <2>6 DEF Steady
      <4>2. Lines(0)' = Lines(0)
        BY <2>4, <2>5
      <4>3. QED BY <4>1, <4>2, <3>2 DEF IsFull
    <3>5. dir'[0] # None
      BY <1>1, <1>2, <2>4, <2>5, <2>6 DEF Steady
    <3>6. Steady'
      BY <1>2, <2>2, <2>4, <2>5, <2>6, <3>2, <3>3, <3>4, <3>5 DEF Steady
    <3>7. ASSUME NEW k \in Slots \ {0}, NEW f \in Lines(k)'
          PROVE  /\ Later(f) >= (k - 1) * MaxLines
                 /\ k <= i - 1 => Later(f) >= k * MaxLines
      <4>1. CASE k = i
        <5>1. f \in Lines(i - 1) /\ i - 1 \in Slots \ {0} /\ i - 1 <= slot[e]
          BY <1>0, <2>4, <2>5, <3>7, <4>1, <1>2
        <5>2. Later(f) >= (i - 1) * MaxLines
          BY <1>1, <1>2, <2>6, <5>1 DEF Followed
        <5>3. QED BY <4>1, <5>2, <1>2
      <4>2. CASE k # i
        <5>1. k # i - 1 /\ f \in Lines(k)
          BY <2>5, <3>7, <4>2
        <5>2. Later(f) >= (k - 1) * MaxLines /\ (k <= slot[e] => Later(f) >= k * MaxLines)
          BY <1>1, <1>2, <2>6, <5>1 DEF Followed
        <5>3. QED BY <1>0, <1>2, <5>2
      <4>3. QED BY <4>1, <4>2
    <3>8. Followed'
      BY <2>2, <3>2, <3>3, <3>7 DEF Followed
    <3>9. \A f \in Lines(i) : Later(f) >= Backups * MaxLines
      <4>1. CASE i < Backups
        <5>1. dir[i] = None
          BY <1>0, <1>1, <1>2, <2>6, <4>1 DEF Steady
        <5>2. QED BY <5>1 DEF Lines
      <4>2. CASE i = Backups
        <5>1. i \in Slots \ {0} /\ i <= slot[e]
          BY <1>0, <1>2
        <5>2. \A f \in Lines(i) : Later(f) >= i * MaxLines
          BY <1>1, <1>2, <2>6, <5>1 DEF Followed
        <5>3. QED BY <4>2, <5>2
      <4>3. QED BY <4>1, <4>2, <1>2
    <3>10. Kept'
      BY <1>1, <1>2, <2>5, <2>6, <3>2, <3>9 DEF Kept
    <3>11. QED BY <3>6, <3>8, <3>10 DEF CalmInv
  <2>7. QED BY <2>1, <2>5, <2>6 DEF Rest
<1>5. QED BY <1>3, <1>4

LEMMA MoveKeeps ==
  ASSUME AuditInv, NEW e \in Events, AppendLine(e), Move(e)
  PROVE  Rest
<1>1. UNCHANGED <<setup, data, log, aged, fd, slot>> /\ pc[e] = "move" /\ Running(e) /\ Rotating(e)
  BY DEF Move, Needs, Goto, Done, AppendLine, Running, Rotating
<1>2. /\ Typed /\ MaxLines \in Nat \ {0} /\ Backups \in Nat \ {0} /\ slot[e] = 1 /\ Slots = 0..Backups
      /\ (Calm => Steady /\ Followed /\ Kept /\ Alone /\ ~Required /\ dir[0] # None)
  BY <1>1, SetupIs DEF AuditInv, CalmInv, Steady, Calm, Rounds
<1>3. CASE dir[0] = None
  BY <1>1, <1>2, <1>3, FailKeeps DEF Move, Needs
<1>4. CASE dir[0] # None
  <2>1. Rename(0, 1) /\ Goto(e, "open") /\ UNCHANGED failed
    BY <1>4 DEF Move, Needs
  <2>2. pc'[e] = "open" /\ \A f \in Events : f # e => pc'[f] = pc[f]
    BY <2>1, <1>2 DEF Goto, Typed
  <2>3. \A f \in Events : pc[f] = "over" => pc'[f] = "over"
    BY <1>1, <2>2
  <2>4. 0 \in Slots /\ 1 \in Slots /\ 0 # 1
    BY <1>2
  <2>5. /\ Lines(0)' = {} /\ Lines(1)' = Lines(0)
        /\ \A j \in Slots \ {0, 1} : Lines(j)' = Lines(j)
        /\ \A f : f \in OnDisk => f \in OnDisk' \/ f \in Lines(1)
        /\ Alone => Apart'
    BY <1>1, <1>4, <2>1, <2>3, <2>4, RenameMoves
  <2>6. ASSUME Calm PROVE CalmInv'
    <3>1. \A f \in Events : f # e => ~Running(f) /\ ~Rotating(f)
      BY <1>1, <1>2, <2>6, AppendAlone DEF Running, Rotating
    <3>2. /\ Slots' = Slots /\ MaxLines' = MaxLines /\ Backups' = Backups /\ Required' = Required
          /\ Written' = Written /\ \A f : Later(f)' = Later(f) /\ Later(f) \in Nat
      BY <1>1, <1>2, SameSetup, LaterIs DEF Written, Later
    <3>3. \A f \in Events : ~Rotating(f)' /\ pc'[f] \in {"new", "queued", "open", "over"}
      BY <2>2, <3>1 DEF Rotating, Running
    <3>4. Steady'
      BY <3>3 DEF Steady
    <3>5. ASSUME NEW k \in Slots \ {0}, NEW f \in Lines(k)'
          PROVE  Later(f) >= (k - 1) * MaxLines /\ Later(f) >= (k - 1) * MaxLines + 0
      <4>1. CASE k = 1
        BY <4>1, <1>2, <3>2
      <4>2. CASE k # 1
        <5>1. f \in Lines(k)
          BY <2>5, <3>5, <4>2
        <5>2. Later(f) >= (k - 1) * MaxLines
          BY <1>2, <2>6, <5>1 DEF Followed
        <5>3. (k - 1) * MaxLines \in Int
          BY <1>2
        <5>4. QED BY <5>2, <5>3, <3>2
      <4>3. QED BY <4>1, <4>2
    <3>6. Cardinality(Lines(0)') = 0
      BY <2>5, FS_EmptySet
    <3>7. Followed'
      BY <3>2, <3>3, <3>5, <3>6 DEF Followed
    <3>8. \A f \in Lines(1) : Later(f) >= Backups * MaxLines
      <4>1. CASE 1 < Backups
        <5>1. dir[1] = None
          BY <1>1, <1>2, <2>6, <4>1 DEF Steady
        <5>2. QED BY <5>1 DEF Lines
      <4>2. CASE Backups = 1
        <5>1. 1 \in Slots \ {0} /\ 1 <= slot[e]
          BY <1>2
        <5>2. \A f \in Lines(1) : Later(f) >= 1 * MaxLines
          BY <1>1, <1>2, <2>6, <5>1 DEF Followed
        <5>3. QED BY <4>2, <5>2
      <4>3. QED BY <4>1, <4>2, <1>2
    <3>9. Kept'
      BY <1>1, <1>2, <2>5, <2>6, <3>2, <3>8 DEF Kept
    <3>10. QED BY <3>4, <3>7, <3>9 DEF CalmInv
  <2>7. QED BY <2>1, <2>5, <2>6 DEF Rest
<1>5. QED BY <1>3, <1>4

LEMMA TruncateKeeps ==
  ASSUME AuditInv, NEW e \in Events, AppendLine(e), Truncate(e)
  PROVE  Rest
<1>1. UNCHANGED <<setup, log, aged, fd, slot, failed>> /\ pc[e] = "truncate" /\ Running(e) /\ OpenPath({})
      /\ pc' = [pc EXCEPT ![e] = "open"]
  BY DEF Truncate, Goto, AppendLine, Running
<1>2. /\ Typed /\ Backups = 0 /\ Backups' = 0 /\ Slots' = Slots /\ Slots = {0} /\ MaxLines' \in Nat
      /\ (Calm => Steady /\ Alone /\ ~Required)
  BY <1>1, SetupIs, SameSetup DEF AuditInv, CalmInv, Steady, Calm, Rounds
<1>3. pc'[e] = "open" /\ \A f \in Events : f # e => pc'[f] = pc[f]
  BY <1>1, <1>2 DEF Typed
<1>4. \A f \in Events : pc[f] = "over" => pc'[f] = "over"
  BY <1>1, <1>3
<1>5. Alone => Apart'
  <2>1. {} \in SUBSET Lines(0)
    OBVIOUS
  <2>2. Alone => Opened({})
    BY <1>1, <2>1, OpenPathOpens
  <2>3. QED BY <1>1, <1>4, <2>2, OpenedApart
<1>6. ASSUME Calm PROVE CalmInv'
  <2>1. \A f \in Events : f # e => ~Running(f)
    BY <1>1, <1>2, <1>6, AppendAlone
  <2>2. \A f \in Events : ~Rotating(f)' /\ pc'[f] \in {"new", "queued", "open", "over"}
    BY <1>3, <2>1 DEF Rotating, Running
  <2>3. Steady'
    BY <2>2 DEF Steady
  <2>4. Followed'
    BY <1>2 DEF Followed
  <2>5. \A f : Later(f)' = Later(f) /\ Later(f) \in Nat
    BY <1>1, <1>2, LaterIs DEF Later
  <2>6. \A m \in Nat : 0 * m = 0
    OBVIOUS
  <2>7. Backups' * MaxLines' = 0
    BY <1>2, <2>6
  <2>8. Kept'
    BY <2>5, <2>7 DEF Kept
  <2>9. QED BY <2>3, <2>4, <2>8 DEF CalmInv
<1>7. QED BY <1>1, <1>5, <1>6 DEF Rest

LEMMA OpenKeeps ==
  ASSUME AuditInv, NEW e \in Events, AppendLine(e), Open(e)
  PROVE  Rest
<1>1. UNCHANGED <<setup, log, aged, slot>> /\ pc[e] = "open" /\ Running(e) /\ ~Rotating(e)
  BY DEF Open, Done, AppendLine, Running, Rotating
<1>2. Typed /\ Rounds /\ (Calm => Steady /\ Alone) /\ 0 \in Slots /\ Slots = 0..Backups /\ Backups \in Nat
  BY SetupIs DEF AuditInv, CalmInv, Calm
<1>3. CASE "disk" \in Faults /\ Done(e, FALSE) /\ UNCHANGED files
  BY <1>1, <1>3, FailKeeps DEF files
<1>4. CASE /\ OpenPath(Lines(0)) /\ pc' = [pc EXCEPT ![e] = "write"] /\ fd' = [fd EXCEPT ![e] = Current]
           /\ UNCHANGED failed
  <2>1. /\ pc'[e] = "write" /\ fd'[e] = Current /\ dir'[0] = Current
        /\ \A f \in Events : f # e => pc'[f] = pc[f] /\ fd'[f] = fd[f]
    BY <1>2, <1>4 DEF Typed, OpenPath
  <2>2. \A f \in Events : pc[f] = "over" => pc'[f] = "over"
    BY <1>1, <2>1
  <2>3. Alone => Opened(Lines(0))
    BY <1>4, OpenPathOpens
  <2>4. Alone => Apart'
    BY <1>1, <2>2, <2>3, OpenedApart
  <2>5. ASSUME Calm PROVE CalmInv'
    <3>1. \A r \in Events : Rotating(r)' <=> Rotating(r)
      BY <1>1, <2>1 DEF Rotating
    <3>2. Opened(Lines(0)) /\ Steady
      BY <1>2, <2>3, <2>5
    <3>3. Followed' /\ Kept'
      BY <1>1, <2>5, <3>1, <3>2, OpenedKept
    <3>4. /\ MaxLines' = MaxLines /\ Backups' = Backups /\ Required' = Required /\ (IsFull' <=> IsFull)
      BY <1>1, <3>2, SameSetup DEF IsFull, Opened
    <3>5. ASSUME NEW f \in Events
          PROVE  /\ pc'[f] \in {"stat", "truncate", "probe", "shift", "move"} => dir'[0] # None
                 /\ pc'[f] = "write" => dir'[0] # None /\ fd'[f] = dir'[0]
                 /\ pc'[f] = "shift" => dir'[slot[f] - 1] # None
                 /\ Rotating(f)' => IsFull' /\ (slot[f] < Backups => dir'[slot[f]] = None)
                 /\ Required => ~Rotating(f)' /\ pc'[f] # "truncate"
      <4>1. dir'[0] # None
        BY <3>2 DEF Opened
      <4>2. CASE f = e
        BY <2>1, <4>1, <4>2, <1>1, <3>1
      <4>3. CASE f # e
        <5>1. pc'[f] = pc[f] /\ fd'[f] = fd[f]
          BY <2>1, <4>3
        <5>2. pc[f] = "write" => fd[f] = dir'[0]
          BY <3>2 DEF Steady, Opened
        <5>3. Rotating(f) => slot[f] \in 1..Backups
          BY <1>2 DEF Rounds, Rotating
        <5>4. Rotating(f) /\ slot[f] < Backups => dir'[slot[f]] = None
          <6>1. Rotating(f) => slot[f] \in Slots \ {0}
            BY <1>2, <5>3
          <6>2. QED BY <3>2, <6>1 DEF Steady, Opened
        <5>5. pc[f] = "shift" => dir'[slot[f] - 1] # None
          <6>1. pc[f] = "shift" => slot[f] - 1 \in Slots \ {0}
            BY <1>2 DEF Rounds
          <6>2. QED BY <3>2, <6>1 DEF Steady, Opened
        <5>6. QED BY <3>1, <3>2, <3>4, <4>1, <5>1, <5>2, <5>4, <5>5 DEF Steady
      <4>4. QED BY <4>2, <4>3
    <3>6. Steady'
      BY <1>1, <3>4, <3>5 DEF Steady
    <3>7. QED BY <3>3, <3>6 DEF CalmInv
  <2>6. QED BY <1>4, <2>4, <2>5 DEF Rest
<1>5. QED BY <1>3, <1>4 DEF Open

LEMMA WriteLands ==
  ASSUME AuditInv, NEW e \in Events, pc[e] = "write", pc' = [pc EXCEPT ![e] = "over"],
         UNCHANGED <<setup, dir, aged, slot, fd>>,
         data' = [data EXCEPT ![fd[e]] = @ \cup {e}], log' = Append(log, e)
  PROVE  (Alone => Apart') /\ (Calm => CalmInv')
<1>1. /\ Typed /\ Slots' = Slots /\ Inodes' = Inodes /\ MaxLines' = MaxLines /\ Backups' = Backups
      /\ Required' = Required /\ 0 \in Slots /\ Slots = 0..Backups
      /\ MaxLines \in Nat /\ Backups \in Nat
  BY SetupIs, SameSetup DEF AuditInv
<1>2. pc'[e] = "over" /\ \A f \in Events : f # e => pc'[f] = pc[f]
  BY <1>1 DEF Typed
<1>3. /\ fd[e] \in Inodes /\ data'[fd[e]] = data[fd[e]] \cup {e}
      /\ \A i \in Inodes : i # fd[e] => data'[i] = data[i]
  BY <1>1 DEF Typed
<1>4. /\ Written' = Written \cup {e}
      /\ \A f : Later(f)' \in Nat /\ Later(f)' >= Later(f) /\ Later(f) \in Nat
      /\ \A f \in Written : Later(f)' = Later(f) + 1
  BY <1>1, WrittenGrows, LaterIs
<1>5. ASSUME Alone PROVE Apart'
  <2>1. Apart
    BY <1>5 DEF AuditInv, AloneInv
  <2>2. \A i \in Inodes : e \notin data[i] /\ data[i] \subseteq Events
    BY <1>1, <2>1 DEF Apart, Typed
  <2>3. \A h, i \in Inodes : h # i => data'[h] \cap data'[i] = {}
    BY <1>3, <2>1, <2>2 DEF Apart
  <2>4. \A i \in Inodes : \A f \in data'[i] : pc'[f] = "over" /\ f \in Written'
    BY <1>2, <1>3, <1>4, <2>1, <2>2 DEF Apart
  <2>5. QED BY <1>1, <2>1, <2>3, <2>4 DEF Apart
<1>6. ASSUME Calm PROVE CalmInv'
  <2>1. Alone /\ Steady /\ Followed /\ Kept /\ Apart
    BY <1>6 DEF AuditInv, CalmInv, AloneInv, Calm
  <2>2. dir[0] # None /\ fd[e] = dir[0]
    BY <2>1 DEF Steady
  <2>3. \A f \in Events : ~Rotating(f) /\ ~Rotating(f)'
    <3>1. Running(e)
      BY DEF Running
    <3>2. \A f \in Events : ~Rotating(f)
      <4>1. CASE Required
        BY <2>1, <4>1 DEF Steady
      <4>2. CASE ~Required
        BY <2>1, <3>1, <4>2, AppendAlone DEF Running, Rotating
      <4>3. QED BY <4>1, <4>2
    <3>3. QED BY <1>2, <3>2 DEF Rotating
  <2>4. \A f \in Events : f # e => pc'[f] # "shift"
    BY <2>3 DEF Rotating
  <2>5. Steady'
    BY <1>1, <1>2, <2>1, <2>3, <2>4 DEF Steady
  <2>6. Lines(0)' = Lines(0) \cup {e}
    BY <1>3, <2>2 DEF Lines
  <2>7. \A k \in Slots \ {0} : Lines(k)' = Lines(k)
    <3> SUFFICES ASSUME NEW k \in Slots \ {0} PROVE Lines(k)' = Lines(k)
      OBVIOUS
    <3>1. dir[k] = None \/ (dir[k] \in Inodes /\ dir[k] # fd[e])
      BY <1>1, <2>1, <2>2 DEF Typed, Apart
    <3>2. QED BY <3>1, <1>3 DEF Lines
  <2>8. \A f : f \in OnDisk => f \in OnDisk'
    BY <1>1, <2>6, <2>7 DEF OnDisk
  <2>9. e \in OnDisk'
    BY <1>1, <2>6 DEF OnDisk
  <2>10. Kept'
    <3> SUFFICES ASSUME NEW f \in Written, f \notin OnDisk', f \notin aged
                 PROVE  Later(f)' >= Backups * MaxLines
      BY <1>1, <1>4, <2>9 DEF Kept
    <3>1. Later(f) >= Backups * MaxLines
      BY <2>1, <2>8 DEF Kept
    <3>2. Backups * MaxLines \in Nat
      BY <1>1
    <3>3. QED BY <3>1, <3>2, <1>4
  <2>11. Cardinality(Lines(0)') = Cardinality(Lines(0)) + 1 /\ Cardinality(Lines(0)) \in Nat
    <3>1. e \notin Lines(0)
      BY <1>1, <2>1, <2>2 DEF Lines, Apart, Typed
    <3>2. IsFiniteSet(Lines(0)) /\ Cardinality(Lines(0)) \in Nat
      BY <1>1, LinesCount
    <3>3. Cardinality(Lines(0) \cup {e}) = Cardinality(Lines(0)) + 1
      BY <3>1, <3>2, FS_AddElement
    <3>4. QED BY <2>6, <3>2, <3>3
  <2>12. Followed'
    <3> SUFFICES ASSUME NEW k \in Slots \ {0}, NEW f \in Lines(k)
                 PROVE  /\ Later(f)' >= (k - 1) * MaxLines
                        /\ Later(f)' >= (k - 1) * MaxLines + Cardinality(Lines(0)')
      BY <1>1, <2>3, <2>7 DEF Followed
    <3>1. Later(f) >= (k - 1) * MaxLines /\ Later(f) >= (k - 1) * MaxLines + Cardinality(Lines(0))
      BY <2>1, <2>3 DEF Followed
    <3>2. f \in Written
      BY <1>1, <2>1 DEF Lines, Apart, Typed
    <3>3. (k - 1) * MaxLines \in Int
      BY <1>1
    <3>4. Later(f)' = Later(f) + 1 /\ Later(f) \in Nat
      BY <3>2, <1>4
    <3> DEFINE m == (k - 1) * MaxLines
               a == Later(f)
               b == Later(f)'
               c == Cardinality(Lines(0))
               d == Cardinality(Lines(0)')
    <3>5. m \in Int /\ a \in Nat /\ c \in Nat /\ b = a + 1 /\ d = c + 1 /\ a >= m /\ a >= m + c
      BY <2>11, <3>1, <3>3, <3>4
    <3> HIDE DEF m, a, b, c, d
    <3>6. b >= m /\ b >= m + d
      BY <3>5
    <3>7. QED BY <3>6 DEF m, b, d
  <2>13. QED BY <2>5, <2>10, <2>12 DEF CalmInv
<1>7. QED BY <1>5, <1>6

LEMMA WriteKeeps ==
  ASSUME AuditInv, NEW e \in Events, AppendLine(e), Write(e)
  PROVE  Rest
<1>1. /\ UNCHANGED <<setup, dir, aged, slot, fd>> /\ pc[e] = "write" /\ pc' = [pc EXCEPT ![e] = "over"]
      /\ Running(e) /\ ~Rotating(e)
  BY DEF Write, Done, AppendLine, Running, Rotating
<1>2. CASE data' = [data EXCEPT ![fd[e]] = @ \cup {e}] /\ log' = Append(log, e)
           /\ (Done(e, TRUE) \/ "disk" \in Faults)
  <2>1. Done(e, TRUE) => failed' = failed
    BY <1>1, <1>2, DoneFrame DEF AuditInv
  <2>2. QED BY <1>1, <1>2, <2>1, WriteLands DEF Rest
<1>3. CASE "disk" \in Faults /\ Done(e, FALSE) /\ UNCHANGED <<data, log>>
  BY <1>1, <1>3, FailKeeps
<1>4. QED BY <1>2, <1>3 DEF Write

-----------------------------------------------------------------------------
(* The invariant, and what it says.                                        *)

LEMMA AuditStarts == Init => AuditInv
<1> SUFFICES ASSUME Init PROVE AuditInv
  OBVIOUS
<1>1. IsFiniteSet(Events) /\ setup \in Setups /\ Backups \in Nat /\ 0 \in Inodes
  <2>1. IsFiniteSet(Events) /\ setup \in Setups /\ Backups \in Nat
    BY AuditAssumption DEF Init, Backups
  <2>2. Cardinality(Events) \in Nat
    BY <2>1, FS_CardinalityType
  <2>3. QED BY <2>1, <2>2 DEF Inodes
<1>2. \A p \in Procs : queue[p] = <<>> /\ up[p] = "off" /\ failed[p] = FALSE
  BY DEF Init
<1>3. \A e \in Events : pc[e] = "new" /\ told[e] = "nothing"
  BY DEF Init
<1>4. \A k \in Slots : dir[k] = None /\ Lines(k) = {}
  BY DEF Init, Lines
<1>5. log = <<>> /\ Written = {}
  BY DEF Init, Written
<1>6. Typed
  BY <1>1, <1>5 DEF Init, Typed, Stage
<1>7. Rounds /\ Told
  BY <1>3 DEF Rounds, Told
<1>8. Lined
  BY <1>2 DEF Lined
<1>9. Turns /\ Pruning
  BY <1>2, <1>3 DEF Turns, Pruning, Active, Running
<1>10. Apart
  BY <1>4, <1>5 DEF Init, Apart
<1>11. Steady /\ Followed /\ Kept
  BY <1>3, <1>4, <1>5 DEF Steady, Followed, Kept, Rotating
<1>12. QED BY <1>2, <1>6, <1>7, <1>8, <1>9, <1>10, <1>11 DEF AuditInv, AloneInv, CalmInv

LEMMA StutterKeeps ==
  ASSUME AuditInv, UNCHANGED vars
  PROVE  AuditInv'
<1>1. /\ UNCHANGED <<setup, dir, data, up, kept, failed, queue, task, pc, slot, fd, told, log, aged>>
      /\ Idle
  BY DEF Idle, vars, files, own
<1>2. /\ Required' = Required /\ Faults' = Faults /\ Slots' = Slots /\ Inodes' = Inodes
      /\ (Alone <=> Alone') /\ (Calm <=> Calm')
  BY <1>1, SameSetup
<1>3. Rounds' /\ (Alone => Apart') /\ (Calm => CalmInv')
  BY <1>1, IdleKeepsFiles
<1>4. Typed' /\ Lined' /\ Told'
  BY <1>1, <1>2 DEF AuditInv, Typed, Lined, Told, Written
<1>5. Alone => Turns' /\ Pruning'
  BY <1>1, <1>2 DEF AuditInv, AloneInv, Turns, Pruning, Active, Running, Lines
<1>6. QED BY <1>1, <1>2, <1>3, <1>4, <1>5 DEF AuditInv, AloneInv

LEMMA AuditSteps == AuditInv /\ [Next]_vars => AuditInv'
<1> SUFFICES ASSUME AuditInv, [Next]_vars PROVE AuditInv'
  OBVIOUS
<1>1. ASSUME NEW e \in Events, Record(e) \/ CancelRecord(e) \/ Age(e) PROVE AuditInv'
  BY <1>1, RecordKeeps, CancelKeeps, AgeKeeps
<1>2. ASSUME NEW e \in Events, AppendLine(e) PROVE AuditInv'
  <2>1. Rest
    <3>1. CASE Exists(e) \/ Stat(e) \/ Truncate(e) \/ Open(e)
      BY <1>2, <3>1, ExistsKeeps, StatKeeps, TruncateKeeps, OpenKeeps
    <3>2. CASE Probe(e) \/ Shift(e) \/ Move(e) \/ Write(e)
      BY <1>2, <3>2, ProbeKeeps, ShiftKeeps, MoveKeeps, WriteKeeps
    <3>3. QED BY <1>2, <3>1, <3>2 DEF AppendLine
  <2>2. QED BY <1>2, <2>1, AppendKeeps
<1>3. ASSUME NEW p \in Procs, Start(p) \/ PruneRead(p) \/ PruneRewrite(p) PROVE AuditInv'
  BY <1>3, StartKeeps, PruneReadKeeps, PruneRewriteKeeps
<1>4. ASSUME NEW p \in Procs, Drain(p) \/ Stop(p) \/ StopTimeout(p) PROVE AuditInv'
  BY <1>4, DrainKeeps, StopKeeps, StopTimeoutKeeps
<1>5. QED BY <1>1, <1>2, <1>3, <1>4, StutterKeeps DEF Next

LEMMA AuditInvariant == Spec => []AuditInv
<1>1. QED BY AuditStarts, AuditSteps, PTL DEF Spec

LEMMA RaceIs ==
  ASSUME Typed, ~MayRace
  PROVE  Calm
<1>1. MaxLines \in Nat /\ Cardinality(Events) \in Nat
  BY SetupIs
<1>2. QED BY <1>1 DEF MayRace, Calm, Alone

LEMMA InvariantKeepsLog ==
  ASSUME AuditInv
  PROVE  LogIsKept
<1>1. Typed
  BY DEF AuditInv
<1>2. LostOnlyWhenOld
  <2> SUFFICES ASSUME ~MayRace, NEW e \in Written \cup Acknowledged, e \notin OnDisk
               PROVE  e \in aged \/ Later(e) >= Backups * MaxLines
    BY DEF LostOnlyWhenOld
  <2>1. Kept /\ Told
    BY <1>1, RaceIs DEF AuditInv, CalmInv
  <2>2. e \in Written
    BY <2>1 DEF Told, Acknowledged
  <2>3. QED BY <2>1, <2>2 DEF Kept
<1>3. OneCopy
  <2> SUFFICES ASSUME Alone, NEW e \in Events
               PROVE  Cardinality({k \in Slots : e \in Lines(k)}) <= 1
    BY DEF OneCopy, Alone
  <2> DEFINE P == {k \in Slots : e \in Lines(k)}
  <2>1. \A j, k \in P : j = k
    BY <1>1 DEF AuditInv, AloneInv, Apart, Lines, Typed
  <2>2. CASE P = {}
    BY <2>2, FS_EmptySet
  <2>3. CASE P # {}
    <3>1. PICK k \in P : TRUE
      BY <2>3
    <3>2. P = {k}
      BY <2>1, <3>1
    <3>3. QED BY <3>2, FS_Singleton
  <2>4. QED BY <2>2, <2>3
<1>4. QED BY <1>2, <1>3 DEF LogIsKept

(* A line that was written or acknowledged leaves the log only by its age  *)
(* or once as many newer lines follow it as the backups hold, and no line  *)
(* is in two files, for every number of backups and every file size:       *)
(* append_line and rotate_if_needed at each system call, with restarts     *)
(* that prune_old_events, a stop that gives up its queue and failing disks. *)
THEOREM LogStaysKept == Spec => []LogIsKept
<1>1. AuditInv => LogIsKept
  BY InvariantKeepsLog
<1>2. QED BY <1>1, AuditInvariant, PTL

(* Without a disk that fails, FileAudit.failed stays unset: the names that *)
(* rotate_if_needed found are still there when it renames them, since the  *)
(* drain task runs one append_line at a time and a start finds none        *)
(* running.                                                                *)
THEOREM WorkingDiskSuffices == Spec => []HealthyDiskNeverFails
<1>1. AuditInv => HealthyDiskNeverFails
  BY RaceIs DEF AuditInv, HealthyDiskNeverFails
<1>2. QED BY <1>1, AuditInvariant, PTL
=============================================================================

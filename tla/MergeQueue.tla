------------------------------ MODULE MergeQueue ------------------------------
(***************************************************************************)
(* The automatic and manual merging of downloaded recordings               *)
(* (merge_controller.py) with the stages of one merge on its thread        *)
(* (merge_parts() of iq_merge.py): the copy in <name>.partial, its move to *)
(* the final name, the sidecar, the entry in the registry.  The program    *)
(* may end at any of them and is started again.                            *)
(***************************************************************************)
EXTENDS Naturals, Sequences, FiniteSets

CONSTANTS
  Groups,     \* recordings, by group key
  Broken,     \* those of which plan_merge() reports errors
  NoGroup,
  Kept,       \* recordings of before, of which two parts are on this computer
  MaxParts,   \* bound: parts of a recording
  MaxOutputs, \* bound: merged files of a recording
  MaxRestarts \* bound: how often the program ends

ASSUME MergeQueueAssumption ==
  /\ NoGroup \notin Groups /\ Broken \subseteq Groups /\ Kept \subseteq Groups
  /\ MaxParts \in [Groups -> 0 .. 3] /\ MaxOutputs \in [Groups -> 0 .. 3] /\ MaxRestarts \in Nat

VARIABLES
  running,    \* the program runs
  held,       \* how many parts of a recording are on this computer
  recording,  \* live_stem: the recording that is captured now
  enabled,    \* "Merge recording parts"
  queue,      \* _queue: [group, parts, auto]
  job,        \* _active: the request with [index, stage, cancel]; {} if none
  seen,       \* _seen
  registry,   \* merge_history.json, by group: {} or {[parts, index]}
  outputs,    \* merged files: [group, index, parts, auto, sidecar]
  partials,   \* <group, index> of files named .partial
  restarts

queue_vars == <<queue, job, seen>>
disk_vars == <<registry, outputs, partials>>
vars == <<running, held, recording, enabled, queue_vars, disk_vars, restarts>>

Counts == 0 .. 3
Stages == {"copying", "moved", "done", "failed", "cancelled", "torn", "over"}
Request == [group : Groups, parts : Counts, auto : BOOLEAN]
Job == [group : Groups, parts : Counts, auto : BOOLEAN,
        index : Counts, stage : Stages, cancel : BOOLEAN]

(* The types, and no .partial file except that of the running merge. *)
TypeOK ==
  /\ running \in BOOLEAN /\ enabled \in BOOLEAN
  /\ held \in [Groups -> Counts] /\ recording \in Groups \cup {NoGroup}
  /\ queue \in Seq(Request) /\ seen \subseteq Groups
  /\ job \subseteq Job /\ Cardinality(job) <= 1
  /\ registry \in [Groups -> SUBSET [parts : Counts, index : Counts]]
  /\ outputs \subseteq [group : Groups, index : Counts, parts : Counts,
                        auto : BOOLEAN, sidecar : BOOLEAN]
  /\ restarts \in 0 .. MaxRestarts
  /\ running => partials = {<<j.group, j.index>> : j \in {k \in job : k.stage = "copying"}}

Init ==
  /\ running = TRUE /\ enabled = FALSE /\ recording = NoGroup
  /\ held = [g \in Groups |-> IF g \in Kept THEN 2 ELSE 0]
  /\ queue = <<>> /\ job = {} /\ seen = {}
  /\ registry = [g \in Groups |-> {}] /\ outputs = {} /\ partials = {} /\ restarts = 0

-----------------------------------------------------------------------------
(* A capture of g runs, its parts come to this computer, the first two together, and it ends. *)
Capture(g) ==
  /\ recording' = IF recording = g THEN NoGroup ELSE g
  /\ recording = g \/ (recording = NoGroup /\ held[g] = 0)
  /\ UNCHANGED <<running, held, enabled, queue_vars, disk_vars, restarts>>

PartsArrive(g) ==
  /\ held[g] < MaxParts[g] /\ (held[g] > 0 \/ recording = g)
  /\ held' = [held EXCEPT ![g] = IF @ = 0 THEN 2 ELSE @ + 1]
  /\ UNCHANGED <<running, recording, enabled, queue_vars, disk_vars, restarts>>

(* merged_output_path() *)
FreeIndices(g) ==
  {i \in 1 .. MaxOutputs[g] : <<g, i>> \notin partials /\ ~\E o \in outputs : o.group = g /\ o.index = i}

(* MergeRegistry.find(): the registry first, then the sidecars beside the parts *)
Found(g, n) ==
  \/ \E e \in registry[g] : e.parts = n /\ \E o \in outputs : o.group = g /\ o.index = e.index
  \/ \E o \in outputs : o.group = g /\ o.sidecar /\ o.parts = n

(* _pump(): requests of which the plan has errors fail at once, the first of the others starts.
   merge_parts() opens its .partial file.                                                      *)
Pump(q, s) ==
  LET good == {i \in 1 .. Len(q) : q[i].group \notin Broken}
      n == IF good = {} THEN Len(q) + 1 ELSE CHOOSE i \in good : \A k \in good : i <= k
  IN  /\ seen' = s \ {q[i].group : i \in 1 .. n - 1}
      /\ queue' = SubSeq(q, n + 1, Len(q))
      /\ IF good = {} THEN job' = {} /\ UNCHANGED partials
         ELSE LET index == CHOOSE i \in FreeIndices(q[n].group) : \A k \in FreeIndices(q[n].group) : i <= k
              IN  /\ FreeIndices(q[n].group) # {}
                  /\ job' = {[group |-> q[n].group, parts |-> q[n].parts, auto |-> q[n].auto,
                              index |-> index, stage |-> "copying", cancel |-> FALSE]}
                  /\ partials' = partials \cup {<<q[n].group, index>>}

(* The refusals of request(). *)
LiveHeldBack(g, auto) == auto /\ recording = g

Waiting(g) == (\E j \in job : j.group = g) \/ \E i \in 1 .. Len(queue) : queue[i].group = g
(* MergedAlreadyHere is the mutant of MergedAlready that asks this session's memory only. *)
MergedAlreadyHere(g, n, auto) == auto /\ g \in seen
MergedAlready(g, n, auto) == auto /\ (Found(g, n) \/ g \in seen)

(* request(), from the Sensor Files window or the controller of collections *)
RequestMerge(g, auto) ==
  LET q == Append(queue, [group |-> g, parts |-> held[g], auto |-> auto])
  IN  /\ running /\ held[g] >= 2
      /\ (auto => enabled) /\ ~LiveHeldBack(g, auto) /\ ~Waiting(g) /\ ~MergedAlready(g, held[g], auto)
      /\ FreeIndices(g) # {}   \* the bound
      /\ IF job = {} THEN Pump(q, seen \cup {g})
         ELSE queue' = q /\ seen' = seen \cup {g} /\ UNCHANGED <<job, partials>>
      /\ UNCHANGED <<running, held, recording, enabled, registry, outputs, restarts>>

(* set_enabled(): what is dropped leaves the other requests, those at the places of f, in their order. *)
Keeps(f, places) == {f[i] : i \in DOMAIN f} = places /\ \A i, k \in DOMAIN f : i < k => f[i] < f[k]

SetEnabled ==
  /\ running /\ enabled' = ~enabled
  /\ IF enabled THEN /\ \E n \in 0 .. Len(queue) : \E f \in [1 .. n -> 1 .. Len(queue)] :
                          /\ Keeps(f, {k \in 1 .. Len(queue) : ~queue[k].auto})
                          /\ queue' = [i \in 1 .. n |-> queue[f[i]]]
                     /\ seen' = seen \ {queue[i].group : i \in {k \in 1 .. Len(queue) : queue[k].auto}}
     ELSE UNCHANGED <<queue, seen>>
  /\ UNCHANGED <<running, held, recording, job, disk_vars, restarts>>

(* cancel() *)
CancelMerge ==
  /\ running /\ (job # {} \/ queue # <<>>)
  /\ seen' = seen \ {queue[i].group : i \in 1 .. Len(queue)} /\ queue' = <<>>
  /\ job' = {[j EXCEPT !.cancel = TRUE] : j \in job}
  /\ UNCHANGED <<running, held, recording, enabled, disk_vars, restarts>>

-----------------------------------------------------------------------------
(* MergeJob.run() and merge_parts(), on the thread of the job *)
JobGoes(j, stage) == job' = {[j EXCEPT !.stage = stage]}
job_rest == <<running, held, recording, enabled, queue, seen, registry, restarts>>

(* A cancel, an error while reading or writing, or joins that do not match *)
Stops(j) ==
  /\ j.stage = "copying" /\ JobGoes(j, IF j.cancel THEN "cancelled" ELSE "failed")
  /\ partials' = partials \ {<<j.group, j.index>>}
  /\ UNCHANGED <<outputs, job_rest>>

(* All is copied and verified, os.replace(); cancel is only looked at between two blocks. *)
Moves(j) ==
  /\ j.stage = "copying" /\ JobGoes(j, "moved")
  /\ partials' = partials \ {<<j.group, j.index>>}
  /\ outputs' = outputs \cup {[group |-> j.group, index |-> j.index, parts |-> j.parts,
                               auto |-> j.auto, sidecar |-> FALSE]}
  /\ UNCHANGED job_rest

(* write_sidecar() may fail: the merge is then reported as failed. *)
WritesSidecar(j, ok) ==
  /\ j.stage = "moved" /\ JobGoes(j, IF ok THEN "done" ELSE "torn")
  /\ outputs' = {[o EXCEPT !.sidecar = @ \/ (ok /\ o.group = j.group /\ o.index = j.index)] : o \in outputs}
  /\ UNCHANGED <<partials, job_rest>>

(* MergeRegistry.record(): one entry per recording *)
Recorded(g, parts, index) == [registry EXCEPT ![g] = {[parts |-> parts, index |-> index]}]

(* _on_finished() *)
OnFinished(j) ==
  /\ j.stage = "done" /\ JobGoes(j, "over")
  /\ registry' = Recorded(j.group, j.parts, j.index)
  /\ UNCHANGED <<running, held, recording, enabled, queue, seen, outputs, partials, restarts>>

(* _on_failed() and _finish_failed() *)
OnFailed(j) ==
  /\ j.stage \in {"failed", "cancelled", "torn"} /\ JobGoes(j, "over")
  /\ seen' = seen \ {j.group}
  /\ UNCHANGED <<running, held, recording, enabled, queue, disk_vars, restarts>>

(* _on_thread_finished() *)
OnThreadFinished(j) ==
  /\ j.stage = "over" /\ Pump(queue, seen)
  /\ UNCHANGED <<running, held, recording, enabled, registry, outputs, restarts>>

Merge(j) ==
  Stops(j) \/ Moves(j) \/ (\E ok \in BOOLEAN : WritesSidecar(j, ok)) \/ OnFinished(j) \/ OnFailed(j)
  \/ OnThreadFinished(j)

-----------------------------------------------------------------------------
(* The operator deletes a merged file; its sidecar alone counts for nothing. *)
Deleted(o) ==
  /\ outputs' = outputs \ {o} /\ job = {}
  /\ UNCHANGED <<running, held, recording, enabled, queue_vars, registry, partials, restarts>>

(* The program ends, by itself or not: what is in memory is gone. *)
Ends ==
  /\ running /\ restarts < MaxRestarts /\ restarts' = restarts + 1
  /\ running' = FALSE /\ queue' = <<>> /\ job' = {} /\ seen' = {}
  /\ UNCHANGED <<held, recording, enabled, disk_vars>>

(* MainWindow.__init__(): sweep_partials() *)
Starts ==
  /\ ~running /\ running' = TRUE /\ partials' = {}
  /\ UNCHANGED <<held, recording, enabled, queue_vars, registry, outputs, restarts>>

Next ==
  \/ \E g \in Groups : Capture(g) \/ PartsArrive(g) \/ \E auto \in BOOLEAN : RequestMerge(g, auto)
  \/ SetEnabled \/ CancelMerge \/ Ends \/ Starts
  \/ \E j \in job : Merge(j)
  \/ \E o \in outputs : Deleted(o)

Spec == Init /\ [][Next]_vars

(* A merge goes on on its thread, its signals are handled. *)
Fairness == WF_vars(\E j \in job : Merge(j))

-----------------------------------------------------------------------------
(* A merge that finished is never repeated by itself: of two automatic merges of the same parts,
   one has not finished (the program ended, or the sidecar failed, right after its move).       *)
MergedOnce ==
  \A o, u \in outputs :
    (o # u /\ o.group = u.group /\ o.parts = u.parts /\ o.auto /\ u.auto) => ~(o.sidecar /\ u.sidecar)

(* A failed or cancelled merge leaves no file that looks complete, unless only its sidecar
   could not be written; what looks complete has all the parts of its request.               *)
NothingHalfMerged ==
  \A j \in job :
    /\ j.stage \in {"copying", "failed", "cancelled"} => ~\E o \in outputs : o.group = j.group /\ o.index = j.index
    /\ j.stage \in {"failed", "cancelled"} => <<j.group, j.index>> \notin partials

(* Automatic merges wait only while merging is on, and never for what is being recorded. *)
AutoOnlyWhenAsked ==
  /\ \A i \in 1 .. Len(queue) : queue[i].auto => enabled
  /\ \A r \in {queue[i] : i \in 1 .. Len(queue)} \cup {[group |-> j.group, parts |-> j.parts, auto |-> j.auto] : j \in job} :
       r.auto => r.group # recording

(* Every merge that was accepted has its turn. *)
QueueMoves == \A g \in Groups : Waiting(g) ~> ~Waiting(g)

(* Merging never leaves or repeats anything by itself, through cancels, failures and restarts. *)
MergeIsSafe == TypeOK /\ MergedOnce /\ NothingHalfMerged /\ AutoOnlyWhenAsked
==============================================================================

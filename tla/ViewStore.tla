----------------------------- MODULE ViewStore -----------------------------
(***************************************************************************)
(* The storage of the project beside the arena: blobs and manifests named  *)
(* by their content, and the runtime trees of views.  Processes capture    *)
(* the project into it, for an entry of the ref log or for a view, and     *)
(* record what they captured in the arena; `fyai gc` removes what the      *)
(* arena does not name (fyai_cas.c, fyai_manifest.c, fyai_cmd_fsview.c,    *)
(* fyai_view_gc.c).                                                        *)
(*                                                                         *)
(* One branch and one view.  A write of a file, a publish, the visit of a  *)
(* root and the removal of a file are steps.                               *)
(***************************************************************************)
EXTENDS Integers, Sequences, FiniteSets, TLC

CONSTANTS
    Proc,       \* the processes that use the storage
    Blob,       \* contents of files
    Projects,   \* what the project can hold: sets of blobs
    Digest,     \* the order of the names of manifests
    EntryMax,   \* GC_ENTRY_MAX
    Start,      \* the states of the ref log at first, and the record of the view
    MaxRun,     \* bound: runtime trees
    Ops,        \* bound: operations of all processes
    Faults      \* bound: what goes wrong in an instance

ASSUME ViewAssumption ==
    /\ Projects \subseteq SUBSET Blob /\ Projects # {}
    /\ EntryMax \in Nat \ {0}
    /\ MaxRun \in Nat /\ Ops \in Nat
    /\ Faults \subseteq {"crash", "fail", "damage"}

VARIABLES
    disk,       \* the age of each file of the storage
    damaged,    \* the manifests, and the records of others, that cannot be read
    log,        \* the project state of each entry of the ref log, the newest last
    view,       \* the record of the view
    shared,     \* who holds gc.lock shared
    proc,       \* the processes
    gc,         \* the collector
    exposed,    \* history: files relied on while nothing named them
    passed,     \* history: files removed with a root that named them passed over
    left        \* bound: operations to come

system == <<disk, damaged, log, view, shared, proc, gc, left>>
vars == <<system, exposed, passed>>

(***************************************************************************)
(* Files and references.                                                   *)
(***************************************************************************)
Run == 1 .. MaxRun
BlobFile(b) == [kind |-> "blob", of |-> {b}, base |-> {}]
Manifest(c) == [kind |-> "manifest", of |-> c, base |-> {}]
Delta(c, base) == [kind |-> "delta", of |-> c, base |-> base]
RunFile(n) == [kind |-> "run", of |-> {n}, base |-> {}]

BlobFiles == {BlobFile(b) : b \in Blob}
Full == {Manifest(c) : c \in Projects}
Deltas == {Delta(c, base) : c \in Projects, base \in Projects}
Manifests == Full \cup Deltas
RunFiles == {RunFile(n) : n \in Run}
File == BlobFiles \cup Manifests \cup RunFiles

ASSUME DigestAssumption ==
    /\ Digest \in [Manifests -> Nat]
    /\ \A m, n \in Manifests : Digest[m] = Digest[n] => m = n

Stored(f) == disk[f] # "absent"

(* The blobs of a manifest are its own: a delta lists what its base has    *)
(* not, or has otherwise.                                                  *)
OwnBlobs(m) == {BlobFile(b) : b \in m.of \ m.base}
BaseOf(m) == IF m.kind = "delta" THEN {Manifest(m.base)} ELSE {}
Needs(m) == {m} \cup OwnBlobs(m) \cup BaseOf(m) \cup UNION {OwnBlobs(n) : n \in BaseOf(m)}

(* A manifest opens if its header and its regions are sound; a record that *)
(* does not decode lists no blob (fyai_manifest_object_at).                *)
Readable(m) == Stored(m) /\ m \notin damaged.whole
Unlisted(m) == {f \in OwnBlobs(m) : [of |-> m, blob |-> f] \in damaged.records}

(* A record of a view: a result is a delta of the baseline beside it.      *)
NoView == [base |-> {}, result |-> {}, run |-> 0]
ViewRecords ==
    {v \in [base : SUBSET Full, result : SUBSET Deltas, run : 0 .. MaxRun] :
        /\ \A m \in v.result : BaseOf(m) \subseteq v.base
        /\ \A m, n \in v.base : m = n
        /\ \A m, n \in v.result : m = n}

ASSUME StartAssumption == Start.log \in Seq(Full) /\ Start.view \in ViewRecords

(* What the arena refers to, and all that it leads to.                     *)
Ranged(s) == {s[i] : i \in DOMAIN s}
Newest(l) == SubSeq(l, IF Len(l) > EntryMax THEN Len(l) - EntryMax + 1 ELSE 1, Len(l))
RefsOf(l, v) == Ranged(Newest(l)) \cup v.base \cup v.result
RunsOf(v) == IF v.run = 0 THEN {} ELSE {RunFile(v.run)}
Named == (UNION {Needs(m) : m \in RefsOf(log, view)}) \cup RunsOf(view)

(* saw is the record of the view the process read, and prev the state of   *)
(* the entry it goes on from; took what it captures; todo the blobs it has *)
(* to store; wrote and found the files it has written and those it found   *)
(* stored.                                                                 *)
Idle == [op |-> "none", pc |-> "idle", saw |-> NoView, prev |-> {}, took |-> Manifest({}),
         todo |-> {}, wrote |-> {}, found |-> {}]

(* roots and runs are what the collector found named, items the array it   *)
(* keeps of the roots; at is where it is in the array, and seen the roots  *)
(* it has visited; live is what it keeps.                                  *)
GcIdle == [pc |-> "idle", roots |-> {}, runs |-> {}, old |-> {}, items |-> <<>>, at |-> 1,
           seen |-> {}, live |-> {}, complete |-> TRUE]

Sound == [whole |-> {}, records |-> {}]

Init ==
    /\ log = Start.log /\ view = Start.view
    /\ disk = [f \in File |-> IF f \in Named THEN "old" ELSE "absent"]
    /\ damaged = Sound
    /\ shared = {}
    /\ proc = [p \in Proc |-> Idle]
    /\ gc = GcIdle
    /\ exposed = {} /\ passed = {}
    /\ left = Ops

(***************************************************************************)
(* Locks.  The lock file of a runtime tree is held by who runs in the view *)
(* or makes it anew.                                                       *)
(***************************************************************************)
HoldsRun(p) == IF proc[p].pc \in {"lock", "run", "put", "record"} THEN proc[p].saw.run ELSE 0
RunFree(n) == n = 0 \/ \A p \in Proc : HoldsRun(p) # n
Sweeping == gc.pc \in {"runs", "walk", "manifests", "blobs"}

Asks(p) == proc[p].pc = "idle" /\ left > 0 /\ left' = left - 1
Becomes(p, q) == proc' = [proc EXCEPT ![p] = q]

(***************************************************************************)
(* Capture.                                                                *)
(***************************************************************************)
(* storage_project_state of an entry that moves the head.                  *)
AskState(p) ==
    /\ Asks(p)
    /\ Becomes(p, [Idle EXCEPT !.op = "state", !.pc = "lock",
                               !.prev = {m \in Ranged(log) : m = log[Len(log)]}])
    /\ UNCHANGED <<disk, damaged, log, view, shared, gc>>

(* A command on the view reads its record when it opens the arena: `view   *)
(* create` and `view update` make it, a run in the view seals its result.  *)
AskView(p, op) ==
    /\ Asks(p)
    /\ op = "seal" => view # NoView
    /\ Becomes(p, [Idle EXCEPT !.op = op, !.pc = "asked", !.saw = view])
    /\ UNCHANGED <<disk, damaged, log, view, shared, gc>>

(* fyai_view_capture and view_open_run take the lock of the runtime tree,  *)
(* without waiting.  A run saves the record, as running, before it begins. *)
MayLockRun(p) ==
    LET n == proc[p].saw.run IN n # 0 => RunFree(n) /\ Stored(RunFile(n))

LockRun(p) ==
    /\ proc[p].pc = "asked" /\ MayLockRun(p)
    /\ \/ proc[p].op = "view" /\ Becomes(p, [proc[p] EXCEPT !.pc = "lock"])
       \/ /\ proc[p].op = "seal" /\ view = proc[p].saw
          /\ Becomes(p, [proc[p] EXCEPT !.pc = "run"])
    /\ UNCHANGED <<disk, damaged, log, view, shared, gc, left>>

(* A file of the store is written, or found under its name and kept with   *)
(* the age it has: the put of cas_put, fyai_cas_link_hashed_state and      *)
(* fyai_manifest_write.                                                    *)
Put(p, f, q) ==
    IF Stored(f)
    THEN /\ Becomes(p, [q EXCEPT !.found = @ \cup {f}])
         /\ UNCHANGED <<disk, gc>>
    ELSE /\ disk' = [disk EXCEPT ![f] = "young"]
         /\ gc' = [gc EXCEPT !.old = @ \ {f}]
         /\ Becomes(p, [q EXCEPT !.wrote = @ \cup {f}])

(* fyai_view_storage_lock_shared waits for a sweep to end.  The capture of *)
(* a view makes its runtime tree first.                                    *)
TakeLock(p, c) ==
    LET q == [proc[p] EXCEPT !.pc = "put", !.took = Manifest(c), !.todo = c] IN
    /\ proc[p].pc = "lock" /\ ~Sweeping
    /\ shared' = shared \cup {p}
    /\ \/ /\ q.op = "state"
          /\ Becomes(p, q) /\ UNCHANGED <<disk, gc>>
       \/ /\ q.op = "view"
          /\ \E n \in Run : /\ ~Stored(RunFile(n)) /\ \A k \in Run : k < n => Stored(RunFile(k))
                            /\ Put(p, RunFile(n), q)
    /\ UNCHANGED <<damaged, log, view, left>>

(* fyai_cas_put of one file of the project.                                *)
PutBlob(p, b) ==
    /\ proc[p].pc = "put" /\ b \in proc[p].todo
    /\ Put(p, BlobFile(b), [proc[p] EXCEPT !.todo = @ \ {b}])
    /\ UNCHANGED <<damaged, log, view, shared, left>>

(* fyai_fsview_manifest_publish.  The state of an entry is recorded after  *)
(* the lock is released, a view before; the result of a run has no lock.   *)
PutManifest(p) ==
    /\ proc[p].pc = "put" /\ proc[p].todo = {}
    /\ Put(p, proc[p].took, [proc[p] EXCEPT !.pc = "record"])
    /\ shared' = IF proc[p].op = "state" THEN shared \ {p} ELSE shared
    /\ UNCHANGED <<damaged, log, view, left>>

(***************************************************************************)
(* Records in the arena.                                                   *)
(***************************************************************************)
(* Mutant: the descriptor of the lock is not closed.                       *)
EndsHolding(p) == Becomes(p, Idle) /\ UNCHANGED shared

(* The end of a command closes the locks it holds.                         *)
Ends(p) == Becomes(p, Idle) /\ shared' = shared \ {p}

(* An entry with no state of its own keeps that of its predecessor.  The   *)
(* entries before the first state name nothing, and are not in log.        *)
KeptState(l) == IF l = <<>> THEN l ELSE Append(l, l[Len(l)])

(* fyai_publish_state of the captured state, and of the one a reset chose: *)
(* a capture that found the state of its predecessor has none of its own.  *)
RecordState(p) ==
    /\ proc[p].pc = "record" /\ proc[p].op \in {"state", "reset"}
    /\ log' = IF proc[p].took \in proc[p].prev THEN KeptState(log)
              ELSE Append(log, proc[p].took)
    /\ Ends(p)
    /\ UNCHANGED <<disk, damaged, view, gc, left>>

NewRun(p) == {f.of : f \in proc[p].wrote \cap RunFiles}

(* view_save.  A record that another process changed since is not written  *)
(* over: the publish is refused.                                           *)
RecordView(p) ==
    /\ proc[p].pc = "record" /\ proc[p].op = "view"
    /\ view = proc[p].saw
    /\ view' = [base |-> {proc[p].took}, result |-> {},
                run |-> CHOOSE n \in Run : {n} \in NewRun(p)]
    /\ log' = KeptState(log)
    /\ Ends(p)
    /\ UNCHANGED <<disk, damaged, gc, left>>

RecordResult(p) ==
    /\ proc[p].pc = "record" /\ proc[p].op = "seal"
    /\ view = proc[p].saw
    /\ view' = [view EXCEPT !.result = {proc[p].took}]
    /\ log' = KeptState(log)
    /\ Ends(p)
    /\ UNCHANGED <<disk, damaged, gc, left>>

(***************************************************************************)
(* Views and resets.                                                       *)
(***************************************************************************)
(* fyai_fsview_snapshot when the run ends: what differs from the baseline. *)
(* It takes no lock of the storage.                                        *)
Seal(p, c) ==
    /\ proc[p].pc = "run"
    /\ \E base \in proc[p].saw.base :
         /\ Readable(base) /\ Unlisted(base) = {}
         /\ Becomes(p, [proc[p] EXCEPT !.pc = "put", !.took = Delta(c, base.of),
                                       !.todo = c \ base.of])
    /\ UNCHANGED <<disk, damaged, log, view, shared, gc, left>>

(* fyai_cmd_view_remove: the files stay.                                   *)
RemoveView(p) ==
    /\ Asks(p)
    /\ view # NoView /\ RunFree(view.run)
    /\ view' = NoView
    /\ log' = KeptState(log)
    /\ UNCHANGED <<disk, damaged, shared, proc, gc>>

(* fyai_project_state_restore: the files of an entry of the ref log are    *)
(* written to the project, and then the entry of the reset names them.     *)
Reset(p) ==
    /\ Asks(p)
    /\ \E m \in Ranged(log) :
         /\ Readable(m) /\ Unlisted(m) = {} /\ \A f \in Needs(m) : Stored(f)
         /\ Becomes(p, [Idle EXCEPT !.op = "reset", !.pc = "record", !.took = m,
                                    !.found = Needs(m)])
    /\ UNCHANGED <<disk, damaged, log, view, shared, gc>>

(***************************************************************************)
(* The collector: fyai_gc_storage.                                         *)
(***************************************************************************)
(* The one manifest of a set, as a list.                                   *)
OnlyOf(set) == IF set = {} THEN <<>> ELSE <<CHOOSE m \in set : TRUE>>

(* The states of a part of the ref log, the newest first, and behind the   *)
(* newest what the view names.                                             *)
WithView(w, viewed) ==
    IF w = <<>> THEN viewed
    ELSE <<w[Len(w)]>> \o viewed \o [i \in 1 .. Len(w) - 1 |-> w[Len(w) - i]]

(* Mutant: the result of a run is not a root.                              *)
RootsBaselines(l, v) == WithView(Newest(l), OnlyOf(v.base))

(* gc_collect_branch: the views are those of the newest entry, and the     *)
(* walk ends after EntryMax entries.                                       *)
Roots(l, v) == WithView(Newest(l), OnlyOf(v.base) \o OnlyOf(v.result))

(* The ref log is cut, and the roots and the cutoff are taken, before the  *)
(* lock is.                                                                *)
GcOpen(keep) ==
    LET kept == SubSeq(log, Len(log) - keep + 1, Len(log))
        items == Roots(kept, view)
    IN
    /\ gc.pc = "idle"
    /\ keep <= Len(log) /\ (log # <<>> => keep > 0)
    /\ log' = kept
    /\ gc' = [GcIdle EXCEPT !.pc = "open", !.roots = Ranged(items), !.items = items,
                            !.runs = RunsOf(view), !.old = {f \in File : disk[f] = "old"}]
    /\ UNCHANGED <<disk, damaged, view, shared, proc, left>>

(* Mutant: a storage in use is swept.                                      *)
GcLockAnyway ==
    /\ gc.pc = "open" /\ gc' = [gc EXCEPT !.pc = "runs"]
    /\ UNCHANGED <<disk, damaged, log, view, shared, proc, left>>

(* gc_sweep_storage: a storage in use is left alone.                       *)
GcLock ==
    /\ gc.pc = "open"
    /\ gc' = IF shared = {} THEN [gc EXCEPT !.pc = "runs"] ELSE GcIdle
    /\ UNCHANGED <<disk, damaged, log, view, shared, proc, left>>

(* Mutant: no file is too young to be removed.                             *)
GcAnyAge(f) == Stored(f)

(* gc_old: the file was old when the collection began.                     *)
GcOld(f) == Stored(f) /\ f \in gc.old

(* What the step of the sweep removes.                                     *)
Garbage ==
    CASE gc.pc = "runs" ->
            {f \in RunFiles : GcOld(f) /\ f \notin gc.runs /\ \A n \in f.of : RunFree(n)}
      [] gc.pc = "manifests" -> {f \in Manifests : GcOld(f) /\ f \notin gc.live}
      [] gc.pc = "blobs" -> {f \in BlobFiles : GcOld(f) /\ f \notin gc.live}
      [] OTHER -> {}

(* gc_sweep_directory, one file.                                           *)
GcSweep ==
    /\ \E f \in Garbage :
         /\ disk' = [disk EXCEPT ![f] = "absent"]
         /\ damaged' = [whole |-> damaged.whole \ {f},
                        records |-> {r \in damaged.records : r.of # f}]
    /\ UNCHANGED <<log, view, shared, proc, gc, left>>

(* The runtime trees go first, then the manifests, then the blobs; before  *)
(* the manifests, gc_live goes through the array of the roots.             *)
GcWalk ==
    /\ gc.pc = "runs" /\ Garbage = {}
    /\ gc' = [gc EXCEPT !.pc = "walk", !.live = gc.roots]
    /\ UNCHANGED <<disk, damaged, log, view, shared, proc, left>>

(* strv_has puts the array in order of the names before it looks for the   *)
(* base of a delta, and strv_add puts a base that is not there at its end. *)
ByDigest(m, n) == Digest[m] < Digest[n]
Sorted(items) == SortSeq(items, ByDigest)
WithBase(items, m) ==
    Sorted(items) \o (IF BaseOf(m) \subseteq Ranged(items) THEN <<>> ELSE OnlyOf(BaseOf(m)))

(* gc_live, one root of the array.  A manifest that opens, with its base,  *)
(* keeps the blobs its records list and its base; one that does not is     *)
(* kept, and then so are all the blobs.                                    *)
GcVisit ==
    LET m == gc.items[gc.at]
        opens == \A n \in {m} \cup BaseOf(m) : Readable(n)
    IN
    /\ gc.pc = "walk" /\ gc.at \in DOMAIN gc.items
    /\ gc' = [gc EXCEPT !.at = @ + 1, !.seen = @ \cup {m}, !.complete = @ /\ opens,
                        !.live = IF opens THEN @ \cup BaseOf(m) \cup (OwnBlobs(m) \ Unlisted(m))
                                 ELSE @,
                        !.items = IF opens /\ m.kind = "delta" THEN WithBase(@, m) ELSE @]
    /\ UNCHANGED <<disk, damaged, log, view, shared, proc, left>>

GcManifests ==
    /\ gc.pc = "walk" /\ gc.at \notin DOMAIN gc.items
    /\ gc' = [gc EXCEPT !.pc = "manifests"]
    /\ UNCHANGED <<disk, damaged, log, view, shared, proc, left>>

GcBlobs ==
    /\ gc.pc = "manifests" /\ Garbage = {}
    /\ gc' = IF gc.complete THEN [gc EXCEPT !.pc = "blobs"] ELSE GcIdle
    /\ UNCHANGED <<disk, damaged, log, view, shared, proc, left>>

GcEnd ==
    /\ gc.pc = "blobs" /\ Garbage = {}
    /\ gc' = GcIdle
    /\ UNCHANGED <<disk, damaged, log, view, shared, proc, left>>

(***************************************************************************)
(* Failures and time.                                                      *)
(***************************************************************************)
(* An operation fails, or finds the record of the view changed (or, in an  *)
(* instance, all the runtime trees in use).  A capture of a view takes its *)
(* runtime tree back; an entry whose capture failed is published.          *)
Fail(p) ==
    LET q == proc[p] IN
    /\ q.pc # "idle"
    /\ \/ "fail" \in Faults
       \/ q.pc \in {"asked", "record"} /\ q.op \in {"view", "seal"} /\ view # q.saw
       \/ q.pc = "asked" /\ ~MayLockRun(p)
       \/ q.pc = "run" /\ \A base \in q.saw.base : ~Readable(base) \/ Unlisted(base) # {}
       \/ q.pc = "lock" /\ q.op = "view" /\ \A n \in Run : Stored(RunFile(n))
    /\ disk' = [f \in File |-> IF f \in q.wrote \cap RunFiles THEN "absent" ELSE disk[f]]
    /\ log' = IF q.op = "state" /\ q.pc # "record" THEN KeptState(log) ELSE log
    /\ Ends(p)
    /\ UNCHANGED <<damaged, view, gc, left>>

(* A process dies; the kernel drops its locks.                             *)
Crash(p) ==
    /\ "crash" \in Faults
    /\ proc[p].pc # "idle"
    /\ Ends(p)
    /\ UNCHANGED <<disk, damaged, log, view, gc, left>>

GcCrash ==
    /\ "crash" \in Faults
    /\ gc.pc # "idle" /\ left > 0 /\ left' = left - 1
    /\ gc' = GcIdle
    /\ UNCHANGED <<disk, damaged, log, view, shared, proc>>

(* A manifest of the storage is damaged on the disk: it does not open, or  *)
(* one of its records does not decode.                                     *)
Damage ==
    /\ "damage" \in Faults /\ damaged = Sound
    /\ left > 0 /\ left' = left - 1
    /\ \E m \in Manifests :
         /\ Stored(m)
         /\ \/ damaged' = [Sound EXCEPT !.whole = {m}]
            \/ \E f \in OwnBlobs(m) :
                  damaged' = [Sound EXCEPT !.records = {[of |-> m, blob |-> f]}]
    /\ UNCHANGED <<disk, log, view, shared, proc, gc>>

(* The grace passes.  It is longer than a capture and its record take, the *)
(* assumption under which the age of a file protects it.                   *)
GracePasses ==
    /\ \A p \in Proc : proc[p].wrote = {}
    /\ \E f \in File : disk[f] = "young"
    /\ disk' = [f \in File |-> IF Stored(f) THEN "old" ELSE "absent"]
    /\ UNCHANGED <<damaged, log, view, shared, proc, gc, left>>

Step(p) ==
    \/ \E op \in {"view", "seal"} : AskView(p, op)
    \/ \E c \in Projects : TakeLock(p, c) \/ Seal(p, c)
    \/ \E b \in Blob : PutBlob(p, b)
    \/ PutManifest(p) \/ RecordState(p) \/ RecordView(p) \/ RecordResult(p)
    \/ AskState(p) \/ LockRun(p) \/ RemoveView(p) \/ Reset(p) \/ Fail(p) \/ Crash(p)

Collect ==
    \/ \E keep \in 0 .. Len(log) : GcOpen(keep)
    \/ GcSweep \/ GcLock \/ GcWalk \/ GcVisit \/ GcManifests \/ GcBlobs \/ GcEnd

(* A process relies on a file it found stored.  While no reference of the  *)
(* arena names the file, a collection may take it: it was written too long *)
(* ago to be protected by its age.                                         *)
Relied == UNION {proc[p].found : p \in Proc}

(* The blobs that no root visited by the walk lists: the roots that name   *)
(* them moved behind the walk when a delta had the array put in order, or  *)
(* their records do not decode.                                            *)
PassedOver ==
    LET moved == {m \in gc.roots \ gc.seen : \E d \in gc.seen : d.kind = "delta"} IN
    {f \in UNION {OwnBlobs(m) : m \in gc.roots} :
        \A m \in gc.roots : f \in OwnBlobs(m) => m \in moved \/ f \in Unlisted(m)}

Remembers ==
    LET new == {f \in File : ~Stored(f) /\ Stored(f)'}
        gone == {f \in File : Stored(f) /\ ~Stored(f)'}
    IN  /\ exposed' = (exposed \cup (Relied' \ Named')) \ new
        /\ passed' = (passed \cup (PassedOver \cap gone)) \ new

Next ==
    /\ \/ \E p \in Proc : Step(p)
       \/ Collect \/ GcCrash \/ Damage \/ GracePasses
    /\ Remembers

Spec == Init /\ [][Next]_vars

(* A process goes on with what it does, and `fyai gc` is run again and     *)
(* again; the kernel gives the lock to who waits for it when a sweep ends. *)
Goes(p) ==
    \/ LockRun(p) \/ PutManifest(p) \/ RecordState(p) \/ RecordView(p) \/ RecordResult(p)
    \/ Fail(p)
    \/ \E c \in Projects : Seal(p, c)
    \/ \E b \in Blob : PutBlob(p, b)

Fairness ==
    /\ WF_system(GracePasses) /\ WF_system(Collect)
    /\ \A p \in Proc : WF_system(Goes(p)) /\ SF_system(\E c \in Projects : TakeLock(p, c))

FairSpec == Spec /\ Fairness

(***************************************************************************)
(* Properties.                                                             *)
(***************************************************************************)
Procs == [op : {"none", "state", "reset", "view", "seal"},
          pc : {"idle", "asked", "lock", "run", "put", "record"},
          saw : ViewRecords, prev : SUBSET Manifests, took : Manifests \cup {Manifest({})}, todo : SUBSET Blob,
          wrote : SUBSET File, found : SUBSET File]

(* Types; among them that nobody captures under the lock while the         *)
(* collector sweeps.                                                       *)
TypeOK ==
    /\ disk \in [File -> {"absent", "young", "old"}]
    /\ damaged.whole \cup {r.of : r \in damaged.records} \subseteq {m \in Manifests : Stored(m)}
    /\ Ranged(log) \subseteq Manifests
    /\ view \in ViewRecords
    /\ shared \subseteq Proc /\ proc \in [Proc -> Procs]
    /\ gc.pc \in {"idle", "open", "runs", "walk", "manifests", "blobs"}
    /\ exposed \subseteq File /\ passed \subseteq BlobFiles /\ left \in 0 .. Ops
    /\ Sweeping => shared = {}

(* What the arena names is in the storage, whatever the order of captures, *)
(* records and collections, but for the files that a process relied on     *)
(* while nothing named them, and the blobs that a sweep took when each     *)
(* root that names them was passed over by gc_live.                        *)
NamedIsStored == \A f \in Named : Stored(f) \/ f \in exposed \/ f \in passed

(* A capture that has not been recorded yet keeps the files it wrote.      *)
WrittenIsKept == \A p \in Proc : \A f \in proc[p].wrote : Stored(f)

(* The same without the exception: a collection never takes a file of a    *)
(* state that the arena records.                                           *)
ReferencesResolve == \A f \in Named : Stored(f)

(* "The blobs ... that no live manifest names" are removed, and "a damaged *)
(* manifest never causes the loss of a blob": a sweep of blobs takes none  *)
(* that a root names (gc_live, gc_sweep_objects).                          *)
SweepIsUnnamed ==
    gc.pc = "blobs" => Garbage \cap UNION {OwnBlobs(m) : m \in gc.roots} = {}

(* What nothing names goes, in the end, if every manifest can be read: the *)
(* files of a capture that failed or died, of a view removed, of an entry  *)
(* cut from the ref log.                                                   *)
GarbageGoes ==
    []<>(damaged.whole # {} \/ exposed # {} \/ \A f \in File : Stored(f) => f \in Named)
=============================================================================

---------------------------- MODULE ViewStoreProofs ----------------------------
(***************************************************************************)
(* The safety of the storage of views, for any number of processes,        *)
(* contents, project states, runtime trees and operations: what the arena  *)
(* names is stored, or was relied on while nothing named it, or was taken  *)
(* by a sweep whose walk had passed over each root that names it.          *)
(*                                                                         *)
(* IInv is the inductive invariant.  A file is safe from the collection    *)
(* that is under way because it is reached from the roots it took (Roots), *)
(* or because it was not old when it began: it was written since, and      *)
(* nobody who has written it waits for the grace to pass (Written).        *)
(***************************************************************************)
EXTENDS ViewStore, TLAPS

(* The collector is a record; of the array in the order of the names, and   *)
(* of what is taken from it, only what follows from Marked is needed.       *)
IsCollector(g) ==
    g \in [pc : {"idle", "open", "runs", "walk", "manifests", "blobs"}, roots : SUBSET Manifests,
           runs : SUBSET RunFiles, old : SUBSET File, items : {g.items}, at : Nat \ {0},
           seen : {g.seen}, live : {g.live}, complete : BOOLEAN]

DamageFits ==
    damaged.whole \cup {r.of : r \in damaged.records} \subseteq {m \in Manifests : Stored(m)}

Typed ==
    /\ disk \in [File -> {"absent", "young", "old"}]
    /\ DamageFits
    /\ log \in Seq(Full) /\ view \in ViewRecords
    /\ shared \subseteq Proc /\ proc \in [Proc -> Procs]
    /\ IsCollector(gc)
    /\ exposed \subseteq File /\ passed \subseteq BlobFiles /\ left \in 0 .. Ops
    /\ Sweeping => shared = {}

(* What a process has put covers what it is about to record, but for the    *)
(* baseline that the view it read names.                                    *)
Has(q, f) == f \in q.wrote \cup q.found
WorkOf(q) ==
    /\ q.pc = "run" => q.op = "seal"
    /\ q.pc \in {"put", "record"} =>
        /\ q.took \in IF q.op = "seal" THEN Deltas ELSE Full
        /\ BaseOf(q.took) \subseteq q.saw.base
        /\ q.op = "view" => \E n \in Run : RunFile(n) \in q.wrote
        /\ \A b \in q.took.of \ q.took.base : b \in q.todo \/ Has(q, BlobFile(b))
        /\ q.pc = "record" => q.todo = {} /\ Has(q, q.took)
Work == \A p \in Proc : WorkOf(proc[p])

(* What a process has written is young, and its own.                        *)
Written ==
    \A p \in Proc : \A f \in proc[p].wrote :
        /\ disk[f] = "young" /\ f \notin gc.old
        /\ f \notin RunsOf(view)
        /\ \A q \in Proc : q # p => f \notin proc[q].wrote

(* What a process has found is named, or exposed, or was written anew.      *)
Fresh(f) == disk[f] = "young" /\ f \notin gc.old
Found ==
    /\ exposed \cap RunFiles = {}
    /\ \A p \in Proc : \A f \in proc[p].found :
          f \notin RunFiles /\ (f \in Named \/ f \in exposed \/ Fresh(f))

(* What the collection may remove and the arena names is reached from the   *)
(* roots it took.  The sweep keeps the roots, and what the visited ones     *)
(* list; and until a delta is visited, all the roots before the place of    *)
(* the walk in the array have been.                                         *)
Reach == (UNION {Needs(m) : m \in gc.roots}) \cup gc.runs
Walked == gc.pc \in {"manifests", "blobs"}
NoDelta == \A m \in gc.seen : m.kind # "delta"
Marked ==
    /\ \A m \in gc.roots : BaseOf(m) \subseteq gc.roots
    /\ gc.pc = "walk" \/ Walked =>
          /\ gc.roots \subseteq gc.live
          /\ gc.complete => \A m \in gc.roots : m \in gc.seen => OwnBlobs(m) \ Unlisted(m) \subseteq gc.live
    /\ NoDelta =>
          /\ gc.items \in Seq(Manifests) /\ Ranged(gc.items) = gc.roots
          /\ \A i \in DOMAIN gc.items : i < gc.at => gc.items[i] \in gc.seen
    /\ gc.pc = "walk" \/ Walked \/ gc.seen = {}
    /\ Walked => gc.at \notin DOMAIN gc.items
    /\ gc.pc = "blobs" => gc.complete

Rooted ==
    /\ \A f \in gc.old \cap Named : f \in exposed \/ f \in Reach
    /\ Marked

IInv == Typed /\ Work /\ Written /\ Found /\ Rooted /\ NamedIsStored

(* A file that is named, or exposed, or was written anew.                   *)
Backed(f) == f \in Named \/ f \in exposed \/ Fresh(f)

-------------------------------------------------------------------------------
(* Files.                                                                    *)

(* The kinds of files are apart, and a manifest is full or a delta.          *)
LEMMA KindFacts ==
    /\ \A f \in BlobFiles : f.kind = "blob"
    /\ \A f \in RunFiles : f.kind = "run"
    /\ \A m \in Manifests : m.kind \in {"manifest", "delta"}
    /\ \A m \in Full : m.kind = "manifest" /\ BaseOf(m) = {} /\ m = Manifest(m.of)
                       /\ m.of \in Projects /\ m.base = {}
    /\ \A m \in Deltas : BaseOf(m) = {Manifest(m.base)} /\ BaseOf(m) \subseteq Full
                         /\ m.of \in Projects
    /\ Manifests = Full \cup Deltas
BY DEF BlobFiles, RunFiles, Manifests, Full, Deltas, BlobFile, RunFile, Manifest, Delta, BaseOf

(* A manifest needs manifests and blobs, no runtime tree.                    *)
LEMMA NeedsFacts ==
    ASSUME NEW m \in Manifests
    PROVE  /\ m \in Needs(m) /\ BaseOf(m) \subseteq Full
           /\ Needs(m) \subseteq Manifests \cup BlobFiles
           /\ Needs(m) \cap Manifests = {m} \cup BaseOf(m)
<1>1. BaseOf(m) \subseteq Full
  BY KindFacts
<1>2. ASSUME NEW n \in Manifests PROVE OwnBlobs(n) \subseteq BlobFiles
  <2>1. n.of \subseteq Blob
    BY KindFacts, ViewAssumption
  <2> QED
    BY <2>1 DEF OwnBlobs, BlobFiles
<1>3. BlobFiles \cap Manifests = {}
  BY KindFacts
<1> QED
  BY <1>1, <1>2, <1>3, KindFacts DEF Needs

(* A full manifest needs itself and its blobs.                               *)
LEMMA FullNeeds ==
    ASSUME NEW m \in Full
    PROVE  Needs(m) = {m} \cup OwnBlobs(m)
BY KindFacts DEF Needs

(* A delta needs itself, its blobs and what its base needs.                  *)
LEMMA DeltaNeeds ==
    ASSUME NEW m \in Manifests
    PROVE  Needs(m) = {m} \cup OwnBlobs(m) \cup UNION {Needs(n) : n \in BaseOf(m)}
<1>1. \A n \in BaseOf(m) : Needs(n) = {n} \cup OwnBlobs(n)
  BY KindFacts, FullNeeds
<1> QED
  BY <1>1 DEF Needs

(* The states of the newest entries of the ref log.                          *)
LEMMA NewestIs ==
    ASSUME NEW S, NEW l \in Seq(S)
    PROVE  /\ Newest(l) \in Seq(S)
           /\ Ranged(Newest(l)) = {l[j] : j \in {k \in 1 .. Len(l) : k > Len(l) - EntryMax}}
           /\ l # <<>> => Newest(l) # <<>> /\ l[Len(l)] \in Ranged(Newest(l))
<1> DEFINE first == IF Len(l) > EntryMax THEN Len(l) - EntryMax + 1 ELSE 1
           w == Newest(l)
<1>1. /\ EntryMax \in Nat \ {0} /\ Len(l) \in Nat /\ first \in Nat
      /\ 1 <= first /\ first <= Len(l) + 1
      /\ \A k \in 1 .. Len(l) : k > Len(l) - EntryMax <=> k >= first
  BY ViewAssumption
<1>2. w = SubSeq(l, first, Len(l))
  BY DEF Newest
<1> HIDE DEF first, w
<1>3. /\ w \in Seq(S) /\ Len(w) = Len(l) - first + 1 /\ DOMAIN w = 1 .. Len(w)
      /\ \A i \in 1 .. Len(w) : w[i] = l[first + i - 1]
  BY <1>1, <1>2
<1>4. Ranged(w) = {l[j] : j \in {k \in 1 .. Len(l) : k >= first}}
  <2>1. ASSUME NEW i \in DOMAIN w
        PROVE  first + i - 1 \in 1 .. Len(l) /\ first + i - 1 >= first /\ w[i] = l[first + i - 1]
    BY <1>1, <1>3
  <2>2. ASSUME NEW j \in 1 .. Len(l), j >= first
        PROVE  j - first + 1 \in DOMAIN w /\ w[j - first + 1] = l[j]
    <3>1. j - first + 1 \in 1 .. Len(w) /\ first + (j - first + 1) - 1 = j
      BY <1>1, <1>3, <2>2
    <3> QED
      BY <1>3, <3>1
  <2> QED
    BY <2>1, <2>2 DEF Ranged
<1>5. l # <<>> => Len(l) \in 1 .. Len(l) /\ Len(l) >= first /\ Len(w) >= 1
  BY <1>1, <1>3 DEF first
<1>6. w # <<>> \/ Len(w) = 0
  BY <1>3
<1> QED
  BY <1>1, <1>3, <1>4, <1>5, <1>6 DEF w

(* A new entry brings its own state alone.                                   *)
LEMMA AppendNames ==
    ASSUME NEW S, NEW l \in Seq(S), NEW m \in S
    PROVE  /\ Append(l, m) \in Seq(S)
           /\ Ranged(Newest(Append(l, m))) \subseteq Ranged(Newest(l)) \cup {m}
<1> DEFINE k == Append(l, m)
<1>1. /\ k \in Seq(S) /\ Len(k) = Len(l) + 1 /\ Len(l) \in Nat
      /\ \A j \in 1 .. Len(l) : k[j] = l[j]
      /\ k[Len(l) + 1] = m
  OBVIOUS
<1> HIDE DEF k
<1>2. Ranged(Newest(k)) = {k[j] : j \in {i \in 1 .. Len(k) : i > Len(k) - EntryMax}}
  BY <1>1, NewestIs
<1>3. Ranged(Newest(l)) = {l[j] : j \in {i \in 1 .. Len(l) : i > Len(l) - EntryMax}}
  BY NewestIs
<1>4. ASSUME NEW j \in 1 .. Len(k), j > Len(k) - EntryMax, j # Len(k)
      PROVE  j \in 1 .. Len(l) /\ j > Len(l) - EntryMax
  BY <1>1, <1>4, ViewAssumption
<1> QED
  BY <1>1, <1>2, <1>3, <1>4 DEF k

(* An entry that keeps the state of its predecessor brings none.             *)
LEMMA KeptNames ==
    ASSUME NEW S, NEW l \in Seq(S)
    PROVE  /\ KeptState(l) \in Seq(S)
           /\ Ranged(Newest(KeptState(l))) \subseteq Ranged(Newest(l))
<1>1. CASE l = <<>>
  BY <1>1 DEF KeptState
<1>2. CASE l # <<>>
  <2>1. l[Len(l)] \in S /\ l[Len(l)] \in Ranged(Newest(l))
    BY <1>2, NewestIs
  <2> QED
    BY <1>2, <2>1, AppendNames DEF KeptState
<1> QED
  BY <1>1, <1>2

(* A ref log that is cut names nothing that it did not.                      *)
LEMMA CutNames ==
    ASSUME NEW S, NEW l \in Seq(S), NEW keep \in 0 .. Len(l)
    PROVE  LET kept == SubSeq(l, Len(l) - keep + 1, Len(l)) IN
           kept \in Seq(S) /\ Ranged(Newest(kept)) \subseteq Ranged(Newest(l))
<1> DEFINE kept == SubSeq(l, Len(l) - keep + 1, Len(l))
<1>1. /\ kept \in Seq(S) /\ Len(kept) = keep /\ Len(l) \in Nat
      /\ \A i \in 1 .. keep : kept[i] = l[Len(l) - keep + i]
  OBVIOUS
<1> HIDE DEF kept
<1>2. ASSUME NEW i \in 1 .. keep, i > keep - EntryMax
      PROVE  Len(l) - keep + i \in 1 .. Len(l) /\ Len(l) - keep + i > Len(l) - EntryMax
  BY <1>1, <1>2, ViewAssumption
<1>3. Ranged(Newest(kept)) \subseteq Ranged(Newest(l))
  BY <1>1, <1>2, NewestIs
<1> QED
  BY <1>1, <1>3 DEF kept

(* The array of the collector holds what the arena names.                    *)
LEMMA RootsAre ==
    ASSUME NEW l \in Seq(Full), NEW v \in ViewRecords
    PROVE  /\ Roots(l, v) \in Seq(Manifests)
           /\ Ranged(Roots(l, v)) = RefsOf(l, v)
<1>1. ASSUME NEW set, set \subseteq Manifests, \A m, n \in set : m = n
      PROVE  OnlyOf(set) \in Seq(Manifests) /\ Ranged(OnlyOf(set)) = set
  <2>1. CASE set = {}
    BY <2>1 DEF OnlyOf, Ranged
  <2>2. CASE set # {}
    <3>1. PICK m \in set : OnlyOf(set) = <<m>>
      BY <2>2 DEF OnlyOf
    <3>2. set = {m} /\ m \in Manifests
      BY <1>1, <3>1
    <3>3. <<m>> \in Seq(Manifests) /\ Ranged(<<m>>) = {m}
      BY <3>2 DEF Ranged
    <3> QED
      BY <3>1, <3>2, <3>3
  <2> QED
    BY <2>1, <2>2
<1>2. ASSUME NEW s \in Seq(Manifests), NEW t \in Seq(Manifests)
      PROVE  s \o t \in Seq(Manifests) /\ Ranged(s \o t) = Ranged(s) \cup Ranged(t)
  <2>1. /\ s \o t \in Seq(Manifests) /\ Len(s \o t) = Len(s) + Len(t)
        /\ \A i \in 1 .. Len(s) : (s \o t)[i] = s[i]
        /\ \A i \in 1 .. Len(t) : (s \o t)[Len(s) + i] = t[i]
    OBVIOUS
  <2>2. \A i \in 1 .. Len(s) : i \in 1 .. Len(s \o t)
    BY <2>1
  <2>3. \A i \in 1 .. Len(t) : Len(s) + i \in 1 .. Len(s \o t)
    BY <2>1
  <2>4. \A i \in 1 .. Len(s \o t) : i \in 1 .. Len(s) \/ (i - Len(s) \in 1 .. Len(t) /\ i = Len(s) + (i - Len(s)))
    BY <2>1
  <2> DEFINE st == s \o t
  <2>5. /\ st \in Seq(Manifests) /\ DOMAIN st = 1 .. Len(st)
        /\ DOMAIN s = 1 .. Len(s) /\ DOMAIN t = 1 .. Len(t)
    BY <2>1
  <2> HIDE DEF st
  <2>6. Ranged(st) \subseteq Ranged(s) \cup Ranged(t)
    BY <2>1, <2>4, <2>5 DEF Ranged, st
  <2>7. Ranged(s) \cup Ranged(t) \subseteq Ranged(st)
    BY <2>1, <2>2, <2>3, <2>5 DEF Ranged, st
  <2> QED
    BY <2>5, <2>6, <2>7 DEF st
<1> DEFINE w == Newest(l)
           viewed == OnlyOf(v.base) \o OnlyOf(v.result)
           older == [i \in 1 .. Len(w) - 1 |-> w[Len(w) - i]]
<1>3. w \in Seq(Manifests)
  BY NewestIs, KindFacts
<1>4. viewed \in Seq(Manifests) /\ Ranged(viewed) = v.base \cup v.result
  <2>1. v.base \subseteq Manifests /\ v.result \subseteq Manifests
    BY KindFacts DEF ViewRecords
  <2> QED
    BY <1>1, <1>2, <2>1 DEF ViewRecords
<1> HIDE DEF viewed
<1>5. CASE w = <<>>
  <2>1. Ranged(w) = {}
    BY <1>5 DEF Ranged
  <2>2. Roots(l, v) = viewed
    BY <1>5 DEF Roots, WithView, viewed
  <2> QED
    BY <1>4, <2>1, <2>2 DEF RefsOf
<1>6. CASE w # <<>>
  <2> HIDE DEF w
  <2>1. Len(w) \in Nat /\ Len(w) >= 1 /\ w[Len(w)] \in Manifests
    BY <1>3, <1>6
  <2>2. older \in Seq(Manifests) /\ Len(older) = Len(w) - 1
    BY <1>3, <2>1
  <2>3. Ranged(w) = {w[Len(w)]} \cup Ranged(older)
    <3>1. ASSUME NEW i \in 1 .. Len(w) - 1
          PROVE  Len(w) - i \in 1 .. Len(w) /\ older[i] = w[Len(w) - i]
      BY <2>1
    <3>2. ASSUME NEW i \in 1 .. Len(w), i # Len(w)
          PROVE  Len(w) - i \in 1 .. Len(w) - 1 /\ older[Len(w) - i] = w[i]
      BY <2>1, <3>2
    <3>3. DOMAIN w = 1 .. Len(w) /\ DOMAIN older = 1 .. Len(w) - 1 /\ Len(w) \in 1 .. Len(w)
      BY <1>3, <2>1, <2>2
    <3> HIDE DEF older
    <3>4. Ranged(w) \subseteq {w[Len(w)]} \cup Ranged(older)
      BY <3>2, <3>3 DEF Ranged
    <3>5. {w[Len(w)]} \cup Ranged(older) \subseteq Ranged(w)
      BY <3>1, <3>3 DEF Ranged
    <3> QED
      BY <3>4, <3>5
  <2>4. <<w[Len(w)]>> \in Seq(Manifests) /\ Ranged(<<w[Len(w)]>>) = {w[Len(w)]}
    BY <2>1 DEF Ranged
  <2> DEFINE newest == <<w[Len(w)]>>
  <2> HIDE DEF older, newest
  <2>5. newest \o viewed \in Seq(Manifests) /\ Ranged(newest \o viewed) = Ranged(newest) \cup Ranged(viewed)
    <3>1. newest \in Seq(Manifests)
      BY <2>4 DEF newest
    <3> QED
      BY <1>2, <1>4, <3>1
  <2>6. /\ (newest \o viewed) \o older \in Seq(Manifests)
        /\ Ranged((newest \o viewed) \o older) = Ranged(newest \o viewed) \cup Ranged(older)
    BY <1>2, <2>2, <2>5
  <2>7. Roots(l, v) = (newest \o viewed) \o older
    <3>1. Roots(l, v) = newest \o viewed \o older
      BY <1>6 DEF Roots, WithView, viewed, older, w, newest
    <3> QED
      BY <3>1
  <2>8. Ranged(newest) = {w[Len(w)]}
    BY <2>4 DEF newest
  <2> QED
    BY <1>4, <2>3, <2>5, <2>6, <2>7, <2>8 DEF RefsOf, w
<1> QED
  BY <1>5, <1>6

(* What is named is a file, and the runtime tree named is the view's.        *)
LEMMA NamedFacts ==
    ASSUME Typed
    PROVE  /\ RefsOf(log, view) \subseteq Manifests
           /\ RunsOf(view) \subseteq RunFiles
           /\ Named \subseteq File
           /\ Named \cap RunFiles = RunsOf(view)
<1>1. RefsOf(log, view) \subseteq Manifests
  <2>1. Ranged(Newest(log)) \subseteq Manifests
    BY NewestIs, KindFacts DEF Ranged, Typed
  <2> QED
    BY <2>1, KindFacts DEF RefsOf, Typed, ViewRecords
<1>2. RunsOf(view) \subseteq RunFiles
  BY ViewAssumption DEF RunsOf, RunFiles, Run, Typed, ViewRecords
<1>3. RunFiles \cap (Manifests \cup BlobFiles) = {}
  BY KindFacts
<1> QED
  BY <1>1, <1>2, <1>3, NeedsFacts DEF Named, File

-------------------------------------------------------------------------------
(* What a step keeps.                                                        *)

(* Only files that somebody relies on, or nothing names, are removed; a file *)
(* that is written is young, and not of those the collection may take.       *)
Careful ==
    \A f \in File :
        /\ Stored(f) /\ ~Stored(f)' => f \in exposed \/ f \in PassedOver \/ f \notin Named'
        /\ ~Stored(f) /\ Stored(f)' => Fresh(f)'

NothingRunFound == \A p \in Proc : proc[p].found \cap RunFiles = {}

(* A file that is relied on, and not named, is exposed or was written anew.  *)
LEMMA FoundKept ==
    ASSUME Typed', exposed \cap RunFiles = {}, exposed \subseteq File,
           NothingRunFound', Careful, Remembers
    PROVE  Found'
<1>1. Relied' \cap RunFiles = {}
  BY DEF Relied, NothingRunFound
<1>2. exposed' \cap RunFiles = {}
  BY <1>1 DEF Remembers
<1>3. ASSUME NEW p \in Proc, NEW f \in proc'[p].found, f \notin Named', f \notin exposed'
      PROVE  Fresh(f)'
  <2>1. f \in Relied' /\ f \in File
    BY <1>3 DEF Relied, Typed, Procs
  <2>2. ~Stored(f) /\ Stored(f)'
    BY <2>1, <1>3 DEF Remembers
  <2> QED
    BY <2>1, <2>2 DEF Careful
<1> QED
  BY <1>2, <1>3 DEF Found, NothingRunFound

(* What was backed stays in the storage when it is named.                    *)
LEMMA NamedKept ==
    ASSUME NamedIsStored, Named' \subseteq File, Careful, Remembers,
           \A f \in Named' : Backed(f)
    PROVE  NamedIsStored'
<1> SUFFICES ASSUME NEW f \in Named', ~Stored(f)'
             PROVE  f \in exposed' \/ f \in passed'
  BY DEF NamedIsStored
<1>1. CASE f \in exposed \/ f \in passed
  BY <1>1 DEF Remembers
<1>2. CASE Stored(f)
  BY <1>1, <1>2 DEF Careful, Remembers
<1>3. Fresh(f) => Stored(f)
  BY DEF Fresh, Stored
<1> QED
  BY <1>1, <1>2, <1>3 DEF NamedIsStored, Backed

(* What was backed is out of reach of the collection that is under way.      *)
LEMMA RootedKept ==
    ASSUME Rooted, Careful, Remembers, Named' \subseteq File,
           \A f \in Named' : Backed(f),
           gc'.old \subseteq gc.old,
           gc'.old # {} => gc'.roots = gc.roots /\ gc'.runs = gc.runs
    PROVE  \A f \in gc'.old \cap Named' : f \in exposed' \/ f \in Reach'
<1> SUFFICES ASSUME NEW f \in gc'.old \cap Named', f \notin Reach'
             PROVE  f \in exposed'
  OBVIOUS
<1>1. f \notin Reach
  BY DEF Reach
<1>2. ~Fresh(f)
  BY DEF Fresh
<1>3. f \in exposed
  BY <1>1, <1>2 DEF Rooted, Backed
<1>4. ~(~Stored(f) /\ Stored(f)')
  BY DEF Careful, Fresh
<1> QED
  BY <1>3, <1>4 DEF Remembers

(* The steps that change neither the storage nor what is named.              *)
LEMMA SameFilesCareful ==
    ASSUME UNCHANGED disk
    PROVE  Careful
BY DEF Careful, Stored

(* The histories are of files.                                               *)
LEMMA HistoryTyped ==
    ASSUME Typed, Remembers, proc' \in [Proc -> Procs]
    PROVE  exposed' \subseteq File /\ passed' \subseteq BlobFiles
<1>1. Relied' \subseteq File
  BY DEF Relied, Procs
<1>2. PassedOver \subseteq BlobFiles
  <2>1. gc.roots \subseteq Manifests
    BY DEF Typed, IsCollector
  <2>2. ASSUME NEW m \in Manifests PROVE OwnBlobs(m) \subseteq BlobFiles
    <3>1. m.of \subseteq Blob
      BY KindFacts, ViewAssumption
    <3> QED
      BY <3>1 DEF OwnBlobs, BlobFiles
  <2> QED
    BY <2>1, <2>2 DEF PassedOver
<1> QED
  BY <1>1, <1>2 DEF Typed, Remembers

(* What the walk has marked stays marked while the collector stands still    *)
(* and no record comes to be read again.                                     *)
LEMMA MarkedKept ==
    ASSUME Marked,
           gc'.pc = gc.pc, gc'.roots = gc.roots, gc'.items = gc.items, gc'.at = gc.at,
           gc'.seen = gc.seen, gc'.live = gc.live, gc'.complete = gc.complete,
           gc.pc = "walk" \/ Walked => \A m \in gc.roots : Unlisted(m) \subseteq Unlisted(m)'
    PROVE  Marked'
<1>1. (Walked' <=> Walked) /\ (NoDelta' <=> NoDelta)
  BY DEF Walked, NoDelta
<1>2. (\A m \in gc.roots : BaseOf(m) \subseteq gc.roots)'
  BY DEF Marked
<1>3. (gc.pc = "walk" \/ Walked =>
          /\ gc.roots \subseteq gc.live
          /\ gc.complete => \A m \in gc.roots : m \in gc.seen => OwnBlobs(m) \ Unlisted(m) \subseteq gc.live)'
  BY <1>1 DEF Marked
<1>4. (NoDelta =>
          /\ gc.items \in Seq(Manifests) /\ Ranged(gc.items) = gc.roots
          /\ \A i \in DOMAIN gc.items : i < gc.at => gc.items[i] \in gc.seen)'
  BY <1>1 DEF Marked
<1>5. /\ (gc.pc = "walk" \/ Walked \/ gc.seen = {})'
      /\ (Walked => gc.at \notin DOMAIN gc.items)' /\ (gc.pc = "blobs" => gc.complete)'
  BY <1>1 DEF Marked
<1> QED
  BY <1>2, <1>3, <1>4, <1>5 DEF Marked

-------------------------------------------------------------------------------
(* Steps of a process, by what they change.                                  *)

SharedMay == shared' \subseteq shared \/ (~Sweeping /\ shared' \subseteq Proc)

(* The holders of the lock are processes, and none while a sweep is under   *)
(* way.                                                                     *)
LEMMA SharedTyped ==
    ASSUME Typed, SharedMay, gc'.pc = gc.pc
    PROVE  shared' \subseteq Proc /\ (Sweeping' => shared' = {})
BY DEF Typed, SharedMay, Sweeping

(* A process goes on: no file is written, and nothing recorded.              *)
Quiet(p, q) ==
    /\ Becomes(p, q)
    /\ q \in Procs /\ WorkOf(q)
    /\ q.wrote \subseteq proc[p].wrote /\ q.found \cap RunFiles = {}
    /\ SharedMay /\ left' \in 0 .. Ops
    /\ UNCHANGED <<disk, damaged, log, view, gc>>

(* Such a step keeps the invariant.                                         *)
LEMMA QuietKeeps ==
    ASSUME IInv, Remembers, NEW p \in Proc, NEW q, Quiet(p, q)
    PROVE  IInv'
<1>1. Typed'
  <2>1. proc' \in [Proc -> Procs]
    BY DEF IInv, Typed, Quiet, Becomes
  <2>2. shared' \subseteq Proc /\ (Sweeping' => shared' = {})
    BY SharedTyped DEF IInv, Quiet
  <2>3. exposed' \subseteq File /\ passed' \subseteq BlobFiles
    BY <2>1, HistoryTyped DEF IInv
  <2> QED
    BY <2>1, <2>2, <2>3 DEF IInv, Typed, DamageFits, Quiet, Stored
<1>2. Careful /\ Named' = Named
  BY SameFilesCareful DEF Quiet, Named
<1>3. \A f \in Named' : Backed(f)
  BY <1>2 DEF Backed
<1>4. Named' \subseteq File
  BY <1>2, NamedFacts DEF IInv
<1>5. proc \in [Proc -> Procs] /\ proc' = [proc EXCEPT ![p] = q]
  BY DEF IInv, Typed, Quiet, Becomes
<1>6. Work'
  BY <1>5 DEF IInv, Work, WorkOf, Has, Quiet
<1>7. Written'
  BY <1>5 DEF IInv, Written, Quiet
<1>8. NothingRunFound'
  BY <1>5 DEF IInv, Found, NothingRunFound, Quiet
<1>9. Found'
  BY <1>1, <1>2, <1>8, FoundKept DEF IInv, Found, Typed
<1>10. NamedIsStored'
  BY <1>2, <1>3, <1>4, NamedKept DEF IInv
<1>11. Rooted'
  <2>1. \A f \in gc'.old \cap Named' : f \in exposed' \/ f \in Reach'
    BY <1>2, <1>3, <1>4, RootedKept DEF IInv, Quiet
  <2>2. Marked'
    BY MarkedKept DEF IInv, Rooted, Quiet, Unlisted
  <2> QED
    BY <2>1, <2>2 DEF Rooted
<1> QED
  BY <1>1, <1>6, <1>7, <1>9, <1>10, <1>11 DEF IInv

(* A file of what a process captures is put in the storage.                  *)
Having(f, q) ==
    IF Stored(f) THEN [q EXCEPT !.found = @ \cup {f}] ELSE [q EXCEPT !.wrote = @ \cup {f}]

Puts(p, f, q) ==
    /\ Put(p, f, q)
    /\ f \in File /\ (f \in RunFiles => ~Stored(f))
    /\ q \in Procs /\ q.wrote = proc[p].wrote /\ q.found = proc[p].found
    /\ WorkOf(Having(f, q))
    /\ SharedMay /\ left' \in 0 .. Ops
    /\ UNCHANGED <<damaged, log, view>>

(* Such a step keeps the invariant: what is written is young, what is found *)
(* is backed.                                                               *)
LEMMA PutsKeeps ==
    ASSUME IInv, Remembers, NEW p \in Proc, NEW f, NEW q, Puts(p, f, q)
    PROVE  IInv'
<1> DEFINE r == Having(f, q)
<1>1. /\ r \in Procs /\ WorkOf(r) /\ Has(r, f)
      /\ r.wrote = proc[p].wrote \cup (IF Stored(f) THEN {} ELSE {f})
      /\ r.found = proc[p].found \cup (IF Stored(f) THEN {f} ELSE {})
      /\ proc \in [Proc -> Procs] /\ proc' = [proc EXCEPT ![p] = r]
      /\ proc' \in [Proc -> Procs]
  <2>1. q \in Procs /\ proc \in [Proc -> Procs] /\ f \in File
    BY DEF IInv, Typed, Puts
  <2>2. proc' = [proc EXCEPT ![p] = r] /\ WorkOf(r)
    BY DEF Puts, Put, Becomes, Having
  <2>3. CASE Stored(f)
    <3>1. r = [q EXCEPT !.found = q.found \cup {f}]
      BY <2>3 DEF Having
    <3>2. r \in Procs /\ r.wrote = q.wrote /\ r.found = q.found \cup {f}
      BY <2>1, <3>1 DEF Procs
    <3> HIDE DEF r
    <3> QED
      BY <2>1, <2>2, <2>3, <3>2 DEF Puts, Has
  <2>4. CASE ~Stored(f)
    <3>1. r = [q EXCEPT !.wrote = q.wrote \cup {f}]
      BY <2>4 DEF Having
    <3>2. r \in Procs /\ r.found = q.found /\ r.wrote = q.wrote \cup {f}
      BY <2>1, <3>1 DEF Procs
    <3> HIDE DEF r
    <3> QED
      BY <2>1, <2>2, <2>4, <3>2 DEF Puts, Has
  <2> QED
    BY <2>3, <2>4
<1> HIDE DEF r
<1>2. /\ IsCollector(gc') /\ gc'.old \subseteq gc.old
      /\ gc'.pc = gc.pc /\ gc'.roots = gc.roots /\ gc'.runs = gc.runs
      /\ gc'.items = gc.items /\ gc'.at = gc.at /\ gc'.seen = gc.seen
      /\ gc'.live = gc.live /\ gc'.complete = gc.complete
  <2>1. IsCollector(gc) /\ (gc' = gc \/ gc' = [gc EXCEPT !.old = gc.old \ {f}])
    BY DEF IInv, Typed, Puts, Put
  <2> QED
    BY <2>1 DEF IsCollector
<1>3. /\ disk' \in [File -> {"absent", "young", "old"}]
      /\ \A g \in File : Stored(g) => Stored(g)' /\ disk'[g] = disk[g]
      /\ \A g \in File : g # f => disk'[g] = disk[g]
      /\ ~Stored(f) => Fresh(f)'
  <2>1. disk \in [File -> {"absent", "young", "old"}] /\ f \in File /\ IsCollector(gc)
    BY DEF IInv, Typed, Puts
  <2>2. CASE Stored(f) /\ UNCHANGED disk
    BY <2>1, <2>2 DEF Stored
  <2>3. CASE /\ ~Stored(f) /\ disk' = [disk EXCEPT ![f] = "young"]
             /\ gc' = [gc EXCEPT !.old = gc.old \ {f}]
    <3>1. gc'.old = gc.old \ {f}
      BY <2>1, <2>3 DEF IsCollector
    <3> QED
      BY <2>1, <2>3, <3>1 DEF Stored, Fresh
  <2> QED
    BY <2>2, <2>3 DEF Puts, Put
<1>4. Careful /\ Named' = Named
  <2>1. Named' = Named
    BY DEF Named, Puts
  <2>2. ASSUME NEW g \in File PROVE (Stored(g) => Stored(g)') /\ (~Stored(g) /\ Stored(g)' => Fresh(g)')
    BY <1>3 DEF Stored
  <2> QED
    BY <2>1, <2>2 DEF Careful
<1>5. Typed'
  <2>1. shared' \subseteq Proc /\ (Sweeping' => shared' = {})
    BY <1>2, SharedTyped DEF IInv, Puts
  <2>2. exposed' \subseteq File /\ passed' \subseteq BlobFiles
    BY <1>1, HistoryTyped DEF IInv
  <2>3. DamageFits'
    BY <1>3 DEF IInv, Typed, DamageFits, Puts, File
  <2> QED
    BY <1>1, <1>2, <1>3, <2>1, <2>2, <2>3 DEF IInv, Typed, Puts
<1>6. \A g \in Named' : Backed(g)
  BY <1>4 DEF Backed
<1>7. Named' \subseteq File
  BY <1>4, NamedFacts DEF IInv
<1>8. Work'
  BY <1>1 DEF IInv, Work, WorkOf, Has
<1>9. Written'
  <2>1. ASSUME NEW s \in Proc, NEW g \in proc[s].wrote
        PROVE  /\ disk'[g] = "young" /\ g \notin gc'.old /\ g \notin RunsOf(view)'
               /\ Stored(g)
               /\ \A t \in Proc : t # s => g \notin proc[t].wrote
    <3>1. g \in File /\ Stored(g)
      BY DEF IInv, Written, Typed, Procs, Stored
    <3> QED
      BY <3>1, <1>2, <1>3 DEF IInv, Written, Puts
  <2>2. ~Stored(f) => Fresh(f)' /\ f \notin RunsOf(view)'
    <3>1. ~Stored(f) => f \notin RunFiles \/ f \notin Named
      BY KindFacts DEF IInv, NamedIsStored, Found, Typed
    <3>2. f \in RunsOf(view) => f \in RunFiles /\ f \in Named
      BY NamedFacts DEF IInv
    <3> QED
      BY <1>3, <3>1, <3>2 DEF Puts
  <2> QED
    BY <1>1, <2>1, <2>2 DEF Written, Fresh
<1>10. Found'
  <2>1. NothingRunFound'
    BY <1>1 DEF IInv, Found, NothingRunFound, Puts
  <2> QED
    BY <2>1, <1>4, <1>5, FoundKept DEF IInv, Found, Typed
<1>11. NamedIsStored'
  BY <1>4, <1>6, <1>7, NamedKept DEF IInv
<1>12. Rooted'
  <2>1. \A g \in gc'.old \cap Named' : g \in exposed' \/ g \in Reach'
    BY <1>2, <1>4, <1>6, <1>7, RootedKept DEF IInv
  <2>2. Marked'
    BY <1>2, MarkedKept DEF IInv, Rooted, Puts, Unlisted
  <2> QED
    BY <2>1, <2>2 DEF Rooted
<1> QED
  BY <1>5, <1>8, <1>9, <1>10, <1>11, <1>12 DEF IInv

(* A reference is recorded, or given up, by a command that ends with it.     *)
Recording(p) ==
    /\ \/ UNCHANGED proc /\ RunsOf(view') \subseteq RunsOf(view)
       \/ Becomes(p, Idle) /\ RunsOf(view') \subseteq RunsOf(view) \cup proc[p].wrote
    /\ log' \in Seq(Full) /\ view' \in ViewRecords
    /\ \A f \in Named' : Backed(f)
    /\ SharedMay /\ left' \in 0 .. Ops
    /\ UNCHANGED <<disk, damaged, gc>>

(* A process that does nothing is a process, and has nothing to cover.       *)
LEMMA IdleFacts ==
    /\ Idle \in Procs /\ WorkOf(Idle)
    /\ Idle.wrote = {} /\ Idle.found = {} /\ Idle.pc = "idle"
<1>1. NoView \in ViewRecords
  BY ViewAssumption DEF NoView, ViewRecords
<1> QED
  BY <1>1 DEF Idle, Procs, WorkOf

(* Such a step keeps the invariant: all that is named from now on is        *)
(* backed.                                                                  *)
LEMMA RecordsKeep ==
    ASSUME IInv, Remembers, NEW p \in Proc, Recording(p)
    PROVE  IInv'
<1>1. /\ proc \in [Proc -> Procs] /\ proc' \in [Proc -> Procs]
      /\ proc' = proc \/ proc' = [proc EXCEPT ![p] = Idle]
  BY IdleFacts DEF IInv, Typed, Recording, Becomes
<1>2. Typed'
  <2>1. shared' \subseteq Proc /\ (Sweeping' => shared' = {})
    BY SharedTyped DEF IInv, Recording
  <2>2. exposed' \subseteq File /\ passed' \subseteq BlobFiles
    BY <1>1, HistoryTyped DEF IInv
  <2> QED
    BY <1>1, <2>1, <2>2 DEF IInv, Typed, DamageFits, Recording, Stored
<1>3. Careful
  BY SameFilesCareful DEF Recording
<1>4. Named' \subseteq File
  <2>1. RefsOf(log', view') \subseteq Manifests
    <3>1. Ranged(Newest(log')) \subseteq Full
      BY NewestIs DEF Ranged, Recording
    <3> QED
      BY <3>1, KindFacts DEF RefsOf, Recording, ViewRecords
  <2>2. RunsOf(view') \subseteq RunFiles
    BY ViewAssumption DEF RunsOf, RunFiles, Run, Recording, ViewRecords
  <2> QED
    BY <2>1, <2>2, NeedsFacts DEF Named, File
<1>5. Work'
  BY <1>1, IdleFacts DEF IInv, Work
<1>6. Written'
  <2>1. ASSUME NEW s \in Proc, NEW g \in proc'[s].wrote
        PROVE  g \in proc[s].wrote /\ g \notin RunsOf(view')
    <3>1. CASE UNCHANGED proc /\ RunsOf(view') \subseteq RunsOf(view)
      BY <3>1 DEF IInv, Written
    <3>2. CASE Becomes(p, Idle) /\ RunsOf(view') \subseteq RunsOf(view) \cup proc[p].wrote
      <4>1. s # p /\ proc'[s] = proc[s]
        BY <1>1, <3>2, IdleFacts DEF Becomes
      <4> QED
        BY <3>2, <4>1 DEF IInv, Written
    <3> QED
      BY <3>1, <3>2 DEF Recording
  <2> QED
    BY <2>1 DEF IInv, Written, Recording
<1>7. Found'
  <2>1. NothingRunFound'
    BY <1>1, IdleFacts DEF IInv, Found, NothingRunFound
  <2> QED
    BY <2>1, <1>2, <1>3, FoundKept DEF IInv, Found, Typed
<1>8. NamedIsStored'
  BY <1>3, <1>4, NamedKept DEF IInv, Recording
<1>9. Rooted'
  <2>1. \A f \in gc'.old \cap Named' : f \in exposed' \/ f \in Reach'
    BY <1>3, <1>4, RootedKept DEF IInv, Recording
  <2>2. Marked'
    BY MarkedKept DEF IInv, Rooted, Recording, Unlisted
  <2> QED
    BY <2>1, <2>2 DEF Rooted
<1> QED
  BY <1>2, <1>5, <1>6, <1>7, <1>8, <1>9 DEF IInv

-------------------------------------------------------------------------------
(* The steps of a process.                                                   *)

(* What covers the capture of a process is backed.                           *)
LEMMA TookBacked ==
    ASSUME IInv, NEW p \in Proc, proc[p].pc = "record",
           BaseOf(proc[p].took) \subseteq RefsOf(log, view)
    PROVE  proc[p].took \in Manifests /\ \A f \in Needs(proc[p].took) : Backed(f)
<1> DEFINE q == proc[p]
<1>1. WorkOf(q) /\ q.pc = "record"
  BY DEF IInv, Work
<1>2. q.took \in Manifests
  BY <1>1, KindFacts DEF WorkOf
<1>3. \A f \in q.wrote \cup q.found : Backed(f)
  BY DEF IInv, Written, Found, Backed, Fresh
<1>4. OwnBlobs(q.took) \cup {q.took} \subseteq q.wrote \cup q.found
  BY <1>1 DEF WorkOf, OwnBlobs, Has
<1>5. \A n \in BaseOf(q.took) : Needs(n) \subseteq Named
  BY DEF Named
<1>6. \A f \in Named : Backed(f)
  BY DEF Backed
<1> QED
  BY <1>2, <1>3, <1>4, <1>5, <1>6, DeltaNeeds

(* The end of a command gives up its locks.                                  *)
LEMMA EndsMay ==
    ASSUME NEW p, Ends(p)
    PROVE  Becomes(p, Idle) /\ SharedMay
BY DEF Ends, SharedMay

(* The state of an entry is a full manifest, which needs nothing else.      *)
LEMMA RecordStateKeeps ==
    ASSUME IInv, Remembers, NEW p \in Proc, RecordState(p)
    PROVE  IInv'
<1>1. proc[p].took \in Full /\ BaseOf(proc[p].took) = {}
  BY KindFacts DEF IInv, Work, WorkOf, RecordState
<1>2. \A f \in Needs(proc[p].took) : Backed(f)
  BY <1>1, TookBacked DEF RecordState
<1>3. log \in Seq(Full) /\ (log' = KeptState(log) \/ log' = Append(log, proc[p].took))
  BY DEF IInv, Typed, RecordState
<1>4. /\ log' \in Seq(Full)
      /\ Ranged(Newest(log')) \subseteq Ranged(Newest(log)) \cup {proc[p].took}
  <2>1. CASE log' = KeptState(log)
    BY <1>3, <2>1, KeptNames
  <2>2. CASE log' = Append(log, proc[p].took)
    BY <1>1, <1>3, <2>2, AppendNames
  <2> QED
    BY <1>3, <2>1, <2>2
<1>5. \A f \in Named' : Backed(f)
  BY <1>2, <1>4 DEF Named, RefsOf, Backed, RecordState
<1>6. Recording(p)
  BY <1>4, <1>5, EndsMay DEF IInv, Typed, RecordState, Recording
<1> QED
  BY <1>6, RecordsKeep

(* The baseline of a view is a full manifest, with the runtime tree just    *)
(* made.                                                                    *)
LEMMA RecordViewKeeps ==
    ASSUME IInv, Remembers, NEW p \in Proc, RecordView(p)
    PROVE  IInv'
<1>1. proc[p].took \in Full /\ BaseOf(proc[p].took) = {}
  BY KindFacts DEF IInv, Work, WorkOf, RecordView
<1>2. \A f \in Needs(proc[p].took) : Backed(f)
  BY <1>1, TookBacked DEF RecordView
<1>3. PICK n \in Run : RunFile(n) \in proc[p].wrote
  BY DEF IInv, Work, WorkOf, RecordView
<1>4. \E k \in Run : {k} \in NewRun(p)
  BY <1>3 DEF NewRun, RunFile, RunFiles
<1>5. PICK k \in Run : /\ {k} \in NewRun(p)
                       /\ view' = [base |-> {proc[p].took}, result |-> {}, run |-> k]
  BY <1>4 DEF RecordView
<1>6. RunFile(k) \in proc[p].wrote
  BY <1>5 DEF NewRun, RunFile, RunFiles
<1>7. view' \in ViewRecords
  <2>1. k \in 0 .. MaxRun
    BY ViewAssumption DEF Run
  <2> QED
    BY <1>1, <1>5, <2>1 DEF ViewRecords
<1>8. /\ RunsOf(view') = {RunFile(k)}
      /\ RefsOf(log', view') \subseteq RefsOf(log, view) \cup {proc[p].took}
      /\ log' \in Seq(Full)
  <2>1. k # 0
    BY ViewAssumption DEF Run
  <2>2. log' \in Seq(Full) /\ Ranged(Newest(log')) \subseteq Ranged(Newest(log))
    BY KeptNames DEF RecordView, IInv, Typed
  <2> QED
    BY <1>5, <2>1, <2>2 DEF RunsOf, RefsOf
<1>9. Backed(RunFile(k))
  BY <1>6 DEF IInv, Written, Backed, Fresh
<1>10. \A f \in Named' : Backed(f)
  BY <1>2, <1>8, <1>9 DEF Named, Backed
<1>11. Recording(p)
  BY <1>6, <1>7, <1>8, <1>10, EndsMay DEF IInv, Typed, RecordView, Recording
<1> QED
  BY <1>11, RecordsKeep

(* The result of a run is a delta of the baseline that the view still       *)
(* names.                                                                   *)
LEMMA RecordResultKeeps ==
    ASSUME IInv, Remembers, NEW p \in Proc, RecordResult(p)
    PROVE  IInv'
<1>1. proc[p].took \in Deltas /\ BaseOf(proc[p].took) \subseteq view.base
  BY DEF IInv, Work, WorkOf, RecordResult
<1>2. \A f \in Needs(proc[p].took) : Backed(f)
  BY <1>1, TookBacked DEF RecordResult, RefsOf
<1>3. view \in ViewRecords
  BY DEF IInv, Typed
<1>4. view'.base = view.base /\ view'.run = view.run /\ view'.result = {proc[p].took}
  BY <1>3 DEF RecordResult, ViewRecords
<1>5. view' \in ViewRecords
  BY <1>1, <1>3, <1>4 DEF RecordResult, ViewRecords
<1>6. /\ RunsOf(view') = RunsOf(view) /\ log' \in Seq(Full)
      /\ RefsOf(log', view') \subseteq RefsOf(log, view) \cup {proc[p].took}
  <2>1. log' \in Seq(Full) /\ Ranged(Newest(log')) \subseteq Ranged(Newest(log))
    BY KeptNames DEF RecordResult, IInv, Typed
  <2> QED
    BY <1>4, <2>1 DEF RunsOf, RefsOf
<1>7. \A f \in Named' : Backed(f)
  BY <1>2, <1>6 DEF Named, Backed
<1>8. Recording(p)
  BY <1>5, <1>6, <1>7, EndsMay DEF IInv, Typed, RecordResult, Recording
<1> QED
  BY <1>8, RecordsKeep

(* Nothing is named that was not before.                                    *)
LEMMA RemoveViewKeeps ==
    ASSUME IInv, Remembers, NEW p \in Proc, RemoveView(p)
    PROVE  IInv'
<1>1. /\ view' \in ViewRecords /\ RunsOf(view') = {} /\ log' \in Seq(Full)
      /\ RefsOf(log', view') \subseteq RefsOf(log, view)
  <2>1. log' \in Seq(Full) /\ Ranged(Newest(log')) \subseteq Ranged(Newest(log))
    BY KeptNames DEF RemoveView, IInv, Typed
  <2> QED
    BY <2>1, ViewAssumption DEF RemoveView, NoView, ViewRecords, RunsOf, RefsOf
<1>2. \A f \in Named' : Backed(f)
  BY <1>1 DEF Named, Backed
<1>3. left' \in 0 .. Ops
  BY ViewAssumption DEF IInv, Typed, RemoveView, Asks
<1>4. Recording(p)
  BY <1>1, <1>2, <1>3 DEF IInv, Typed, RemoveView, Recording, SharedMay
<1> QED
  BY <1>4, RecordsKeep

(* A process that begins has nothing yet.                                   *)
LEMMA AskKeeps ==
    ASSUME IInv, Remembers, NEW p \in Proc,
           AskState(p) \/ \E op \in {"view", "seal"} : AskView(p, op)
    PROVE  IInv'
<1>1. left' \in 0 .. Ops /\ SharedMay
  BY ViewAssumption DEF IInv, Typed, AskState, AskView, Asks, SharedMay
<1>2. CASE AskState(p)
  <2> DEFINE prev == {m \in Ranged(log) : m = log[Len(log)]}
             q == [Idle EXCEPT !.op = "state", !.pc = "lock", !.prev = prev]
  <2>0. prev \subseteq Manifests
    BY KindFacts DEF IInv, Typed, Ranged
  <2>1. q \in Procs /\ WorkOf(q) /\ q.wrote = {} /\ q.found = {}
    BY <2>0, IdleFacts DEF Procs, WorkOf
  <2>2. Quiet(p, q)
    BY <1>1, <1>2, <2>1 DEF Quiet, AskState
  <2> QED
    BY <2>2, QuietKeeps
<1>3. ASSUME NEW op \in {"view", "seal"}, AskView(p, op) PROVE IInv'
  <2> DEFINE q == [Idle EXCEPT !.op = op, !.pc = "asked", !.saw = view]
  <2>1. q \in Procs /\ WorkOf(q) /\ q.wrote = {} /\ q.found = {}
    BY IdleFacts DEF IInv, Typed, Procs, WorkOf
  <2>2. Quiet(p, q)
    BY <1>1, <1>3, <2>1 DEF Quiet, AskView
  <2> QED
    BY <2>2, QuietKeeps
<1> QED
  BY <1>2, <1>3

(* The lock of the runtime tree is no file of the storage.                  *)
LEMMA LockRunKeeps ==
    ASSUME IInv, Remembers, NEW p \in Proc, LockRun(p)
    PROVE  IInv'
<1>1. proc[p] \in Procs /\ WorkOf(proc[p]) /\ proc[p].found \cap RunFiles = {}
  BY DEF IInv, Typed, Work, Found
<1>2. PICK pc \in {"lock", "run"} :
        /\ Becomes(p, [proc[p] EXCEPT !.pc = pc])
        /\ pc = "run" => proc[p].op = "seal"
  BY DEF LockRun
<1> DEFINE q == [proc[p] EXCEPT !.pc = pc]
<1>3. q \in Procs /\ WorkOf(q) /\ q.wrote = proc[p].wrote /\ q.found = proc[p].found
  BY <1>1, <1>2 DEF Procs, WorkOf
<1>4. Quiet(p, q)
  BY <1>1, <1>2, <1>3 DEF IInv, Typed, LockRun, Quiet, SharedMay
<1> QED
  BY <1>4, QuietKeeps

(* What is to be sealed is a delta of the baseline that the process saw.    *)
LEMMA SealKeeps ==
    ASSUME IInv, Remembers, NEW p \in Proc, NEW c \in Projects, Seal(p, c)
    PROVE  IInv'
<1>1. proc[p] \in Procs /\ WorkOf(proc[p]) /\ proc[p].found \cap RunFiles = {}
  BY DEF IInv, Typed, Work, Found
<1>2. PICK base \in proc[p].saw.base :
        Becomes(p, [proc[p] EXCEPT !.pc = "put", !.took = Delta(c, base.of),
                                   !.todo = c \ base.of])
  BY DEF Seal
<1> DEFINE q == [proc[p] EXCEPT !.pc = "put", !.took = Delta(c, base.of), !.todo = c \ base.of]
<1>3. base = Manifest(base.of) /\ base.of \in Projects
  <2>1. base \in Full
    BY <1>1 DEF Procs, ViewRecords
  <2> QED
    BY <2>1, KindFacts
<1>4. /\ Delta(c, base.of) \in Deltas /\ BaseOf(Delta(c, base.of)) = {base}
      /\ Delta(c, base.of).of \ Delta(c, base.of).base = c \ base.of
  BY <1>3 DEF Deltas, Delta, BaseOf
<1>5. c \ base.of \subseteq Blob
  BY ViewAssumption
<1>6. /\ q.op = proc[p].op /\ q.pc = "put" /\ q.took = Delta(c, base.of) /\ q.todo = c \ base.of
      /\ q.saw = proc[p].saw /\ q.wrote = proc[p].wrote /\ q.found = proc[p].found
      /\ q \in Procs
  BY <1>1, <1>4, <1>5, KindFacts DEF Procs
<1> HIDE DEF q
<1>7. proc[p].op = "seal"
  BY <1>1 DEF Seal, WorkOf
<1>8. WorkOf(q)
  BY <1>4, <1>6, <1>7 DEF WorkOf
<1>9. Quiet(p, q)
  BY <1>1, <1>2, <1>6, <1>8 DEF IInv, Typed, Seal, Quiet, SharedMay, q
<1> QED
  BY <1>9, QuietKeeps

(* What a reset relies on is named when it is found.                        *)
LEMMA ResetKeeps ==
    ASSUME IInv, Remembers, NEW p \in Proc, Reset(p)
    PROVE  IInv'
<1>1. PICK m \in Ranged(log) :
        Becomes(p, [Idle EXCEPT !.op = "reset", !.pc = "record", !.took = m, !.found = Needs(m)])
  BY DEF Reset
<1> DEFINE q == [Idle EXCEPT !.op = "reset", !.pc = "record", !.took = m, !.found = Needs(m)]
<1>2. m \in Full
  BY DEF IInv, Typed, Ranged
<1>3. /\ Needs(m) \subseteq File /\ Needs(m) \cap RunFiles = {}
      /\ m \in Needs(m) /\ OwnBlobs(m) \subseteq Needs(m) /\ BaseOf(m) = {}
  <2>1. m \in Manifests
    BY <1>2, KindFacts
  <2>2. RunFiles \cap (Manifests \cup BlobFiles) = {}
    BY KindFacts
  <2> QED
    BY <1>2, <2>1, <2>2, NeedsFacts, KindFacts DEF File, Needs
<1>4. /\ q.op = "reset" /\ q.pc = "record" /\ q.took = m /\ q.found = Needs(m)
      /\ q.todo = {} /\ q.wrote = {} /\ q \in Procs
  BY <1>2, <1>3, IdleFacts, KindFacts DEF Procs, Idle
<1> HIDE DEF q
<1>5. WorkOf(q)
  BY <1>2, <1>3, <1>4 DEF WorkOf, Has, OwnBlobs
<1>6. left' \in 0 .. Ops
  BY ViewAssumption DEF IInv, Typed, Reset, Asks
<1>7. Quiet(p, q)
  BY <1>1, <1>3, <1>4, <1>5, <1>6 DEF Reset, Quiet, SharedMay, q
<1> QED
  BY <1>7, QuietKeeps

(* A file put in the storage is one that the process has.                    *)
LEMMA HavingFacts ==
    ASSUME NEW q \in Procs, NEW f \in File
    PROVE  LET r == Having(f, q) IN
           /\ r.op = q.op /\ r.pc = q.pc /\ r.saw = q.saw /\ r.took = q.took /\ r.todo = q.todo
           /\ q.wrote \subseteq r.wrote /\ q.found \subseteq r.found /\ Has(r, f)
           /\ ~Stored(f) => f \in r.wrote
<1>1. CASE Stored(f)
  BY <1>1 DEF Having, Procs, Has
<1>2. CASE ~Stored(f)
  BY <1>2 DEF Having, Procs, Has
<1> QED
  BY <1>1, <1>2

(* A runtime tree is made anew, under a number that no view names.          *)
LEMMA TakeLockKeeps ==
    ASSUME IInv, Remembers, NEW p \in Proc, NEW c \in Projects, TakeLock(p, c)
    PROVE  IInv'
<1> DEFINE q == [proc[p] EXCEPT !.pc = "put", !.took = Manifest(c), !.todo = c]
<1>1. proc[p] \in Procs /\ proc[p].found \cap RunFiles = {}
  BY DEF IInv, Typed, Found
<1>2. Manifest(c) \in Full /\ c \subseteq Blob /\ Manifest(c).of = c
  BY ViewAssumption DEF Full, Manifest
<1>3. /\ q.op = proc[p].op /\ q.pc = "put" /\ q.took = Manifest(c) /\ q.todo = c
      /\ q.wrote = proc[p].wrote /\ q.found = proc[p].found /\ q \in Procs
  BY <1>1, <1>2, KindFacts DEF Procs
<1>4. SharedMay /\ left' \in 0 .. Ops
  BY DEF TakeLock, SharedMay, IInv, Typed
<1>5. BaseOf(Manifest(c)) = {}
  BY <1>2, KindFacts
<1>6. CASE q.op = "state" /\ Becomes(p, q) /\ UNCHANGED <<disk, gc>>
  <2>1. WorkOf(q)
    BY <1>2, <1>3, <1>5, <1>6 DEF WorkOf
  <2>2. Quiet(p, q)
    BY <1>1, <1>3, <1>4, <1>6, <2>1 DEF TakeLock, Quiet
  <2> QED
    BY <2>2, QuietKeeps
<1>7. ASSUME q.op = "view", NEW n \in Run, ~Stored(RunFile(n)), Put(p, RunFile(n), q)
      PROVE  IInv'
  <2> DEFINE r == Having(RunFile(n), q)
  <2> HIDE DEF q
  <2>1. RunFile(n) \in File
    BY DEF File, RunFiles
  <2>2. /\ r.op = "view" /\ r.pc = "put" /\ r.took = Manifest(c) /\ r.todo = c
        /\ RunFile(n) \in r.wrote
    BY <1>3, <1>7, <2>1, HavingFacts
  <2> HIDE DEF r
  <2>3. WorkOf(r)
    BY <1>2, <1>5, <2>2 DEF WorkOf
  <2>4. Puts(p, RunFile(n), q)
    BY <1>3, <1>4, <1>7, <2>1, <2>3 DEF TakeLock, Puts, r
  <2> QED
    BY <2>4, PutsKeeps
<1> QED
  BY <1>6, <1>7 DEF TakeLock

(* A blob less is to be stored.                                             *)
LEMMA PutBlobKeeps ==
    ASSUME IInv, Remembers, NEW p \in Proc, NEW b \in Blob, PutBlob(p, b)
    PROVE  IInv'
<1> DEFINE q == [proc[p] EXCEPT !.todo = @ \ {b}]
           r == Having(BlobFile(b), q)
<1>1. proc[p] \in Procs /\ WorkOf(proc[p]) /\ proc[p].pc = "put"
  BY DEF IInv, Typed, Work, PutBlob
<1>2. /\ q.op = proc[p].op /\ q.pc = "put" /\ q.saw = proc[p].saw /\ q.took = proc[p].took
      /\ q.todo = proc[p].todo \ {b} /\ q.wrote = proc[p].wrote /\ q.found = proc[p].found
      /\ q \in Procs
  BY <1>1 DEF Procs
<1>3. BlobFile(b) \in File /\ BlobFile(b) \notin RunFiles
  BY KindFacts DEF File, BlobFiles
<1>4. Put(p, BlobFile(b), q)
  BY DEF PutBlob
<1> HIDE DEF q
<1>5. WorkOf(r)
  <2>1. /\ r.op = q.op /\ r.pc = q.pc /\ r.saw = q.saw /\ r.took = q.took /\ r.todo = q.todo
        /\ q.wrote \subseteq r.wrote /\ q.found \subseteq r.found /\ Has(r, BlobFile(b))
    BY <1>2, <1>3, HavingFacts
  <2> HIDE DEF r
  <2> QED
    BY <1>1, <1>2, <2>1 DEF WorkOf, Has
<1>6. SharedMay /\ left' \in 0 .. Ops
  BY DEF PutBlob, SharedMay, IInv, Typed
<1>7. Puts(p, BlobFile(b), q)
  BY <1>2, <1>3, <1>4, <1>5, <1>6 DEF PutBlob, Puts
<1> QED
  BY <1>7, PutsKeeps

(* The manifest is put when all its blobs are.                              *)
LEMMA PutManifestKeeps ==
    ASSUME IInv, Remembers, NEW p \in Proc, PutManifest(p)
    PROVE  IInv'
<1> DEFINE q == [proc[p] EXCEPT !.pc = "record"]
           f == proc[p].took
           r == Having(f, q)
<1>1. proc[p] \in Procs /\ WorkOf(proc[p]) /\ proc[p].pc = "put" /\ proc[p].todo = {}
  BY DEF IInv, Typed, Work, PutManifest
<1>2. /\ q.op = proc[p].op /\ q.pc = "record" /\ q.saw = proc[p].saw /\ q.took = f
      /\ q.todo = {} /\ q.wrote = proc[p].wrote /\ q.found = proc[p].found
      /\ q \in Procs
  BY <1>1 DEF Procs
<1>3. f \in File /\ f \notin RunFiles
  BY <1>1, KindFacts DEF WorkOf, File
<1>4. Put(p, f, q)
  BY DEF PutManifest
<1> HIDE DEF q
<1>5. WorkOf(r)
  <2>1. /\ r.op = q.op /\ r.pc = q.pc /\ r.saw = q.saw /\ r.took = q.took /\ r.todo = q.todo
        /\ q.wrote \subseteq r.wrote /\ q.found \subseteq r.found /\ Has(r, f)
    BY <1>2, <1>3, HavingFacts
  <2> HIDE DEF r
  <2> QED
    BY <1>1, <1>2, <2>1 DEF WorkOf, Has
<1>6. SharedMay /\ left' \in 0 .. Ops
  BY DEF PutManifest, SharedMay, IInv, Typed
<1>7. Puts(p, f, q)
  BY <1>2, <1>3, <1>4, <1>5, <1>6 DEF PutManifest, Puts
<1> QED
  BY <1>7, PutsKeeps

(* What a dead process wrote stays, and is nobody's.                        *)
LEMMA CrashKeeps ==
    ASSUME IInv, Remembers, NEW p \in Proc, Crash(p)
    PROVE  IInv'
<1>1. Quiet(p, Idle)
  BY IdleFacts, EndsMay DEF IInv, Typed, Crash, Quiet
<1> QED
  BY <1>1, QuietKeeps

-------------------------------------------------------------------------------
(* What happens to the files.                                                *)
Ageing ==
    /\ Careful
    /\ disk' \in [File -> {"absent", "young", "old"}]
    /\ DamageFits'
    /\ gc.pc = "walk" \/ Walked => \A m \in gc.roots : Unlisted(m) \subseteq Unlisted(m)'
    /\ log' \in Seq(Full) /\ Named' \subseteq Named
    /\ UNCHANGED proc \/ \E p \in Proc : Becomes(p, Idle)
    /\ \A p \in Proc : \A f \in proc'[p].wrote : disk'[f] = "young"
    /\ SharedMay /\ left' \in 0 .. Ops
    /\ UNCHANGED <<view, gc>>

(* Such a step keeps the invariant: nothing else is named.                  *)
LEMMA AgeingKeeps ==
    ASSUME IInv, Remembers, Ageing
    PROVE  IInv'
<1>1. /\ proc \in [Proc -> Procs] /\ proc' \in [Proc -> Procs]
      /\ \A s \in Proc : proc'[s] = proc[s] \/ proc'[s] = Idle
  BY IdleFacts DEF IInv, Typed, Ageing, Becomes
<1>2. Typed'
  <2>1. shared' \subseteq Proc /\ (Sweeping' => shared' = {})
    BY SharedTyped DEF IInv, Ageing
  <2>2. exposed' \subseteq File /\ passed' \subseteq BlobFiles
    BY <1>1, HistoryTyped DEF IInv
  <2> QED
    BY <1>1, <2>1, <2>2 DEF IInv, Typed, Ageing
<1>3. Careful /\ Named' \subseteq Named
  BY DEF Ageing
<1>4. \A f \in Named' : Backed(f)
  BY <1>3 DEF Backed
<1>5. Named' \subseteq File
  BY <1>3, NamedFacts DEF IInv
<1>6. Work'
  BY <1>1, IdleFacts DEF IInv, Work
<1>7. Written'
  BY <1>1, IdleFacts DEF IInv, Written, Ageing
<1>8. Found'
  <2>1. NothingRunFound'
    BY <1>1, IdleFacts DEF IInv, Found, NothingRunFound
  <2> QED
    BY <2>1, <1>2, <1>3, FoundKept DEF IInv, Found, Typed
<1>9. NamedIsStored'
  BY <1>3, <1>4, <1>5, NamedKept DEF IInv
<1>10. Rooted'
  <2>1. \A f \in gc'.old \cap Named' : f \in exposed' \/ f \in Reach'
    BY <1>3, <1>4, <1>5, RootedKept DEF IInv, Ageing
  <2>2. Marked'
    BY MarkedKept DEF IInv, Rooted, Ageing
  <2> QED
    BY <2>1, <2>2 DEF Rooted
<1> QED
  BY <1>2, <1>6, <1>7, <1>8, <1>9, <1>10 DEF IInv

(* The runtime tree that a failed capture takes back is named by no view.   *)
LEMMA FailKeeps ==
    ASSUME IInv, Remembers, NEW p \in Proc, Fail(p)
    PROVE  IInv'
<1> DEFINE Back == proc[p].wrote \cap RunFiles
<1>1. disk' = [f \in File |-> IF f \in Back THEN "absent" ELSE disk[f]]
  BY DEF Fail
<1>2. disk \in [File -> {"absent", "young", "old"}] /\ proc \in [Proc -> Procs]
  BY DEF IInv, Typed
<1>3. disk' \in [File -> {"absent", "young", "old"}]
  BY <1>1, <1>2
<1>4. log' \in Seq(Full) /\ Named' \subseteq Named
  <2>1. log \in Seq(Full) /\ (log' = log \/ log' = KeptState(log))
    BY DEF Fail, IInv, Typed
  <2>2. log' \in Seq(Full) /\ Ranged(Newest(log')) \subseteq Ranged(Newest(log))
    BY <2>1, KeptNames
  <2> QED
    BY <2>2 DEF Fail, Named, RefsOf
<1>5. Back \cap Named' = {}
  <2>1. Back \cap RunsOf(view) = {}
    BY DEF IInv, Written
  <2> QED
    BY <1>4, <2>1, NamedFacts DEF IInv
<1>6. Careful
  BY <1>1, <1>5 DEF Careful, Stored
<1>7. DamageFits'
  <2>1. \A m \in Manifests : m \in File /\ m \notin Back
    BY KindFacts DEF File
  <2> QED
    BY <1>1, <2>1 DEF IInv, Typed, DamageFits, Fail, Stored
<1>8. Becomes(p, Idle) /\ SharedMay
  BY EndsMay DEF Fail
<1>9. ASSUME NEW s \in Proc, NEW f \in proc'[s].wrote PROVE disk'[f] = "young"
  <2>1. s # p /\ f \in proc[s].wrote
    BY <1>2, <1>8, IdleFacts DEF Becomes
  <2>2. f \in File /\ disk[f] = "young" /\ f \notin Back
    BY <1>2, <2>1 DEF IInv, Written, Procs
  <2> QED
    BY <1>1, <2>2
<1>10. Ageing
  BY <1>3, <1>4, <1>6, <1>7, <1>8, <1>9 DEF IInv, Typed, Fail, Ageing, Unlisted
<1> QED
  BY <1>10, AgeingKeeps

(* A damaged manifest is still a file, and lists no blob that it did not.   *)
LEMMA DamageKeeps ==
    ASSUME IInv, Remembers, Damage
    PROVE  IInv'
<1>1. DamageFits'
  BY DEF Damage, DamageFits, Sound, Stored
<1>2. left' \in 0 .. Ops
  BY ViewAssumption DEF IInv, Typed, Damage
<1>3. \A p \in Proc : \A f \in proc'[p].wrote : disk'[f] = "young"
  BY DEF IInv, Written, Damage
<1>4. \A m \in gc.roots : Unlisted(m) \subseteq Unlisted(m)'
  BY DEF Damage, Unlisted, Sound
<1>5. log' \in Seq(Full) /\ Named' = Named
  BY DEF IInv, Typed, Damage, Named
<1>6. Ageing
  BY <1>1, <1>2, <1>3, <1>4, <1>5, SameFilesCareful
  DEF IInv, Typed, Damage, Ageing, SharedMay
<1> QED
  BY <1>6, AgeingKeeps

(* When the grace passes, nobody has files that are not recorded yet.       *)
LEMMA GracePassesKeeps ==
    ASSUME IInv, Remembers, GracePasses
    PROVE  IInv'
<1>1. disk' = [f \in File |-> IF Stored(f) THEN "old" ELSE "absent"]
  BY DEF GracePasses
<1>2. \A f \in File : Stored(f)' <=> Stored(f)
  BY <1>1 DEF Stored
<1>3. disk' \in [File -> {"absent", "young", "old"}]
  BY <1>1
<1>4. Careful
  BY <1>2 DEF Careful
<1>5. DamageFits'
  BY <1>2 DEF IInv, Typed, DamageFits, GracePasses, File
<1>6. \A p \in Proc : proc'[p].wrote = {}
  BY DEF GracePasses
<1>7. log' \in Seq(Full) /\ Named' = Named
  BY DEF IInv, Typed, GracePasses, Named
<1>8. Ageing
  BY <1>3, <1>4, <1>5, <1>6, <1>7 DEF IInv, Typed, GracePasses, Ageing, SharedMay, Unlisted
<1> QED
  BY <1>8, AgeingKeeps

(* What a collection takes and the arena names was relied on while nothing   *)
(* named it, or was passed over by its walk.                                 *)
LEMMA GarbageLost ==
    ASSUME IInv, NEW f \in Garbage, f \in Named
    PROVE  f \in exposed \/ f \in PassedOver
<1>1. GcOld(f) /\ IsCollector(gc) /\ Marked
  BY DEF Garbage, IInv, Typed, Rooted
<1>2. f \in exposed \/ f \in Reach
  BY <1>1 DEF GcOld, IInv, Rooted
<1> SUFFICES ASSUME f \in Reach PROVE f \in PassedOver
  BY <1>2
<1>3. gc.roots \subseteq Manifests /\ gc.runs \subseteq RunFiles /\ gc.at \in Nat \ {0}
  BY <1>1 DEF IsCollector
<1>4. \A m \in gc.roots : /\ Needs(m) \subseteq Manifests \cup BlobFiles
                         /\ Needs(m) \cap Manifests \subseteq gc.roots
  BY <1>1, <1>3, NeedsFacts DEF Marked
<1>5. /\ RunFiles \cap (Manifests \cup BlobFiles) = {}
      /\ Manifests \cap BlobFiles = {}
  BY KindFacts
<1>6. CASE gc.pc = "runs"
  BY <1>4, <1>5, <1>6 DEF Garbage, Reach
<1>7. CASE gc.pc = "manifests"
  BY <1>1, <1>3, <1>4, <1>5, <1>7 DEF Garbage, Reach, Marked, Walked
<1>8. CASE gc.pc = "blobs"
  <2>1. f \in BlobFiles /\ f \notin gc.live
    BY <1>8 DEF Garbage
  <2>2. PICK m0 \in gc.roots : f \in Needs(m0)
    BY <1>3, <1>5, <2>1 DEF Reach
  <2>3. \E m \in gc.roots : f \in OwnBlobs(m)
    <3>1. BaseOf(m0) \subseteq gc.roots /\ f \notin {m0} \cup BaseOf(m0)
      BY <1>1, <1>3, <1>5, <2>1 DEF Marked
    <3> QED
      BY <2>2, <3>1 DEF Needs
  <2>4. ASSUME NEW m \in gc.roots, f \in OwnBlobs(m), m \in gc.seen
        PROVE  f \in Unlisted(m)
    BY <1>1, <1>8, <2>1, <2>4 DEF Marked, Walked
  <2>5. ASSUME NEW m \in gc.roots, m \notin gc.seen
        PROVE  \E d \in gc.seen : d.kind = "delta"
    <3> SUFFICES ASSUME NoDelta PROVE FALSE
      BY DEF NoDelta
    <3>1. /\ gc.items \in Seq(Manifests) /\ Ranged(gc.items) = gc.roots
          /\ \A i \in DOMAIN gc.items : i < gc.at => gc.items[i] \in gc.seen
          /\ gc.at \notin DOMAIN gc.items
      BY <1>1, <1>8 DEF Marked, Walked
    <3>2. PICK i \in DOMAIN gc.items : m = gc.items[i]
      BY <3>1 DEF Ranged
    <3>3. i < gc.at
      BY <1>3, <3>1
    <3> QED
      BY <2>5, <3>1, <3>2, <3>3
  <2> QED
    BY <2>3, <2>4, <2>5 DEF PassedOver
<1> QED
  BY <1>6, <1>7, <1>8 DEF Garbage

(* The file removed is nobody's, and named by nothing, exposed or passed     *)
(* over; and it is no root.                                                  *)
LEMMA GcSweepKeeps ==
    ASSUME IInv, Remembers, GcSweep
    PROVE  IInv'
<1>1. PICK f \in Garbage :
        /\ disk' = [disk EXCEPT ![f] = "absent"]
        /\ damaged' = [whole |-> damaged.whole \ {f},
                       records |-> {r \in damaged.records : r.of # f}]
  BY DEF GcSweep
<1>2. f \in gc.old /\ f \in File /\ disk \in [File -> {"absent", "young", "old"}]
  BY DEF Garbage, GcOld, File, IInv, Typed
<1>3. /\ disk' \in [File -> {"absent", "young", "old"}]
      /\ \A g \in File : g # f => disk'[g] = disk[g]
      /\ disk'[f] = "absent"
  BY <1>1, <1>2
<1>4. log' \in Seq(Full) /\ Named' = Named
  BY DEF IInv, Typed, GcSweep, Named
<1>5. Careful
  BY <1>3, <1>4, GarbageLost DEF Careful, Stored
<1>6. DamageFits'
  BY <1>1, <1>3 DEF IInv, Typed, DamageFits, File, Stored
<1>7. ASSUME NEW p \in Proc, NEW g \in proc[p].wrote PROVE disk'[g] = "young"
  <2>1. g \in File /\ g # f /\ disk[g] = "young"
    BY <1>2 DEF IInv, Typed, Procs, Written
  <2> QED
    BY <1>3, <2>1
<1>8. ASSUME gc.pc = "walk" \/ Walked, NEW m \in gc.roots
      PROVE  Unlisted(m) \subseteq Unlisted(m)'
  <2>1. m \in Manifests /\ gc.roots \subseteq gc.live
    BY <1>8 DEF IInv, Typed, IsCollector, Rooted, Marked
  <2>2. m # f
    BY <1>8, <2>1, KindFacts DEF Garbage, Walked
  <2> QED
    BY <1>1, <2>2 DEF Unlisted
<1>9. Ageing
  BY <1>3, <1>4, <1>5, <1>6, <1>7, <1>8 DEF IInv, Typed, GcSweep, Ageing, SharedMay
<1> QED
  BY <1>9, AgeingKeeps

-------------------------------------------------------------------------------
(* The collector.                                                            *)
Collecting ==
    /\ IsCollector(gc') /\ (Sweeping' => shared = {})
    /\ \A p \in Proc : proc[p].wrote \cap gc'.old = {}
    /\ log' \in Seq(Full) /\ Ranged(Newest(log')) \subseteq Ranged(Newest(log))
    /\ Marked'
    /\ left' \in 0 .. Ops
    /\ UNCHANGED <<disk, damaged, view, shared, proc>>

(* A step of the collector that keeps the roots it took, or takes them anew, *)
(* or ends.                                                                  *)
LEMMA CollectingKeeps ==
    ASSUME IInv, Remembers, Collecting,
           \/ /\ gc'.old \subseteq gc.old
              /\ gc'.old # {} => gc'.roots = gc.roots /\ gc'.runs = gc.runs
           \/ Named' \subseteq Reach'
    PROVE  IInv'
<1>1. Typed'
  <2>1. exposed' \subseteq File /\ passed' \subseteq BlobFiles
    BY HistoryTyped DEF IInv, Typed, Collecting
  <2> QED
    BY <2>1 DEF IInv, Typed, DamageFits, Collecting, Stored
<1>2. Careful
  BY SameFilesCareful DEF Collecting
<1>3. Named' \subseteq Named
  <2>1. RefsOf(log', view') \subseteq RefsOf(log, view) /\ RunsOf(view') = RunsOf(view)
    BY DEF RefsOf, RunsOf, Collecting
  <2> QED
    BY <2>1 DEF Named
<1>4. \A f \in Named' : Backed(f)
  BY <1>3 DEF Backed
<1>5. Named' \subseteq File
  BY <1>3, NamedFacts DEF IInv
<1>6. Work'
  BY DEF IInv, Work, Collecting
<1>7. Written'
  BY DEF IInv, Written, Collecting
<1>8. Found'
  <2>1. NothingRunFound'
    BY DEF IInv, Found, NothingRunFound, Collecting
  <2> QED
    BY <2>1, <1>1, <1>2, FoundKept DEF IInv, Found, Typed
<1>9. NamedIsStored'
  BY <1>2, <1>4, <1>5, NamedKept DEF IInv
<1>10. Rooted'
  <2>1. \A f \in gc'.old \cap Named' : f \in exposed' \/ f \in Reach'
    BY <1>2, <1>4, <1>5, RootedKept DEF IInv
  <2> QED
    BY <2>1 DEF Rooted, Collecting
<1> QED
  BY <1>1, <1>6, <1>7, <1>8, <1>9, <1>10 DEF IInv

(* An idle collector has marked all there is.                                *)
LEMMA GcIdleFacts ==
    /\ IsCollector(GcIdle) /\ GcIdle.pc = "idle" /\ GcIdle.old = {}
    /\ GcIdle.roots = {} /\ GcIdle.seen = {}
    /\ GcIdle.items \in Seq(Manifests) /\ Ranged(GcIdle.items) = {} /\ DOMAIN GcIdle.items = {}
BY DEF GcIdle, IsCollector, Ranged

(* A collection that ends leaves nothing behind.                             *)
LEMMA EndedKeeps ==
    ASSUME IInv, Remembers, gc' = GcIdle, left' \in 0 .. Ops,
           UNCHANGED <<disk, damaged, log, view, shared, proc>>
    PROVE  IInv'
<1>1. Marked' /\ ~Sweeping'
  BY GcIdleFacts DEF Marked, Walked, Sweeping
<1>2. Collecting
  BY <1>1, GcIdleFacts DEF Collecting, IInv, Typed
<1> QED
  BY <1>2, GcIdleFacts, CollectingKeeps

(* The roots taken are what is named, and the files written since are not   *)
(* old.                                                                     *)
LEMMA GcOpenKeeps ==
    ASSUME IInv, Remembers, NEW keep \in 0 .. Len(log), GcOpen(keep)
    PROVE  IInv'
<1> DEFINE kept == SubSeq(log, Len(log) - keep + 1, Len(log))
           items == Roots(kept, view)
<1>1. log \in Seq(Full) /\ view \in ViewRecords /\ log' = kept
  BY DEF IInv, Typed, GcOpen
<1>2. kept \in Seq(Full) /\ Ranged(Newest(kept)) \subseteq Ranged(Newest(log))
  BY <1>1, CutNames
<1>3. gc' = [pc |-> "open", roots |-> Ranged(items), runs |-> RunsOf(view),
             old |-> {f \in File : disk[f] = "old"}, items |-> items, at |-> 1,
             seen |-> {}, live |-> {}, complete |-> TRUE]
  BY DEF GcOpen, GcIdle
<1> HIDE DEF kept
<1>4. items \in Seq(Manifests) /\ Ranged(items) = RefsOf(kept, view)
  BY <1>1, <1>2, RootsAre
<1> HIDE DEF items
<1>5. /\ gc'.pc = "open" /\ gc'.roots = RefsOf(kept, view) /\ gc'.runs = RunsOf(view)
      /\ gc'.old = {f \in File : disk[f] = "old"} /\ gc'.items = items /\ gc'.at = 1
      /\ gc'.seen = {}
  BY <1>3, <1>4
<1>6. Ranged(items) \subseteq Manifests /\ RunsOf(view) \subseteq RunFiles
  BY <1>4, NamedFacts DEF IInv, Ranged
<1>7. IsCollector(gc')
  BY <1>3, <1>6 DEF IsCollector
<1>8. \A m \in RefsOf(kept, view) : BaseOf(m) \subseteq RefsOf(kept, view)
  <2>1. \A m \in Full : BaseOf(m) = {}
    BY KindFacts
  <2>2. Ranged(Newest(kept)) \subseteq Full
    BY <1>2, NewestIs DEF Ranged
  <2>3. view.base \subseteq Full /\ \A m \in view.result : BaseOf(m) \subseteq view.base
    BY <1>1 DEF ViewRecords
  <2> QED
    BY <2>1, <2>2, <2>3 DEF RefsOf
<1>9. Marked'
  <2>1. \A i \in DOMAIN items : ~(i < 1)
    BY <1>4
  <2> QED
    BY <1>4, <1>5, <1>8, <2>1 DEF Marked, Walked
<1>10. Collecting
  <2>1. \A p \in Proc : proc[p].wrote \cap gc'.old = {}
    BY <1>5 DEF IInv, Written
  <2>2. ~Sweeping'
    BY <1>5 DEF Sweeping
  <2> QED
    BY <1>1, <1>2, <1>7, <1>9, <2>1, <2>2 DEF IInv, Typed, GcOpen, Collecting
<1>11. Named' \subseteq Reach'
  <2>1. view' = view
    BY DEF GcOpen
  <2> QED
    BY <1>1, <1>5, <2>1 DEF Named, Reach
<1> QED
  BY <1>10, <1>11, CollectingKeeps

(* The collector takes its next step, with the roots and the age it took.    *)
Proceeds(g) ==
    /\ gc' = g /\ IsCollector(g)
    /\ g.roots = gc.roots /\ g.runs = gc.runs /\ g.old = gc.old
    /\ UNCHANGED <<disk, damaged, log, view, shared, proc, left>>

(* Such a step keeps the invariant when it keeps what is marked.             *)
LEMMA GoesOnKeeps ==
    ASSUME IInv, Remembers, NEW g, Proceeds(g), Marked', Sweeping' => shared = {}
    PROVE  IInv'
<1>1. Collecting
  BY DEF Proceeds, Collecting, IInv, Typed, Written
<1> QED
  BY <1>1, CollectingKeeps DEF Proceeds

(* A sweep begins when nobody has the lock.                                 *)
LEMMA GcLockKeeps ==
    ASSUME IInv, Remembers, GcLock
    PROVE  IInv'
<1>1. CASE gc' = GcIdle
  BY <1>1, EndedKeeps DEF GcLock, IInv, Typed
<1>2. CASE shared = {} /\ gc' = [gc EXCEPT !.pc = "runs"]
  <2> DEFINE g == [gc EXCEPT !.pc = "runs"]
  <2>1. IsCollector(gc) /\ Marked /\ gc.pc = "open"
    BY DEF IInv, Typed, Rooted, GcLock
  <2>2. /\ IsCollector(g) /\ g.pc = "runs" /\ g.roots = gc.roots /\ g.runs = gc.runs
        /\ g.old = gc.old /\ g.items = gc.items /\ g.at = gc.at /\ g.seen = gc.seen
    BY <2>1 DEF IsCollector
  <2>3. gc' = g
    BY <1>2
  <2> HIDE DEF g
  <2>4. Marked'
    BY <2>1, <2>2, <2>3 DEF Marked, Walked, NoDelta
  <2>5. Proceeds(g)
    BY <2>2, <2>3 DEF GcLock, Proceeds
  <2> QED
    BY <1>2, <2>4, <2>5, GoesOnKeeps
<1> QED
  BY <1>1, <1>2 DEF GcLock

(* The walk begins: the roots are kept, and none has been visited.          *)
LEMMA GcWalkKeeps ==
    ASSUME IInv, Remembers, GcWalk
    PROVE  IInv'
<1> DEFINE g == [gc EXCEPT !.pc = "walk", !.live = gc.roots]
<1>1. IsCollector(gc) /\ Marked /\ gc.pc = "runs"
  BY DEF IInv, Typed, Rooted, GcWalk
<1>2. /\ IsCollector(g) /\ g.pc = "walk" /\ g.roots = gc.roots /\ g.runs = gc.runs
      /\ g.old = gc.old /\ g.items = gc.items /\ g.at = gc.at /\ g.seen = gc.seen
      /\ g.live = gc.roots
  BY <1>1 DEF IsCollector
<1>3. gc' = g
  BY DEF GcWalk
<1> HIDE DEF g
<1>4. Marked'
  BY <1>1, <1>2, <1>3 DEF Marked, Walked, NoDelta
<1>5. Proceeds(g)
  BY <1>2, <1>3 DEF GcWalk, Proceeds
<1>6. shared = {}
  BY <1>1 DEF IInv, Typed, Sweeping
<1> QED
  BY <1>4, <1>5, <1>6, GoesOnKeeps

(* A root is visited: what it lists is kept, or the storage is found not to *)
(* be complete.  Before the first delta the array is as it was taken.       *)
LEMMA GcVisitKeeps ==
    ASSUME IInv, Remembers, GcVisit
    PROVE  IInv'
<1> DEFINE m == gc.items[gc.at]
           opens == \A n \in {m} \cup BaseOf(m) : Readable(n)
           live == IF opens THEN gc.live \cup BaseOf(m) \cup (OwnBlobs(m) \ Unlisted(m)) ELSE gc.live
           items == IF opens /\ m.kind = "delta" THEN WithBase(gc.items, m) ELSE gc.items
           complete == gc.complete /\ opens
           next == gc.at + 1
           seen == gc.seen \cup {m}
           g == [gc EXCEPT !.at = next, !.seen = seen, !.complete = complete, !.live = live,
                           !.items = items]
<1>1. /\ IsCollector(gc) /\ Marked /\ gc.pc = "walk" /\ gc.at \in DOMAIN gc.items
      /\ gc' = g
  BY DEF IInv, Typed, Rooted, GcVisit
<1>2. gc.at \in Nat \ {0}
  BY <1>1 DEF IsCollector
<1>3. items = gc.items \/ m.kind = "delta"
  OBVIOUS
<1>4. /\ gc.live \subseteq live
      /\ opens => OwnBlobs(m) \ Unlisted(m) \subseteq live
  OBVIOUS
<1>5. complete \in BOOLEAN /\ (complete => gc.complete /\ opens)
  OBVIOUS
<1> HIDE DEF m, opens, items, live, complete
<1>6. /\ IsCollector(g) /\ g.pc = "walk" /\ g.roots = gc.roots /\ g.runs = gc.runs
      /\ g.old = gc.old /\ g.items = items /\ g.at = gc.at + 1 /\ g.seen = gc.seen \cup {m}
      /\ g.live = live /\ g.complete = complete
  <2>1. next \in Nat \ {0} /\ IsCollector(gc) /\ gc.pc = "walk"
    BY <1>1, <1>2
  <2>2. next = gc.at + 1 /\ seen = gc.seen \cup {m}
    OBVIOUS
  <2> HIDE DEF next, seen
  <2>3. /\ g.pc = "walk" /\ g.roots = gc.roots /\ g.runs = gc.runs /\ g.old = gc.old
        /\ g.items = items /\ g.at = next /\ g.seen = seen /\ g.live = live
        /\ g.complete = complete
    BY <2>1 DEF IsCollector
  <2>4. g = [field \in {"pc", "roots", "runs", "old", "items", "at", "seen", "live", "complete"}
              |-> g[field]]
    BY <2>1 DEF IsCollector
  <2> HIDE DEF g
  <2>5. g = [pc |-> g.pc, roots |-> g.roots, runs |-> g.runs, old |-> g.old, items |-> g.items,
             at |-> g.at, seen |-> g.seen, live |-> g.live, complete |-> g.complete]
    BY <2>4
  <2>6. IsCollector(g)
    BY <1>5, <2>1, <2>3, <2>5 DEF IsCollector
  <2> QED
    BY <2>2, <2>3, <2>6
<1> HIDE DEF g
<1>7. /\ gc'.roots \subseteq gc'.live
      /\ gc'.complete => \A n \in gc'.roots :
                            n \in gc'.seen => OwnBlobs(n) \ Unlisted(n)' \subseteq gc'.live
  <2>1. damaged' = damaged
    BY DEF GcVisit
  <2> QED
    BY <1>1, <1>4, <1>6, <1>5, <2>1 DEF Marked, Unlisted
<1>8. ASSUME NoDelta'
      PROVE  /\ gc'.items \in Seq(Manifests) /\ Ranged(gc'.items) = gc'.roots
             /\ \A i \in DOMAIN gc'.items : i < gc'.at => gc'.items[i] \in gc'.seen
  <2>1. NoDelta /\ m.kind # "delta"
    BY <1>1, <1>6, <1>8 DEF NoDelta
  <2>2. /\ gc.items \in Seq(Manifests) /\ Ranged(gc.items) = gc.roots
        /\ \A i \in DOMAIN gc.items : i < gc.at => gc.items[i] \in gc.seen
    BY <1>1, <2>1 DEF Marked
  <2>3. gc'.items = gc.items
    BY <1>1, <1>3, <1>6, <2>1
  <2>4. \A i \in DOMAIN gc.items : i < gc.at + 1 => i < gc.at \/ i = gc.at
    BY <1>2, <2>2
  <2> QED
    BY <1>1, <1>6, <2>2, <2>3, <2>4 DEF m
<1>9. Marked'
  BY <1>1, <1>6, <1>7, <1>8 DEF Marked, Walked
<1>10. Proceeds(g)
  BY <1>1, <1>6 DEF GcVisit, Proceeds
<1>11. shared = {}
  BY <1>1 DEF IInv, Typed, Sweeping
<1> QED
  BY <1>9, <1>10, <1>11, GoesOnKeeps

(* The walk ends at the end of the array.                                   *)
LEMMA GcManifestsKeeps ==
    ASSUME IInv, Remembers, GcManifests
    PROVE  IInv'
<1> DEFINE g == [gc EXCEPT !.pc = "manifests"]
<1>1. IsCollector(gc) /\ Marked /\ gc.pc = "walk" /\ gc.at \notin DOMAIN gc.items
  BY DEF IInv, Typed, Rooted, GcManifests
<1>2. /\ IsCollector(g) /\ g.pc = "manifests" /\ g.roots = gc.roots /\ g.runs = gc.runs
      /\ g.old = gc.old /\ g.items = gc.items /\ g.at = gc.at /\ g.seen = gc.seen
      /\ g.live = gc.live /\ g.complete = gc.complete
  BY <1>1 DEF IsCollector
<1>3. gc' = g /\ damaged' = damaged
  BY DEF GcManifests
<1> HIDE DEF g
<1>4. Marked'
  BY <1>1, <1>2, <1>3 DEF Marked, Walked, NoDelta, Unlisted
<1>5. Proceeds(g)
  BY <1>2, <1>3 DEF GcManifests, Proceeds
<1>6. shared = {}
  BY <1>1 DEF IInv, Typed, Sweeping
<1> QED
  BY <1>4, <1>5, <1>6, GoesOnKeeps

(* Blobs are removed only when all the roots visited could be opened.       *)
LEMMA GcBlobsKeeps ==
    ASSUME IInv, Remembers, GcBlobs
    PROVE  IInv'
<1>1. CASE gc' = GcIdle
  BY <1>1, EndedKeeps DEF GcBlobs, IInv, Typed
<1>2. CASE gc.complete /\ gc' = [gc EXCEPT !.pc = "blobs"]
  <2> DEFINE g == [gc EXCEPT !.pc = "blobs"]
  <2>1. IsCollector(gc) /\ Marked /\ gc.pc = "manifests"
    BY DEF IInv, Typed, Rooted, GcBlobs
  <2>2. /\ IsCollector(g) /\ g.pc = "blobs" /\ g.roots = gc.roots /\ g.runs = gc.runs
        /\ g.old = gc.old /\ g.items = gc.items /\ g.at = gc.at /\ g.seen = gc.seen
        /\ g.live = gc.live /\ g.complete = gc.complete
    BY <2>1 DEF IsCollector
  <2>3. gc' = g /\ damaged' = damaged
    BY <1>2 DEF GcBlobs
  <2> HIDE DEF g
  <2>4. Marked'
    BY <1>2, <2>1, <2>2, <2>3 DEF Marked, Walked, NoDelta, Unlisted
  <2>5. Proceeds(g)
    BY <2>2, <2>3 DEF GcBlobs, Proceeds
  <2>6. shared = {}
    BY <2>1 DEF IInv, Typed, Sweeping
  <2> QED
    BY <2>4, <2>5, <2>6, GoesOnKeeps
<1> QED
  BY <1>1, <1>2 DEF GcBlobs

(* A collection that ends, or dies, has no roots.                           *)
LEMMA GcEndKeeps ==
    ASSUME IInv, Remembers, GcEnd \/ GcCrash
    PROVE  IInv'
<1>1. left' \in 0 .. Ops
  BY ViewAssumption DEF IInv, Typed, GcEnd, GcCrash
<1> QED
  BY <1>1, EndedKeeps DEF GcEnd, GcCrash

-------------------------------------------------------------------------------
(* The theorems.                                                             *)

(* All that the arena names at first is stored.                             *)
LEMMA InitIInv ==
    ASSUME Init
    PROVE  IInv
<1>1. log \in Seq(Full) /\ view \in ViewRecords
  BY StartAssumption DEF Init
<1>2. Typed
  <2>1. left \in 0 .. Ops
    BY ViewAssumption DEF Init
  <2>2. DamageFits
    BY DEF Init, DamageFits, Sound
  <2> QED
    BY <1>1, <2>1, <2>2, IdleFacts, GcIdleFacts DEF Init, Typed, Sweeping
<1>3. Work /\ Written /\ Found
  BY IdleFacts DEF Init, Work, Written, Found
<1>4. NamedIsStored
  BY <1>2, NamedFacts DEF Init, NamedIsStored, Stored
<1>5. Rooted
  BY GcIdleFacts DEF Init, Rooted, Marked, Walked
<1> QED
  BY <1>2, <1>3, <1>4, <1>5 DEF IInv

(* Every step keeps the invariant.                                          *)
LEMMA StepIInv ==
    ASSUME IInv, [Next]_vars
    PROVE  IInv'
<1>1. CASE UNCHANGED vars
  <2>1. UNCHANGED <<disk, damaged, log, view, shared, proc, gc, left, exposed, passed>>
    BY <1>1 DEF vars, system
  <2>2. Typed' /\ Work' /\ Written'
    BY <2>1 DEF IInv, Typed, DamageFits, Work, Written, Stored, Sweeping
  <2>3. Found' /\ NamedIsStored'
    BY <2>1 DEF IInv, Found, NamedIsStored, Stored, Named, Fresh
  <2>4. Marked'
    BY <2>1, MarkedKept DEF IInv, Rooted, Unlisted
  <2>5. Rooted'
    BY <2>1, <2>4 DEF IInv, Rooted, Named, Reach
  <2> QED
    BY <2>2, <2>3, <2>5 DEF IInv
<1>2. ASSUME NEW p \in Proc, Step(p), Remembers PROVE IInv'
  BY <1>2, AskKeeps, LockRunKeeps, TakeLockKeeps, SealKeeps, PutBlobKeeps, PutManifestKeeps,
     RecordStateKeeps, RecordViewKeeps, RecordResultKeeps, RemoveViewKeeps, ResetKeeps,
     FailKeeps, CrashKeeps
  DEF Step
<1>3. ASSUME Collect, Remembers PROVE IInv'
  BY <1>3, GcOpenKeeps, GcSweepKeeps, GcLockKeeps, GcWalkKeeps, GcVisitKeeps, GcManifestsKeeps,
     GcBlobsKeeps, GcEndKeeps
  DEF Collect
<1> QED
  BY <1>1, <1>2, <1>3, GcEndKeeps, DamageKeeps, GracePassesKeeps DEF Next

(* The invariant holds in every state: what a capture has put covers what it *)
(* is about to record, and what it wrote is out of reach of the collections; *)
(* what the arena names is reached from the roots of the one under way       *)
(* (gc_collect_branch), which keeps the roots and what the visited ones list *)
(* (gc_live), and has visited them all unless it met a delta.                *)
THEOREM AlwaysIInv == Spec => []IInv
<1>1. Init => IInv
  BY InitIInv
<1>2. IInv /\ [Next]_vars => IInv'
  BY StepIInv
<1> QED
  BY <1>1, <1>2, PTL DEF Spec

(* The types of the state; and nobody captures under the lock while the      *)
(* collector sweeps (fyai_view_storage_lock_shared, gc_sweep_storage).       *)
THEOREM AlwaysTypeOK == Spec => []TypeOK
<1>1. IInv => TypeOK
  <2>1. IInv => Ranged(log) \subseteq Manifests
    BY KindFacts DEF IInv, Typed, Ranged
  <2> QED
    BY <2>1 DEF IInv, Typed, DamageFits, IsCollector, TypeOK
<1> QED
  BY <1>1, AlwaysIInv, PTL

(* What the ref log and the view name is in the storage (fyai_gc_storage     *)
(* beside the captures), but for the files that a process relied on while    *)
(* nothing named them, and the blobs that each root naming them did not keep *)
(* from the sweep: gc_live never came to it, for it had put the array in     *)
(* order for a delta, or could not decode its record.                        *)
THEOREM NamedStaysStored == Spec => []NamedIsStored
<1>1. IInv => NamedIsStored
  BY DEF IInv
<1> QED
  BY <1>1, AlwaysIInv, PTL

(* A file that a capture wrote is not taken from it (gc_old), however many   *)
(* collections begin and end before it is recorded.                          *)
THEOREM WrittenStays == Spec => []WrittenIsKept
<1>1. IInv => WrittenIsKept
  BY DEF IInv, Written, WrittenIsKept, Stored
<1> QED
  BY <1>1, AlwaysIInv, PTL
================================================================================

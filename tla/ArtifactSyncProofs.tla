-------------------------- MODULE ArtifactSyncProofs --------------------------
(***************************************************************************)
(* Proofs about ArtifactSync for every number of files and of writes, and    *)
(* wherever a write of the watcher fails or the watcher is killed.           *)
(*                                                                         *)
(* The argument is that of a seqlock.  The watcher stats every file, reads   *)
(* every file, stats every file again.  Take the moment between the first    *)
(* stats and the reads: of every file, what was there then is no older than  *)
(* the first stat and no newer than what was read, which is no newer than    *)
(* the second stat.  If both stats agree all four are one.                   *)
(***************************************************************************)
EXTENDS ArtifactSync, TLAPS

File == [form : {"absent", "torn", "whole"}, stamp : Nat]
Phases == {"off", "idle", "stat", "look", "settle", "again", "rename", "index", "ready", "stale"}

\* The files listed before position n.
Before(n) == {Listing[k] : k \in 1 .. n - 1}

\* Stamps only grow, and tell the states of a file apart.
PastInv ==
  /\ clock \in Nat /\ files \in history
  /\ history \subseteq [Files -> File]
  /\ \A h \in history : \A f \in Files : h[f].stamp <= files[f].stamp
  /\ \A f \in Files : files[f].stamp <= clock
  /\ \A g, h \in history : \A f \in Files : g[f].stamp = h[f].stamp => g[f] = h[f]

\* What a partial snapshot holds of each file was there once.
Sampled(s) == \A f \in DOMAIN s : \E h \in history : s[f] = h[f]

\* The moment between the first stats and the reads.
Between(h) ==
  /\ \A f \in Files : signature[f] <= h[f].stamp
  /\ \A f \in DOMAIN stage : h[f].stamp <= stage[f].stamp

\* No file of a partial snapshot is half-written JSON.
Readable(s) == \A f \in DOMAIN s : ~ Unreadable(f, s[f])

AtInv ==
  /\ pc \in Phases
  /\ at \in 1 .. Len(Listing) + 1
  /\ pc = "settle" => at # Len(Listing) + 1

RestInv ==
  pc \in {"off", "idle"} => signature = None /\ again = None /\ stage = None /\ fatal = FALSE

StatInv ==
  pc = "stat" =>
    /\ again = None /\ stage = None /\ fatal = FALSE /\ began \in history
    /\ signature \in [Before(at) -> Nat]
    /\ \A f \in Before(at) : began[f].stamp <= signature[f] /\ signature[f] <= files[f].stamp

SignedInv ==
  pc \in {"look", "settle", "again", "rename", "index"} =>
    /\ began \in history /\ signature \in [Files -> Nat]
    /\ \A f \in Files : began[f].stamp <= signature[f]

LookInv ==
  pc \in {"look", "settle"} =>
    /\ again = None /\ stage \in [Before(at) -> File] /\ fatal \in BOOLEAN
    /\ Sampled(stage) /\ (~ fatal => Readable(stage))
    /\ \A f \in Before(at) : stage[f].stamp <= files[f].stamp
    /\ \E h \in history : Between(h)

AgainInv ==
  pc = "again" =>
    /\ stage \in [Files -> File] /\ again \in [Before(at) -> Nat]
    /\ Sampled(stage) /\ Readable(stage)
    /\ \A f \in Files : stage[f].stamp <= files[f].stamp
    /\ \A f \in Before(at) : stage[f].stamp <= again[f]
    /\ \E h \in history : Between(h)

StagedInv ==
  pc \in {"rename", "index"} =>
    /\ stage \in history /\ Readable(stage)
    /\ \A f \in Files : stage[f].stamp = signature[f]
    /\ pc = "index" => stage \in snapshots

KnownInv ==
  known # None => /\ index # None /\ known \in [Files -> Nat]
                  /\ \A f \in Files : index[f].stamp = known[f]

ImportInv == AtInv /\ RestInv /\ StatInv /\ SignedInv /\ LookInv /\ AgainInv /\ StagedInv

IInv == PastInv /\ ImportInv /\ KnownInv /\ IndexIsAMoment /\ ReadyIsCurrent

-----------------------------------------------------------------------------
(* Listings.                                                               *)

LEMMA Listed ==
  /\ Len(Listing) \in Nat /\ DOMAIN Listing = 1 .. Len(Listing) /\ Len(Listing) > 0
  /\ \A k \in 1 .. Len(Listing) : Listing[k] \in Files
  /\ Before(1) = {} /\ Before(Len(Listing) + 1) = Files
  /\ Files # {}
<1>1. Len(Listing) \in Nat /\ DOMAIN Listing = 1 .. Len(Listing) /\ Len(Listing) > 0
  BY SyncAssumption
<1> QED
  BY <1>1 DEF Before, Files

LEMMA NextListed ==
  ASSUME NEW n \in 1 .. Len(Listing)
  PROVE  /\ Before(n + 1) = Before(n) \cup {Listing[n]} /\ Listing[n] \in Files
         /\ Before(n) \subseteq Files
<1>1. Len(Listing) \in Nat /\ DOMAIN Listing = 1 .. Len(Listing)
  BY Listed
<1>2. (1 .. (n + 1) - 1) = (1 .. n - 1) \cup {n}
  BY <1>1
<1> QED
  BY <1>1, <1>2 DEF Before, Files

LEMMA BeforeListed ==
  ASSUME NEW n \in 1 .. Len(Listing) + 1
  PROVE  Before(n) \subseteq Files
BY Listed DEF Before, Files

LEMMA NoneIs == None \in [{} -> Nat] /\ None \in [{} -> File] /\ DOMAIN None = {}
BY DEF None

-----------------------------------------------------------------------------
(* The writers.                                                            *)

LEMMA ChangeHolds ==
  ASSUME IInv, NEW f \in Files, NEW form \in {"torn", "whole"}, Changes(f, form)
  PROVE  IInv'
<1> DEFINE new == [form |-> form, stamp |-> clock + 1]
<1>1. /\ clock' = clock + 1 /\ files' = [files EXCEPT ![f] = new] /\ history' = history \cup {files'}
      /\ UNCHANGED <<pc, at, known, signature, again, looked, stage, fatal, snapshots, index, began>>
  BY DEF Changes, import, output
<1>2. clock \in Nat /\ files \in [Files -> File] /\ new \in File /\ new.stamp = clock + 1
  BY DEF IInv, PastInv, File
<1> HIDE DEF new
<1>3. files' \in [Files -> File] /\ files'[f] = new /\ \A g \in Files : g # f => files'[g] = files[g]
  BY <1>1, <1>2
<1>4. \A g \in Files : /\ files[g].stamp \in Nat /\ files'[g].stamp \in Nat
                       /\ files[g].stamp <= files'[g].stamp /\ files'[g].stamp <= clock + 1
  <2>1. \A g \in Files : files[g].stamp \in Nat /\ files'[g].stamp \in Nat /\ files[g].stamp <= clock
    BY <1>2, <1>3 DEF IInv, PastInv, File
  <2> QED
    BY <1>2, <1>3, <2>1
<1>5. \A h \in history : /\ h \in [Files -> File]
                         /\ \A g \in Files : h[g].stamp \in Nat /\ h[g].stamp <= files[g].stamp
                         /\ h[f].stamp < clock + 1
  <2>1. \A h \in history : \A g \in Files : h[g].stamp \in Nat /\ h[g].stamp <= files[g].stamp /\ files[g].stamp <= clock
    BY DEF IInv, PastInv, File
  <2> QED
    BY <1>2, <1>4, <2>1 DEF IInv, PastInv
<1>6. PastInv'
  <2>1. ASSUME NEW h \in history', NEW g \in Files
        PROVE  h[g].stamp <= files'[g].stamp
    <3>1. CASE h = files'
      BY <1>4, <3>1
    <3>2. CASE h \in history
      <4>1. h[g].stamp \in Nat /\ h[g].stamp <= files[g].stamp
        BY <1>5, <3>2
      <4> QED
        BY <1>4, <4>1
    <3> QED
      BY <1>1, <3>1, <3>2
  <2>2. ASSUME NEW g \in history, NEW e \in Files, g[e].stamp = files'[e].stamp
        PROVE  g[e] = files'[e]
    <3>1. e # f
      BY <1>2, <1>3, <1>5, <2>2
    <3> QED
      BY <1>3, <2>2, <3>1 DEF IInv, PastInv
  <2>3. \A g, h \in history' : \A e \in Files : g[e].stamp = h[e].stamp => g[e] = h[e]
    BY <1>1, <2>2 DEF IInv, PastInv
  <2>4. clock' \in Nat /\ files' \in history' /\ history' \subseteq [Files -> File]
    BY <1>1, <1>2, <1>3, <1>5
  <2>5. \A g \in Files : files'[g].stamp <= clock'
    BY <1>1, <1>4
  <2> QED
    BY <2>1, <2>3, <2>4, <2>5 DEF PastInv
<1>7. history \subseteq history'
  BY <1>1
<1>8. AtInv' /\ RestInv' /\ SignedInv' /\ StagedInv' /\ KnownInv'
  BY <1>1, <1>7 DEF IInv, ImportInv, AtInv, RestInv, SignedInv, StagedInv, KnownInv, Readable
<1>9. StatInv'
  <2>1. SUFFICES ASSUME pc = "stat" PROVE StatInv'
    BY <1>1 DEF StatInv
  <2>2. Before(at) \subseteq Files
    BY BeforeListed DEF IInv, ImportInv, AtInv
  <2>3. \A g \in Before(at) : signature[g] \in Nat /\ signature[g] <= files[g].stamp /\ began[g].stamp <= signature[g]
    BY <2>1 DEF IInv, ImportInv, StatInv
  <2>4. \A g \in Before(at) : signature[g] <= files'[g].stamp
    BY <1>4, <2>2, <2>3
  <2> QED
    BY <1>1, <1>7, <2>1, <2>3, <2>4 DEF IInv, ImportInv, StatInv
<1>10. Sampled(stage) => Sampled(stage)'
  BY <1>1, <1>7 DEF Sampled
<1>11. ASSUME NEW h \in history, Between(h) PROVE h \in history' /\ Between(h)'
  BY <1>1, <1>7, <1>11 DEF Between
<1>12. LookInv'
  <2>1. SUFFICES ASSUME pc \in {"look", "settle"} PROVE LookInv'
    BY <1>1 DEF LookInv
  <2>2. Before(at) \subseteq Files
    BY BeforeListed DEF IInv, ImportInv, AtInv
  <2>3. \A g \in Before(at) : stage[g].stamp \in Nat /\ stage[g].stamp <= files[g].stamp
    BY <2>1 DEF IInv, ImportInv, LookInv, File
  <2>4. \A g \in Before(at) : stage[g].stamp <= files'[g].stamp
    BY <1>4, <2>2, <2>3
  <2>5. \E h \in history' : Between(h)'
    BY <1>11, <2>1 DEF IInv, ImportInv, LookInv
  <2> QED
    BY <1>1, <1>10, <2>1, <2>4, <2>5 DEF IInv, ImportInv, LookInv, Readable
<1>13. AgainInv'
  <2>1. SUFFICES ASSUME pc = "again" PROVE AgainInv'
    BY <1>1 DEF AgainInv
  <2>2. \A g \in Files : stage[g].stamp \in Nat /\ stage[g].stamp <= files[g].stamp
    BY <2>1 DEF IInv, ImportInv, AgainInv, File
  <2>3. \A g \in Files : stage[g].stamp <= files'[g].stamp
    BY <1>4, <2>2
  <2>4. \E h \in history' : Between(h)'
    BY <1>11, <2>1 DEF IInv, ImportInv, AgainInv
  <2> QED
    BY <1>1, <1>10, <2>1, <2>3, <2>4 DEF IInv, ImportInv, AgainInv, Readable
<1>14. IndexIsAMoment' /\ ReadyIsCurrent'
  BY <1>1, <1>7 DEF IInv, IndexIsAMoment, ReadyIsCurrent
<1> QED
  BY <1>6, <1>8, <1>9, <1>12, <1>13, <1>14 DEF IInv, ImportInv

-----------------------------------------------------------------------------
(* The watcher.                                                            *)

\* A step that leaves the files and the index alone, and does not end ready.
LEMMA Quiet ==
  ASSUME IInv, UNCHANGED <<source, output>>, known' \in {known, None}, pc' # "ready"
  PROVE  PastInv' /\ KnownInv' /\ IndexIsAMoment' /\ ReadyIsCurrent'
BY DEF IInv, source, output, PastInv, KnownInv, IndexIsAMoment, ReadyIsCurrent

\* What is on disk is what was there at one moment, of each file.
LEMMA Present ==
  ASSUME PastInv
  PROVE  /\ files \in [Files -> File]
         /\ \A f \in Files : files[f] \in File /\ files[f].stamp \in Nat
         /\ \A h \in history : \A f \in Files : h[f] \in File /\ h[f].stamp \in Nat
BY DEF PastInv, File

\* The end of a tick, of the watcher's own accord or not.
LEMMA DropHolds ==
  ASSUME IInv, Drops, pc' \in {"off", "idle"}
  PROVE  ImportInv'
<1>1. 1 \in 1 .. Len(Listing) + 1
  BY Listed
<1> QED
  BY <1>1 DEF Drops, ImportInv, AtInv, RestInv, StatInv, SignedInv, LookInv, AgainInv, StagedInv, Phases

LEMMA EndHolds ==
  ASSUME IInv, Report \/ ReportFails \/ Kill
  PROVE  IInv'
<1>1. /\ Drops /\ pc' \in {"off", "idle"} /\ UNCHANGED <<source, output>> /\ known' \in {known, None}
  BY DEF Report, ReportFails, Kill
<1> QED
  BY <1>1, DropHolds, Quiet DEF IInv

LEMMA BootHolds ==
  ASSUME IInv, Boot
  PROVE  IInv'
<1>1. pc = "off" /\ pc' = "idle" /\ UNCHANGED <<source, at, known, import, output, began>>
  BY DEF Boot
<1>2. ImportInv'
  BY <1>1 DEF IInv, import, ImportInv, AtInv, RestInv, StatInv, SignedInv, LookInv, AgainInv, StagedInv, Phases
<1> QED
  BY <1>1, <1>2, Quiet DEF IInv

LEMMA TickHolds ==
  ASSUME IInv, Tick
  PROVE  IInv'
<1>1. pc = "idle" /\ pc' = "stat" /\ at' = 1 /\ began' = files /\ UNCHANGED <<source, known, import, output>>
  BY DEF Tick
<1>2. signature' = None /\ again' = None /\ stage' = None /\ fatal' = FALSE
  BY <1>1 DEF IInv, ImportInv, RestInv, import
<1>3. 1 \in 1 .. Len(Listing) + 1 /\ Before(1) = {} /\ signature' \in [Before(at)' -> Nat] /\ Before(at)' = {}
  BY <1>1, <1>2, Listed, NoneIs DEF Before
<1>4. files \in history /\ history' = history
  BY <1>1 DEF IInv, PastInv, source
<1>5. ImportInv'
  BY <1>1, <1>2, <1>3, <1>4
  DEF ImportInv, AtInv, RestInv, StatInv, SignedInv, LookInv, AgainInv, StagedInv, Phases
<1> QED
  BY <1>1, <1>5, Quiet DEF IInv

LEMMA StatHolds ==
  ASSUME IInv, Stat
  PROVE  IInv'
<1>1. /\ pc = "stat" /\ pc' = "stat" /\ ~ Over /\ signature' = Extended(signature, f0, files[f0].stamp)
      /\ at' = at + 1 /\ UNCHANGED <<source, known, again, stage, fatal, output, began>>
  BY DEF Stat
<1>2. at \in 1 .. Len(Listing) /\ at' \in 1 .. Len(Listing) + 1
  BY <1>1, Listed DEF IInv, ImportInv, AtInv, Over
<1>3. Before(at') = Before(at) \cup {f0} /\ f0 \in Files /\ Before(at) \subseteq Files
  BY <1>1, <1>2, NextListed DEF f0
<1>4. /\ began \in history /\ signature \in [Before(at) -> Nat]
      /\ \A f \in Before(at) : began[f].stamp <= signature[f] /\ signature[f] <= files[f].stamp
  BY <1>1 DEF IInv, ImportInv, StatInv
<1>5. files[f0].stamp \in Nat /\ began[f0].stamp <= files[f0].stamp
  BY <1>3, <1>4, Present DEF IInv, PastInv
<1>6. signature' \in [Before(at') -> Nat] /\ signature'[f0] = files[f0].stamp
      /\ \A g \in Before(at) : g # f0 => signature'[g] = signature[g]
  BY <1>1, <1>3, <1>4, <1>5 DEF Extended
<1>7. ASSUME NEW f \in Before(at')
      PROVE  began[f].stamp <= signature'[f] /\ signature'[f] <= files[f].stamp
  <2>1. CASE f = f0
    BY <1>5, <1>6, <2>1
  <2>2. CASE f # f0
    BY <1>3, <1>4, <1>6, <2>2
  <2> QED
    BY <2>1, <2>2
<1>8. ImportInv'
  <2>1. StatInv'
    BY <1>1, <1>4, <1>6, <1>7 DEF IInv, ImportInv, StatInv, source, Before
  <2> QED
    BY <1>1, <1>2, <2>1 DEF ImportInv, AtInv, RestInv, SignedInv, LookInv, AgainInv, StagedInv, Phases
<1> QED
  BY <1>1, <1>8, Quiet DEF IInv

\* The moment is now.
LEMMA CompareHolds ==
  ASSUME IInv, Compare
  PROVE  IInv'
<1>1. /\ pc = "stat" /\ Over /\ at' = 1 /\ pc' = (IF signature = known THEN "ready" ELSE "look")
      /\ UNCHANGED <<files, history, known, signature, again, stage, fatal, snapshots, index, began>>
      /\ UNCHANGED <<source, output>>
  BY DEF Compare, source, import, output
<1>2. at = Len(Listing) + 1 /\ Before(at) = Files
  BY <1>1, Listed DEF IInv, ImportInv, AtInv, Over
<1>3. /\ again = None /\ stage = None /\ fatal = FALSE /\ began \in history /\ signature \in [Files -> Nat]
      /\ \A f \in Files : began[f].stamp <= signature[f] /\ signature[f] <= files[f].stamp
  BY <1>1, <1>2 DEF IInv, ImportInv, StatInv
<1>4. at' \in 1 .. Len(Listing) + 1 /\ Before(at') = {}
  BY <1>1, Listed
<1>5. CASE signature = known
  <2>1. pc' = "ready"
    BY <1>1, <1>5
  <2>2. ImportInv'
    BY <1>4, <2>1 DEF ImportInv, AtInv, RestInv, StatInv, SignedInv, LookInv, AgainInv, StagedInv, Phases
  <2>3. known # None
    BY <1>3, <1>5, Listed, NoneIs
  <2>4. index # None /\ \A f \in Files : index[f].stamp >= began[f].stamp
    <3>1. index # None /\ \A f \in Files : index[f].stamp = signature[f]
      BY <1>5, <2>3 DEF IInv, KnownInv
    <3>2. \A f \in Files : signature[f] \in Nat /\ began[f].stamp \in Nat
      BY <1>3, Present DEF IInv
    <3> QED
      BY <1>3, <3>1, <3>2
  <2>5. PastInv' /\ KnownInv' /\ IndexIsAMoment'
    BY <1>1 DEF IInv, source, PastInv, KnownInv, IndexIsAMoment
  <2>6. ReadyIsCurrent'
    BY <1>1, <2>4 DEF ReadyIsCurrent
  <2> QED
    BY <2>2, <2>5, <2>6 DEF IInv
<1>6. CASE signature # known
  <2>1. pc' = "look"
    BY <1>1, <1>6
  <2>2. Between(files)'
    BY <1>1, <1>3, NoneIs DEF Between
  <2>3. LookInv'
    <3>1. stage' \in [Before(at') -> File] /\ Sampled(stage)' /\ Readable(stage)'
      BY <1>1, <1>3, <1>4, NoneIs DEF Sampled, Readable
    <3>2. \E h \in history' : Between(h)'
      BY <1>1, <2>2 DEF IInv, PastInv, Between
    <3> QED
      BY <1>1, <1>3, <1>4, <3>1, <3>2 DEF LookInv, Before
  <2>4. ImportInv'
    BY <1>1, <1>3, <1>4, <2>1, <2>3 DEF ImportInv, AtInv, RestInv, StatInv, SignedInv, AgainInv, StagedInv, Phases
  <2> QED
    BY <1>1, <2>1, <2>4, Quiet DEF IInv
<1> QED
  BY <1>5, <1>6

LEMMA LookHolds ==
  ASSUME IInv, Look \/ SourceChanged
  PROVE  IInv'
<1>1. /\ pc \in {"look", "settle"}
      /\ (pc' = "settle" /\ at <= Len(Listing)) \/ pc' = "stale"
      /\ UNCHANGED <<source, at, known, signature, again, stage, fatal, output, began>>
  <2>1. ~ Over => at <= Len(Listing)
    BY Listed DEF Over, IInv, ImportInv, AtInv
  <2> QED
    BY <2>1 DEF Look, SourceChanged, import
<1> USE Listed
<1>2. AtInv' /\ RestInv' /\ StatInv' /\ SignedInv' /\ AgainInv' /\ StagedInv'
  BY <1>1 DEF IInv, ImportInv, AtInv, RestInv, StatInv, SignedInv, AgainInv, StagedInv, Phases, source
<1>3. LookInv'
  BY <1>1 DEF IInv, ImportInv, LookInv, Sampled, Readable, Between, Before, source
<1> QED
  BY <1>1, <1>2, <1>3, Quiet DEF IInv, ImportInv

\* What was read twice is on disk now, and no older than at the moment.
LEMMA SettleHolds ==
  ASSUME IInv, Settle
  PROVE  IInv'
<1>1. /\ pc = "settle" /\ pc' = "look" /\ files[f0] = looked /\ stage' = Extended(stage, f0, looked)
      /\ fatal' = (fatal \/ Unreadable(f0, looked)) /\ at' = at + 1
      /\ UNCHANGED <<source, known, signature, again, output, began>>
  BY DEF Settle
<1>2. /\ again = None /\ stage \in [Before(at) -> File] /\ fatal \in BOOLEAN /\ Sampled(stage)
      /\ ~ fatal => Readable(stage)
      /\ \A f \in Before(at) : stage[f].stamp <= files[f].stamp
  BY <1>1 DEF IInv, ImportInv, LookInv
<1>3. at \in 1 .. Len(Listing) /\ at' \in 1 .. Len(Listing) + 1
  BY <1>1, Listed DEF IInv, ImportInv, AtInv
<1>4. Before(at') = Before(at) \cup {f0} /\ f0 \in Files /\ Before(at) \subseteq Files
  BY <1>1, <1>3, NextListed DEF f0
<1>5. looked \in File /\ looked.stamp \in Nat /\ files \in history
  BY <1>1, <1>4, Present DEF IInv, PastInv
<1>6. /\ stage' \in [Before(at') -> File] /\ stage'[f0] = looked
      /\ \A g \in Before(at) : g # f0 => stage'[g] = stage[g]
  BY <1>1, <1>2, <1>4, <1>5 DEF Extended
<1>7. Sampled(stage')
  <2>1. ASSUME NEW f \in Before(at') PROVE \E h \in history : stage'[f] = h[f]
    <3>1. CASE f = f0
      BY <1>1, <1>5, <1>6, <3>1
    <3>2. CASE f # f0
      BY <1>2, <1>4, <1>6, <3>2 DEF Sampled
    <3> QED
      BY <3>1, <3>2
  <2> QED
    BY <1>1, <1>6, <2>1 DEF Sampled, source
<1>8. ~ fatal' => Readable(stage')
  <2>1. SUFFICES ASSUME ~ fatal', NEW f \in Before(at') PROVE ~ Unreadable(f, stage'[f])
    BY <1>6 DEF Readable
  <2>2. ~ fatal /\ ~ Unreadable(f0, looked)
    BY <1>1, <2>1
  <2>3. CASE f = f0
    BY <1>6, <2>2, <2>3
  <2>4. CASE f # f0
    BY <1>2, <1>4, <1>6, <2>2, <2>4 DEF Readable
  <2> QED
    BY <2>3, <2>4
<1>9. ASSUME NEW f \in Before(at') PROVE stage'[f].stamp <= files[f].stamp
  <2>1. CASE f = f0
    BY <1>1, <1>5, <1>6, <2>1
  <2>2. CASE f # f0
    BY <1>2, <1>4, <1>6, <2>2
  <2> QED
    BY <2>1, <2>2
<1>10. PICK h \in history : Between(h)
  BY <1>1 DEF IInv, ImportInv, LookInv
<1>11. Between(h)'
  <2>1. ASSUME NEW f \in Before(at') PROVE h[f].stamp <= stage'[f].stamp
    <3>1. CASE f = f0
      BY <1>1, <1>4, <1>6, <3>1 DEF IInv, PastInv
    <3>2. CASE f # f0
      BY <1>2, <1>4, <1>6, <1>10, <3>2 DEF Between
    <3> QED
      BY <3>1, <3>2
  <2> QED
    BY <1>1, <1>6, <1>10, <2>1 DEF Between
<1>12. LookInv'
  <2>1. fatal' \in BOOLEAN
    BY <1>1, <1>2 DEF Unreadable
  <2>2. Sampled(stage)' /\ (~ fatal => Readable(stage))' /\ stage' \in [Before(at)' -> File]
    BY <1>1, <1>6, <1>7, <1>8 DEF Readable, Unreadable, Sampled, Before, source
  <2>3. \A f \in Before(at)' : stage'[f].stamp <= files'[f].stamp
    BY <1>1, <1>9 DEF Before, source
  <2>4. \E g \in history' : Between(g)'
    BY <1>1, <1>10, <1>11 DEF source
  <2> QED
    BY <1>1, <1>2, <2>1, <2>2, <2>3, <2>4 DEF LookInv
<1>13. AtInv' /\ RestInv' /\ StatInv' /\ SignedInv' /\ AgainInv' /\ StagedInv'
  BY <1>1, <1>3 DEF IInv, ImportInv, AtInv, RestInv, StatInv, SignedInv, AgainInv, StagedInv, Phases, source
<1> QED
  BY <1>1, <1>12, <1>13, Quiet DEF IInv, ImportInv

LEMMA ImportedHolds ==
  ASSUME IInv, Imported
  PROVE  IInv'
<1>1. /\ pc = "look" /\ Over /\ at' = 1 /\ pc' = (IF fatal THEN "stale" ELSE "again")
      /\ UNCHANGED <<files, history, known, signature, again, stage, fatal, snapshots, index, began>>
      /\ UNCHANGED <<source, output>>
  BY DEF Imported, source, import, output
<1>2. at = Len(Listing) + 1 /\ Before(at) = Files /\ at' \in 1 .. Len(Listing) + 1 /\ Before(at') = {}
  BY <1>1, Listed DEF IInv, ImportInv, AtInv, Over
<1>3. AtInv' /\ RestInv' /\ StatInv' /\ SignedInv' /\ LookInv' /\ StagedInv'
  BY <1>1, <1>2 DEF IInv, ImportInv, AtInv, RestInv, StatInv, SignedInv, LookInv, StagedInv, Phases
<1>4. AgainInv'
  <2>1. SUFFICES ASSUME ~ fatal PROVE AgainInv'
    BY <1>1 DEF AgainInv
  <2>2. /\ stage \in [Files -> File] /\ again = None /\ Sampled(stage) /\ Readable(stage)
        /\ \A f \in Files : stage[f].stamp <= files[f].stamp
        /\ \E h \in history : Between(h)
    BY <1>1, <1>2, <2>1 DEF IInv, ImportInv, LookInv
  <2>3. Sampled(stage)' /\ Readable(stage)' /\ \E h \in history' : Between(h)'
    BY <1>1, <2>2 DEF Sampled, Readable, Between
  <2>4. again' \in [Before(at)' -> Nat] /\ Before(at)' = {}
    BY <1>1, <1>2, <2>2, NoneIs DEF Before
  <2> QED
    BY <1>1, <2>2, <2>3, <2>4 DEF AgainInv
<1>5. pc' # "ready"
  BY <1>1
<1> QED
  BY <1>1, <1>3, <1>4, <1>5, Quiet DEF IInv, ImportInv

LEMMA StatAgainHolds ==
  ASSUME IInv, StatAgain
  PROVE  IInv'
<1>1. /\ pc = "again" /\ pc' = "again" /\ ~ Over /\ again' = Extended(again, f0, files[f0].stamp) /\ at' = at + 1
      /\ UNCHANGED <<source, known, signature, stage, fatal, output, began>>
  BY DEF StatAgain
<1>2. at \in 1 .. Len(Listing) /\ at' \in 1 .. Len(Listing) + 1
  BY <1>1, Listed DEF IInv, ImportInv, AtInv, Over
<1>3. Before(at') = Before(at) \cup {f0} /\ f0 \in Files /\ Before(at) \subseteq Files
  BY <1>1, <1>2, NextListed DEF f0
<1>4. /\ stage \in [Files -> File] /\ again \in [Before(at) -> Nat]
      /\ \A f \in Files : stage[f].stamp <= files[f].stamp
      /\ \A f \in Before(at) : stage[f].stamp <= again[f]
  BY <1>1 DEF IInv, ImportInv, AgainInv
<1>5. files[f0].stamp \in Nat
  BY <1>3, Present DEF IInv
<1>6. again' \in [Before(at') -> Nat] /\ again'[f0] = files[f0].stamp
      /\ \A g \in Before(at) : g # f0 => again'[g] = again[g]
  BY <1>1, <1>3, <1>4, <1>5 DEF Extended
<1>7. ASSUME NEW f \in Before(at') PROVE stage[f].stamp <= again'[f]
  <2>1. CASE f = f0
    BY <1>3, <1>4, <1>6, <2>1
  <2>2. CASE f # f0
    BY <1>3, <1>4, <1>6, <2>2
  <2> QED
    BY <2>1, <2>2
<1>8. AgainInv'
  <2>1. /\ Sampled(stage) /\ Readable(stage) /\ \E h \in history : Between(h)
    BY <1>1 DEF IInv, ImportInv, AgainInv
  <2>2. Sampled(stage)' /\ Readable(stage)' /\ \E h \in history' : Between(h)'
    BY <1>1, <2>1 DEF Sampled, Readable, Between, source
  <2> QED
    BY <1>1, <1>4, <1>6, <1>7, <2>2 DEF AgainInv, source, Before
<1>9. AtInv' /\ RestInv' /\ StatInv' /\ SignedInv' /\ LookInv' /\ StagedInv'
  BY <1>1, <1>2 DEF IInv, ImportInv, AtInv, RestInv, StatInv, SignedInv, LookInv, StagedInv, Phases, source
<1> QED
  BY <1>1, <1>8, <1>9, Quiet DEF IInv, ImportInv

\* If the stats agree, what is staged is what was there at the moment.
LEMMA DecideHolds ==
  ASSUME IInv, Decide
  PROVE  IInv'
<1>1. /\ pc = "again" /\ Over /\ at' = 1 /\ pc' = (IF again = signature THEN "rename" ELSE "stale")
      /\ UNCHANGED <<files, history, known, signature, again, stage, fatal, snapshots, index, began>>
      /\ UNCHANGED <<source, output>>
  BY DEF Decide, source, import, output
<1>2. at = Len(Listing) + 1 /\ Before(at) = Files /\ at' \in 1 .. Len(Listing) + 1
  BY <1>1, Listed DEF IInv, ImportInv, AtInv, Over
<1>3. /\ stage \in [Files -> File] /\ again \in [Files -> Nat] /\ Sampled(stage) /\ Readable(stage)
      /\ \A f \in Files : stage[f].stamp <= again[f]
  BY <1>1, <1>2 DEF IInv, ImportInv, AgainInv
<1>4. PICK h \in history : Between(h)
  BY <1>1 DEF IInv, ImportInv, AgainInv
<1>5. ASSUME again = signature PROVE stage = h /\ \A f \in Files : stage[f].stamp = signature[f]
  <2>1. ASSUME NEW f \in Files PROVE stage[f] = h[f] /\ stage[f].stamp = signature[f]
    <3>1. signature[f] <= h[f].stamp /\ h[f].stamp <= stage[f].stamp /\ stage[f].stamp <= signature[f]
      BY <1>3, <1>4, <1>5 DEF Between
    <3>2. signature[f] \in Nat /\ h[f].stamp \in Nat /\ stage[f].stamp \in Nat
      BY <1>3, <1>4, <1>5, Present DEF IInv, File
    <3>3. h[f].stamp = stage[f].stamp /\ stage[f].stamp = signature[f]
      BY <3>1, <3>2
    <3>4. PICK g \in history : stage[f] = g[f]
      BY <1>3 DEF Sampled
    <3> QED
      BY <1>4, <3>3, <3>4 DEF IInv, PastInv
  <2>2. h \in [Files -> File]
    BY <1>4 DEF IInv, PastInv
  <2> QED
    BY <1>3, <2>1, <2>2
<1>6. StagedInv'
  BY <1>1, <1>3, <1>4, <1>5 DEF StagedInv, Readable
<1>7. AtInv' /\ RestInv' /\ StatInv' /\ SignedInv' /\ LookInv' /\ AgainInv'
  BY <1>1, <1>2 DEF IInv, ImportInv, AtInv, RestInv, StatInv, SignedInv, LookInv, AgainInv, Phases
<1>8. pc' # "ready"
  BY <1>1
<1> QED
  BY <1>1, <1>6, <1>7, <1>8, Quiet DEF IInv, ImportInv

LEMMA RenameHolds ==
  ASSUME IInv, Rename \/ Fails
  PROVE  IInv'
<1>1. /\ pc \in {"rename", "index"} /\ pc' \in {"index", "stale"}
      /\ pc' = "index" => snapshots' = snapshots \cup {stage}
      /\ snapshots \subseteq snapshots'
      /\ UNCHANGED <<source, at, known, signature, again, stage, fatal, index, began>>
  BY DEF Rename, Fails, import, output
<1>2. ImportInv'
  BY <1>1 DEF IInv, ImportInv, AtInv, RestInv, StatInv, SignedInv, LookInv, AgainInv, StagedInv, Phases, Readable, source
<1>3. PastInv' /\ KnownInv' /\ IndexIsAMoment' /\ ReadyIsCurrent'
  BY <1>1 DEF IInv, source, PastInv, KnownInv, IndexIsAMoment, ReadyIsCurrent
<1> QED
  BY <1>2, <1>3 DEF IInv

LEMMA ReplaceIndexHolds ==
  ASSUME IInv, ReplaceIndex
  PROVE  IInv'
<1>1. /\ pc = "index" /\ pc' = "ready" /\ index' = stage /\ known' = signature
      /\ UNCHANGED <<source, at, import, snapshots, began>>
  BY DEF ReplaceIndex
<1>2. /\ stage \in history /\ stage \in snapshots /\ Readable(stage) /\ stage \in [Files -> File]
      /\ signature \in [Files -> Nat]
      /\ \A f \in Files : stage[f].stamp = signature[f] /\ began[f].stamp <= signature[f]
      /\ \A f \in Files : began[f].stamp \in Nat
  BY <1>1, Present DEF IInv, ImportInv, SignedInv, StagedInv, PastInv
<1>3. stage # None
  BY <1>2, Listed, NoneIs
<1>4. ImportInv'
  BY <1>1 DEF IInv, ImportInv, AtInv, RestInv, StatInv, SignedInv, LookInv, AgainInv, StagedInv, Phases, import
<1>5. PastInv' /\ KnownInv'
  BY <1>1, <1>2, <1>3 DEF IInv, PastInv, KnownInv, source
<1>6. IndexIsAMoment'
  BY <1>1, <1>2 DEF IndexIsAMoment, Readable, source
<1>7. ReadyIsCurrent'
  BY <1>1, <1>2, <1>3 DEF ReadyIsCurrent
<1> QED
  BY <1>4, <1>5, <1>6, <1>7 DEF IInv

-----------------------------------------------------------------------------

LEMMA InitHolds ==
  ASSUME Init
  PROVE  IInv
<1>1. /\ pc = "off" /\ at = 1 /\ known = None /\ signature = None /\ again = None /\ stage = None
      /\ fatal = FALSE /\ index = None /\ clock = 1 /\ history = {files}
  BY DEF Init
<1>2. files \in [Files -> File] /\ \A f \in Files : files[f].stamp \in Nat /\ files[f].stamp <= 1
  BY DEF Init, Absent, File
<1>3. PastInv
  BY <1>1, <1>2 DEF PastInv
<1>4. 1 \in 1 .. Len(Listing) + 1
  BY Listed
<1>5. ImportInv
  BY <1>1, <1>4 DEF ImportInv, AtInv, RestInv, StatInv, SignedInv, LookInv, AgainInv, StagedInv, Phases
<1> QED
  BY <1>1, <1>3, <1>5 DEF IInv, KnownInv, IndexIsAMoment, ReadyIsCurrent

LEMMA StepHolds ==
  ASSUME IInv, [Next]_vars
  PROVE  IInv'
<1>1. ASSUME NEW f \in Files, Write(f) \/ WriteEnds(f) \/ Replace(f) PROVE IInv'
  BY <1>1, ChangeHolds DEF Write, WriteEnds, Replace
<1>2. CASE Boot \/ Watch
  BY <1>2, BootHolds, TickHolds, StatHolds, CompareHolds, LookHolds, SettleHolds, ImportedHolds, StatAgainHolds,
     DecideHolds, RenameHolds, ReplaceIndexHolds, EndHolds DEF Watch
<1>3. CASE Fails \/ ReportFails \/ Kill
  BY <1>3, RenameHolds, EndHolds
<1>4. CASE UNCHANGED vars
  <2>1. UNCHANGED <<source, output, known, pc, at, signature, again, stage, fatal, began>>
    BY <1>4 DEF vars, import
  <2>2. ImportInv'
    BY <2>1 DEF IInv, ImportInv, AtInv, RestInv, StatInv, SignedInv, LookInv, AgainInv, StagedInv, Phases, source, output,
                Sampled, Readable, Between, Before
  <2>3. PastInv' /\ KnownInv' /\ IndexIsAMoment' /\ ReadyIsCurrent'
    BY <2>1 DEF IInv, source, output, PastInv, KnownInv, IndexIsAMoment, ReadyIsCurrent
  <2> QED
    BY <2>2, <2>3 DEF IInv
<1> QED
  BY <1>1, <1>2, <1>3, <1>4 DEF Next

\* The invariant holds in every state.
THEOREM Invariance == Spec => []IInv
BY InitHolds, StepHolds, PTL DEF Spec

\* What the index names is what reports/ was at one moment, with no half-written JSON,
\* whatever was written during the import and wherever the watcher was killed.
THEOREM IndexIsConsistent == Spec => []IndexIsAMoment
<1>1. IInv => IndexIsAMoment
  BY DEF IInv
<1> QED
  BY <1>1, Invariance, PTL

\* When the watcher reports that it is ready, the index is no older than its tick.
THEOREM ReadyHolds == Spec => []ReadyIsCurrent
<1>1. IInv => ReadyIsCurrent
  BY DEF IInv
<1> QED
  BY <1>1, Invariance, PTL
=============================================================================

---------------------------- MODULE ArtifactSync ----------------------------
(***************************************************************************)
(* The watcher that publishes the artifacts of reports/ for the browser      *)
(* (frontend/scripts/artifact_watch.py, sync_artifacts.py, artifact_io.py),  *)
(* while the research process writes them.  There is no lock between the     *)
(* two: the watcher compares what stat says of every file before and after   *)
(* the import, and reads every file twice.                                   *)
(*                                                                         *)
(* A file is [form, stamp]: the stamp changes with every write, as size,     *)
(* inode and mtime do.  Nothing in the repository removes a report.  A        *)
(* snapshot is the files it holds; its directory is named by a fresh uuid.   *)
(***************************************************************************)
EXTENDS Naturals, Sequences, FiniteSets

CONSTANTS
  Listing,      \* the files the importer knows, in the order it lists them
  InPlace,      \* files that are written in place; the others are replaced
  Texts,        \* Markdown, of which the importer accepts any bytes
  MaxWrites,    \* bound: changes of files
  MaxFailures,  \* bound: writes of the watcher that fail
  MaxKills      \* bound: kills of the watcher

Files == {Listing[k] : k \in DOMAIN Listing}

ASSUME SyncAssumption ==
  /\ Listing \in Seq(Files) /\ Listing # <<>>
  /\ InPlace \subseteq Files /\ Texts \subseteq Files
  /\ MaxWrites \in Nat \ {0} /\ MaxFailures \in Nat /\ MaxKills \in Nat

VARIABLES
  files, clock,     \* reports/ and its profiles
  pc, at,           \* where the tick is, and at which file
  known,            \* self.signature
  signature, again, \* what stat said before the import, and after it
  looked, stage,    \* the first read of the file at hand; what was imported
  fatal,            \* some diagnostic is not harmless
  snapshots, index, \* output/snapshots/*, output/index.json
  status,           \* output/sync-status.json
  failures, kills,
  history,          \* ghost: all states of files so far
  began             \* ghost: files when the tick began

source == <<files, clock, history>>
import == <<signature, again, looked, stage, fatal>>
output == <<snapshots, index>>
bounds == <<failures, kills>>
vars == <<source, pc, at, known, import, output, status, bounds, began>>

None == [f \in {} |-> 0]
Absent == [form |-> "absent", stamp |-> 0]

Drops ==
  /\ signature' = None /\ again' = None /\ looked' = Absent /\ stage' = None /\ fatal' = FALSE
  /\ began' = None /\ at' = 1

Init ==
  /\ files = [f \in Files |-> Absent] \/ files = [f \in Files |-> [form |-> "whole", stamp |-> 1]]
  /\ clock = 1 /\ history = {files}
  /\ pc = "off" /\ at = 1 /\ known = None
  /\ signature = None /\ again = None /\ looked = Absent /\ stage = None /\ fatal = FALSE /\ began = None
  /\ snapshots = {} /\ index = None /\ status = "starting"
  /\ failures = 0 /\ kills = 0

-----------------------------------------------------------------------------
(* The processes that write the files.                                     *)

Changes(f, form) ==
  /\ clock < MaxWrites /\ clock' = clock + 1
  /\ files' = [files EXCEPT ![f] = [form |-> form, stamp |-> clock + 1]]
  /\ history' = history \cup {files'}
  /\ UNCHANGED <<pc, at, known, import, output, status, bounds, began>>

\* A write in place truncates the file first; its process may be killed there.
Write(f) == f \in InPlace /\ files[f].form # "torn" /\ Changes(f, "torn")
WriteEnds(f) == files[f].form = "torn" /\ Changes(f, "whole")
Replace(f) == f \notin InPlace /\ Changes(f, "whole")

-----------------------------------------------------------------------------
(* The watcher.                                                            *)

f0 == Listing[at]
Over == at > Len(Listing)
Extended(fun, f, value) == [g \in DOMAIN fun \cup {f} |-> IF g = f THEN value ELSE fun[g]]
Unreadable(f, file) == file.form = "torn" /\ f \notin Texts

\* The development server spawns the watcher when it is started, and never again
\* (frontend/vite.config.mjs): a person who starts it anew is not fair.
Boot ==
  /\ pc = "off"
  /\ pc' = "idle"
  /\ UNCHANGED <<source, at, known, import, output, status, bounds, began>>

Tick ==
  /\ pc = "idle"
  /\ pc' = "stat" /\ at' = 1 /\ began' = files
  /\ UNCHANGED <<source, known, import, output, status, bounds>>

\* source_signature, before the import.
Stat ==
  /\ pc = "stat" /\ ~ Over
  /\ signature' = Extended(signature, f0, files[f0].stamp) /\ at' = at + 1
  /\ UNCHANGED <<source, pc, known, again, looked, stage, fatal, output, status, bounds, began>>

Compare ==
  /\ pc = "stat" /\ Over
  /\ at' = 1 /\ pc' = IF signature = known THEN "ready" ELSE "look"
  /\ UNCHANGED <<source, known, import, output, status, bounds, began>>

\* The next file, as read_stable_bytes reads it first.
Look ==
  /\ pc = "look" /\ ~ Over
  /\ looked' = files[f0] /\ pc' = "settle"
  /\ UNCHANGED <<source, at, known, signature, again, stage, fatal, output, status, bounds, began>>

\* Its second read.
Settle ==
  /\ pc = "settle" /\ files[f0] = looked
  /\ stage' = Extended(stage, f0, looked)
  /\ fatal' = (fatal \/ Unreadable(f0, looked))
  /\ at' = at + 1 /\ pc' = "look"
  /\ UNCHANGED <<source, known, signature, again, looked, output, status, bounds, began>>

\* SourceChangedError: what is staged says so, and is dropped.
SourceChanged ==
  /\ pc = "settle" /\ files[f0] # looked
  /\ pc' = "stale"
  /\ UNCHANGED <<source, at, known, import, output, status, bounds, began>>

Imported ==
  /\ pc = "look" /\ Over
  /\ at' = 1 /\ pc' = IF fatal THEN "stale" ELSE "again"
  /\ UNCHANGED <<source, known, import, output, status, bounds, began>>

\* source_signature, after the import.
StatAgain ==
  /\ pc = "again" /\ ~ Over
  /\ again' = Extended(again, f0, files[f0].stamp) /\ at' = at + 1
  /\ UNCHANGED <<source, pc, known, signature, looked, stage, fatal, output, status, bounds, began>>

\* Mutation: a change of the sources during the import is not noticed.
DecideUnchecked ==
  /\ pc = "again" /\ Over
  /\ at' = 1 /\ pc' = "rename"
  /\ UNCHANGED <<source, known, import, output, status, bounds, began>>

Decide ==
  /\ pc = "again" /\ Over
  /\ at' = 1 /\ pc' = IF again = signature THEN "rename" ELSE "stale"
  /\ UNCHANGED <<source, known, import, output, status, bounds, began>>

\* Mutation: the signature is remembered before the snapshot is published.
RenameRemembers ==
  /\ pc = "rename"
  /\ snapshots' = snapshots \cup {stage} /\ pc' = "index" /\ known' = signature
  /\ UNCHANGED <<source, at, import, index, status, bounds, began>>

Rename ==
  /\ pc = "rename"
  /\ snapshots' = snapshots \cup {stage} /\ pc' = "index"
  /\ UNCHANGED <<source, at, known, import, index, status, bounds, began>>

\* _replace_index, and self.signature.
ReplaceIndex ==
  /\ pc = "index"
  /\ index' = stage /\ known' = signature /\ pc' = "ready"
  /\ UNCHANGED <<source, at, import, snapshots, status, bounds, began>>

Fails ==
  /\ failures < MaxFailures /\ failures' = failures + 1
  /\ pc \in {"rename", "index"}
  /\ pc' = "stale"
  /\ UNCHANGED <<source, at, known, import, output, status, kills, began>>

Report ==
  /\ pc \in {"ready", "stale"}
  /\ status' = pc /\ pc' = "idle" /\ Drops
  /\ UNCHANGED <<source, known, output, bounds>>

\* The status is written outside of tick's try: the watcher ends.
ReportFails ==
  /\ failures < MaxFailures /\ failures' = failures + 1
  /\ pc \in {"ready", "stale"}
  /\ pc' = "off" /\ known' = None /\ Drops
  /\ UNCHANGED <<source, output, status, kills>>

\* What was staged is left in a directory nobody looks at.
Kill ==
  /\ kills < MaxKills /\ kills' = kills + 1
  /\ pc # "off" /\ pc' = "off" /\ known' = None /\ Drops
  /\ UNCHANGED <<source, output, status, failures>>

Watch ==
  \/ Tick \/ Stat \/ Compare \/ Look \/ Settle \/ SourceChanged \/ Imported \/ StatAgain \/ Decide
  \/ Rename \/ ReplaceIndex \/ Report

Next ==
  \/ \E f \in Files : Write(f) \/ WriteEnds(f) \/ Replace(f)
  \/ Boot \/ Watch \/ Fails \/ ReportFails \/ Kill

Spec == Init /\ [][Next]_vars

\* The loop of main ticks every three seconds, as long as the watcher is up.
FairSpec == Spec /\ WF_vars(Watch)

-----------------------------------------------------------------------------
(* What the browser may rely on.                                           *)

\* Type invariant.
TypeOK ==
  /\ files \in [Files -> [form : {"absent", "torn", "whole"}, stamp : 0 .. MaxWrites]]
  /\ clock \in 1 .. MaxWrites /\ at \in 1 .. Len(Listing) + 1
  /\ pc \in {"off", "idle", "stat", "look", "settle", "again", "rename", "index", "ready", "stale"}
  /\ \A s \in {known, signature, again} : DOMAIN s \subseteq Files
  /\ DOMAIN stage \subseteq Files /\ fatal \in BOOLEAN
  /\ status \in {"starting", "ready", "stale"}

\* What the index names is there, has no half-written JSON, and is what reports/ was
\* at one moment: never the board of one moment with the verification of another,
\* whatever was written during the import and wherever the watcher was killed.
IndexIsAMoment ==
  index # None =>
    /\ index \in snapshots /\ index \in history
    /\ \A f \in Files : ~ Unreadable(f, index[f])

\* When the watcher reports that it is ready, the index shows every write that was on
\* disk when its tick began.
ReadyIsCurrent ==
  pc = "ready" =>
    index # None /\ \A f \in Files : index[f].stamp >= began[f].stamp

\* The index comes to show the files as they are, whatever failed, was torn or changed
\* under an import before, once a watcher stays up and unless a file stays half-written.
Settled == pc # "off" /\ \A f \in Files : files[f].form # "torn"
Converges == <>[]Settled => <>[](index = files)

=============================================================================
